-------------------------- MODULE RrdServiceProofs --------------------------
(***************************************************************************)
(* Theorems about RrdService, for every set of categories, every profile   *)
(* and any number of processes and messages.                               *)
(***************************************************************************)
EXTENDS RrdService, SequenceTheorems, TLAPS

-----------------------------------------------------------------------------
(***************************************************************************)
(* The life cycle: what main() has registered, or unregistered, by each    *)
(* point of its way.                                                       *)
(***************************************************************************)
Callbacks == {"issue", "webcfg", "rdm", "power", "elements"}

\* Points of main() before it starts the event thread, in their order.
IarmPart  == {"iarm_init", "reg_rdm", "reg_power"}
RbusPart  == {"rbus_open", "subscribe", "load", "elements"}
Early     == {"boot", "msgget"} \union IarmPart \union RbusPart
Up        == Early \union {"thread", "running"}
\* The calls of RRD_unsubscribe(), and its end.
IarmStop  == {"disconnect", "unreg_rdm", "unreg_power"}
RbusStop  == {"unsub", "unreg_elements", "rbus_close", "stopped"}
Places    == Up \union IarmStop \union RbusStop \union {"returned", "down"}

LifeType ==
  /\ build \in {"iarm", "plugin", "rbus"} /\ at \in Places
  /\ thread \in {"none", "waiting", "busy", "ended"}
  /\ power \in {"none", "connecting", "connected", "done"}
  /\ registered \subseteq Callbacks
  /\ rbus \in BOOLEAN /\ failed \in BOOLEAN /\ usedClosed \in BOOLEAN

\* Each build goes its own way, and only one thread serves the queue.
Ways ==
  /\ at \in IarmPart \union IarmStop => build # "rbus"
  /\ power # "none" => build = "plugin"
  /\ build = "rbus" => "power" \notin registered
  /\ thread \in {"waiting", "busy"} => at = "running"
  /\ at \in Early \union {"down"} => "elements" \notin registered
  /\ at = "down" => registered = {} /\ power = "none" /\ ~failed /\ ~usedClosed

\* What is registered on the way up, unless a call failed.
WayUp == ~failed =>
  /\ at \in {"subscribe", "load", "elements", "thread", "running"} => rbus
  /\ at \in {"reg_power", "thread", "running"} \union RbusPart /\ build # "rbus" => "rdm" \in registered
  /\ at \in {"thread", "running"} \union RbusPart /\ build = "iarm" => "power" \in registered
  /\ at \in {"load", "elements", "thread", "running"} =>
       /\ {"issue", "webcfg"} \subseteq registered
       /\ build = "rbus" => "rdm" \in registered
  /\ at \in {"thread", "running"} => "elements" \in registered
  /\ at \in Up /\ power = "done" => "power" \in registered

\* What is gone on the way down, unless a call failed.
WayDown == ~failed =>
  /\ at \in {"unreg_power"} \union RbusStop /\ build # "rbus" => "rdm" \notin registered
  /\ at \in RbusStop /\ build = "iarm" => "power" \notin registered
  /\ at \in RbusStop \ {"unsub"} => {"issue", "webcfg"} \intersect registered = {}
  /\ at \in RbusStop \ {"unsub"} /\ build = "rbus" => "rdm" \notin registered
  /\ at \in {"rbus_close", "stopped"} => "elements" \notin registered

LInv == LifeType /\ Ways /\ WayUp /\ WayDown /\ OpenBeforeUse

lifeVars == <<build, at, thread, power, rbus, registered, failed, usedClosed>>

LEMMA LifeSame ==
  ASSUME LInv, UNCHANGED lifeVars
  PROVE  LInv'
  BY DEF LInv, lifeVars, LifeType, Ways, WayUp, WayDown, OpenBeforeUse

\* The end of the process, at any moment.
LEMMA DownLife ==
  ASSUME LInv, Down \/ DieOfDead
  PROVE  LInv'
<1>1. /\ at' = "down" /\ thread' = "none" /\ power' = "none" /\ registered' = {} /\ build' = build
      /\ rbus' = FALSE /\ failed' = FALSE /\ usedClosed' = FALSE
  BY DEF Down, DieOfDead
<1> QED BY <1>1 DEF LInv, LifeType, Ways, WayUp, WayDown, OpenBeforeUse, Places, Up, Early, IarmPart,
                    RbusPart, IarmStop, RbusStop

\* The steps of main() that register nothing.
LEMMA MainLife ==
  ASSUME LInv, Enabled \/ GetQueue \/ IarmConnect \/ LoadCategory \/ RbusOpen \/ StartThread
  PROVE  LInv'
<1> USE DEF LInv, Places, Up, Early, IarmPart, RbusPart, IarmStop, RbusStop, MainOnly, busVars
<1>1. /\ UNCHANGED <<build, power, registered, failed, usedClosed>>
      /\ <<at, at'>> \in {<<"boot", "msgget">>, <<"msgget", "rbus_open">>, <<"msgget", "iarm_init">>,
                          <<"iarm_init", "reg_rdm">>, <<"load", "elements">>,
                          <<"rbus_open", "subscribe">>, <<"thread", "running">>}
      /\ at' \in {"rbus_open", "iarm_init"} => (at' = "rbus_open" <=> build = "rbus")
      /\ IF at = "thread" THEN thread' = "waiting" ELSE thread' = thread
      /\ IF at = "rbus_open" THEN rbus' = TRUE ELSE rbus' = rbus
  BY DEF Enabled, GetQueue, IarmConnect, LoadCategory, RbusOpen, StartThread
<1>2. LifeType'
  BY <1>1 DEF LifeType, Callbacks
<1>3. Ways'
  BY <1>1 DEF LifeType, Ways
<1>4. WayUp'
  BY <1>1 DEF LifeType, Ways, WayUp
<1>5. WayDown'
  BY <1>1 DEF LifeType, WayDown
<1>6. OpenBeforeUse'
  BY <1>1 DEF OpenBeforeUse
<1> QED BY <1>2, <1>3, <1>4, <1>5, <1>6

\* RRD_subscribe() gives up.
LEMMA SubscribeReturnsLife ==
  ASSUME LInv, SubscribeReturns
  PROVE  LInv'
<1> USE DEF LInv, Places, Up, Early, IarmPart, RbusPart, IarmStop, RbusStop
<1>1. /\ at \in IarmPart \union {"rbus_open"} /\ at' = "thread" /\ failed' = TRUE
      /\ UNCHANGED <<build, thread, power, rbus, registered, usedClosed>>
  BY DEF SubscribeReturns
<1>2. LifeType' /\ Ways'
  BY <1>1 DEF LifeType, Ways
<1>3. WayUp' /\ WayDown' /\ OpenBeforeUse'
  BY <1>1 DEF WayUp, WayDown, OpenBeforeUse
<1> QED BY <1>2, <1>3

\* A step of main() registers something; when the call fails it is noted.
LEMMA RegisterLife ==
  ASSUME LInv,
         \/ RegisterRdm \/ RegisterPower
         \/ \E ok \in BOOLEAN : SubscribeEvents(ok) \/ RegisterElements(ok)
  PROVE  LInv'
<1> USE DEF LInv, Places, Up, Early, IarmPart, RbusPart, IarmStop, RbusStop, MainOnly
<1>1. CASE RegisterRdm
  <2>1. /\ at = "reg_rdm" /\ at' = "reg_power" /\ registered' = registered \union {"rdm"}
        /\ UNCHANGED <<build, thread, power, rbus, failed, usedClosed>>
    BY <1>1 DEF RegisterRdm
  <2>2. LifeType' /\ Ways'
    BY <2>1 DEF LifeType, Ways, Callbacks
  <2>3. WayUp' /\ WayDown' /\ OpenBeforeUse'
    BY <2>1 DEF LifeType, WayUp, WayDown, OpenBeforeUse
  <2> QED BY <2>2, <2>3
<1>2. CASE RegisterPower
  <2>1. /\ at = "reg_power" /\ at' = "rbus_open"
        /\ IF build = "plugin"
           THEN power' \in {"connecting", "none"} /\ registered' = registered
           ELSE registered' = registered \union {"power"} /\ power' = power
        /\ UNCHANGED <<build, thread, rbus, failed, usedClosed>>
    BY <1>2 DEF RegisterPower
  <2>2. LifeType' /\ Ways'
    BY <2>1 DEF LifeType, Ways, Callbacks
  <2>3. WayUp' /\ WayDown' /\ OpenBeforeUse'
    BY <2>1 DEF LifeType, Ways, WayUp, WayDown, OpenBeforeUse
  <2> QED BY <2>2, <2>3
<1>3. ASSUME NEW ok \in BOOLEAN, SubscribeEvents(ok) PROVE LInv'
  <2>1. /\ at = "subscribe" /\ at' = "load"
        /\ registered \subseteq registered'
        /\ registered' \subseteq registered \union {"issue", "webcfg", "rdm"}
        /\ ok => {"issue", "webcfg"} \subseteq registered' /\ (build = "rbus" => "rdm" \in registered')
        /\ UNCHANGED <<build, thread, power, rbus, usedClosed>>
    BY <1>3 DEF SubscribeEvents
  <2>2. failed' \in BOOLEAN /\ (~failed' => ~failed /\ ok)
    BY <1>3, Zenon DEF SubscribeEvents
  <2>3. LifeType' /\ Ways'
    BY <2>1, <2>2 DEF LifeType, Ways, Callbacks
  <2>4. WayUp' /\ WayDown' /\ OpenBeforeUse'
    BY <2>1, <2>2 DEF LifeType, WayUp, WayDown, OpenBeforeUse
  <2> QED BY <2>3, <2>4
<1>4. ASSUME NEW ok \in BOOLEAN, RegisterElements(ok) PROVE LInv'
  <2>1. /\ at = "elements" /\ at' = "thread"
        /\ registered \subseteq registered' /\ registered' \subseteq registered \union {"elements"}
        /\ ok => "elements" \in registered'
        /\ UNCHANGED <<build, thread, power, rbus, usedClosed>>
    BY <1>4 DEF RegisterElements
  <2>2. failed' \in BOOLEAN /\ (~failed' => ~failed /\ ok)
    BY <1>4, Zenon DEF RegisterElements
  <2>3. LifeType' /\ Ways'
    BY <2>1, <2>2 DEF LifeType, Ways, Callbacks
  <2>4. WayUp' /\ WayDown' /\ OpenBeforeUse'
    BY <2>1, <2>2 DEF LifeType, WayUp, WayDown, OpenBeforeUse
  <2> QED BY <2>3, <2>4
<1> QED BY <1>1, <1>2, <1>3, <1>4

\* The thread of the power plugin, on its own time.
LEMMA PowerLife ==
  ASSUME LInv, PowerConnect \/ \E ok \in BOOLEAN : PowerRegister(ok)
  PROVE  LInv'
<1> USE DEF LInv
<1>1. CASE PowerConnect
  <2>1. /\ power = "connecting" /\ power' = "connected"
        /\ UNCHANGED <<build, at, thread, rbus, registered, failed, usedClosed>>
    BY <1>1 DEF PowerConnect, busVars
  <2>2. LifeType' /\ Ways' /\ OpenBeforeUse'
    BY <2>1 DEF LifeType, Ways, OpenBeforeUse
  <2>3. WayUp' /\ WayDown'
    BY <2>1 DEF WayUp, WayDown
  <2> QED BY <2>2, <2>3
<1>2. ASSUME NEW ok \in BOOLEAN, PowerRegister(ok) PROVE LInv'
  <2>1. /\ power = "connected" /\ power' = "done"
        /\ registered \subseteq registered' /\ registered' \subseteq registered \union {"power"}
        /\ ok => "power" \in registered'
        /\ UNCHANGED <<build, at, thread, rbus, usedClosed>>
    BY <1>2 DEF PowerRegister
  <2>2. failed' \in BOOLEAN /\ (~failed' => ~failed /\ ok)
    BY <1>2, Zenon DEF PowerRegister
  <2>3. LifeType' /\ Ways' /\ OpenBeforeUse'
    BY <2>1, <2>2 DEF LifeType, Ways, OpenBeforeUse, Callbacks
  <2>4. WayUp' /\ WayDown'
    BY <2>1, <2>2 DEF Ways, WayUp, WayDown
  <2> QED BY <2>3, <2>4
<1> QED BY <1>1, <1>2

\* The event thread works, and uses rbus.
LEMMA ThreadLife ==
  ASSUME LInv, Receive \/ \E download \in BOOLEAN : Process(download)
  PROVE  LInv'
<1> USE DEF LInv
<1>1. /\ thread \in {"waiting", "busy"} /\ thread' \in {"waiting", "busy"}
      /\ UNCHANGED <<build, at, power, rbus, registered, failed>>
  BY DEF Receive, Process, busVars
<1>2. at = "running"
  BY <1>1 DEF Ways
<1>3. usedClosed' \in BOOLEAN /\ (usedClosed' => usedClosed \/ ~rbus)
  <2>1. CASE Receive
    BY <2>1 DEF Receive, LifeType
  <2>2. ASSUME NEW download \in BOOLEAN, Process(download)
        PROVE  usedClosed' \in BOOLEAN /\ (usedClosed' => usedClosed \/ ~rbus)
    BY <2>2, Zenon DEF Process
  <2> QED BY <2>1, <2>2
<1>4. LifeType' /\ Ways'
  BY <1>1, <1>2, <1>3 DEF LifeType, Ways
<1>5. WayUp' /\ WayDown'
  BY <1>1 DEF WayUp, WayDown
<1>6. OpenBeforeUse'
  BY <1>1, <1>2, <1>3 DEF WayUp, OpenBeforeUse
<1> QED BY <1>4, <1>5, <1>6

LEMMA StopTable ==
  /\ DOMAIN StopCall = {"disconnect", "unreg_rdm", "unreg_power", "unsub", "unreg_elements",
                        "rbus_close"}
  /\ StopCall["disconnect"] = [drops |-> {}, next |-> "unreg_rdm"]
  /\ StopCall["unreg_rdm"] = [drops |-> {"rdm"}, next |-> "unreg_power"]
  /\ StopCall["unreg_power"] = [drops |-> {"power"}, next |-> "unsub"]
  /\ StopCall["unsub"] = [drops |-> {"issue", "webcfg"}, next |-> "unreg_elements"]
  /\ StopCall["unreg_elements"] = [drops |-> {"elements"}, next |-> "rbus_close"]
  /\ StopCall["rbus_close"] = [drops |-> {}, next |-> "stopped"]
  BY DEF StopCall

\* RRD_unsubscribe(), from the failed msgrcv() to its end.
LEMMA StopLife ==
  ASSUME LInv, ReceiveFails \/ Stop \/ StopFails
  PROVE  LInv'
<1> USE DEF LInv, Places, Up, Early, IarmPart, RbusPart, IarmStop, RbusStop
<1>1. CASE ReceiveFails
  <2>1. /\ at = "running" /\ thread' = "ended"
        /\ at' = IF build = "rbus" THEN "unsub" ELSE "disconnect"
        /\ UNCHANGED <<build, power, rbus, registered, failed, usedClosed>>
    BY <1>1 DEF ReceiveFails, busVars
  <2>2. LifeType' /\ Ways'
    BY <2>1 DEF LifeType, Ways
  <2>3. WayUp' /\ WayDown' /\ OpenBeforeUse'
    BY <2>1 DEF LifeType, Ways, WayUp, WayDown, OpenBeforeUse
  <2> QED BY <2>2, <2>3
<1>2. CASE Stop
  <2>1. /\ at \in DOMAIN StopCall /\ at' = StopCall[at].next
        /\ registered' = registered \ Drops(at)
        /\ UNCHANGED <<build, thread, power, failed, usedClosed>>
    BY <1>2 DEF Stop
  <2>2. rbus' \in BOOLEAN
    BY <1>2, Zenon DEF Stop
  <2>3. /\ <<at, at'>> \in {<<"disconnect", "unreg_rdm">>, <<"unreg_rdm", "unreg_power">>,
                            <<"unreg_power", "unsub">>, <<"unsub", "unreg_elements">>,
                            <<"unreg_elements", "rbus_close">>, <<"rbus_close", "stopped">>}
        /\ registered' \subseteq registered
        /\ at = "unreg_rdm" => "rdm" \notin registered'
        /\ at = "unreg_power" => "power" \notin registered'
        /\ at = "unsub" => {"issue", "webcfg"} \intersect registered' = {}
        /\ at = "unsub" /\ build = "rbus" => "rdm" \notin registered'
        /\ at = "unreg_elements" => "elements" \notin registered'
    BY <2>1, StopTable DEF Drops
  <2>4. LifeType' /\ Ways' /\ OpenBeforeUse'
    BY <2>1, <2>2, <2>3 DEF LifeType, Ways, OpenBeforeUse
  <2>5. WayUp'
    BY <2>1, <2>3 DEF WayUp
  <2>6. WayDown'
    BY <2>1, <2>3 DEF LifeType, Ways, WayDown
  <2> QED BY <2>4, <2>5, <2>6
<1>3. CASE StopFails
  <2>1. /\ at \in DOMAIN StopCall /\ at' \in {"rbus_close", "returned"} /\ failed' = TRUE
        /\ UNCHANGED <<build, thread, power, rbus, registered, usedClosed>>
    BY <1>3 DEF StopFails
  <2>2. LifeType' /\ Ways'
    BY <2>1, StopTable DEF LifeType, Ways
  <2>3. WayUp' /\ WayDown' /\ OpenBeforeUse'
    BY <2>1 DEF WayUp, WayDown, OpenBeforeUse
  <2> QED BY <2>2, <2>3
<1> QED BY <1>1, <1>2, <1>3

LEMMA RestartLife ==
  ASSUME LInv, Restart
  PROVE  LInv'
<1> USE DEF LInv, Places, Up, Early, IarmPart, RbusPart, IarmStop, RbusStop
<1>1. /\ at = "down" /\ at' = "boot"
      /\ UNCHANGED <<build, thread, power, rbus, registered, failed, usedClosed>>
  BY DEF Restart, busVars
<1>2. LifeType' /\ Ways'
  BY <1>1 DEF LifeType, Ways
<1>3. WayUp' /\ WayDown' /\ OpenBeforeUse'
  BY <1>1 DEF LifeType, Ways, WayUp, WayDown, OpenBeforeUse
<1> QED BY <1>2, <1>3

LEMMA NextLife == LInv /\ [ServiceNext]_serviceVars => LInv'
<1> SUFFICES ASSUME LInv, [ServiceNext]_serviceVars PROVE LInv'
  OBVIOUS
<1>1. CASE NotStarted \/ SendFails \/ DieOfDead \/ Die
  BY <1>1, DownLife DEF NotStarted, SendFails, Die
<1>2. CASE Enabled \/ GetQueue \/ StartThread \/ Subscribe
  BY <1>2, MainLife, SubscribeReturnsLife, RegisterLife DEF Subscribe
<1>3. CASE PowerConnect \/ \E ok \in BOOLEAN : PowerRegister(ok)
  BY <1>3, PowerLife
<1>4. CASE Receive \/ \E download \in BOOLEAN : Process(download)
  BY <1>4, ThreadLife
<1>5. CASE ReceiveFails \/ Stop \/ StopFails \/ Restart
  BY <1>5, StopLife, RestartLife
<1>6. CASE \/ \E k \in Kind : Send(k)
           \/ ReceiveDead \/ Elements
           \/ \E i \in 1..MaxInput : LogSent(i)
           \/ UNCHANGED serviceVars
  <2>1. UNCHANGED lifeVars
    BY <1>6 DEF Send, ReceiveDead, Elements, LogSent, serviceVars, busVars, lifeVars
  <2> QED BY <2>1, LifeSame
<1> QED BY <1>1, <1>2, <1>3, <1>4, <1>5, <1>6 DEF ServiceNext

LEMMA InitLife == ServiceInit => LInv
  BY DEF ServiceInit, LInv, LifeType, Ways, WayUp, WayDown, OpenBeforeUse, Places, Up, Early,
         IarmPart, RbusPart, IarmStop, RbusStop

LEMMA LifeAlways == ServiceSpec => []LInv
  BY InitLife, NextLife, PTL DEF ServiceSpec

-----------------------------------------------------------------------------
(***************************************************************************)
(* The category: the file, like the memory, holds nothing older than the   *)
(* last acknowledged value, and is read before a value can be set.         *)
(***************************************************************************)
Given == {acked} \union since

CategoryType ==
  /\ category \in Category /\ acked \in Category /\ since \subseteq Category
  /\ setter \in {"idle", "save", "write"} /\ sets \in Nat /\ unkept \in BOOLEAN
  /\ setter # "idle" => category \in since /\ mine = category

InFile ==
  /\ file = <<>> \/ (file[1] \in Given)
  /\ at \in Early \union {"down"} => mine = Nothing /\ answer = Nothing /\ setter = "idle"

\* Without a failure since, the file gives the acknowledged value back.
Kept == since = {} /\ ~unkept => Loaded = FirstLine[acked]

\* Once it is loaded, the category in memory is one that may be set.
Effective ==
  at = "elements" \/ "elements" \in registered \/ answer # Nothing => category \in MaybeSet

\* The last answer is about the category in memory.
Answered == answer # Nothing => Lists(answer, category)

KInv == CategoryType /\ InFile /\ NoOldCategory /\ Kept /\ Effective /\ Answered

\* The two functions that write the lists do what a reader of the profile
\* expects of them.
LEMMA AnswerProperties ==
  ASSUME NEW c \in Category
  PROVE  Lists(IF c \in {"", "all"} THEN [all |-> AllCategories] ELSE SpecificCategory(c), c)
<1> DEFINE direct == {k \in DOMAIN Profile : TRUE \in {Profile[k][t] : t \in DOMAIN Profile[k]}}
<1>1. ASSUME NEW k \in DOMAIN Profile
      PROVE  (k \in direct <=> HasDirectCommands(k)) /\ (k \in direct => IssueTypes(k) # {})
  <2>1. \A t \in DOMAIN Profile[k] : Profile[k][t] \in BOOLEAN
    BY CategoryAssumption
  <2>2. k \in direct => \E t \in DOMAIN Profile[k] : Profile[k][t] = TRUE
    OBVIOUS
  <2>3. ASSUME NEW t \in DOMAIN Profile[k], Profile[k][t] PROVE k \in direct
    <3>1. Profile[k][t] = TRUE
      BY <2>1, <2>3
    <3> QED BY <3>1
  <2> QED BY <2>2, <2>3 DEF HasDirectCommands, IssueTypes
<1> HIDE DEF direct
<1>2. direct \subseteq DOMAIN Profile
  BY DEF direct
<1>3. {l \in DOMAIN Profile : HasDirectCommands(l) /\ IssueTypes(l) # {}} = direct
  BY <1>1, <1>2, Zenon
<1>4. AllCategories = [k \in direct |-> DOMAIN Profile[k]]
  BY <1>3 DEF AllCategories, IssueTypes
<1>5. CASE c \in {"", "all"} \/ KeyOf[c] = NoKey
  BY <1>4, <1>5 DEF Lists, SpecificCategory, direct
<1>6. CASE ~(c \in {"", "all"} \/ KeyOf[c] = NoKey)
  <2> DEFINE k == KeyOf[c]
  <2>1. k \in DOMAIN Profile
    BY <1>6, CategoryAssumption
  <2>2. (IF HasDirectCommands(k) THEN IssueTypes(k) ELSE {}) = {t \in DOMAIN Profile[k] : k \in direct}
    BY <1>1, <2>1 DEF IssueTypes
  <2>3. SpecificCategory(c) = [one |-> {t \in DOMAIN Profile[k] : k \in direct}]
    BY <1>6, <2>2 DEF SpecificCategory
  <2> QED BY <1>6, <2>3 DEF Lists, direct
<1> QED BY <1>5, <1>6

LEMMA CategorySame ==
  ASSUME KInv, UNCHANGED categoryVars, at' \in Early \union {"down"} => at \in Early \union {"down"},
         at' = "elements" => at = "elements",
         "elements" \in registered' => "elements" \in registered \/ at = "elements"
  PROVE  KInv'
<1>1. UNCHANGED <<category, file, setter, acked, since, unkept, mine, sets, answer>>
  BY DEF categoryVars
<1>2. CategoryType' /\ InFile' /\ NoOldCategory'
  BY <1>1 DEF KInv, CategoryType, InFile, Given, NoOldCategory
<1>3. Kept' /\ Answered' /\ MaybeSet' = MaybeSet
  BY <1>1 DEF KInv, Kept, Loaded, Answered, Lists, MaybeSet
<1>4. Effective'
  BY <1>1, <1>3 DEF KInv, Effective
<1> QED BY <1>2, <1>3, <1>4 DEF KInv

\* load_profile_category() reads what the file holds before any value is set.
LEMMA LoadKInv ==
  ASSUME KInv, LoadCategory
  PROVE  KInv'
<1>1. /\ at = "load" /\ at' = "elements"
      /\ \/ category' = Loaded /\ unkept' = unkept
         \/ category' = "all" /\ unkept' = TRUE
      /\ UNCHANGED <<file, setter, acked, since, mine, sets, answer>>
  BY DEF LoadCategory, MainOnly, Load
<1>2. at \in Early
  BY <1>1 DEF Early, RbusPart
<1>3. mine = Nothing /\ answer = Nothing /\ setter = "idle"
  BY <1>2 DEF KInv, InFile
<1>4. Loaded = "all" \/ (file # <<>> /\ file[1] \in Given /\ Loaded = FirstLine[file[1]])
  BY DEF KInv, InFile, Loaded
<1>5. Given \subseteq Category
  BY DEF KInv, CategoryType, Given
<1>6. Loaded \in {"all"} \union {FirstLine[c] : c \in Given} /\ Loaded \in Category
  BY <1>4, <1>5, CategoryAssumption
<1>7. CategoryType' /\ InFile'
  BY <1>1, <1>3, <1>6, CategoryAssumption DEF KInv, CategoryType, InFile, Given
<1>8. NoOldCategory'
  BY <1>1, <1>3, <1>6 DEF NoOldCategory, Given
<1>9. Kept' /\ Answered'
  BY <1>1, <1>3 DEF KInv, CategoryType, Kept, Loaded, Answered
<1>10. category' \in MaybeSet'
  <2>1. CASE since = {} /\ ~unkept'
    <3>1. category' = FirstLine[acked]
      BY <1>1, <2>1 DEF KInv, CategoryType, Kept
    <3> QED BY <1>1, <1>3, <2>1, <3>1 DEF MaybeSet
  <2>2. CASE ~(since = {} /\ ~unkept')
    BY <1>1, <1>3, <1>6, <2>2 DEF MaybeSet, Given
  <2> QED BY <2>1, <2>2
<1> QED BY <1>7, <1>8, <1>9, <1>10 DEF KInv, Effective

LEMMA LostKInv ==
  ASSUME KInv, CategoryLost, at' = "down", registered' = {}
  PROVE  KInv'
<1>1. /\ category' = "all" /\ setter' = "idle" /\ mine' = Nothing /\ answer' = Nothing
      /\ UNCHANGED <<file, acked, since, unkept, sets>>
  BY DEF CategoryLost
<1>2. CategoryType' /\ InFile' /\ NoOldCategory'
  BY <1>1, CategoryAssumption DEF KInv, CategoryType, InFile, Given, NoOldCategory
<1>3. Kept' /\ Answered' /\ Effective'
  BY <1>1 DEF KInv, Kept, Loaded, Answered, Effective
<1> QED BY <1>2, <1>3 DEF KInv

\* The handlers run only once the elements are registered.
LEMMA ElementsKInv ==
  ASSUME LInv, KInv, Elements
  PROVE  KInv'
<1>1. at \notin Early \union {"down"} /\ at' = at /\ "elements" \in registered /\ registered' = registered
  BY DEF LInv, Ways, Elements, busVars
<1>2. category \in MaybeSet
  BY <1>1 DEF KInv, Effective
<1> USE DEF KInv
<1>3. CASE SetRefused
  BY <1>1, <1>3, CategorySame DEF SetRefused
<1>4. ASSUME NEW c \in Category, SetMemory(c) PROVE KInv'
  <2>1. /\ sets' = sets + 1 /\ category' = c /\ mine' = c /\ since' = since \union {c}
        /\ setter' = "save" /\ answer' = Nothing /\ UNCHANGED <<file, acked, unkept>>
    BY <1>4 DEF SetMemory
  <2>2. CategoryType' /\ InFile' /\ NoOldCategory'
    BY <1>1, <2>1 DEF CategoryType, InFile, Given, NoOldCategory
  <2>3. Kept' /\ Answered'
    BY <2>1 DEF Kept, Answered
  <2>4. c \in MaybeSet'
    BY <2>1 DEF MaybeSet
  <2> QED BY <2>1, <2>2, <2>3, <2>4 DEF Effective
<1>5. CASE SaveOpenFails \/ SaveOpen \/ SaveWriteFails
  <2>1. /\ UNCHANGED <<category, acked, since, unkept, mine, sets, answer>>
        /\ setter # "idle" /\ setter' \in {"idle", "write"} /\ file' \in {file, <<>>}
    BY <1>5 DEF SaveOpenFails, SaveOpen, SaveWriteFails, SetError, historyVars
  <2>2. since # {}
    BY <2>1 DEF CategoryType
  <2>3. CategoryType' /\ InFile' /\ NoOldCategory'
    BY <1>1, <2>1 DEF CategoryType, InFile, Given, NoOldCategory
  <2>4. Kept' /\ Answered'
    BY <2>1, <2>2 DEF Kept, Answered, Lists
  <2>5. Effective'
    BY <1>2, <2>1 DEF Effective, MaybeSet
  <2> QED BY <2>3, <2>4, <2>5
<1>6. ASSUME NEW closed \in BOOLEAN, SaveWrite(closed) PROVE KInv'
  <2>1. /\ file' \in {<<category>>, <<>>} /\ acked' = category /\ since' = {} /\ setter' = "idle"
        /\ UNCHANGED <<category, mine, sets, answer>> /\ setter = "write"
    BY <1>6 DEF SaveWrite, Acknowledge
  <2>2. unkept' \in BOOLEAN /\ (~unkept' => file' = <<category>>)
    BY <1>6, Zenon DEF SaveWrite
  <2>3. CategoryType' /\ InFile'
    BY <1>1, <2>1, <2>2 DEF CategoryType, InFile, Given
  <2>4. NoOldCategory'
    BY <2>1 DEF NoOldCategory
  <2>5. Answered'
    BY <2>1 DEF Answered, Lists
  <2>6. Kept'
    <3> SUFFICES ASSUME ~unkept' PROVE Loaded' = FirstLine[category]
      BY <2>1 DEF Kept
    <3>1. file' = <<category>> /\ <<category>> # <<>>
      BY <2>2
    <3> QED BY <3>1 DEF Loaded
  <2>7. category \in MaybeSet'
    <3>1. mine = category /\ mine # Nothing
      BY <2>1, CategoryAssumption DEF CategoryType
    <3> QED BY <2>1, <3>1 DEF MaybeSet
  <2> QED BY <2>1, <2>3, <2>4, <2>5, <2>6, <2>7 DEF Effective
<1>7. CASE Get
  <2>1. UNCHANGED <<category, file, setter, acked, since, unkept, mine, sets>>
    BY <1>7 DEF Get, historyVars
  <2>2. \/ answer' = IF category \in {"", "all"} THEN [all |-> AllCategories]
                     ELSE SpecificCategory(category)
        \/ answer' = Nothing
    BY <1>7 DEF Get, ProfileUnread
  <2>3. category \in Category
    BY DEF CategoryType
  <2>4. Answered'
    <3>1. answer' # Nothing => Lists(answer', category)
      BY <2>2, <2>3, AnswerProperties
    <3> QED BY <2>1, <3>1 DEF Answered
  <2>5. CategoryType' /\ InFile' /\ NoOldCategory'
    BY <1>1, <2>1 DEF CategoryType, InFile, Given, NoOldCategory
  <2>6. Kept' /\ Effective'
    BY <1>2, <2>1 DEF Kept, Loaded, Effective, MaybeSet
  <2> QED BY <2>4, <2>5, <2>6
<1> QED BY <1>3, <1>4, <1>5, <1>6, <1>7 DEF Elements, SetHandler

LEMMA NextKInv == LInv /\ KInv /\ [ServiceNext]_serviceVars => KInv'
<1> SUFFICES ASSUME LInv, KInv, [ServiceNext]_serviceVars PROVE KInv'
  OBVIOUS
<1>1. CASE NotStarted \/ SendFails \/ DieOfDead \/ Die
  <2>1. CategoryLost /\ at' = "down" /\ registered' = {}
    BY <1>1 DEF NotStarted, SendFails, DieOfDead, Die, Down
  <2> QED BY <2>1, LostKInv
<1>2. CASE LoadCategory
  BY <1>2, LoadKInv
<1>3. CASE Elements
  BY <1>3, ElementsKInv
<1>4. CASE \/ Enabled \/ GetQueue \/ StartThread
           \/ IarmConnect \/ RegisterRdm \/ RegisterPower \/ RbusOpen \/ SubscribeReturns
           \/ \E ok \in BOOLEAN : SubscribeEvents(ok) \/ RegisterElements(ok)
  <2>1. at \in Early \union {"thread"} /\ UNCHANGED categoryVars /\ (at = "thread" => at' = "running")
    BY <1>4 DEF Enabled, GetQueue, StartThread, IarmConnect, RegisterRdm, RegisterPower, RbusOpen,
                SubscribeReturns, SubscribeEvents, RegisterElements, MainOnly, Early, IarmPart, RbusPart
  <2>2. at' # "elements"
    BY <1>4 DEF Enabled, GetQueue, StartThread, IarmConnect, RegisterRdm, RegisterPower, RbusOpen,
                SubscribeReturns, SubscribeEvents, RegisterElements, MainOnly
  <2>3. "elements" \in registered' => "elements" \in registered \/ at = "elements"
    <3>1. CASE \E ok \in BOOLEAN : SubscribeEvents(ok)
      BY <3>1 DEF SubscribeEvents
    <3>2. CASE \E ok \in BOOLEAN : RegisterElements(ok)
      BY <3>2 DEF RegisterElements, MainOnly
    <3>3. CASE RegisterRdm \/ RegisterPower
      BY <3>3 DEF RegisterRdm, RegisterPower
    <3>4. CASE Enabled \/ GetQueue \/ StartThread \/ IarmConnect \/ RbusOpen \/ SubscribeReturns
      BY <3>4 DEF Enabled, GetQueue, StartThread, IarmConnect, RbusOpen, SubscribeReturns, busVars
    <3> QED BY <1>4, <3>1, <3>2, <3>3, <3>4
  <2>4. at' \in Early \union {"down"} => at \in Early \union {"down"}
    BY <2>1 DEF Early, IarmPart, RbusPart
  <2> QED BY <2>1, <2>2, <2>3, <2>4, CategorySame
<1>5. CASE ReceiveFails \/ Stop \/ StopFails \/ Restart
  <2>1. UNCHANGED categoryVars /\ registered' \subseteq registered
    BY <1>5 DEF ReceiveFails, Stop, StopFails, Restart, busVars
  <2>2. \/ at' \in {"unsub", "disconnect", "returned", "rbus_close", "unreg_rdm", "unreg_power",
                    "unreg_elements", "stopped"}
        \/ at = "down" /\ at' = "boot"
    BY <1>5, StopTable DEF ReceiveFails, Stop, StopFails, Restart
  <2>3. (at' \in Early \union {"down"} => at \in Early \union {"down"}) /\ at' # "elements"
    BY <2>2 DEF Early, IarmPart, RbusPart
  <2> QED BY <2>1, <2>3, CategorySame
<1>6. CASE \/ PowerConnect \/ \E ok \in BOOLEAN : PowerRegister(ok)
           \/ \E k \in Kind : Send(k)
           \/ Receive \/ ReceiveDead
           \/ \E i \in 1..MaxInput : LogSent(i)
           \/ \E download \in BOOLEAN : Process(download)
           \/ UNCHANGED serviceVars
  <2>1. /\ UNCHANGED categoryVars /\ at' = at
        /\ "elements" \in registered' => "elements" \in registered
    BY <1>6 DEF PowerConnect, PowerRegister, Send, Receive, ReceiveDead, LogSent, Process, serviceVars, busVars
  <2> QED BY <2>1, CategorySame
<1> QED BY <1>1, <1>2, <1>3, <1>4, <1>5, <1>6 DEF ServiceNext, Subscribe

LEMMA InitKInv == ServiceInit => KInv
<1> SUFFICES ASSUME ServiceInit PROVE KInv
  OBVIOUS
<1>1. /\ category = "all" /\ file = <<>> /\ setter = "idle" /\ acked = "all" /\ since = {}
      /\ unkept = FALSE /\ mine = Nothing /\ sets = 0 /\ answer = Nothing
      /\ at = "boot" /\ registered = {}
  BY DEF ServiceInit, CategoryInit
<1>2. CategoryType /\ InFile
  BY <1>1, CategoryAssumption DEF CategoryType, InFile
<1>3. NoOldCategory
  BY <1>1 DEF NoOldCategory
<1>4. Kept /\ Answered /\ Effective
  BY <1>1, CategoryAssumption DEF Kept, Loaded, Answered, Effective
<1> QED BY <1>2, <1>3, <1>4 DEF KInv

LEMMA CategoryAlways == ServiceSpec => []KInv
  BY LifeAlways, InitKInv, NextKInv, PTL DEF ServiceSpec

-----------------------------------------------------------------------------
(***************************************************************************)
(* The buffers: the queue is in the order of the processes that filled it, *)
(* and a buffer that is freed is none of a request.                        *)
(***************************************************************************)
BufferType ==
  /\ gen \in 1..MaxGen
  /\ msg \in Seq([by : 1..MaxGen, kind : Kind]) /\ mem \in Seq({"live", "freed"})
  /\ Len(mem) = Len(msg) /\ Len(msg) <= MaxInput
  /\ queue \in Seq(1..MaxInput) /\ handled \in Nat
  /\ \A i \in 1..Len(queue) : queue[i] \in 1..Len(msg)
  /\ unlogged \subseteq 1..Len(msg)
  /\ thread = "busy" => current \in 1..Len(msg)

Ages ==
  /\ \A i \in 1..Len(msg) : msg[i].by <= gen
  /\ \A i, j \in 1..Len(queue) : i <= j => msg[queue[i]].by <= msg[queue[j]].by
  /\ at = "down" => handled = 0

Frees ==
  /\ \A i \in 1..Len(msg) : mem[i] = "freed" => msg[i].kind # "issue"
  /\ \A i \in unlogged : msg[i].kind # "sleep"

BInv == BufferType /\ Ages /\ Frees /\ LogReadsLive /\ LeftoversFirst

bufferLife == <<gen, queue, msg, mem, unlogged, handled, badReads>>

\* Nothing happens to messages or buffers.
LEMMA BufferSame ==
  ASSUME BInv, UNCHANGED bufferLife, thread' = "busy" => thread = "busy" /\ current' = current,
         at' = "down" => at = "down"
  PROVE  BInv'
  BY DEF BInv, bufferLife, BufferType, Ages, Frees, LogReadsLive, LeftoversFirst

LEMMA TailQueue ==
  ASSUME BInv, queue # <<>>
  PROVE  /\ Head(queue) \in 1..Len(msg)
         /\ Tail(queue) \in Seq(1..MaxInput)
         /\ \A i \in 1..Len(Tail(queue)) :
              /\ Tail(queue)[i] \in 1..Len(msg)
              /\ msg[Head(queue)].by <= msg[Tail(queue)[i]].by
         /\ \A i, j \in 1..Len(Tail(queue)) : i <= j => msg[Tail(queue)[i]].by <= msg[Tail(queue)[j]].by
         /\ \A i \in 1..Len(Tail(queue)) : \E j \in 1..Len(queue) : Tail(queue)[i] = queue[j]
<1> DEFINE t == Tail(queue)
           q == Len(queue)
<1>1. queue \in Seq(1..MaxInput)
  BY DEF BInv, BufferType
<1>2. /\ t \in Seq(1..MaxInput) /\ q \in Nat \ {0} /\ Len(t) = q - 1
      /\ Head(queue) = queue[1] /\ \A i \in 1..(q - 1) : t[i] = queue[i + 1]
  BY <1>1
<1>3. /\ \A i \in 1..q : queue[i] \in 1..Len(msg)
      /\ \A i, j \in 1..q : i <= j => msg[queue[i]].by <= msg[queue[j]].by
  BY DEF BInv, BufferType, Ages
<1> HIDE DEF t, q
<1>4. /\ 1 \in 1..q /\ \A i \in 1..(q - 1) : i + 1 \in 1..q /\ 1 <= i + 1
      /\ \A i, j \in 1..(q - 1) : i <= j => i + 1 <= j + 1
  BY <1>2
<1>5. Head(queue) \in 1..Len(msg)
  BY <1>2, <1>3, <1>4
<1>6. \A i \in 1..Len(t) : /\ t[i] \in 1..Len(msg)
                           /\ msg[Head(queue)].by <= msg[t[i]].by
                           /\ \E j \in 1..q : t[i] = queue[j]
  BY <1>2, <1>3, <1>4
<1>7. ASSUME NEW i \in 1..Len(t), NEW j \in 1..Len(t), i <= j
      PROVE  msg[t[i]].by <= msg[t[j]].by
  <2>1. i + 1 \in 1..q /\ j + 1 \in 1..q /\ i + 1 <= j + 1
    BY <1>2, <1>4, <1>7
  <2>2. msg[queue[i + 1]].by <= msg[queue[j + 1]].by
    BY <1>3, <2>1
  <2>3. t[i] = queue[i + 1] /\ t[j] = queue[j + 1]
    BY <1>2
  <2> QED BY <2>2, <2>3
<1> QED BY <1>2, <1>5, <1>6, <1>7 DEF t, q

\* The process ends; one message may go with it.
LEMMA DownBInv ==
  ASSUME BInv, Down \/ DieOfDead
  PROVE  BInv'
<1>1. /\ thread' = "none" /\ unlogged' = {} /\ handled' = 0
      /\ UNCHANGED <<gen, msg, mem, badReads>>
      /\ queue' = queue \/ (queue # <<>> /\ queue' = Tail(queue))
  BY DEF Down, DieOfDead
<1>2. /\ queue' \in Seq(1..MaxInput)
      /\ \A i \in 1..Len(queue') : queue'[i] \in 1..Len(msg)
      /\ \A i, j \in 1..Len(queue') : i <= j => msg[queue'[i]].by <= msg[queue'[j]].by
  <2>1. CASE queue' = queue
    BY <2>1 DEF BInv, BufferType, Ages
  <2>2. CASE queue # <<>> /\ queue' = Tail(queue)
    BY <2>2, TailQueue
  <2> QED BY <1>1, <2>1, <2>2
<1>3. BufferType'
  BY <1>1, <1>2 DEF BInv, BufferType
<1>4. Ages' /\ Frees' /\ LogReadsLive' /\ LeftoversFirst'
  BY <1>1, <1>2 DEF BInv, Ages, Frees, LogReadsLive, LeftoversFirst
<1> QED BY <1>3, <1>4 DEF BInv

\* A message joins the queue behind all others and is this process's.
LEMMA SendBInv ==
  ASSUME KInv, BInv, NEW k \in Kind, Send(k)
  PROVE  BInv'
<1> DEFINE n == Len(msg)
           q == Len(queue)
           m == [by |-> gen, kind |-> k]
<1>1. /\ msg' = Append(msg, m) /\ mem' = Append(mem, "live") /\ queue' = Append(queue, n + 1)
      /\ unlogged' = IF k = "sleep" THEN unlogged ELSE unlogged \union {n + 1}
      /\ n + sets < MaxInput
      /\ UNCHANGED <<gen, at, thread, current, handled, badReads>>
  BY DEF Send, CanSend
<1>2. /\ msg \in Seq([by : 1..MaxGen, kind : Kind]) /\ mem \in Seq({"live", "freed"})
      /\ queue \in Seq(1..MaxInput) /\ Len(mem) = n
      /\ n \in Nat /\ q \in Nat /\ sets \in Nat /\ MaxInput \in Nat
      /\ gen \in 1..MaxGen /\ gen \in Nat /\ MaxGen \in Nat
  BY ServiceAssumption DEF BInv, BufferType, KInv, CategoryType
<1>3. m \in [by : 1..MaxGen, kind : Kind] /\ m.by = gen /\ m.kind = k
  BY <1>2
<1> HIDE DEF m
<1>4. n + 1 \in 1..MaxInput
  BY <1>1, <1>2
<1>5. /\ msg' \in Seq([by : 1..MaxGen, kind : Kind]) /\ Len(msg') = n + 1
      /\ msg'[n + 1] = m /\ \A i \in 1..n : msg'[i] = msg[i]
  BY <1>1, <1>2, <1>3
<1>6. /\ mem' \in Seq({"live", "freed"}) /\ Len(mem') = n + 1
      /\ mem'[n + 1] = "live" /\ \A i \in 1..n : mem'[i] = mem[i]
  BY <1>1, <1>2
<1>7. /\ queue' \in Seq(1..MaxInput) /\ Len(queue') = q + 1
      /\ queue'[q + 1] = n + 1 /\ \A i \in 1..q : queue'[i] = queue[i]
  BY <1>1, <1>2, <1>4
<1>8. /\ \A i \in 1..q : queue[i] \in 1..n
      /\ unlogged \subseteq 1..n
      /\ thread = "busy" => current \in 1..n
  BY DEF BInv, BufferType
<1> HIDE DEF n, q
<1>9. /\ \A i \in 1..(n + 1) : i \in 1..n \/ i = n + 1
      /\ 1..n \subseteq 1..(n + 1) /\ n + 1 \in 1..(n + 1)
      /\ \A i \in 1..(q + 1) : i \in 1..q \/ i = q + 1
  BY <1>2
<1>10. BufferType'
  <2>1. Len(msg') <= MaxInput
    BY <1>4, <1>2, <1>5
  <2>2. \A i \in 1..Len(queue') : queue'[i] \in 1..Len(msg')
    BY <1>5, <1>7, <1>8, <1>9
  <2>3. unlogged' \subseteq 1..Len(msg') /\ (thread' = "busy" => current' \in 1..Len(msg'))
    BY <1>1, <1>5, <1>8, <1>9
  <2>4. handled' \in Nat
    BY <1>1 DEF BInv, BufferType
  <2> QED BY <1>1, <1>2, <1>5, <1>6, <1>7, <2>1, <2>2, <2>3, <2>4 DEF BufferType
<1>11. /\ \A i \in 1..Len(msg') : msg'[i].by <= gen
       /\ \A i \in 1..Len(queue') : msg'[queue'[i]].by <= gen
  <2>1. \A i \in 1..n : msg[i].by <= gen
    BY DEF BInv, Ages, n
  <2>2. gen <= gen
    BY <1>2
  <2>3. \A i \in 1..(n + 1) : msg'[i].by <= gen
    BY <1>3, <1>5, <1>9, <2>1, <2>2
  <2>4. \A i \in 1..Len(queue') : queue'[i] \in 1..(n + 1)
    BY <1>7, <1>8, <1>9
  <2> QED BY <1>5, <2>3, <2>4
<1>12. Ages'
  <2>1. ASSUME NEW i \in 1..Len(queue'), NEW j \in 1..Len(queue'), i <= j
        PROVE  msg'[queue'[i]].by <= msg'[queue'[j]].by
    <3>1. CASE j = q + 1
      BY <1>3, <1>5, <1>7, <1>11, <3>1
    <3>2. CASE j # q + 1
      <4>1. i \in 1..q /\ j \in 1..q
        BY <1>2, <1>7, <2>1, <3>2
      <4>2. msg[queue[i]].by <= msg[queue[j]].by
        BY <2>1, <4>1 DEF BInv, Ages, q
      <4> QED BY <1>5, <1>7, <1>8, <4>1, <4>2
    <3> QED BY <3>1, <3>2
  <2> QED BY <1>1, <1>11, <2>1 DEF BInv, Ages
<1>13. Frees'
  <2>1. \A i \in 1..n : mem[i] = "freed" => msg[i].kind # "issue"
    BY DEF BInv, Frees, n
  <2>2. \A i \in 1..Len(msg') : mem'[i] = "freed" => msg'[i].kind # "issue"
    BY <1>5, <1>6, <1>9, <2>1
  <2>3. \A i \in unlogged' : msg'[i].kind # "sleep"
    BY <1>1, <1>3, <1>5, <1>8 DEF BInv, Frees
  <2> QED BY <2>2, <2>3 DEF Frees
<1>14. LeftoversFirst'
  <2>1. ASSUME handled > 0, NEW i \in 1..(q + 1) PROVE msg'[queue'[i]].by = gen
    <3>1. CASE i \in 1..q
      BY <1>5, <1>7, <1>8, <2>1, <3>1 DEF BInv, LeftoversFirst, q
    <3>2. CASE i = q + 1
      BY <1>3, <1>5, <1>7, <3>2
    <3> QED BY <1>9, <3>1, <3>2
  <2> QED BY <1>1, <1>7, <2>1 DEF LeftoversFirst
<1>15. LogReadsLive'
  BY <1>1 DEF BInv, LogReadsLive
<1> QED BY <1>10, <1>12, <1>13, <1>14, <1>15 DEF BInv

\* What BInv says of each message on its own.
LEMMA MessageProperties ==
  ASSUME BInv
  PROVE  \A i \in 1..Len(msg) : msg[i].by \in 1..MaxGen /\ msg[i].by <= gen /\ msg[i].kind \in Kind
<1> DEFINE M == [by : 1..MaxGen, kind : Kind]
<1>1. msg \in Seq(M)
  BY DEF BInv, BufferType
<1> HIDE DEF M
<1>2. \A i \in 1..Len(msg) : msg[i] \in M
  BY <1>1
<1>3. \A i \in 1..Len(msg) : msg[i].by <= gen
  BY DEF BInv, Ages
<1> QED BY <1>2, <1>3 DEF M

\* The event thread takes the first message.  One of its own is the first of
\* its own, so no older one is left.
LEMMA ReceiveBInv ==
  ASSUME LInv, BInv, Receive \/ ReceiveDead
  PROVE  BInv'
<1>1. /\ queue # <<>> /\ queue' = Tail(queue) /\ thread = "waiting"
      /\ UNCHANGED <<gen, at, msg, mem, unlogged, badReads>>
      /\ \/ handled' = handled + 1 /\ current' = Head(queue) /\ msg[Head(queue)].by = gen
         \/ handled' = handled /\ thread' = thread
  BY DEF Receive, ReceiveDead
<1>2. at = "running"
  BY <1>1 DEF LInv, Ways
<1>3. /\ Head(queue) \in 1..Len(msg)
      /\ Tail(queue) \in Seq(1..MaxInput)
      /\ \A i \in 1..Len(Tail(queue)) :
           /\ Tail(queue)[i] \in 1..Len(msg)
           /\ msg[Head(queue)].by <= msg[Tail(queue)[i]].by
      /\ \A i, j \in 1..Len(Tail(queue)) : i <= j => msg[Tail(queue)[i]].by <= msg[Tail(queue)[j]].by
      /\ \A i \in 1..Len(Tail(queue)) : \E j \in 1..Len(queue) : Tail(queue)[i] = queue[j]
  BY <1>1, TailQueue
<1>4. BufferType'
  <2>1. handled' \in Nat
    BY <1>1 DEF BInv, BufferType
  <2> QED BY <1>1, <1>3, <2>1 DEF BInv, BufferType
<1>5. Ages' /\ Frees' /\ LogReadsLive'
  BY <1>1, <1>2, <1>3 DEF BInv, Ages, Frees, LogReadsLive
<1>6. LeftoversFirst'
  <2>1. CASE handled' = handled
    BY <1>1, <1>3, <2>1 DEF BInv, LeftoversFirst
  <2>2. CASE msg[Head(queue)].by = gen
    <3>1. ASSUME NEW i \in 1..Len(queue') PROVE msg[queue'[i]].by = gen
      <4>1. queue'[i] \in 1..Len(msg) /\ gen <= msg[queue'[i]].by
        BY <1>1, <1>3, <2>2
      <4>2. msg[queue'[i]].by <= gen /\ msg[queue'[i]].by \in 1..MaxGen /\ gen \in 1..MaxGen
        BY <4>1, MessageProperties DEF BInv, BufferType
      <4> QED BY <4>1, <4>2, ServiceAssumption
    <3> QED BY <1>1, <3>1 DEF LeftoversFirst
  <2> QED BY <1>1, <2>1, <2>2
<1> QED BY <1>4, <1>5, <1>6 DEF BInv

\* The sender reads what it sent; only buffers that are not a request's can
\* be gone by then.
LEMMA LogSentBInv ==
  ASSUME BInv, NEW i \in 1..MaxInput, LogSent(i)
  PROVE  BInv'
<1>1. /\ i \in unlogged /\ unlogged' = unlogged \ {i}
      /\ badReads' = IF mem[i] = "freed" THEN badReads \union {msg[i].kind} ELSE badReads
      /\ UNCHANGED <<gen, at, thread, queue, msg, mem, current, handled>>
  BY DEF LogSent
<1>2. mem[i] = "freed" => msg[i].kind \in {"webcfg", "sleepdone"}
  <2>1. i \in 1..Len(msg) /\ msg[i].kind # "sleep"
    BY <1>1 DEF BInv, BufferType, Frees
  <2>2. msg[i].kind \in Kind
    BY <2>1, MessageProperties
  <2> QED BY <2>1, <2>2 DEF BInv, Frees, Kind
<1>3. BufferType' /\ Ages' /\ Frees'
  BY <1>1 DEF BInv, BufferType, Ages, Frees
<1>4. LogReadsLive' /\ LeftoversFirst'
  BY <1>1, <1>2 DEF BInv, LogReadsLive, LeftoversFirst
<1> QED BY <1>3, <1>4 DEF BInv

LEMMA ProcessBInv ==
  ASSUME BInv, NEW download \in BOOLEAN, Process(download)
  PROVE  BInv'
<1>1. /\ thread = "busy" /\ thread' = "waiting"
      /\ mem' = IF msg[current].kind # "issue" THEN [mem EXCEPT ![current] = "freed"] ELSE mem
      /\ UNCHANGED <<gen, at, queue, msg, unlogged, handled, badReads>>
  BY DEF Process, Freed
<1>2. current \in 1..Len(msg) /\ mem \in Seq({"live", "freed"}) /\ Len(mem) = Len(msg)
  BY <1>1 DEF BInv, BufferType
<1>3. /\ mem' \in Seq({"live", "freed"}) /\ Len(mem') = Len(mem)
      /\ \A i \in 1..Len(msg) : mem'[i] = mem[i] \/ (i = current /\ msg[current].kind # "issue")
  BY <1>1, <1>2
<1>4. BufferType'
  BY <1>1, <1>3 DEF BInv, BufferType
<1>5. Ages' /\ LogReadsLive' /\ LeftoversFirst'
  BY <1>1 DEF BInv, Ages, LogReadsLive, LeftoversFirst
<1>6. Frees'
  BY <1>1, <1>3 DEF BInv, Frees
<1> QED BY <1>4, <1>5, <1>6 DEF BInv

LEMMA RestartBInv ==
  ASSUME LInv, BInv, Restart
  PROVE  BInv'
<1>1. /\ at = "down" /\ at' = "boot" /\ gen' = gen + 1 /\ gen < MaxGen
      /\ UNCHANGED <<queue, msg, mem, unlogged, handled, badReads, thread, current>>
  BY DEF Restart, bufferVars
<1>2. gen \in 1..MaxGen /\ MaxGen \in Nat
  BY ServiceAssumption DEF BInv, BufferType
<1>3. gen' \in 1..MaxGen
  BY <1>1, <1>2
<1>4. BufferType'
  BY <1>1, <1>3 DEF BInv, BufferType
<1>5. Ages'
  <2>1. ASSUME NEW i \in 1..Len(msg) PROVE msg[i].by <= gen'
    <3>1. msg[i].by <= gen /\ msg[i].by \in 1..MaxGen
      BY MessageProperties
    <3> QED BY <1>1, <1>2, <3>1
  <2> QED BY <1>1, <2>1 DEF BInv, Ages
<1>6. Frees' /\ LogReadsLive'
  BY <1>1 DEF BInv, Frees, LogReadsLive
<1>7. LeftoversFirst'
  <2>1. handled = 0
    BY <1>1 DEF BInv, Ages
  <2> QED BY <1>1, <2>1 DEF LeftoversFirst
<1> QED BY <1>4, <1>5, <1>6, <1>7 DEF BInv

LEMMA NextBInv == LInv /\ KInv /\ BInv /\ [ServiceNext]_serviceVars => BInv'
<1> SUFFICES ASSUME LInv, KInv, BInv, [ServiceNext]_serviceVars PROVE BInv'
  OBVIOUS
<1>1. CASE NotStarted \/ SendFails \/ DieOfDead \/ Die
  BY <1>1, DownBInv DEF NotStarted, SendFails, Die
<1>2. CASE \E k \in Kind : Send(k)
  BY <1>2, SendBInv
<1>3. CASE Receive \/ ReceiveDead
  BY <1>3, ReceiveBInv
<1>4. CASE \E i \in 1..MaxInput : LogSent(i)
  BY <1>4, LogSentBInv
<1>5. CASE \E download \in BOOLEAN : Process(download)
  BY <1>5, ProcessBInv
<1>6. CASE Restart
  BY <1>6, RestartBInv
<1>7. CASE Enabled \/ GetQueue \/ Subscribe \/ StartThread
  <2>1. UNCHANGED bufferLife /\ (thread' = "busy" => thread = "busy" /\ current' = current)
    BY <1>7 DEF Enabled, GetQueue, Subscribe, StartThread, IarmConnect, RegisterRdm, RegisterPower,
                RbusOpen, SubscribeReturns, LoadCategory, SubscribeEvents, RegisterElements, MainOnly,
                bufferVars, bufferLife
  <2>2. at' # "down"
    BY <1>7 DEF Enabled, GetQueue, Subscribe, StartThread, IarmConnect, RegisterRdm, RegisterPower,
                RbusOpen, SubscribeReturns, LoadCategory, SubscribeEvents, RegisterElements, MainOnly
  <2> QED BY <2>1, <2>2, BufferSame
<1>8. CASE ReceiveFails \/ Stop \/ StopFails
  <2>1. UNCHANGED bufferLife /\ (thread' = "busy" => thread = "busy" /\ current' = current)
    BY <1>8 DEF ReceiveFails, Stop, StopFails, bufferVars, bufferLife
  <2>2. at' # "down"
    BY <1>8, StopTable DEF ReceiveFails, Stop, StopFails
  <2> QED BY <2>1, <2>2, BufferSame
<1>9. CASE \/ PowerConnect \/ \E ok \in BOOLEAN : PowerRegister(ok)
           \/ Elements \/ UNCHANGED serviceVars
  <2>1. UNCHANGED <<bufferLife, thread, current, at>>
    BY <1>9 DEF PowerConnect, PowerRegister, Elements, serviceVars, bufferVars, bufferLife
  <2> QED BY <2>1, BufferSame
<1> QED BY <1>1, <1>2, <1>3, <1>4, <1>5, <1>6, <1>7, <1>8, <1>9 DEF ServiceNext

LEMMA InitBInv == ServiceInit => BInv
<1> SUFFICES ASSUME ServiceInit PROVE BInv
  OBVIOUS
<1>1. /\ gen = 1 /\ at = "boot" /\ thread = "none" /\ queue = <<>> /\ msg = <<>> /\ mem = <<>>
      /\ unlogged = {} /\ handled = 0 /\ badReads = {}
  BY DEF ServiceInit
<1>2. gen \in 1..MaxGen
  BY <1>1, ServiceAssumption
<1>3. BufferType
  BY <1>1, <1>2, ServiceAssumption DEF BufferType
<1>4. Ages /\ Frees /\ LogReadsLive /\ LeftoversFirst
  BY <1>1 DEF Ages, Frees, LogReadsLive, LeftoversFirst
<1> QED BY <1>3, <1>4 DEF BInv

LEMMA BufferAlways == ServiceSpec => []BInv
  BY LifeAlways, CategoryAlways, InitBInv, NextBInv, PTL DEF ServiceSpec

-----------------------------------------------------------------------------
(***************************************************************************)
(* The theorems.                                                           *)
(***************************************************************************)

\* Every variable keeps its shape, the queue names only messages that were
\* sent, and each of them has a buffer.
THEOREM ServiceTypeCorrect == ServiceSpec => []ServiceTypeOK
<1>1. LInv /\ KInv /\ BInv => ServiceTypeOK
  BY DEF LInv, KInv, BInv, LifeType, CategoryType, BufferType, ServiceTypeOK, Callbacks
<1> QED BY <1>1, LifeAlways, CategoryAlways, BufferAlways, PTL

\* rbus is never used without an open handle unless a bus call failed.
THEOREM RbusOpenBeforeUse == ServiceSpec => []OpenBeforeUse
  BY LifeAlways, PTL DEF LInv

\* A daemon that runs hears everything it should, unless a bus call failed.
THEOREM RunningHears == ServiceSpec => []Hears
<1>1. LInv => Hears
  BY DEF LInv, LifeType, WayUp, Hears, Up, RbusPart
<1> QED BY <1>1, LifeAlways, PTL

\* An unsubscription without a failed call leaves nothing registered but the
\* power callback of the plugin.
THEOREM UnsubscribeQuiets == ServiceSpec => []StoppedQuiet
<1>1. LInv => StoppedQuiet
  BY DEF LInv, LifeType, Ways, WayDown, StoppedQuiet, RbusStop, Callbacks
<1> QED BY <1>1, LifeAlways, PTL

\* The log line behind RRDMsgDeliver() reads a freed buffer only for web
\* configuration and deep sleep completion.
THEOREM RequestsLoggedLive == ServiceSpec => []LogReadsLive
  BY BufferAlways, PTL DEF BInv

\* Messages of dead processes are met before any of the current one.
THEOREM DeadMetFirst == ServiceSpec => []LeftoversFirst
  BY BufferAlways, PTL DEF BInv

\* No category from before the last acknowledged one comes back, and loading
\* never replaces a value the process accepted.
THEOREM CategoryNeverReverts == ServiceSpec => []NoOldCategory
  BY CategoryAlways, PTL DEF KInv

\* Every answer lists, for any profile and through any number of crashes,
\* failed saves and restarts, the value that was set last: the one in memory,
\* or the acknowledged one that was read back.
THEOREM GetListsWhatWasSet == ServiceSpec => []ListsWhatWasSet
<1>1. KInv => ListsWhatWasSet
  BY DEF KInv, Effective, Answered, ListsWhatWasSet
<1> QED BY <1>1, CategoryAlways, PTL
=============================================================================
