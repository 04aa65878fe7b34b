----------------------------- MODULE RrdService -----------------------------
(***************************************************************************)
(* The life of the daemon: main() and RRD_subscribe(), the callbacks, the  *)
(* event thread and the buffers that pass between them, RRD_unsubscribe(), *)
(* and the end of the process at any moment.  The System V queue and the   *)
(* file of the profile category outlive it; memory does not, although the  *)
(* queue holds pointers to it.                                             *)
(*                                                                         *)
(* What a message asks for is modelled in RrdDispatch; here it is known by *)
(* its kind, which decides who frees what.  The text of a message stands   *)
(* for the whole buffer.  The bus libraries are external: each call may    *)
(* fail, and a callback may run as soon as it is registered.               *)
(***************************************************************************)
EXTENDS RrdCategory, Sequences

CONSTANTS
  MaxGen,   \* bound: processes started
  MaxInput  \* bound: messages sent and categories set

ASSUME ServiceAssumption == MaxGen \in Nat \ {0} /\ MaxInput \in Nat

VARIABLES
  build,       \* with IARMBus, with IARMBus and the power plugin, or without
  gen,         \* which process this is
  at,          \* where its main thread is; "down" between processes
  thread,      \* the event thread
  power,       \* the thread of getPwrCtrlInterface()
  queueOpen,   \* msqid was got
  rbus,        \* rbus_open() succeeded
  registered,  \* the callbacks and elements the buses know
  failed,      \* some bus call of this process failed
  queue,       \* the messages in the System V queue
  msg,         \* every message sent: its process and its kind
  mem,         \* the buffer of every message: "live" or "freed"
  unlogged,    \* messages whose sender has yet to log them
  current,     \* the message the event thread is processing
  handled,     \* history: messages of its own this process received,
  badReads,    \*   kinds of messages that were logged after they were freed,
  usedClosed   \*   and whether rbus was used without being open

busVars == <<queueOpen, rbus, registered, failed>>
bufferVars == <<queue, msg, mem, unlogged, current, handled, badReads>>
serviceVars == <<build, gen, at, thread, power, busVars, bufferVars, usedClosed, categoryVars>>

Kind == {"issue", "webcfg", "sleep", "sleepdone"}

ServiceInit ==
  /\ CategoryInit
  /\ build \in {"iarm", "plugin", "rbus"}
  /\ gen = 1 /\ at = "boot" /\ thread = "none" /\ power = "none"
  /\ queueOpen = FALSE /\ rbus = FALSE /\ registered = {} /\ failed = FALSE
  /\ queue = <<>> /\ msg = <<>> /\ mem = <<>> /\ unlogged = {} /\ current = 0 /\ handled = 0
  /\ badReads = {} /\ usedClosed = FALSE

\* The process is gone; a message it leaves in the queue points nowhere.
Down ==
  /\ at' = "down" /\ thread' = "none" /\ power' = "none"
  /\ queueOpen' = FALSE /\ rbus' = FALSE /\ registered' = {} /\ failed' = FALSE
  /\ unlogged' = {} /\ current' = 0 /\ handled' = 0 /\ usedClosed' = FALSE
  /\ CategoryLost
  /\ UNCHANGED <<build, gen, queue, msg, mem, badReads>>

\* A step of the main thread that does nothing but move on.
MainOnly(from, to) ==
  /\ at = from /\ at' = to
  /\ UNCHANGED <<build, gen, thread, bufferVars, usedClosed>>
-----------------------------------------------------------------------------
(***************************************************************************)
(* main() and RRD_subscribe().                                             *)
(***************************************************************************)
Enabled ==
  /\ MainOnly("boot", "msgget")
  /\ UNCHANGED <<power, busVars, categoryVars>>

\* The feature is disabled, or there is no queue: exit().
NotStarted == at \in {"boot", "msgget"} /\ Down

\* Mutant: the event thread is started before the subscriptions.
GetQueueAndThread ==
  /\ at = "msgget" /\ at' = IF build = "rbus" THEN "rbus_open" ELSE "iarm_init"
  /\ queueOpen' = TRUE /\ thread' = "waiting"
  /\ UNCHANGED <<build, gen, power, rbus, registered, failed, bufferVars, usedClosed,
                 categoryVars>>

GetQueue ==
  /\ MainOnly("msgget", IF build = "rbus" THEN "rbus_open" ELSE "iarm_init")
  /\ queueOpen' = TRUE
  /\ UNCHANGED <<power, rbus, registered, failed, categoryVars>>

\* RRD_IARM_subscribe(): IARM_Bus_Init() and IARM_Bus_Connect(),
IarmConnect ==
  /\ MainOnly("iarm_init", "reg_rdm")
  /\ UNCHANGED <<power, busVars, categoryVars>>

\* the handler of the download manager,
RegisterRdm ==
  /\ MainOnly("reg_rdm", "reg_power")
  /\ registered' = registered \union {"rdm"}
  /\ UNCHANGED <<power, queueOpen, rbus, failed, categoryVars>>

\* Mutant: the handler of power changes is forgotten.
RegisterPowerNot ==
  /\ MainOnly("reg_power", "rbus_open")
  /\ UNCHANGED <<power, busVars, categoryVars>>

\* and that of power changes, or a thread that will register it; that the
\* thread could not be created goes unnoticed.
RegisterPower ==
  /\ MainOnly("reg_power", "rbus_open")
  /\ IF build = "plugin" THEN power' \in {"connecting", "none"} /\ UNCHANGED registered
     ELSE registered' = registered \union {"power"} /\ UNCHANGED power
  /\ UNCHANGED <<queueOpen, rbus, failed, categoryVars>>

RbusOpen ==
  /\ MainOnly("rbus_open", "subscribe")
  /\ rbus' = TRUE
  /\ UNCHANGED <<power, queueOpen, registered, failed, categoryVars>>

\* A failure up to here ends RRD_subscribe(); main() does not look at it.
SubscribeReturns ==
  /\ at \in {"iarm_init", "reg_rdm", "reg_power", "rbus_open"}
  /\ at' = "thread" /\ failed' = TRUE
  /\ UNCHANGED <<build, gen, thread, power, queueOpen, rbus, registered, bufferVars,
                 usedClosed, categoryVars>>

\* The events of rbus; a failure is only logged.
SubscribeEvents(ok) ==
  /\ MainOnly("subscribe", "load")
  /\ registered' = registered \union
       (IF ~ok THEN {} ELSE {"issue", "webcfg"} \union (IF build = "rbus" THEN {"rdm"} ELSE {}))
  /\ failed' = (failed \/ ~ok)
  /\ UNCHANGED <<power, queueOpen, rbus, categoryVars>>

LoadCategory ==
  /\ MainOnly("load", "elements")
  /\ Load
  /\ UNCHANGED <<power, busVars>>

\* The data elements of RrdCategory, and webconfigFrameworkInit().
RegisterElements(ok) ==
  /\ MainOnly("elements", "thread")
  /\ registered' = IF ok THEN registered \union {"elements"} ELSE registered
  /\ failed' = (failed \/ ~ok)
  /\ UNCHANGED <<power, queueOpen, rbus, categoryVars>>

StartThread ==
  /\ at = "thread" /\ at' = "running"
  /\ thread' = "waiting"
  /\ UNCHANGED <<build, gen, power, busVars, bufferVars, usedClosed, categoryVars>>

\* getPwrCtrlInterface(): PowerController_Connect(), tried until it succeeds.
PowerConnect ==
  /\ power = "connecting"
  /\ power' = "connected"
  /\ UNCHANGED <<build, gen, at, thread, busVars, bufferVars, usedClosed, categoryVars>>

PowerRegister(ok) ==
  /\ power = "connected"
  /\ power' = "done"
  /\ registered' = IF ok THEN registered \union {"power"} ELSE registered
  /\ failed' = (failed \/ ~ok)
  /\ UNCHANGED <<build, gen, at, thread, queueOpen, rbus, bufferVars, usedClosed, categoryVars>>
-----------------------------------------------------------------------------
(***************************************************************************)
(* Messages and their buffers.                                             *)
(***************************************************************************)
\* The callbacks that send messages of a kind.  The power handler starts the
\* deep sleep download, the IARM handler of RDM reports its completion.
SentBy(k) ==
  CASE k = "issue"     -> {"issue", "rdm"}
    [] k = "webcfg"    -> {"webcfg"}
    [] k = "sleep"     -> {"power"}
    [] k = "sleepdone" -> IF build = "rbus" THEN {} ELSE {"rdm"}

CanSend(k) == SentBy(k) \intersect registered # {} /\ Len(msg) + sets < MaxInput

\* Mutant: a sender puts its message into the buffer of the one before.
SendReusing(k) ==
  /\ CanSend(k)
  /\ LET i == Len(msg) + 1
     IN /\ msg' = Append(msg, [by |-> gen, kind |-> k])
        /\ mem' = IF mem = <<>> THEN <<"live">> ELSE mem
        /\ queue' = Append(queue, i)
        /\ unlogged' = unlogged
  /\ UNCHANGED <<build, gen, at, thread, power, busVars, current, handled, badReads,
                 usedClosed, categoryVars>>

\* RRDMsgDeliver(): from here on the buffer is the event thread's; all senders
\* but the power handler log it afterwards.
Send(k) ==
  /\ CanSend(k)
  /\ LET i == Len(msg) + 1
     IN /\ msg' = Append(msg, [by |-> gen, kind |-> k])
        /\ mem' = Append(mem, "live")
        /\ queue' = Append(queue, i)
        /\ unlogged' = IF k = "sleep" THEN unlogged ELSE unlogged \union {i}
  /\ UNCHANGED <<build, gen, at, thread, power, busVars, current, handled, badReads,
                 usedClosed, categoryVars>>

\* msgsnd() fails: the buffer is freed and the process exits.
SendFails == (\E k \in Kind : CanSend(k)) /\ Down

\* The log line after RRDMsgDeliver() reads the buffer.
LogSent(i) ==
  /\ i \in unlogged
  /\ unlogged' = unlogged \ {i}
  /\ badReads' = IF mem[i] = "freed" THEN badReads \union {msg[i].kind} ELSE badReads
  /\ UNCHANGED <<build, gen, at, thread, power, busVars, queue, msg, mem, current, handled,
                 usedClosed, categoryVars>>

\* Mutant: the message sent last is received.
ReceiveLast ==
  /\ thread = "waiting" /\ queue # <<>>
  /\ msg[queue[Len(queue)]].by = gen
  /\ current' = queue[Len(queue)] /\ queue' = SubSeq(queue, 1, Len(queue) - 1)
  /\ handled' = handled + 1
  /\ thread' = "busy"
  /\ UNCHANGED <<build, gen, at, power, busVars, msg, mem, unlogged, badReads, usedClosed,
                 categoryVars>>

Receive ==
  /\ thread = "waiting" /\ queue # <<>>
  /\ msg[Head(queue)].by = gen
  /\ current' = Head(queue) /\ queue' = Tail(queue)
  /\ handled' = handled + 1
  /\ thread' = "busy"
  /\ UNCHANGED <<build, gen, at, power, busVars, msg, mem, unlogged, badReads, usedClosed,
                 categoryVars>>

\* A message of a process that is gone: its pointer is followed all the same.
\* The process survives that or does not.
ReceiveDead ==
  /\ thread = "waiting" /\ queue # <<>>
  /\ msg[Head(queue)].by # gen
  /\ queue' = Tail(queue)
  /\ UNCHANGED <<build, gen, at, thread, power, busVars, msg, mem, unlogged, current, handled,
                 badReads, usedClosed, categoryVars>>

DieOfDead ==
  /\ thread = "waiting" /\ queue # <<>>
  /\ msg[Head(queue)].by # gen
  /\ at' = "down" /\ thread' = "none" /\ power' = "none"
  /\ queueOpen' = FALSE /\ rbus' = FALSE /\ registered' = {} /\ failed' = FALSE
  /\ unlogged' = {} /\ current' = 0 /\ handled' = 0 /\ usedClosed' = FALSE
  /\ queue' = Tail(queue)
  /\ CategoryLost
  /\ UNCHANGED <<build, gen, msg, mem, badReads>>

\* Mutant: the buffer of a request is freed like the others.
FreedAll(k) == TRUE

\* Whose text the event thread frees: not that of a request, which nobody
\* frees (processIssueTypeEvent() works on copies).
Freed(k) == k # "issue"

\* The message is processed.  A request or a wake-up may have to ask RDM for a
\* package, which is a call of rbus.
Process(download) ==
  /\ thread = "busy"
  /\ download => msg[current].kind \in {"issue", "sleep"}
  /\ usedClosed' = (usedClosed \/ (download /\ ~rbus))
  /\ mem' = IF Freed(msg[current].kind) THEN [mem EXCEPT ![current] = "freed"] ELSE mem
  /\ current' = 0
  /\ thread' = "waiting"
  /\ UNCHANGED <<build, gen, at, power, busVars, queue, msg, unlogged, handled, badReads,
                 categoryVars>>
-----------------------------------------------------------------------------
(***************************************************************************)
(* The end: RRD_unsubscribe() when msgrcv() fails, or death at any moment. *)
(***************************************************************************)
ReceiveFails ==
  /\ thread = "waiting" /\ at = "running"
  /\ thread' = "ended"
  /\ at' = IF build = "rbus" THEN "unsub" ELSE "disconnect"
  /\ UNCHANGED <<build, gen, power, busVars, bufferVars, usedClosed, categoryVars>>

\* The calls of the unsubscribe functions in their order, what each takes
\* away and which comes next.
StopCall == [
  disconnect     |-> [drops |-> {},                  next |-> "unreg_rdm"],
  unreg_rdm      |-> [drops |-> {"rdm"},             next |-> "unreg_power"],
  unreg_power    |-> [drops |-> {"power"},           next |-> "unsub"],
  unsub          |-> [drops |-> {"issue", "webcfg"}, next |-> "unreg_elements"],
  unreg_elements |-> [drops |-> {"elements"},        next |-> "rbus_close"],
  rbus_close     |-> [drops |-> {},                  next |-> "stopped"]]

\* Without IARMBus the events of RDM are among those of rbus.
Drops(c) ==
  StopCall[c].drops \union (IF c = "unsub" /\ build = "rbus" THEN {"rdm"} ELSE {})

\* Mutant: the data elements are not unregistered.
StopSkipsElements ==
  /\ at \in DOMAIN StopCall
  /\ at' = IF StopCall[at].next = "unreg_elements" THEN "rbus_close" ELSE StopCall[at].next
  /\ registered' = registered \ Drops(at)
  /\ rbus' = (rbus /\ at # "rbus_close")
  /\ UNCHANGED <<build, gen, thread, power, queueOpen, failed, bufferVars, usedClosed,
                 categoryVars>>

\* A call succeeds.  The power plugin's callback is unregistered only once
\* its thread has connected, which registers it on its own time.
Stop ==
  /\ at \in DOMAIN StopCall
  /\ at' = StopCall[at].next
  /\ registered' = registered \ Drops(at)
  /\ rbus' = (rbus /\ at # "rbus_close")
  /\ UNCHANGED <<build, gen, thread, power, queueOpen, failed, bufferVars, usedClosed,
                 categoryVars>>

\* A call fails: all return but the one that unregisters the data elements.
\* The power plugin is not called before its thread has connected.
StopFails ==
  /\ at \in DOMAIN StopCall
  /\ at = "unreg_power" /\ build = "plugin" => power \in {"connected", "done"}
  /\ at' = IF at = "unreg_elements" THEN "rbus_close" ELSE "returned"
  /\ failed' = TRUE
  /\ UNCHANGED <<build, gen, thread, power, queueOpen, rbus, registered, bufferVars,
                 usedClosed, categoryVars>>

\* main() returns, or the process is killed.
Die == at # "down" /\ Down

\* It is started again.
Restart ==
  /\ at = "down" /\ gen < MaxGen
  /\ gen' = gen + 1 /\ at' = "boot"
  /\ UNCHANGED <<build, thread, power, busVars, bufferVars, usedClosed, categoryVars>>

\* The handlers of the data elements.
Elements ==
  /\ "elements" \in registered
  /\ SetHandler \/ Get
  /\ Len(msg) + sets' <= MaxInput
  /\ UNCHANGED <<build, gen, at, thread, power, busVars, bufferVars, usedClosed>>

Subscribe ==
  \/ IarmConnect \/ RegisterRdm \/ RegisterPower \/ RbusOpen \/ SubscribeReturns
  \/ LoadCategory
  \/ \E ok \in BOOLEAN : SubscribeEvents(ok) \/ RegisterElements(ok)

ServiceNext ==
  \/ Enabled \/ NotStarted \/ GetQueue \/ Subscribe \/ StartThread
  \/ PowerConnect \/ \E ok \in BOOLEAN : PowerRegister(ok)
  \/ \E k \in Kind : Send(k)
  \/ SendFails \/ Receive \/ ReceiveDead \/ DieOfDead
  \/ \E i \in 1..MaxInput : LogSent(i)
  \/ \E download \in BOOLEAN : Process(download)
  \/ ReceiveFails \/ Stop \/ StopFails \/ Die \/ Restart
  \/ Elements

ServiceSpec == ServiceInit /\ [][ServiceNext]_serviceVars
-----------------------------------------------------------------------------
ServiceTypeOK ==
  /\ build \in {"iarm", "plugin", "rbus"} /\ gen \in 1..MaxGen
  /\ thread \in {"none", "waiting", "busy", "ended"}
  /\ power \in {"none", "connecting", "connected", "done"}
  /\ registered \subseteq {"issue", "webcfg", "rdm", "power", "elements"}
  /\ Len(msg) = Len(mem) /\ Len(msg) <= MaxInput
  /\ \A i \in 1..Len(queue) : queue[i] \in 1..Len(msg)
  /\ category \in Category /\ setter \in {"idle", "save", "write"}

\* The event thread, which a power event queued by then can send to rbus at
\* once, uses rbus without an open handle only after a call of a bus failed.
OpenBeforeUse == usedClosed => failed

\* A daemon that runs hears everything it is meant to, unless a call failed:
\* main() ignores the result of RRD_subscribe(), which registers with three
\* libraries, in one build on a thread of its own.
Hears ==
  at = "running" /\ ~failed =>
    /\ {"issue", "webcfg", "rdm", "elements"} \subseteq registered
    /\ build = "iarm" \/ power = "done" => "power" \in registered

\* The log line behind RRDMsgDeliver() reads a buffer that may be freed by
\* then only for web configuration and deep sleep completion.  For requests
\* it is safe because their buffers are never freed: freeing them where they
\* are processed would be wrong.
LogReadsLive == badReads \subseteq {"webcfg", "sleepdone"}

\* Pointers of a dead process are met at the start or not at all: as soon as
\* a process has received a message of its own, none is left in the queue.
LeftoversFirst == handled > 0 => \A i \in 1..Len(queue) : msg[queue[i]].by = gen

\* An unsubscription in which no call failed leaves nothing registered, but
\* for the power callback of the plugin, whose thread may register it late.
StoppedQuiet ==
  at = "stopped" /\ ~failed =>
    registered \subseteq (IF build = "plugin" THEN {"power"} ELSE {})
=============================================================================
