---------------------------- MODULE RrdDispatch -----------------------------
(***************************************************************************)
(* The remote debugger daemon as its threads see it: bus callbacks that    *)
(* put requests on the System V queue, the event thread that takes them    *)
(* off and resolves each against the static profile, the installed         *)
(* packages and the download manager (RDM), the cache of requests waiting  *)
(* for a package, and the RDM callback that answers them.                  *)
(*                                                                         *)
(* A request is known by its position in req, the record of everything     *)
(* the controller asked for; the program has no such number.  Profiles and *)
(* commands are abstracted to what the decisions below tell apart.         *)
(***************************************************************************)
EXTENDS Integers, Sequences, RrdPending

CONSTANTS
  Node,          \* issue categories
  Sub,           \* issue types inside a category
  NoSub,         \* a request that names only the category
  DeepSleep,     \* the category DEEP_SLEEP_STR
  DeepSleepPkg,  \* the package fetched when the box leaves deep sleep
  TooLong,       \* categories longer than RRD_DYNAMIC_PROFILE_MAX_LENGTH
  Issues,        \* what a controller may ask for
  Static,        \* the profile /etc/rrd/remote_debugger.json
  Package,       \* the profile each package carries
  Preinstalled,  \* the packages on the box when the daemon starts
  Corrupt,       \* a profile that cannot be read or parsed
  NoPkg,         \* the name of no package
  NoEntry,       \* NULL, as a cacheData pointer
  IarmBus,       \* TRUE: built with IARMBUS_SUPPORT
  MaxReq,        \* bound: requests in a behaviour
  MaxList,       \* bound: issue types in one comma separated list
  QueueCap,      \* messages the System V queue holds (msg_qbytes)
  MaxDownloads,  \* bound: download requests the cache records
  MaxEvents      \* bound: events undelivered when RDM reports progress

Req == 1..MaxReq
Pkg == Node \union {DeepSleepPkg}

\* What a profile can say of an issue type: no such key, a key without a
\* command string, commands no sanity list objects to, commands one does.
Command == {"absent", "empty", "clean", "harmful"}
Profile == [cmd : [Node \X Sub -> Command], sanity : BOOLEAN]
Issue   == [node : Node, sub : Sub \union {NoSub}, sfx : BOOLEAN]
Request == [node : Node, sub : Sub \union {NoSub}, sfx : BOOLEAN, append : BOOLEAN]

ASSUME ConstantsAssumption ==
  /\ NoSub \notin Sub
  /\ DeepSleep \in Node
  /\ TooLong \subseteq Node
  /\ Issues \subseteq Issue
  /\ Corrupt \notin Profile
  /\ Static \in Profile \union {Corrupt}
  /\ Package \in [Pkg -> Profile \union {Corrupt}]
  /\ Preinstalled \subseteq Pkg
  /\ NoPkg \notin Pkg
  /\ IarmBus \in BOOLEAN
  /\ MaxReq \in Nat
  /\ MaxList \in Nat
  /\ QueueCap \in Nat \ {0}
  /\ MaxDownloads \in Nat
  /\ MaxEvents \in Nat

VARIABLES
  req,        \* every request made so far, in order
  queue,      \* the System V message queue
  blobs,      \* lists the web configuration framework will push
  pc,         \* where the event thread is
  cur,        \* the message it is working on
  idx,        \* the position in cur's list it is working on
  cache,      \* requests waiting for a package
  stamp,      \* how many entries were ever pushed
  jobs,       \* downloads RDM has accepted and not finished, per package
  events,     \* RDM's completion events not yet delivered, in order
  installed,  \* packages on the box
  param,      \* the package the current IssueType parameter names
  hpc,        \* where the RDM callback is
  hent,       \* the cache entry it holds a pointer to
  outcome,    \* what became of each request
  report      \* the reports each request led to

threadVars  == <<pc, cur, idx>>
handlerVars == <<hpc, hent>>
rdmVars     == <<jobs, events, installed>>
vars == <<req, queue, blobs, pc, cur, idx, cache, stamp, jobs, events, installed,
          param, hpc, hent, outcome, report>>

Token   == [req : Req, sfx : BOOLEAN]
Kind    == {"event", "webcfg", "sleepInit", "sleepDone"}
Message == [kind : Kind, toks : Seq(Token), append : BOOLEAN, dyn : BOOLEAN,
            pkg : Pkg \union {NoPkg}]
Entry   == [stamp : Nat, pkg : Pkg, req : Req, append : BOOLEAN]
Outcome == {"open", "reported", "discarded", "refused", "failed"}
Report  == [src : {"static", "package", "dynamic", "append"}, sfx : BOOLEAN,
            ran : SUBSET {"clean", "harmful"}]

NoMessage == [kind |-> "event", toks |-> <<>>, append |-> FALSE, dyn |-> FALSE,
              pkg |-> NoPkg]

Alive == pc # "dead"
-----------------------------------------------------------------------------
(***************************************************************************)
(* Looking an issue up in a profile.                                       *)
(***************************************************************************)

\* findIssueInParsedJSON(): a category alone is found when the key exists.
FindIssue(prof, q) ==
  IF q.sub = NoSub
  THEN \E s \in Sub : prof.cmd[<<q.node, s>>] # "absent"
  ELSE prof.cmd[<<q.node, q.sub>>] # "absent"

\* readAndParseJSON() of the file the package installs.
PackageProfile(p) == IF p \in installed THEN Package[p] ELSE Corrupt

\* getIssueCommandInfo() # NULL: a command string, which the profile's own
\* sanity list, if it has one, accepts.  A category alone has no command.
HasCommandInfo(prof, q) ==
  /\ q.sub # NoSub
  /\ \/ prof.cmd[<<q.node, q.sub>>] = "clean"
     \/ prof.cmd[<<q.node, q.sub>>] = "harmful" /\ ~prof.sanity

\* The sanity list invokeSanityandCommandExec() applies: the profile's own,
\* or, when it has none, the static profile's.
SanityListFound(prof) == prof.sanity \/ (Static # Corrupt /\ Static.sanity)

\* What invokeSanityandCommandExec() lets through for one request.
Accepted(prof, q) ==
  {c \in {"clean", "harmful"} :
     /\ \E s \in Sub : /\ q.sub \in {s, NoSub}
                       /\ prof.cmd[<<q.node, s>>] = c
     /\ c = "harmful" => ~SanityListFound(prof)}

\* The merged command string of an append request: its two halves were
\* checked by getIssueCommandInfo() alone, each against its own profile.
Merged(dynamic, q) == {dynamic.cmd[<<q.node, q.sub>>], Static.cmd[<<q.node, q.sub>>]}
-----------------------------------------------------------------------------
(***************************************************************************)
(* processIssueType(): where a request is sent.                            *)
(***************************************************************************)
Verdict(act, src, ran) == [act |-> act, src |-> src, ran |-> ran]
Discard  == Verdict("discard", "static", {})
Download == Verdict("download", "static", {})
Crash    == Verdict("crash", "static", {})

\* processIssueTypeInDynamicProfileappend(), then
\* processIssueTypeInStaticProfileappend(), then the merge.  Both log fields
\* of the structure getIssueCommandInfo() returned without testing it.
AppendVerdict(q) ==
  LET dynamic == PackageProfile(q.node) IN
  CASE dynamic = Corrupt                              -> Download
    [] dynamic # Corrupt /\ ~FindIssue(dynamic, q)    -> Discard
    [] /\ dynamic # Corrupt /\ FindIssue(dynamic, q)
       /\ ~HasCommandInfo(dynamic, q)                 -> Crash
    [] OTHER ->
         IF Static = Corrupt \/ ~FindIssue(Static, q) THEN Discard
         ELSE IF ~HasCommandInfo(Static, q) THEN Crash
         ELSE Verdict("report", "append", Merged(dynamic, q))

\* processIssueTypeInDynamicProfile(): the file the completion event named.
DynamicVerdict(q, p) ==
  LET prof == PackageProfile(p) IN
  IF prof # Corrupt /\ FindIssue(prof, q)
  THEN Verdict("report", "dynamic", Accepted(prof, q))
  ELSE Discard

\* processIssueTypeInInstalledPackage(): unreadable and "not in it" alike
\* lead to a download request.
InstalledPackageVerdict(q) ==
  LET prof == PackageProfile(q.node) IN
  IF prof # Corrupt /\ FindIssue(prof, q)
  THEN Verdict("report", "package", Accepted(prof, q))
  ELSE Download

\* processIssueTypeInStaticProfile().
StaticVerdict(q) ==
  IF Static # Corrupt /\ FindIssue(Static, q)
  THEN Verdict("report", "static", Accepted(Static, q))
  ELSE InstalledPackageVerdict(q)

\* processIssueType() for a list, RRDProcessDeepSleepAwakeEvents() for the
\* two deep sleep messages.
VerdictFor(m, q) ==
  CASE m.kind = "sleepInit"                -> Download
    [] m.kind = "sleepDone"                -> DynamicVerdict(q, m.pkg)
    [] m.kind = "event" /\ m.append        -> AppendVerdict(q)
    [] m.kind = "event" /\ ~m.append /\ m.dyn -> DynamicVerdict(q, m.pkg)
    [] OTHER                               -> StaticVerdict(q)

CurReq     == cur.toks[idx].req
CurVerdict == VerdictFor(cur, req[CurReq])
CurPkg     == IF cur.kind = "sleepInit" THEN DeepSleepPkg ELSE req[CurReq].node
-----------------------------------------------------------------------------
Init ==
  /\ req = <<>>
  /\ queue = <<>>
  /\ blobs = <<>>
  /\ pc = "recv" /\ cur = NoMessage /\ idx = 1
  /\ cache = {} /\ stamp = 0
  /\ jobs = [p \in Pkg |-> 0]
  /\ events = <<>>
  /\ installed = Preinstalled
  /\ param = NoPkg
  /\ hpc = "idle" /\ hent = NoEntry
  /\ outcome = [r \in Req |-> "open"]
  /\ report = [r \in Req |-> <<>>]

(***************************************************************************)
(* Bus callbacks.  msgsnd() blocks while the queue is full, so a callback  *)
(* that delivers is not enabled then.                                      *)
(***************************************************************************)

\* Records a list of issues as the next requests.
Ask(list, append) ==
  /\ Len(req) + Len(list) <= MaxReq
  /\ req' = req \o [k \in DOMAIN list |->
                      [node |-> list[k].node, sub |-> list[k].sub,
                       sfx |-> list[k].sfx, append |-> append]]

AskedTokens(list) ==
  [k \in DOMAIN list |-> [req |-> Len(req) + k, sfx |-> list[k].sfx]]

\* _rdmDownloadEventHandler() reads the IssueType parameter and cuts it at
\* the first dot: with no dot, whatever follows the category stays in the
\* name and matches no package.
ParamPkg(list, append) ==
  IF list[1].sub # NoSub \/ (Len(list) = 1 /\ ~list[1].sfx /\ ~append)
  THEN list[1].node
  ELSE NoPkg

\* Mutant: one message more than the queue holds.
RRDMsgDeliverOverfull(m) ==
  /\ Len(queue) <= QueueCap
  /\ queue' = Append(queue, m)

\* RRDMsgDeliver().
RRDMsgDeliver(m) ==
  /\ Len(queue) < QueueCap
  /\ queue' = Append(queue, m)

IssueMessage(toks, append) ==
  [kind |-> "event", toks |-> toks, append |-> append, dyn |-> FALSE, pkg |-> NoPkg]

\* _remoteDebuggerEventHandler(), pushIssueTypesToMsgQueue().
IssueEvent(list, append) ==
  /\ Alive
  /\ Ask(list, append)
  /\ RRDMsgDeliver(IssueMessage(AskedTokens(list), append))
  /\ param' = ParamPkg(list, append)
  /\ UNCHANGED <<blobs, threadVars, cache, stamp, rdmVars, handlerVars, outcome, report>>

\* _remoteDebuggerWebCfgDataEventHandler(): the encoded document.
WebCfgEvent(list, append) ==
  /\ Alive
  /\ Ask(list, append)
  /\ RRDMsgDeliver([IssueMessage(AskedTokens(list), FALSE) EXCEPT !.kind = "webcfg"])
  /\ UNCHANGED <<blobs, threadVars, cache, stamp, rdmVars, param, handlerVars, outcome, report>>

\* PrepareDataToPush() on the framework's thread: the decoded list.
PushBlob ==
  /\ Alive
  /\ blobs # <<>>
  /\ RRDMsgDeliver(IssueMessage(Head(blobs), req[Head(blobs)[1].req].append))
  /\ blobs' = Tail(blobs)
  /\ UNCHANGED <<req, threadVars, cache, stamp, rdmVars, param, handlerVars, outcome, report>>

\* _pwrManagerEventHandler(): the box leaves deep sleep and the forced
\* configuration sync is accepted.  When it is refused nothing is sent.
PowerEvent ==
  /\ Alive /\ IarmBus
  /\ Len(req) < MaxReq
  /\ req' = Append(req, [node |-> DeepSleep, sub |-> NoSub, sfx |-> FALSE,
                         append |-> FALSE])
  /\ RRDMsgDeliver([IssueMessage(<<[req |-> Len(req) + 1, sfx |-> FALSE]>>, FALSE)
                      EXCEPT !.kind = "sleepInit"])
  /\ UNCHANGED <<blobs, threadVars, cache, stamp, rdmVars, param, handlerVars, outcome, report>>
-----------------------------------------------------------------------------
(***************************************************************************)
(* The event thread.                                                       *)
(***************************************************************************)
Settle(o) == outcome' = [outcome EXCEPT ![CurReq] = o]

\* Mutant: the last issue type of a list is forgotten.
NextTokenShort ==
  /\ cur' = cur
  /\ IF idx < Len(cur.toks) - 1 THEN idx' = idx + 1 /\ pc' = "token"
                                ELSE idx' = 1 /\ pc' = "recv"

\* The next issue type of the list, or the next msgrcv().
NextToken ==
  /\ cur' = cur
  /\ IF idx < Len(cur.toks) THEN idx' = idx + 1 /\ pc' = "token"
                            ELSE idx' = 1 /\ pc' = "recv"

\* RRDEventThreadFunc(): msgrcv() and the dispatch on the message type.
Receive ==
  /\ pc = "recv"
  /\ queue # <<>>
  /\ queue' = Tail(queue)
  /\ cur' = Head(queue)
  /\ idx' = 1
  /\ pc' = IF Head(queue).kind = "webcfg" THEN "decode" ELSE "token"
  /\ UNCHANGED <<req, blobs, cache, stamp, rdmVars, param, handlerVars, outcome, report>>

\* processWebCfgTypeEvent(): a document that decodes is handed to the
\* framework, any other is dropped.
DecodeWebCfg ==
  /\ pc = "decode"
  /\ pc' = "recv"
  /\ \/ /\ blobs' = Append(blobs, cur.toks)
        /\ UNCHANGED outcome
     \/ /\ outcome' = [r \in Req |-> IF \E k \in DOMAIN cur.toks : cur.toks[k].req = r
                                     THEN "discarded" ELSE outcome[r]]
        /\ UNCHANGED blobs
  /\ UNCHANGED <<req, queue, cur, idx, cache, stamp, rdmVars, param, handlerVars, report>>

\* processIssueType() up to the point where it does something that lasts.
ProcessIssueType ==
  /\ pc = "token"
  /\ CASE CurVerdict.act = "report"   -> pc' = "report" /\ UNCHANGED <<cur, idx, outcome>>
       [] CurVerdict.act = "download" -> pc' = "set" /\ UNCHANGED <<cur, idx, outcome>>
       [] CurVerdict.act = "crash"    -> pc' = "dead" /\ UNCHANGED <<cur, idx, outcome>>
       [] OTHER                       -> NextToken /\ Settle("discarded")
  /\ UNCHANGED <<req, queue, blobs, cache, stamp, rdmVars, param, handlerVars, report>>

\* checkIssueNodeInfo(): runs the commands and, if that went well, uploads
\* (RrdReport has the details); minutes may pass.  Without an output directory
\* it runs nothing.
CheckIssueNodeInfo ==
  /\ pc = "report"
  /\ \/ /\ report' = [report EXCEPT ![CurReq] =
                       Append(@, [src |-> CurVerdict.src, sfx |-> cur.toks[idx].sfx,
                                  ran |-> CurVerdict.ran])]
        /\ Settle("reported")
     \/ /\ UNCHANGED report
        /\ Settle("failed")
  /\ NextToken
  /\ UNCHANGED <<req, queue, blobs, cache, stamp, rdmVars, param, handlerVars>>

\* RRDRdmManagerDownloadRequest(): RRDGetProfileStringLength() refuses a long
\* category, and rbus_set() may fail; either way nothing is remembered.
RdmRefused ==
  /\ pc = "set"
  /\ Settle("refused")
  /\ NextToken
  /\ UNCHANGED <<req, queue, blobs, cache, stamp, rdmVars, param, handlerVars, report>>

\* The same call, when rbus_set() succeeds: RDM starts at once ...
RdmAccepted ==
  /\ pc = "set"
  /\ CurPkg \notin TooLong
  /\ stamp < MaxDownloads
  /\ jobs' = [jobs EXCEPT ![CurPkg] = @ + 1]
  /\ pc' = "append"
  /\ UNCHANGED <<req, queue, blobs, cur, idx, cache, stamp, events, installed, param,
                 handlerVars, outcome, report>>

\* Mutant: the issue is cached without its "_apnd".
AppendItemNoMode ==
  /\ pc = "append"
  /\ stamp' = stamp + 1
  /\ cache' = Push(cache, [stamp |-> stamp, pkg |-> CurPkg, req |-> CurReq,
                           append |-> FALSE])
  /\ NextToken
  /\ UNCHANGED <<req, queue, blobs, rdmVars, param, handlerVars, outcome, report>>

\* Mutant: a new entry replaces those for the same package.
AppendItemReplaces ==
  /\ pc = "append"
  /\ stamp' = stamp + 1
  /\ cache' = Push(cache \ Matching(cache, CurPkg),
                   [stamp |-> stamp, pkg |-> CurPkg, req |-> CurReq, append |-> cur.append])
  /\ NextToken
  /\ UNCHANGED <<req, queue, blobs, rdmVars, param, handlerVars, outcome, report>>

\* ... and append_item() records the request only afterwards.  The cache keeps
\* the issue without its suffix, and the append mode as "_apnd".
AppendItem ==
  /\ pc = "append"
  /\ stamp' = stamp + 1
  /\ cache' = Push(cache, [stamp |-> stamp, pkg |-> CurPkg, req |-> CurReq,
                           append |-> cur.append])
  /\ NextToken
  /\ UNCHANGED <<req, queue, blobs, rdmVars, param, handlerVars, outcome, report>>

\* createCache() gets no memory: nothing is recorded, though RDM is at work.
AppendItemFails ==
  /\ pc = "append"
  /\ Settle("failed")
  /\ NextToken
  /\ UNCHANGED <<req, queue, blobs, cache, stamp, rdmVars, param, handlerVars, report>>
-----------------------------------------------------------------------------
(***************************************************************************)
(* RDM (external) and the callback that hears from it.                     *)
(***************************************************************************)

\* RDM ends a job, well or badly, and says so.
RdmFinish(p, ok) ==
  /\ jobs[p] > 0
  /\ jobs' = [jobs EXCEPT ![p] = @ - 1]
  /\ installed' = IF ok THEN installed \union {p} ELSE installed
  /\ events' = Append(events, [pkg |-> p, ok |-> ok])
  /\ UNCHANGED <<req, queue, blobs, threadVars, cache, stamp, param, handlerVars, outcome, report>>

\* RDM reports on a job before its end.  The status is not one of success, and
\* to _rdmManagerEventHandler() that is one of failure.
RdmProgress(p) ==
  /\ IarmBus
  /\ jobs[p] > 0
  /\ Len(events) < MaxEvents
  /\ events' = Append(events, [pkg |-> p, ok |-> FALSE])
  /\ UNCHANGED <<req, queue, blobs, threadVars, cache, stamp, jobs, installed, param,
                 handlerVars, outcome, report>>

\* Mutant: every completion event is taken as a success.
HeardAnyStatus == TRUE

\* The package a completion event is taken to be about, and whether it is
\* taken as a success: _rdmManagerEventHandler() reads the event,
\* _rdmDownloadEventHandler() the IssueType parameter and no status.
HeardPkg == IF IarmBus THEN Head(events).pkg ELSE param
HeardOk  == IarmBus => Head(events).ok

\* "Package not requested": the cache holds no entry for the package.  The
\* event is also lost when rbus_get() cannot read the parameter.
NotRequested == Matching(cache, HeardPkg) = {} \/ ~IarmBus

\* The first half of either handler: findPresentInCache().
RdmEventFind ==
  /\ Alive
  /\ hpc = "idle"
  /\ events # <<>>
  /\ events' = Tail(events)
  /\ \/ /\ Matching(cache, HeardPkg) # {}
        /\ hent' = Newest(cache, HeardPkg)
        /\ hpc' = IF HeardOk THEN "deliver" ELSE "fail"
     \/ /\ NotRequested
        /\ UNCHANGED handlerVars
  /\ UNCHANGED <<req, queue, blobs, threadVars, cache, stamp, jobs, installed, param,
                 outcome, report>>

\* cache->issueString is exactly DEEP_SLEEP_STR.
IsSleepEntry(e) ==
  /\ IarmBus
  /\ req[e.req].node = DeepSleep /\ req[e.req].sub = NoSub /\ ~e.append

\* The message either handler builds from the entry.
CompletionMessage(e) ==
  [kind |-> IF IsSleepEntry(e) THEN "sleepDone" ELSE "event",
   toks |-> <<[req |-> e.req, sfx |-> FALSE]>>,
   append |-> e.append, dyn |-> ~e.append, pkg |-> e.pkg]

RdmEventDeliver ==
  /\ Alive
  /\ hpc = "deliver"
  /\ RRDMsgDeliver(CompletionMessage(hent))
  /\ hpc' = "remove"
  /\ UNCHANGED <<req, blobs, threadVars, cache, stamp, rdmVars, param, hent, outcome, report>>

\* There is no memory for the message: the entry stays where it is.
RdmEventNoMemory ==
  /\ Alive
  /\ hpc = "deliver"
  /\ hpc' = "idle" /\ hent' = NoEntry
  /\ UNCHANGED <<req, queue, blobs, threadVars, cache, stamp, rdmVars, param, outcome, report>>

\* Mutant: the entry is not removed.
RdmEventKeep ==
  /\ Alive
  /\ hpc \in {"remove", "fail"}
  /\ outcome' = IF hpc = "fail" THEN [outcome EXCEPT ![hent.req] = "failed"] ELSE outcome
  /\ hpc' = "idle" /\ hent' = NoEntry
  /\ UNCHANGED <<req, queue, blobs, threadVars, cache, stamp, rdmVars, param, report>>

\* remove_item(), after the delivery or after a failed installation.
RdmEventRemove ==
  /\ Alive
  /\ hpc \in {"remove", "fail"}
  /\ cache' = Drop(cache, hent)
  /\ outcome' = IF hpc = "fail" THEN [outcome EXCEPT ![hent.req] = "failed"] ELSE outcome
  /\ hpc' = "idle" /\ hent' = NoEntry
  /\ UNCHANGED <<req, queue, blobs, threadVars, stamp, rdmVars, param, report>>
-----------------------------------------------------------------------------
Lists == UNION {[1..n -> Issues] : n \in 1..MaxList}

EventThread ==
  \/ Receive \/ DecodeWebCfg \/ ProcessIssueType \/ CheckIssueNodeInfo
  \/ RdmRefused \/ RdmAccepted \/ AppendItem \/ AppendItemFails

RdmHandler ==
  RdmEventFind \/ RdmEventDeliver \/ RdmEventNoMemory \/ RdmEventRemove

Rdm == \E p \in Pkg, ok \in BOOLEAN : RdmFinish(p, ok)

Next ==
  \/ \E list \in Lists, append \in BOOLEAN :
       IssueEvent(list, append) \/ WebCfgEvent(list, append)
  \/ PowerEvent
  \/ PushBlob
  \/ EventThread
  \/ RdmHandler
  \/ Rdm
  \/ \E p \in Pkg : RdmProgress(p)

Spec == Init /\ [][Next]_vars

(***************************************************************************)
(* The threads are never starved by the scheduler, and RDM ends every job  *)
(* it accepted.  Nothing is assumed of the controller.                     *)
(***************************************************************************)
FairSpec ==
  /\ Spec
  /\ WF_vars(EventThread)
  /\ WF_vars(RdmHandler)
  /\ WF_vars(PushBlob)
  /\ WF_vars(Rdm)
-----------------------------------------------------------------------------
(***************************************************************************)
(* Where a request is.                                                     *)
(***************************************************************************)
Carries(m, r) == \E k \in DOMAIN m.toks : m.toks[k].req = r

\* The event thread has yet to deal with r.
Held(r) ==
  /\ pc # "recv"
  /\ \E k \in idx..Len(cur.toks) : cur.toks[k].req = r

\* The cache entries that stand for r.  Between RRDMsgDeliver() and
\* remove_item() the entry is a leftover: the message stands for r.
Standing(r) == {e \in cache : e.req = r /\ ~(hpc = "remove" /\ e = hent)}

Places(r) ==
    {<<"queue", k>> : k \in {j \in DOMAIN queue : Carries(queue[j], r)}}
  \union {<<"blob", k>> : k \in {j \in DOMAIN blobs : \E i \in DOMAIN blobs[j] :
                                                        blobs[j][i].req = r}}
  \union {<<"cache", e.stamp>> : e \in Standing(r)}
  \union (IF Held(r) THEN {<<"thread", 0>>} ELSE {})

Pending(r) == Standing(r) # {}
-----------------------------------------------------------------------------
(***************************************************************************)
(* Properties.                                                             *)
(***************************************************************************)

TypeRequests == /\ req \in Seq(Request) /\ Len(req) <= MaxReq
                /\ outcome \in [Req -> Outcome]
                /\ report \in [Req -> Seq(Report)]
TypeQueue    == /\ queue \in Seq(Message) /\ Len(queue) <= QueueCap
                /\ blobs \in Seq(Seq(Token))
TypeThread   == /\ pc \in {"recv", "decode", "token", "report", "set", "append", "dead"}
                /\ cur \in Message
                /\ idx \in Nat \ {0}
TypeCache    == cache \subseteq Entry /\ stamp \in Nat
TypeRdm      == /\ jobs \in [Pkg -> Nat]
                /\ events \in Seq([pkg : Pkg, ok : BOOLEAN])
                /\ installed \subseteq Pkg
                /\ param \in Pkg \union {NoPkg}
TypeHandler  == /\ hpc \in {"idle", "deliver", "remove", "fail"}
                /\ hent \in Entry \union {NoEntry}
                /\ hpc # "idle" => hent \in Entry

\* Every variable keeps the shape the program gives it: the queue never
\* exceeds the capacity of the System V queue, the cache holds entries, and
\* the RDM handler has an entry in its hands whenever it is about to use one.
TypeOK == TypeRequests /\ TypeQueue /\ TypeThread /\ TypeCache /\ TypeRdm /\ TypeHandler

\* A request that is not settled is in exactly one place: a queued message,
\* the framework's hands, the event thread's list, or one cache entry; a
\* settled one is nowhere.  However the callbacks and the event thread
\* interleave, pushIssueTypesToMsgQueue(), append_item() and the
\* find-deliver-remove sequence of the RDM handlers neither lose a request
\* nor leave two copies of it to be processed.
ExactlyOnePlace ==
  \A r \in DOMAIN req :
    IF outcome[r] = "open" THEN \E x \in Places(r) : Places(r) = {x}
                           ELSE Places(r) = {}

\* checkIssueNodeInfo() produces at most one report for a request, even when
\* it was downloaded for, answered and fetched again.
ReportedAtMostOnce ==
  \A r \in Req : Len(report[r]) <= 1 /\ (report[r] # <<>> => outcome[r] = "reported")

\* The append mode of a request survives the "_apnd" that stands for it in
\* the cache: a message that carries it asks for the mode the controller
\* asked for, and an append request is never taken as a dynamic one.
ModePreserved ==
  /\ \A m \in {queue[k] : k \in DOMAIN queue} \union {cur} :
       m.kind # "webcfg" =>
         /\ \A k \in DOMAIN m.toks : m.append = req[m.toks[k].req].append
         /\ m.append => ~m.dyn
  /\ \A e \in cache : e.append = req[e.req].append

\* A message that says a package was installed is only sent once RDM has
\* installed that package, and names the package its request waits for:
\* _rdmManagerEventHandler() never answers with somebody else's event.
AnsweredWhenInstalled ==
  \A m \in {queue[k] : k \in DOMAIN queue} \union {cur} :
    m.pkg # NoPkg =>
      /\ m.pkg \in installed
      /\ \A k \in DOMAIN m.toks :
           LET q == req[m.toks[k].req] IN
           m.pkg = q.node \/ (m.pkg = DeepSleepPkg /\ q.node = DeepSleep)

\* The pointer the RDM handler keeps between findPresentInCache() and
\* remove_item(), while the mutex is free, stays that of a live entry.
HeldEntryLive == hpc # "idle" => hent \in cache

\* Every request is eventually settled or left waiting for RDM: no callback
\* stays blocked on a full queue and no list is left half processed, unless
\* the daemon dies.
EventuallyHandled ==
  \A r \in Req : (r \in DOMAIN req) ~> (outcome[r] # "open" \/ Pending(r) \/ ~Alive)

\* The suffix a request came with is the one its report is uploaded under.
SuffixCarried ==
  \A r \in DOMAIN req : \A k \in DOMAIN report[r] : report[r][k].sfx = req[r].sfx

\* The daemon survives every request a controller may make.
Survives == Alive

\* Commands a sanity list blocks are never run.
SanityGate == \A r \in DOMAIN req : \A k \in DOMAIN report[r] : "harmful" \notin report[r][k].ran

\* An event is called "Package not requested" only if the event thread is
\* not at that moment requesting the package.
NotRequestedIsTrue ==
  [][(RdmEventFind /\ UNCHANGED handlerVars) => ~(pc = "append" /\ CurPkg = HeardPkg)]_vars
=============================================================================
