----------------------------- MODULE RrdReport ------------------------------
(***************************************************************************)
(* What RrdDispatch does in one step: checkIssueNodeInfo() makes an output *)
(* directory named after the category and the second, runs the commands of *)
(* the issue types in it, and hands it to rrd_upload_orchestrate(), which  *)
(* archives it, waits for the upload lock another process may hold, sends  *)
(* the archive and removes what it made.                                   *)
(*                                                                         *)
(* The event thread makes one report at a time; the clock and the other    *)
(* uploader of the platform move on their own.  Removing a file or a       *)
(* directory the daemon made itself is taken not to fail.                  *)
(***************************************************************************)
EXTENDS Integers, FiniteSets

CONSTANTS
  Node,         \* issue categories
  NoName,       \* a name not built yet
  MaxReport,    \* bound: reports in a behaviour
  MaxTypes,     \* bound: issue types in a category
  MaxAttempts,  \* the attempts rrd_upload_wait_for_lock() makes (10 in the code)
  MaxTime       \* bound: seconds in a behaviour

Report == 1..MaxReport

ASSUME ReportAssumption ==
  /\ MaxReport \in Nat /\ MaxTypes \in Nat \ {0}
  /\ MaxAttempts \in Nat /\ MaxTime \in Nat
  /\ NoName \notin Node \X Nat

VARIABLES
  clock,     \* time(), in seconds
  made,      \* how many reports were begun; the last is the current one
  node,      \* the current report: its category,
  live,      \*   whether it is LOGUPLOAD_ENABLE,
  left,      \*   the issue types it still has to run,
  status,    \*   and execstatus
  pc,        \* where the event thread is
  outdir,    \* the output directory of the current report
  archive,   \* and its archive
  dirs,      \* output directories under /tmp/rrd, with what they hold
  archives,  \* archives under /tmp/rrd, with what they hold
  liveLogs,  \* the report that left /tmp/rrd/RRD_LIVE_LOGS.tar.gz, or 0
  lock,      \* who holds /tmp/.log-upload.lock
  attempts,  \* attempts made in rrd_upload_wait_for_lock()
  code,      \* how each report ended
  sent       \* what was uploaded, and for which report

thisVars == <<node, live>>
fileVars == <<dirs, archives, liveLogs>>
vars == <<clock, made, node, live, left, status, pc, outdir, archive, dirs, archives,
          liveLogs, lock, attempts, code, sent>>

\* Files are named by an issue and a second.  Archives carry the whole issue
\* type; here all the types of a category share a name, which can only make
\* more of them collide.
Name == Node \X Nat

\* A piece of a directory or of an archive: what commands wrote for a report,
\* or the live logs.
Piece == [by : Report, what : {"output", "live"}]
Output(r) == [by |-> r, what |-> "output"]

\* How a report can end: before the upload, or with a code of
\* rrd_upload_orchestrate().
Code == {"none", "mkdir", "chdir", "skipped", "0", "3-8", "9", "10", "11"}

\* f with n bound to v, n unbound in it.
Bind(f, n, v) == [m \in DOMAIN f \union {n} |-> IF m = n THEN v ELSE f[m]]
Unbind(f, n)  == [m \in DOMAIN f \ {n} |-> f[m]]

Init ==
  /\ clock = 0 /\ made = 0
  /\ node \in Node /\ live = FALSE /\ left = 0 /\ status = FALSE
  /\ pc = "idle" /\ outdir = NoName /\ archive = NoName
  /\ dirs = [n \in {} |-> {}] /\ archives = [n \in {} |-> {}] /\ liveLogs = 0
  /\ lock = "free" /\ attempts = 0
  /\ code = [r \in Report |-> "none"]
  /\ sent = {}
-----------------------------------------------------------------------------
(***************************************************************************)
(* checkIssueNodeInfo().                                                   *)
(***************************************************************************)

\* The current report is over.
End(c) == pc' = "idle" /\ code' = [code EXCEPT ![made] = c]

\* A request for one issue type, or for the k types of a category.
Begin(n, k, l) ==
  /\ pc = "idle"
  /\ made < MaxReport
  /\ clock + k <= MaxTime
  /\ made' = made + 1
  /\ node' = n /\ live' = l /\ left' = k /\ status' = FALSE
  /\ pc' = "mkdir"
  /\ UNCHANGED <<clock, outdir, archive, fileVars, lock, attempts, code, sent>>

\* Mutant: a directory that exists is used as it is.
MakeDirExistOk ==
  /\ pc = "mkdir"
  /\ outdir' = <<node, clock>>
  /\ dirs' = IF outdir' \in DOMAIN dirs THEN dirs ELSE Bind(dirs, outdir', {})
  /\ pc' = "run"
  /\ UNCHANGED <<clock, made, thisVars, left, status, archive, archives, liveLogs, lock,
                 attempts, code, sent>>

\* The directory of this category and this second is made and entered.
MakeDir ==
  /\ pc = "mkdir"
  /\ <<node, clock>> \notin DOMAIN dirs
  /\ outdir' = <<node, clock>>
  /\ dirs' = Bind(dirs, outdir', {})
  /\ pc' = "run"
  /\ UNCHANGED <<clock, made, thisVars, left, status, archive, archives, liveLogs, lock,
                 attempts, code, sent>>

\* mkdir() fails, as it does when the directory exists: no command is run.
MakeDirFails ==
  /\ pc = "mkdir"
  /\ End("mkdir")
  /\ UNCHANGED <<clock, made, thisVars, left, status, outdir, archive, fileVars, lock,
                 attempts, sent>>

\* chdir() fails: no command is run either, and the directory stays.
ChdirFails ==
  /\ pc = "mkdir"
  /\ <<node, clock>> \notin DOMAIN dirs
  /\ outdir' = <<node, clock>>
  /\ dirs' = Bind(dirs, outdir', {})
  /\ End("chdir")
  /\ UNCHANGED <<clock, made, thisVars, left, status, archive, archives, liveLogs, lock,
                 attempts, sent>>

\* executeCommands() runs the commands of the next issue type, then sleeps
\* for the timeout of the profile.  Those of LOGUPLOAD_ENABLE may leave live
\* logs.
RunCommands ==
  /\ pc = "run" /\ left > 0
  /\ left' = left - 1
  /\ status' = TRUE
  /\ dirs' = [dirs EXCEPT ![outdir] = @ \union {Output(made)}]
  /\ clock' = clock + 1
  /\ liveLogs' \in (IF live THEN {liveLogs, made} ELSE {liveLogs})
  /\ UNCHANGED <<made, thisVars, pc, outdir, archive, archives, lock, attempts, code, sent>>

\* The next issue type has no command or a harmful one, or its own directory
\* or, in that, its file cannot be made: invokeSanityandCommandExec() returns
\* false.
RefuseCommands ==
  /\ pc = "run" /\ left > 0
  /\ left' = left - 1
  /\ status' = FALSE
  /\ dirs' \in {dirs, [dirs EXCEPT ![outdir] = @ \union {Output(made)}]}
  /\ UNCHANGED <<clock, made, thisVars, pc, outdir, archive, archives, liveLogs, lock,
                 attempts, code, sent>>

\* What the last issue type returned decides.
SkipUpload ==
  /\ pc = "run" /\ left = 0 /\ ~status
  /\ End("skipped")
  /\ UNCHANGED <<clock, made, thisVars, left, status, outdir, archive, fileVars, lock,
                 attempts, sent>>
-----------------------------------------------------------------------------
(***************************************************************************)
(* rrd_upload_orchestrate().                                               *)
(***************************************************************************)

\* Mutant: the live logs are copied.
HandleLiveLogsCopied(moved) ==
  IF moved
  THEN /\ live /\ liveLogs # 0
       /\ dirs' = [dirs EXCEPT ![outdir] = @ \union {[by |-> liveLogs, what |-> "live"]}]
       /\ UNCHANGED liveLogs
  ELSE UNCHANGED <<dirs, liveLogs>>

\* rrd_logproc_handle_live_logs(): for LOGUPLOAD_ENABLE the live logs, if there
\* are any, join the directory.  That they could not be moved is only logged.
HandleLiveLogs(moved) ==
  IF moved
  THEN /\ live /\ liveLogs # 0
       /\ dirs' = [dirs EXCEPT ![outdir] = @ \union {[by |-> liveLogs, what |-> "live"]}]
       /\ liveLogs' = 0
  ELSE UNCHANGED <<dirs, liveLogs>>

\* Configuration, MAC address, time, the directory validated, the name
\* converted and the live logs moved.
Gather(moved) ==
  /\ pc = "run" /\ left = 0 /\ status
  /\ dirs[outdir] # {}
  /\ archive' = <<node, clock>>
  /\ HandleLiveLogs(moved)
  /\ pc' = "name"
  /\ UNCHANGED <<clock, made, thisVars, left, status, outdir, archives, lock, attempts, code, sent>>

\* One of those fails, or tarName does not fit: nothing is removed.
GatherFails ==
  /\ pc = "run" /\ left = 0 /\ status
  /\ End("3-8")
  /\ UNCHANGED <<clock, made, thisVars, left, status, outdir, archive, fileVars, lock,
                 attempts, sent>>

\* The file name does not fit: nothing is removed.
NameFails ==
  /\ pc = "name"
  /\ End("9")
  /\ UNCHANGED <<clock, made, thisVars, left, status, outdir, archive, fileVars, lock,
                 attempts, sent>>

\* rrd_archive_create() writes the archive over one of the same name.
CreateArchive ==
  /\ pc = "name"
  /\ archives' = Bind(archives, archive, dirs[outdir])
  /\ pc' = "check"
  /\ UNCHANGED <<clock, made, thisVars, left, status, outdir, archive, dirs, liveLogs, lock,
                 attempts, code, sent>>

\* It fails, before or after the file is there: nothing is removed.
ArchiveFails ==
  /\ pc = "name"
  /\ \/ UNCHANGED archives
     \/ archives' = Bind(archives, archive, {})
  /\ End("10")
  /\ UNCHANGED <<clock, made, thisVars, left, status, outdir, archive, dirs, liveLogs, lock,
                 attempts, sent>>

\* Both ends of the upload remove the archive and the directory.
CleanUp(c) ==
  /\ archives' = Unbind(archives, archive)
  /\ dirs' = Unbind(dirs, outdir)
  /\ End(c)
-----------------------------------------------------------------------------
(***************************************************************************)
(* rrd_upload_execute(): the lock is only looked at; uploadstblogs_run()   *)
(* (external) takes it.                                                    *)
(***************************************************************************)
FirstCheck ==
  /\ pc = "check"
  /\ attempts' = 0
  /\ pc' = IF lock = "free" THEN "send" ELSE "wait"
  /\ UNCHANGED <<clock, made, thisVars, left, status, outdir, archive, fileVars, lock, code, sent>>

\* The lock file cannot be opened or tested.
CheckFails ==
  /\ pc = "check"
  /\ CleanUp("11")
  /\ UNCHANGED <<clock, made, thisVars, left, status, outdir, archive, liveLogs, lock,
                 attempts, sent>>

\* One turn of rrd_upload_wait_for_lock() that finds the lock free.
LockCleared ==
  /\ pc = "wait"
  /\ attempts < MaxAttempts
  /\ lock = "free"
  /\ pc' = "send"
  /\ UNCHANGED <<clock, made, thisVars, left, status, outdir, archive, fileVars, lock,
                 attempts, code, sent>>

\* Mutant: the loop makes one attempt too many.
WaitForLockOnceMore ==
  /\ pc = "wait"
  /\ attempts <= MaxAttempts
  /\ attempts' = attempts + 1
  /\ UNCHANGED <<clock, made, thisVars, left, status, pc, outdir, archive, fileVars, lock,
                 code, sent>>

\* Mutant: an attempt is not counted.
WaitForLockForEver ==
  /\ pc = "wait"
  /\ lock # "free"
  /\ UNCHANGED <<clock, made, thisVars, left, status, pc, outdir, archive, fileVars, lock,
                 attempts, code, sent>>

\* One that finds it held, or cannot tell, and sleeps.
WaitForLock ==
  /\ pc = "wait"
  /\ attempts < MaxAttempts
  /\ attempts' = attempts + 1
  /\ UNCHANGED <<clock, made, thisVars, left, status, pc, outdir, archive, fileVars, lock,
                 code, sent>>

\* Mutant: the timeout returns without removing anything.
LockTimeoutLeaves ==
  /\ pc = "wait"
  /\ attempts >= MaxAttempts
  /\ End("11")
  /\ UNCHANGED <<clock, made, thisVars, left, status, outdir, archive, fileVars, lock,
                 attempts, sent>>

\* All the attempts are used up; what happened during the last sleep is not
\* looked at.
LockTimeout ==
  /\ pc = "wait"
  /\ attempts >= MaxAttempts
  /\ CleanUp("11")
  /\ UNCHANGED <<clock, made, thisVars, left, status, outdir, archive, liveLogs, lock,
                 attempts, sent>>

\* uploadstblogs_run() gets the lock ...
SendStart ==
  /\ pc = "send"
  /\ lock = "free"
  /\ lock' = "rrd"
  /\ pc' = "sending"
  /\ UNCHANGED <<clock, made, thisVars, left, status, outdir, archive, fileVars, attempts,
                 code, sent>>

\* ... or another process was faster, or something else is missing.
SendRefused ==
  /\ pc = "send"
  /\ CleanUp("11")
  /\ UNCHANGED <<clock, made, thisVars, left, status, outdir, archive, liveLogs, lock,
                 attempts, sent>>

SendSucceeds ==
  /\ pc = "sending"
  /\ lock' = "free"
  /\ sent' = sent \union {[by |-> made, holds |-> archives[archive]]}
  /\ CleanUp("0")
  /\ UNCHANGED <<clock, made, thisVars, left, status, outdir, archive, liveLogs, attempts>>

SendFails ==
  /\ pc = "sending"
  /\ lock' = "free"
  /\ CleanUp("11")
  /\ UNCHANGED <<clock, made, thisVars, left, status, outdir, archive, liveLogs, attempts, sent>>
-----------------------------------------------------------------------------
(***************************************************************************)
(* The rest of the platform.                                               *)
(***************************************************************************)
OtherLocks ==
  /\ lock = "free"
  /\ lock' = "other"
  /\ UNCHANGED <<clock, made, thisVars, left, status, pc, outdir, archive, fileVars,
                 attempts, code, sent>>

OtherUnlocks ==
  /\ lock = "other"
  /\ lock' = "free"
  /\ UNCHANGED <<clock, made, thisVars, left, status, pc, outdir, archive, fileVars,
                 attempts, code, sent>>

\* Time between two requests; during a report it is the commands that take it.
Tick ==
  /\ pc = "idle"
  /\ clock < MaxTime
  /\ clock' = clock + 1
  /\ UNCHANGED <<made, thisVars, left, status, pc, outdir, archive, fileVars, lock, attempts,
                 code, sent>>
-----------------------------------------------------------------------------
CheckIssueNodeInfo ==
  \/ MakeDir \/ MakeDirFails \/ ChdirFails \/ RunCommands \/ RefuseCommands \/ SkipUpload

Orchestrate ==
  \/ \E moved \in BOOLEAN : Gather(moved)
  \/ GatherFails \/ NameFails \/ CreateArchive \/ ArchiveFails

Execute ==
  \/ FirstCheck \/ CheckFails \/ LockCleared \/ WaitForLock \/ LockTimeout
  \/ SendStart \/ SendRefused \/ SendSucceeds \/ SendFails

EventThread == CheckIssueNodeInfo \/ Orchestrate \/ Execute

Next ==
  \/ \E n \in Node, k \in 1..MaxTypes, l \in BOOLEAN : Begin(n, k, l)
  \/ EventThread
  \/ OtherLocks \/ OtherUnlocks \/ Tick

Spec == Init /\ [][Next]_vars

\* The event thread is never starved, and uploadstblogs_run() returns.  The
\* other uploader may keep the lock for ever.
FairSpec == Spec /\ WF_vars(EventThread)
-----------------------------------------------------------------------------
\* Reports, names and files have the shapes the code gives them, and the
\* waiting loop never makes more attempts than it was given.
TypeOK ==
  /\ clock \in Nat /\ made \in 0..MaxReport
  /\ node \in Node /\ live \in BOOLEAN /\ left \in Nat /\ status \in BOOLEAN
  /\ pc \in {"idle", "mkdir", "run", "name", "check", "wait", "send", "sending"}
  /\ outdir \in Name \union {NoName} /\ archive \in Name \union {NoName}
  /\ DOMAIN dirs \subseteq Name /\ \A n \in DOMAIN dirs : dirs[n] \subseteq Piece
  /\ DOMAIN archives \subseteq Name /\ \A n \in DOMAIN archives : archives[n] \subseteq Piece
  /\ liveLogs \in 0..MaxReport
  /\ lock \in {"free", "rrd", "other"} /\ attempts \in 0..MaxAttempts
  /\ code \in [Report -> Code]
  /\ sent \subseteq [by : Report, holds : SUBSET Piece]

\* The command output uploaded for a report is what its own commands wrote,
\* never nothing and never what an earlier report left in a directory or an
\* archive of the same name, although names repeat within a second and failed
\* reports leave their files behind.
OwnOutput ==
  \A s \in sent :
    /\ Output(s.by) \in s.holds
    /\ \A p \in s.holds : p.what = "output" => p.by = s.by

\* The live logs in /tmp/rrd/RRD_LIVE_LOGS.tar.gz go to whichever
\* LOGUPLOAD_ENABLE report can move them, also a later one than that whose
\* commands left them, but no copy of them is sent twice and none after newer
\* ones, whatever failed in between.
LiveLogsOnce ==
  \A s, t \in sent : \A p \in s.holds, q \in t.holds :
    p.what = "live" /\ q.what = "live" =>
      /\ p.by <= s.by
      /\ s.by < t.by => p.by < q.by

\* Once it has got as far as the upload, rrd_upload_orchestrate() leaves
\* nothing of the report behind, whether the archive was sent, refused or the
\* lock never came free: of every report that ended with 0 or 11 neither the
\* directory nor the archive is left.
UploadLeavesNothing ==
  \A r \in Report : code[r] \in {"0", "11"} =>
    /\ \A n \in DOMAIN dirs : Output(r) \notin dirs[n]
    /\ \A n \in DOMAIN archives : Output(r) \notin archives[n]

\* The event thread comes back from every report, even when another process
\* never gives the upload lock back.
EveryReportEnds == (pc # "idle") ~> (pc = "idle")

\* The generated files of a report are gone when it is over, however it ended.
CleanedUp == pc = "idle" => DOMAIN dirs = {} /\ DOMAIN archives = {}
=============================================================================
