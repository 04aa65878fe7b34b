# A formal model of the RDK remote debugger

This directory holds TLA+ specifications of the remote debugger daemon (`src/*.c` of the
repository), the TLC configurations that check them on small instances, and TLAPS proofs of
all the safety properties of the passing runs for every instance. `PROJECT.json` lists the runs, the source lines
each definition stands for, the hazards the properties are aimed at and what was found.

To check it: `tlc -config <run>.cfg <module>` for each run below, and `tlapm <module>.tla` for each of
`RrdInduction` and the seven modules whose names end in `Proofs`.

## 1. The system

The daemon waits for somebody, through the RBUS parameter `IssueType`, a web configuration
document or the power manager, to ask for debug reports. For each issue type asked for it finds
commands in a profile, runs them, archives the output and uploads the archive. If no profile on
the box knows the issue, it asks the download manager (RDM) for a package that carries one and
comes back to the request when RDM says it is installed.

| Component | Keeps | Does | Hard because |
|---|---|---|---|
| Bus callbacks (`rrdInterface.c`, `rrdIarmEvents.c`) | nothing of their own | turn events into messages; `msgsnd()` blocks when the queue is full | they run on library threads, at any time |
| Message queue (System V) | messages, which carry pointers | FIFO of bounded size | full queue; outlives the process |
| Event thread (`rrdMain.c`, `rrdEventProcess.c`, `rrdDynamic.c`) | the message and the position in its list | resolves each issue type: static profile, installed package, the package just downloaded, append mode; starts downloads | a list may be half done when anything else happens; a download is started before it is recorded |
| Pending-download cache (`rrdRunCmdThread.c`) | doubly linked list under `rrdCacheMut` | append, find, remove | the address found is used with the mutex free |
| RDM callback (`rrdIarmEvents.c`, `rrdInterface.c`) | the entry it found | find, deliver, remove | races with the event thread; the rbus variant does not know which package its event is about |
| Profile lookup and sanity (`rrdJsonParser.c`, `rrdCommandSanity.c`) | nothing | finds commands, refuses harmful ones | two different sanity rules, with and without append |
| Report (`checkIssueNodeInfo()` and below) | output directory | runs the commands of each issue type | directory named by second; partial refusal |
| Upload (`uploadRRDLogs.c`, `rrd_upload.c`, `rrd_logproc.c`, `rrd_archive.c`, `rrd_sysinfo.c`) | archive, live logs, the lock of the log uploader | archives, waits for the lock, uploads, cleans up | eleven ways to fail; the lock is looked at and not taken |
| Web configuration (`rrdMsgPackDecoder.c` and the framework) | decoded documents | hands the decoded list to another thread, which pushes it to the queue | the same request passes the queue twice |
| Profile category (`rrd_SetHandler()`, `rrd_GetHandler()`) | category, in memory and on disk | set, persist, read back | memory changes before the file |
| Upload configuration (`rrd_config.c`) | servers, protocol | merges property files, RFC and DCM | precedence |
| Subscriptions (`RRD_subscribe()`, `RRD_unsubscribe()`) | bus registrations | register, deregister | partial failure is ignored |

Interactions: callbacks reach the event thread only through the queue; the event thread reaches
RDM through `rbus_set()`; RDM answers with an event that a callback handles; the cache is the
only memory the event thread and a callback share. One event thread makes all the reports, so a
report that waits for the upload lock delays every other request.

What makes the parts correct:

* dispatch: a request is neither lost nor processed twice; it is processed in the mode asked for
  and answered by the installation it waits for; nobody waits for ever;
* cache: a well-formed list, no use of freed memory, and searches and removals that look atomic
  to their users;
* report and upload: what is uploaded is the report's own; nothing is left behind; the thread
  always comes back;
* configuration and category: an upload is given up only when no source has what is missing; a
  category from before the last accepted one never comes back, and the lists are about it;
* life of the process: everything is registered or a failure was seen, nothing is left registered,
  and pointers left in the queue by a dead process are met before anything else;
* strings, names, documents, archives: what comes out of splitting, sizing, decoding and archiving is
  what went in, and fits the memory meant for it.

## 2. The modules

| Module | Models |
|---|---|
| `RrdPending` | the operators of an ideal cache: `Push`, `Newest`, `Drop` |
| `RrdDispatch` | callbacks, queue, event thread, RDM and its callback, over `RrdPending` |
| `RrdCacheSpec` | the ideal cache as a specification: every call is one step |
| `RrdCache` | the linked list, its mutex, `malloc()` and `free()`; implements `RrdCacheSpec` |
| `RrdReport` | the step `CheckIssueNodeInfo` of `RrdDispatch` in detail: directory, commands, archive, lock, upload, clean-up |
| `RrdCategory` | the profile category: the two handlers, the variable and the file |
| `RrdService` | the process around all this: start, subscriptions, messages and their buffers, end, restart; extends `RrdCategory` |
| `RrdConfig` | `rrd_config_load()`: sources, order and override |
| `RrdTar` | `rrd_archive_create()`: headers, bodies, padding, and what a reader makes of them |
| `RrdIssueString` | the text of a request on its way to `processIssueType()` |
| `RrdNames` | the names written into memory sized by adding lengths |
| `RrdWebcfg` | decoding of a web configuration document and the framework's callbacks |
| `RrdInduction` | induction, recursive functions and the order of finite sets of numbers, for the proofs |
| `RrdDispatchProofs`, `RrdPlaceProofs` | proofs about `RrdPending` and `RrdDispatch` |
| `RrdCacheProofs`, `RrdReportProofs`, `RrdServiceProofs` | proofs about the module each is named after |
| `RrdStringProofs` | proofs about `RrdIssueString`, `RrdWebcfg` and `RrdNames` |
| `RrdUploadProofs` | proofs about `RrdConfig` and `RrdTar` |
| `MCRrdDispatch`, `MCRrdCache`, `MCRrdReport`, `MCRrdService`, `MCRrdHelpers` | instances for TLC |

`RrdDispatch` uses the ideal cache; `RrdCache` shows that the list is one. `RrdDispatch` takes a
report as one step that ends well or badly; `RrdReport` shows what happens inside it and, with
`EveryReportEnds`, why treating it as a step that ends is justified. Two steps of `RrdReport`, loading
the configuration and writing the archive, are `RrdConfig` and `RrdTar` in detail. `RrdService` is
the other view of `RrdDispatch`: there a message is what it asks for and the process lives for ever,
here it is a buffer somebody must free and the process may end between any two steps.

Operators whose comment starts with `Mutant:` are deliberate faults. They are not part of any
specification; each is swapped for the definition below it to see that a property notices.

### RrdDispatch

`req` is the history of what was asked for, and a request is known by its position in it; the
program has no such number, and it is what lets properties speak of "the same request" while it
is a queued string, a list in the framework, a token or a cache entry. `outcome` and `report` are
histories too.

| State | Code |
|---|---|
| `queue`, `QueueCap` | the System V queue and its `msg_qbytes` |
| `blobs` | documents accepted by the web configuration framework and not yet pushed |
| `pc`, `cur`, `idx` | the event thread: `rbuf`, and the loop over the comma separated list |
| `cache`, `stamp` | `cacheDataNode`, with the order of the list as a number |
| `jobs`, `events`, `installed` | RDM, as `rbus_set()` and the handlers see it (external) |
| `param` | the `IssueType` parameter, which `_rdmDownloadEventHandler()` reads back |
| `hpc`, `hent` | the RDM callback and its `cacheData` pointer |

One action is what a thread does between two points where another can interfere: `rbus_set()`
(`RdmAccepted`) and `append_item()` (`AppendItem`) are two actions, as are find, deliver and remove
in the callback; the file lookups of `processIssueType()` are one (`ProcessIssueType`), because
they change nothing. Which of the many branches of `processIssueType()` is taken is in the
`...Verdict` operators, one per function of the code. A profile is reduced to what they ask of it:
for each issue type, whether it is absent, has no command, or has commands that a sanity list
accepts or refuses, and whether the profile has a sanity list.

`RdmProgress` is RDM reporting on a job before its end, which `_rdmManagerEventHandler()` takes as a
failure; `AppendItemFails` is `createCache()` failing after RDM was asked; `RdmEventNoMemory` is the
failed allocation of the message that should bring a request back.

### RrdCache

Nodes are addresses; `next`, `prev` and `mdata` are arrays over them, `live` says which are
allocated, and `malloc()` may return any that are not, so that reuse of a freed address happens.
Each critical section is split into its pointer updates. `stamp` and `count` are auxiliary: they
give the refinement mapping the order of the list. `freecacheDataCacheNode()` runs after the
unlock, as in the code. `print_items()` only logs.

### RrdReport

The event thread makes one report after the other. Names are a category and a second. `dirs` and
`archives` are what is in `/tmp/rrd`, with the report that wrote each piece; `code` is how each
report ended, with the return codes of `rrd_upload_orchestrate()`. `lock` is the file lock of
the platform's log uploader, which another process takes and releases as it likes, possibly
never. `uploadstblogs_run()` is external: it takes the lock or fails, and sends or fails.

`liveLogs` in `RrdReport` is the report whose commands left `/tmp/rrd/RRD_LIVE_LOGS.tar.gz`;
`HandleLiveLogs` moves it into the directory of whichever `LOGUPLOAD_ENABLE` report comes next.

### RrdService and RrdCategory

`at` is where `main()`, `RRD_subscribe()` or `RRD_unsubscribe()` is, one value per library call, and
each call may fail; `registered` is what the bus libraries know, which is what decides which
callbacks can send. `build` is one of three: IARM, IARM with the power plugin (whose callback is
registered by a thread of its own, `power`), and rbus alone. `mem` says of every message whether its
buffer is allocated; `unlogged` holds the messages whose sender has not yet written the log line
behind `RRDMsgDeliver()`. `Down` is the end of the process: memory is lost, `queue` and `file` are
not, and `gen` tells the processes apart. Following a pointer of a dead process is undefined, and is
a choice between going on (`ReceiveDead`) and dying (`DieOfDead`).

`RrdCategory` splits `rrd_SetHandler()` where the process can die with a different file: the
variable is set, `open()` empties the file, `fprintf()` and `fclose()` fill it. `Load`, at start,
reads the file or fails to. `acked`, `since` and `mine` are histories of what callers gave and were
told, and `unkept` of whether closing or reading the file failed since.

### RrdConfig, RrdTar, RrdIssueString, RrdNames, RrdWebcfg

These parts run on one thread and share nothing, so what is hard about them is their data and what
the environment does meanwhile.

* `RrdConfig`: one step per source. A file is chosen when it is read and looked for each time the
  code looks for it, because others write `/opt/dcm.properties` and `/tmp/DCMSettings.conf` while
  the function runs. `given` is the history of what each source held, before any parsing,
  which `FailureIsReal` compares with the result; an absent file is one without lines.
* `RrdTar`: `stack` is the recursion of `archive_path_recursive()`, `stream` what it gave to
  `gzwrite()`. A byte is part of a header, a place in a file, or zero, and blocks are of `Block` bytes,
  so a shifted or cut archive is one that `Extract`, a reader of the format, reads differently. Files
  may change between `lstat()` and the end of reading.
* `RrdIssueString`: strings are sequences of characters of an alphabet with one character per class
  the code tells apart. `removeSpecialCharacterfromIssueTypeList()`, `issueTypeSplitter()`, the
  suffix, `checkAppendRequest()` and `getIssueInfo()` are translated as they are; the properties
  describe the result without following the algorithm.
* `RrdNames`: only lengths. A name is the memory allocated, the text meant and the text kept, and the
  constants (`PkgSuffix`, `JsonFile`, ...) are the lengths of the strings of the source.
* `RrdWebcfg`: a document is a list of entries, each the key the decoder looks for, a beginning of it
  or one that begins with it; using an entry that is missing or of another type is `"undefined"`. The
  strings of its array are sequences of characters, commas among them, and the two loops over the array
  (the size needed, then the copy) are two functions.

## 3. The runs

Deadlock is not checked in the dispatch, report, service and helpers runs: the number of requests,
processes and inputs is bounded, and when they are all settled the system rightly has nothing to do.
It is checked in `cache_list`, where a search is always possible.

| Run | Shows | Instance |
|---|---|---|
| `dispatch_iarm` | `TypeOK`, `ExactlyOnePlace`, `ReportedAtMostOnce`, `ModePreserved`, `AnsweredWhenInstalled`, `HeldEntryLive` for the IARM build | 3 requests, lists of up to 2, queue of 1, 2 downloads |
| `dispatch_rbus` | `ExactlyOnePlace` for the rbus handler | the same, with categories alone and a name that is too long |
| `dispatch_live` | `EventuallyHandled`, `ExactlyOnePlace` | 2 requests, 1 report of RDM on a job before its end |
| `cache_list` | `TypeOK`, `ListWellFormed`, `NoDanglingUse`, `ImplementsPromise`, `HandlerComesOut` | 3 addresses, 2 packages, 4 appends |
| `report` | `TypeOK`, `OwnOutput`, `LiveLogsOnce`, `UploadLeavesNothing`, `EveryReportEnds` | 3 reports of one category, 2 issue types, 2 attempts, 4 seconds |
| `service` | `ServiceTypeOK`, `NoOldCategory`, `ListsWhatWasSet`, `OpenBeforeUse`, `Hears`, `LogReadsLive`, `LeftoversFirst`, `StoppedQuiet` | 2 processes, 2 messages or values set, 6 category strings, 4 categories, 3 builds |
| `helpers` | `FailureIsReal`, `ValuesKept` (configuration); `GoodArchiveRestores`, `FailedArchiveTorn` (archive); `SplitIsExact`, `AskedAreSafe`, `MarkSurvivesCache`, `SlotsStored` (strings); `NamesFit`, `NamesWhole` (names); `ListRestored`, `DecodingDefined` (web configuration) | see below |
| `suffix_carried`, `append_survives`, `append_sanity`, `not_requested`, `report_cleanup` | each violates its one property, see section 5 | the smallest that does |

Why the bounds are enough to be interesting. A queue of one message blocks callbacks in most
states. Three requests and two downloads give two entries for one package, a list that waits in
the thread while an event is handled, and a request that arrives while another is fetched. Three
addresses give a node removed from the head, the middle and the end, and with four appends at
least one reuse of an address. Three reports of one category within four seconds give two that
want one directory, in either order of success and failure; two attempts give a lock that comes
free at the first look, in between, and never.

Two processes and two inputs are what `service` needs for a message of a dead process in front of one
of the living, two values set with a crash between any two steps of the second, and a buffer freed
before it is logged. The six category strings are two in another case, one with a second line (which
the file loses), a nested one, and the two that stand for all; the profile has a category called "All",
one that mixes issue types with and without commands, a flat one and a nested one. In `helpers`, blocks of 2 bytes and
files of 0 to 3 give empty, partial, full and more than one block; names fit, fill the field exactly,
or are refused; one change to a file at any moment suffices to shift everything behind it. All
requests of up to 5 characters have every arrangement of commas, dots and underscores around two
names. The lengths in `RrdNames` are those around `MaxProfile` (34) and below and above each other.
Property files assign nothing, one field, both, an empty value, or the build type; RFC answers with a
value, with "null" or not at all.

The bounds are `MaxReq`, `MaxList`, `MaxDownloads`, `MaxEvents`, `MaxPush`, `MaxReport`, `MaxTypes`,
`MaxTime`, `MaxGen`, `MaxInput`, `MaxSet`, `MaxText`, `MaxSize`, `MaxChange`, and the sets `PropertiesText`,
`DcmText`, `NameLens`, `ProfileLens`, `NodeLens`, `PartLens` and `Documents`. `QueueCap`, `MaxAttempts`, `Block`,
`NameField`, `MaxName`, `MaxSuffix` and `BaseLen` are parameters of the system, smaller than in the code.

### Fairness

* `RrdDispatch`: weak fairness of the event thread, the RDM callback, the framework's thread (the
  scheduler runs them all) and of RDM (it ends a job it accepted). The controller need not ask for
  anything. Weak fairness of a thread that is blocked on the full queue says nothing until there
  is room, so `EventuallyHandled` depends on the event thread's draining it. Reports of RDM on a
  job before its end (`RdmProgress`) have no fairness: RDM need not send any.
* `RrdCache`: each thread goes on with the call it is in, and the handler gets the mutex in the end
  if it is free again and again (strong fairness of `RemoveLock` only). A pthread mutex does not
  promise that against a thread that does nothing but lock and unlock it; here the event thread
  makes a bus call, and usually a report, between two appends.
* `RrdReport`: weak fairness of the event thread only, which includes that `uploadstblogs_run()`
  returns. The other uploader may keep the lock for ever.
* `RrdService` and the five parts of `helpers` have safety properties only and assume none.

## 4. What is proved

Each theorem holds for every value of the constants that satisfies the assumptions of its module,
thus for any profiles, packages, addresses, documents, lengths and for any bounds. The assumptions are
types, plus: `Null` and `NoName` differ from what they stand beside; `MaxGen` is not 0 (there is a
first process); `MaxTypes` is not 0; `AppendMark` is not empty and starts with an underscore; no letter or
digit is one of the characters with a meaning; entries of a document can be counted; a directory of a
report is a tree, whose entries are each in one directory and can all be reached from the root
(`archive_path_recursive()` follows no link); a block has at least one byte. TLC evaluates them in the
runs. The properties were checked by TLC before they were proved, and the inductive invariants of
dispatch, cache, report, service and configuration as well; those about strings, documents, names and
archives quantify over all strings or over layouts and were not.

| Module | Theorem | States |
|---|---|---|
| `RrdDispatchProofs` | `TypeCorrect`, `HeldEntryStaysLive`, `ModeIsPreserved`, `AnsweredOnlyWhenInstalled` | `TypeOK`, `HeldEntryLive`, `ModePreserved`, `AnsweredWhenInstalled` |
| `RrdPlaceProofs` | `NeitherLostNorDoubled`, `AtMostOneReport` | `ExactlyOnePlace`, `ReportedAtMostOnce` |
| `RrdCacheProofs` | `CacheTypeCorrect`, `ListStaysWellFormed`, `NothingDangles`, `ListImplementsCache` | `TypeOK`, `ListWellFormed`, `NoDanglingUse`, `ImplementsPromise` |
| `RrdReportProofs` | `ReportTypeCorrect`, `UploadsOwnOutput`, `LiveLogsSentOnce`, `NothingLeftBehind` | `TypeOK`, `OwnOutput`, `LiveLogsOnce`, `UploadLeavesNothing` |
| `RrdServiceProofs` | `ServiceTypeCorrect`, `RbusOpenBeforeUse`, `RunningHears`, `UnsubscribeQuiets`, `RequestsLoggedLive`, `DeadMetFirst`, `CategoryNeverReverts`, `GetListsWhatWasSet` | `ServiceTypeOK`, `OpenBeforeUse`, `Hears`, `StoppedQuiet`, `LogReadsLive`, `LeftoversFirst`, `NoOldCategory`, `ListsWhatWasSet` |
| `RrdStringProofs` | `SplitAlwaysExact`, `AskedAlwaysSafe`, `MarkAlwaysSurvives`, `SlotsAlwaysStored`, `MarkRoundTrip`, `SlotsSuffice` | `SplitIsExact`, `AskedAreSafe`, `MarkSurvivesCache`, `SlotsStored`; what two operators return |
| | `ListAlwaysRestored`, `DecodingIsDefined` | `ListRestored`, `DecodingDefined` |
| | `NamesAlwaysFit`, `NamesAlwaysWhole` | `NamesFit`, `NamesWhole` |
| `RrdUploadProofs` | `FailsOnlyForWant`, `NoValueIsLost` | `FailureIsReal`, `ValuesKept` |
| | `GoodAlwaysRestores`, `FailedAlwaysTorn` | `GoodArchiveRestores`, `FailedArchiveTorn` |

Every safety property that a passing run checks is thus also a theorem.

### The arguments

*Dispatch.* `TypeOK` and `HeldEntryLive` are not inductive: actions look up `req[...]` for tokens and
entries and `NextToken` moves an index. `TInv` adds that every token in the queue, in the framework's
hands and in the thread's list, and every cache entry, names a request that was made; that lists are
not empty and `idx` is inside the current one; and that stamps in the cache are below `stamp`, so that a
new entry differs from the one the callback holds. `MInv` adds for `ModePreserved` that all requests of
one message or document were made with the same flag, because `PushBlob` takes the flag of the first.
`AInv` adds for `AnsweredWhenInstalled` that a success event names an installed package and that a handler
about to deliver holds an entry of one; the theorem has the premise `IarmBus`, since the rbus handler
reads no status. That `Newest` is the entry with the largest stamp is shown first.

*One place for each request.* `ExactlyOnePlace` counts, which the prover does not like and which is not
inductive: a list that named a request twice would put it into two places at the next `NextToken`.
`PInv` says instead that no list names a request twice, that no two messages, documents or standing cache
entries name the same one (`QueueSole`, `BlobsSole`, `CacheSole`, `CurSole`), and that of the four kinds of
place an open request is in one and a settled one in none (`One`). A cache entry stands unless the
callback has already sent its message and is about to remove it, which is the one moment at which a
request seems to be in two places. That `PInv` implies the counted form is the last lemma. `RInv` says
for `ReportedAtMostOnce` that only a request settled as reported has a report, and then one.

*The list.* `CInv` says of the nodes in the list that following `next` passes all of them in the order of
their stamps and that `prev` leads back, with one exception in the middle of `append_item()`, when the old
head already points to a node that is not in the list (`Front`); that the node being appended is its
owner's alone (`OwnNode`); and that a search has passed no node of its package (`Walked`), which is what makes
its result the newest. `ListImplementsCache` maps the list to the set of its entries and the handler's
node to the entry held; every call is a step of `RrdCacheSpec` at the assignment that makes it visible
(the new head, the end of the walk, the unlinking) and a stutter elsewhere.

*Reports.* Names repeat, and reports that fail leave files. `UInv` therefore speaks of pieces and not of
names: the directory of the report at hand holds its own output and no other's (`OwnDir`), its output is
nowhere else (`NotElsewhere`), an archive being uploaded is what the directory holds (`Current`), and live
logs that wait or were taken are newer than all that were sent (`LiveOrder`). `OwnDir` rests on `mkdir()`
refusing a directory that exists.

*The process.* Three invariants. `LInv` says for each point of `RRD_subscribe()` and `RRD_unsubscribe()` what is
registered by then unless a call failed, for each build. `KInv` adds that the file is empty or holds a
value some caller gave, that without a failure it gives the acknowledged one back (`Kept`), that a process
has accepted none before it runs, and that from its loading on the category in memory is one that may be
set (`Effective`) and the last answer is about it (`Answered`); that the two functions which write the lists
do what `Lists` says is a lemma. `BInv` says that the queue is
ordered by the age of the senders' processes, which makes the first message of the living one the sign
that no older is left, and that buffers of requests are never freed.

*Configuration.* `FInv` says at every step which sources were gone through by then (`GoneThrough`), and that
whatever one of them held for the server or the link has left a value there (`LeavesValue`). The second is not a
matter of the parsers alone: RFC's link is passed over when there is one, and a later source may
overwrite, so it needs that no assignment is empty (`AssignTakes`).

*Names and documents.* Lengths do not change while names are built, so each action only has to show the
two facts of its own name. For documents, `WellFormedUsable` shows that a key that is exact and unique is
found by a search for a map whatever its entry's type is, which is why the decoder gets away with it.

*Induction over data.* The library's induction theorems take an operator as a parameter, which the provers
cannot instantiate. `RrdInduction` gets by without: a set `T` of numbers takes the place of the operator
(`InductionOnSet`, from the least number outside of `T`), a recursive function is given by the functions that
make its next value from the last (`RecursionOnSet` forwards, `BackwardsOnSet` towards the end of a string or a
file), and the order of the elements of a list is the rank of where they begin (`Rank`). What a definition
computes then follows in three steps: its function is the one `RrdInduction` speaks of, its values have a
type, and the set of places up to which it does what it should has no least number outside.

*Strings.* `SplitIsExact` compares a count made in advance and a walk along the list with the stretches
between commas. Each stretch is known by its beginning; the walk comes by the beginnings in order, so its
i-th stop has rank i, and the delimiters `CountTokens` counts are in front of all beginnings but the first.
For the others the loop that copies characters (`Kept`) is shown to give only characters of its set, and
no more than it was given. A base then has no underscore, so it cannot be mistaken for a marked one
(`MarkRoundTrip`), and every piece of it but the first follows a dot of its own (`SlotsSuffice`).

*Lists of documents.* `ElementsJoin` shows that the elements of two texts with a comma between them are those of
the one and then of the other, whatever commas they hold themselves. By induction along the array the
list has the elements of all its strings, and its length is what the first loop added up.

*Archives that failed.* Two blocks of zeros end an archive. `TornInv` says that until `EndArchive` writes both, no
two blocks of zeros follow each other at any place, on a block's boundary or not, and that the stream
ends with fewer zeros than a block has; padding is shorter than a block and is followed by a header. A reader that finds no end
anywhere ends with `"torn"`, by induction from the end of the file, and a piece cut off at the end by
`gzclose()` has no end either.

*Archives that are good.* `WalkInv` is about the tree: what is still to come in the calls on the stack, and
what was written, are apart and together hold the entries of every directory that was entered. When the stack
is empty, what was written is closed under going down, so it is the tree. `Sound` is about the bytes: the
entries written so far with the place behind each, where a header stands that says the size of the
file, and then as many bytes of it. `GoodInv` joins them for each step while nothing was disturbed.
`ReadAll` then reads the file from its end to its beginning, one entry for each place.

### Only model-checked

* Liveness: `EventuallyHandled`, `HandlerComesOut`, `EveryReportEnds`. Fairness is out of the prover's reach.
* The violations of section 5, which are behaviours and not theorems.

## 5. What was found

* `suffix_carried`: the suffix of a request does not survive a download, because the cache keeps
  only the issue string.
* `append_survives`: in append mode a request without command information (a category alone, for
  instance) leads to the use of a null pointer.
* `append_sanity`: in append mode a package without a sanity list is not judged by the static
  profile's list, as it is without append mode.
* `not_requested`: a completion that is handled between `rbus_set()` and `append_item()` is dropped,
  and its request waits for an event that has already come. `EventuallyHandled` holds because it
  accepts "waiting in the cache" as handled.
* `report_cleanup`: reports that fail before the upload leave their directory or a partial archive.

Some properties hold with an exception. The exception is what the code does:

* `NamesFit`: with a profile name, the terminator of the path of the deep sleep profile is written one
  byte behind its memory (`rrdDynamic.c:42`).
* `NamesWhole`: the name of a deep sleep issue is cut when its category and type differ in length
  (`rrdJsonParser.c:892`).
* `SlotsStored`: a name with a dot at one of its ends makes `getIssueInfo()` read a slot of its array
  that was never stored in.
* `LogReadsLive`: for web configuration and deep sleep completion the sender's log line may read a
  buffer that the event thread has already freed.
* `GoodArchiveRestores`: `rrd_archive_create()` returns 0 although a file changed its size while it was
  read, a name did not fit its field, a directory could not be opened, or closing lost data.
* `StoppedQuiet`: the thread of the power plugin may register its callback after `RRD_unsubscribe()`.
* `NoOldCategory`, `ListsWhatWasSet`: after a failed or interrupted save, or one whose `fclose()` failed
  unnoticed (`rrdInterface.c:74`), the next process may start with the default, and a value its caller was
  told is refused is in effect until then. A category with a line break in it is another one after a
  restart, when only its first line is read back.
* `DecodingDefined`: a document that lacks a key, has it with another type, or has one that is only
  like it is decoded through an entry that is missing or wrong.

On the order of the configuration's sources the documents disagree with the code, and with each other.
`RrdConfig` is what `rrd_config_load()` does, and its properties take no side:

* *Which builds are overridden.* `docs/uploadRRDLogs_LLD.md:288-297`, `docs/uploadRRDLogs_Flowcharts.md:104-106`,
  `docs/uploadRRDLogs_HLD.md:166` and `:636-638` and `docs/uploadRRDLogs_SequenceDiagrams.md:51` and `:295-303` say that
  `/opt/dcm.properties` overrides when `BUILD_TYPE == prod`. `rrd_config.c:111` tests for builds that are *not*
  `prod`, as `scripts/uploadRRDLogs.sh:77` does and `docs/uploadRRDLogs_Requirements.md:286` asks for ("Non-prod
  builds with /opt/dcm.properties override RFC").
* *What an override uses.* `docs/uploadRRDLogs_HLD.md:638` says "Use ONLY /opt/dcm.props". In the code the
  override keeps RFC and DCMSettings.conf from being read, but what the two files of the image gave stays,
  and when they gave both server and link `/opt/dcm.properties` is not read at all (`rrd_config.c:136`).
* *Which source wins.* `docs/uploadRRDLogs_Requirements.md:44-51` (FR-4) and `docs/uploadRRDLogs_HLD.md:165-168` rank
  RFC above DCMSettings.conf above dcm.properties, and `README.md:176` says "RFC values are preferred when
  available". In the code a later source overwrites: the link (and server) of DCMSettings.conf replace
  RFC's, a dcm.properties read for the sake of one missing field replaces the other too, and RFC's link is
  not even asked for when a file of the image gave one (`rrd_config.c:276`).

## 6. Not modelled

* In `RrdDispatch`: failed allocations other than of a cache entry and of the message that brings a
  request back. One RDM callback runs at a time, and either the IARM or the rbus handler is
  subscribed; the L2 test build subscribes both. The parameter is set together with its event.
* In `RrdReport`: removal of files the daemon made itself does not fail, archive names are coarsened
  to the category (which can only add collisions), time passes while commands run and between
  reports. The MAC address is found or not; the CPU priority of the archiver changes no state.
* In `RrdService`: `msgsnd()` blocking on a full queue, which is in `RrdDispatch`; the bus libraries
  deliver no callback after they unregistered it.
* What shell commands do, and the search of a sanity string inside a command, which is reduced to its
  answer.
* The base64, msgpack, cJSON and zlib libraries, RDM, and `uploadstblogs_run()`: external, modelled as
  the code uses them.
* The shell script that uploads in the build without IARM: the C orchestration replaces it step by
  step. `rrd_config_get_value()` and `rrd_config_cleanup()`, which nothing calls. The unit and
  functional tests, which were read for what the code is meant to do.

## 7. Plan

All parts of the plan are done: every component named in section 1 but the shell script and the tests
has a module, and every safety property of a passing run has a theorem. What could be added is the
refinement of the step `CheckIssueNodeInfo` of `RrdDispatch` by `RrdReport`, which today is an argument in
section 2.
