----------------------------- MODULE RrdWebcfg ------------------------------
(***************************************************************************)
(* decodeWebCfgData(): a web configuration document, decoded from base64   *)
(* and msgpack, becomes a comma separated list of issue types that the web *)
(* configuration framework hands back for pushIssueTypesToMsgQueue().      *)
(*                                                                         *)
(* The document is a sequence of entries.  A key is the name searched for, *)
(* a beginning of it ("shorter") or one that begins with it ("longer");    *)
(* what the decoder does when it uses an entry that is missing or of       *)
(* another type is undefined.                                              *)
(***************************************************************************)
EXTENDS Integers, Sequences, FiniteSets

CONSTANTS
  TextChar,    \* the characters of strings
  Documents,   \* bound: the documents of the instance
  NotString    \* an element of IssueType that is no string

\* Documents have entries [name, key, type], and the elements of the array
\* IssueType in the map behind "remotedebugger", if there is one.
ASSUME WebcfgAssumption ==
  \A d \in Documents :
    /\ Len(d.entries) \in Nat
    /\ \A i \in 1..Len(d.entries) :
         /\ d.entries[i].key \in {"exact", "shorter", "longer"}
         /\ d.entries[i].type \in {"map", "str", "uint"}
    /\ d.hasIssues \in BOOLEAN /\ Len(d.issues) \in Nat
    /\ \A i \in 1..Len(d.issues) : d.issues[i] = NotString \/ d.issues[i] \in Seq(TextChar)

VARIABLES
  document,     \* the document received
  decodeStep,
  commandList,  \* the list of the decoded document, and the bytes allocated
  resultLen,    \*   for it, less one
  pushed,       \* the lists given to pushIssueTypesToMsgQueue()
  reported,     \* what the framework is told
  returned,     \* what decodeWebCfgData() returns
  docs          \* remotedebuggerdoc_t structures that are allocated

webcfgVars == <<document, decodeStep, commandList, resultLen, pushed, reported, returned, docs>>

WebcfgInit ==
  /\ document \in Documents
  /\ decodeStep = "decode" /\ commandList = <<>> /\ resultLen = 0
  /\ pushed = <<>> /\ reported = "none" /\ returned = "none" /\ docs = 0
-----------------------------------------------------------------------------
\* Mutant: an entry of another type than the one expected is passed over.
FoundOfType(name, expected) ==
  {i \in 1..Len(document.entries) :
     LET e == document.entries[i]
     IN e.name = name /\ e.type = expected /\ e.key # "longer"}

\* __finder(): the key of an entry of the expected type may be a beginning of
\* the name, that of any other entry may begin with it.
Found(name, expected) ==
  {i \in 1..Len(document.entries) :
     LET e == document.entries[i]
     IN e.name = name /\ e.key # (IF e.type = expected THEN "longer" ELSE "shorter")}

Finder(name, expected) ==
  LET f == Found(name, expected)
  IN IF f = {} THEN 0 ELSE CHOOSE i \in f : \A j \in f : i <= j

\* The wrapper, then the three keys beside it, all searched for as maps.
Inner == Finder("remotedebugger", "map")
Beside == {Finder(n, "map") : n \in {"subdoc_name", "version", "transaction_id"}}

Shorter(a, b) == IF a < b THEN a ELSE b

\* getReqTotalSizeOfIssueTypesStr(): the strings, and a comma for each element.
ReqTotalSize(arr) ==
  LET size[i \in 0..Len(arr)] ==
        IF i = 0 THEN 0
        ELSE IF arr[i] = NotString THEN size[i - 1] ELSE size[i - 1] + Len(arr[i])
  IN size[Len(arr)] + Len(arr) + 1

\* Mutant: the element before the last gets no comma either.
JoinOffByOne(arr) ==
  LET list[i \in 0..Len(arr)] ==
        IF i = 0 THEN <<>>
        ELSE IF arr[i] = NotString THEN list[i - 1]
        ELSE list[i - 1] \o (arr[i] \o (IF i < Len(arr) - 1 THEN <<",">> ELSE <<>>))
  IN list[Len(arr)]

\* The strings of the array, a comma after each but the last element.
Join(arr) ==
  LET list[i \in 0..Len(arr)] ==
        IF i = 0 THEN <<>>
        ELSE IF arr[i] = NotString THEN list[i - 1]
        ELSE list[i - 1] \o (arr[i] \o (IF i < Len(arr) THEN <<",">> ELSE <<>>))
  IN list[Len(arr)]
-----------------------------------------------------------------------------
\* base64 or msgpack decoding fails, or memory: nothing is kept.
DecodeFails ==
  /\ decodeStep = "decode"
  /\ returned' = "-1" /\ decodeStep' = "done"
  /\ UNCHANGED <<document, commandList, resultLen, pushed, reported, docs>>

\* helper_convert(): the wrapper is optional; without it the result is an
\* empty document.
ConvertEmpty ==
  /\ decodeStep = "decode" /\ Inner = 0
  /\ docs' = docs + 1
  /\ decodeStep' = "exec"
  /\ UNCHANGED <<document, commandList, resultLen, pushed, reported, returned>>

\* process_remotedebuggerdoc() uses the entries without looking at them.
Usable ==
  /\ document.entries[Inner].type = "map"
  /\ 0 \notin Beside
  /\ document.entries[Finder("subdoc_name", "map")].type = "str"

ConvertUndefined ==
  /\ decodeStep = "decode" /\ Inner # 0 /\ ~Usable
  /\ decodeStep' = "undefined"
  /\ UNCHANGED <<document, commandList, resultLen, pushed, reported, returned, docs>>

Convert ==
  /\ decodeStep = "decode" /\ Inner # 0 /\ Usable /\ document.hasIssues
  /\ resultLen' = ReqTotalSize(document.issues)
  /\ commandList' = Join(document.issues)
  /\ docs' = docs + 1
  /\ decodeStep' = "exec"
  /\ UNCHANGED <<document, pushed, reported, returned>>

\* No array of issue types, or no memory: the document is destroyed.
ConvertFails ==
  /\ decodeStep = "decode" /\ Inner # 0 /\ Usable
  /\ returned' = "-1" /\ decodeStep' = "done"
  /\ UNCHANGED <<document, commandList, resultLen, pushed, reported, docs>>

\* PushBlobRequest(), or no memory for the request.
PushRequest ==
  /\ decodeStep = "exec"
  /\ returned' = "0" /\ decodeStep' = "framework"
  /\ UNCHANGED <<document, commandList, resultLen, pushed, reported, docs>>

ExecDataFails ==
  /\ decodeStep = "exec"
  /\ docs' = docs - 1
  /\ returned' = "-1" /\ decodeStep' = "done"
  /\ UNCHANGED <<document, commandList, resultLen, pushed, reported>>

\* Process_RemoteDebugger_WebConfigRequest() on the framework's thread: a
\* copy of the list goes to the queue, an empty document is a failure.
ProcessRequest ==
  /\ decodeStep = "framework"
  /\ IF Inner # 0
     THEN /\ pushed' = Append(pushed, SubSeq(commandList, 1, Shorter(Len(commandList), resultLen)))
          /\ reported' = "BLOB_EXEC_SUCCESS"
     ELSE /\ reported' = "SYSCFG_FAILURE"
          /\ UNCHANGED pushed
  /\ decodeStep' = "free"
  /\ UNCHANGED <<document, commandList, resultLen, returned, docs>>

\* No memory for the copy, which is reported as success, or for the report.
ProcessRequestFails ==
  /\ decodeStep = "framework"
  /\ reported' \in (IF Inner # 0 THEN {"BLOB_EXEC_SUCCESS", "none"} ELSE {"none"})
  /\ decodeStep' = "free"
  /\ UNCHANGED <<document, commandList, resultLen, pushed, returned, docs>>

\* FreeResources_RemoteDebugger().
FreeRequest ==
  /\ decodeStep = "free"
  /\ docs' = docs - 1
  /\ decodeStep' = "done"
  /\ UNCHANGED <<document, commandList, resultLen, pushed, reported, returned>>

WebcfgNext ==
  \/ DecodeFails \/ ConvertEmpty \/ ConvertUndefined \/ Convert \/ ConvertFails
  \/ PushRequest \/ ExecDataFails \/ ProcessRequest \/ ProcessRequestFails
  \/ FreeRequest

WebcfgSpec == WebcfgInit /\ [][WebcfgNext]_webcfgVars
-----------------------------------------------------------------------------
\* The elements a comma separated list has for issueTypeSplitter().
Elements(s) ==
  LET start == {k \in 1..Len(s) : s[k] # "," /\ (k = 1 \/ s[k - 1] = ",")}
      end(k) == CHOOSE j \in k..Len(s) :
                  (j < Len(s) => s[j + 1] = ",") /\ \A l \in k..j : s[l] # ","
  IN [i \in 1..Cardinality(start) |->
        LET k == CHOOSE k \in start : Cardinality({j \in start : j < k}) = i - 1
        IN SubSeq(s, k, end(k))]

\* The elements of the strings of an array, one string after the other.
Wanted(arr) ==
  LET wanted[i \in 0..Len(arr)] ==
        IF i = 0 THEN <<>>
        ELSE IF arr[i] = NotString THEN wanted[i - 1] ELSE wanted[i - 1] \o Elements(arr[i])
  IN wanted[Len(arr)]

\* What the event thread makes of the queued list is what the document asked
\* for: its strings that are not empty, in their order, each once, and one
\* that is a list itself as its elements.  No two strings run together, and
\* elements of other types leave neither an issue type nor an empty one
\* behind.  The list fits the memory whose size
\* getReqTotalSizeOfIssueTypesStr() works out beforehand, so its copy is whole.
ListRestored ==
  /\ Len(commandList) <= resultLen
  /\ \A i \in 1..Len(pushed) : Elements(pushed[i]) = Wanted(document.issues)

\* Has the wrapper and the three keys beside it, once and with their types,
\* and no key that is only like one of them.
WellFormed(d) ==
  /\ \A i \in 1..Len(d.entries) : d.entries[i].key = "exact"
  /\ \A k \in {<<"remotedebugger", "map">>, <<"subdoc_name", "str">>, <<"version", "uint">>,
               <<"transaction_id", "uint">>} :
       \E i \in 1..Len(d.entries) : d.entries[i].name = k[1] /\ d.entries[i].type = k[2]
  /\ \A i, j \in 1..Len(d.entries) : d.entries[i].name = d.entries[j].name => i = j

\* A well formed document is decoded without using an entry that is missing
\* or of another type, although the decoder checks neither and searches for
\* every key as for a map.  One without a wrapper reaches the framework as a
\* failure and pushes nothing, although decodeWebCfgData() returned success.
\* Whatever fails, the decoded document is freed exactly once, by the decoder
\* or by the framework.
DecodingDefined ==
  /\ WellFormed(document) => decodeStep # "undefined"
  /\ reported = "SYSCFG_FAILURE" => returned = "0" /\ pushed = <<>>
  /\ docs = IF decodeStep \in {"exec", "framework", "free"} THEN 1 ELSE 0
=============================================================================
