--------------------------- MODULE RrdIssueString ---------------------------
(***************************************************************************)
(* From the string of a request to the issue types it asks for: the append *)
(* mark at its end (checkAppendRequest), the list it holds                 *)
(* (issueTypeSplitter), and of each element the base and the suffix        *)
(* (split_issue_type), the characters that are kept, and the node and the  *)
(* sub-node of the profile it names (getIssueInfo).                        *)
(*                                                                         *)
(* A string is a sequence of characters, without its terminator.           *)
(***************************************************************************)
EXTENDS Integers, Sequences, FiniteSets, SequencesExt

CONSTANTS
  Alnum,       \* the letters and digits of the instance
  Other,       \* characters that are neither these nor one of ,._-
  AppendMark,  \* APPEND_SUFFIX, "_apnd"
  MaxSuffix,   \* RRD_MAX_SUFFIX_LEN (9)
  BaseLen,     \* bytes of the buffer of a base (128)
  MaxText      \* bound: characters in a request

Char == Alnum \union Other \union {",", ".", "_", "-"}

ASSUME StringAssumption ==
  /\ MaxSuffix \in Nat /\ BaseLen \in Nat \ {0} /\ MaxText \in Nat
  /\ AppendMark \in Seq(Char) \ {<<>>} /\ Head(AppendMark) = "_"
  /\ Alnum \intersect {",", ".", "_", "-", "?"} = {}

VARIABLES
  text,        \* mdata of the message
  stage,       \* "mark", "split", "tokens" or "processed"
  appendMode,  \* of the message
  cmdMap,      \* the elements of the list
  index,       \* the next of them
  asked        \* the issue types handed to processIssueType()

stringVars == <<text, stage, appendMode, cmdMap, index, asked>>

StringInit ==
  /\ text \in BoundedSeq(Char, MaxText)
  /\ stage = "mark" /\ appendMode = FALSE
  /\ cmdMap = <<>> /\ index = 1 /\ asked = <<>>
-----------------------------------------------------------------------------
\* Mutant: all but the first character of the mark is compared and removed.
StripMarkShort(s) ==
  LET n == Len(AppendMark) - 1
  IN IF Len(s) >= n /\ SubSeq(s, Len(s) - n + 1, Len(s)) = Tail(AppendMark)
     THEN [marked |-> TRUE, rest |-> SubSeq(s, 1, Len(s) - n)]
     ELSE [marked |-> FALSE, rest |-> s]

\* checkAppendRequest(): a mark at the very end is removed and reported.
StripMark(s) ==
  LET n == Len(AppendMark)
  IN IF Len(s) >= n /\ SubSeq(s, Len(s) - n + 1, Len(s)) = AppendMark
     THEN [marked |-> TRUE, rest |-> SubSeq(s, 1, Len(s) - n)]
     ELSE [marked |-> FALSE, rest |-> s]

\* The first position from i on that holds no d, and the first that holds
\* one; one past the end if there is none.
SkipDelims(s, d, i) ==
  CHOOSE j \in i..(Len(s) + 1) :
    (j <= Len(s) => s[j] # d) /\ \A k \in i..(j - 1) : s[k] = d
TokenEnd(s, d, i) ==
  CHOOSE j \in i..(Len(s) + 1) :
    (j <= Len(s) => s[j] = d) /\ \A k \in i..(j - 1) : s[k] # d

\* The number of elements, counted before any is copied: one more than the
\* delimiters after the first element's first character that another element
\* follows.
CountTokens(s) ==
  LET start == SkipDelims(s, ",", 1)
  IN 1 + Cardinality({k \in (start + 1)..(Len(s) - 1) : s[k] = "," /\ s[k + 1] # ","})

\* Mutant: a delimiter at the end of the string is counted as well.
CountTokensTrailing(s) ==
  LET start == SkipDelims(s, ",", 1)
  IN 1 + Cardinality({k \in (start + 1)..Len(s) : s[k] = "," /\ (k < Len(s) => s[k + 1] # ",")})

\* Mutant: as many elements as that count says.
IssueTypeSplitterTrailing(s) ==
  LET from[i \in 1..CountTokensTrailing(s)] ==
        IF i = 1 THEN SkipDelims(s, ",", 1)
        ELSE SkipDelims(s, ",", TokenEnd(s, ",", from[i - 1]))
  IN [i \in 1..CountTokensTrailing(s) |-> SubSeq(s, from[i], TokenEnd(s, ",", from[i]) - 1)]

IssueTypeSplitter(s) ==
  LET from[i \in 1..CountTokens(s)] ==
        IF i = 1 THEN SkipDelims(s, ",", 1)
        ELSE SkipDelims(s, ",", TokenEnd(s, ",", from[i - 1]))
  IN [i \in 1..CountTokens(s) |-> SubSeq(s, from[i], TokenEnd(s, ",", from[i]) - 1)]

\* The characters of s that are in C, copied one by one.
Kept(s, C) ==
  LET kept[i \in 0..Len(s)] ==
        IF i = 0 THEN <<>>
        ELSE IF s[i] \in C THEN Append(kept[i - 1], s[i]) ELSE kept[i - 1]
  IN kept[Len(s)]

Smaller(a, b) == IF a < b THEN a ELSE b

\* split_issue_type(): the text before the first underscore, as much as the
\* buffer takes, and the rest, if it is short, without unsafe characters.
BaseOf(s) == SubSeq(s, 1, Smaller(TokenEnd(s, "_", 1), BaseLen) - 1)
SuffixOf(s) ==
  LET rest == SubSeq(s, TokenEnd(s, "_", 1), Len(s))
  IN IF Len(rest) <= MaxSuffix THEN Kept(rest, Alnum \union {"_", "-"}) ELSE <<>>

\* removeSpecialCharacterfromIssueTypeList().
Sanitized(s) == Kept(s, Alnum \union {",", "."})

\* getIssueInfo(): an array of one slot more than there are dots gets what
\* strtok() finds between them; the first slot is read, and the second when
\* there is a dot.  A slot nothing was stored in holds anything.
GetParamcount(s) == Cardinality({k \in 1..Len(s) : s[k] = "."})

\* The pieces of s between dots, as strtok() returns them.
StrtokDots(s) ==
  LET start == {k \in 1..Len(s) : s[k] # "." /\ (k = 1 \/ s[k - 1] = ".")}
  IN [i \in 1..Cardinality(start) |->
        LET k == CHOOSE k \in start : Cardinality({j \in start : j < k}) = i - 1
        IN SubSeq(s, k, TokenEnd(s, ".", k) - 1)]

\* Mutant: the slot after the last is not counted.
ArraySizeShort(s) == GetParamcount(s)

ArraySize(s) == GetParamcount(s) + 1

Slot(s, i) == IF i <= Len(StrtokDots(s)) THEN StrtokDots(s)[i] ELSE <<"?">>
IssueInfo(s) ==
  [node |-> Slot(s, 1), subNode |-> IF GetParamcount(s) = 0 THEN <<>> ELSE Slot(s, 2)]
-----------------------------------------------------------------------------
\* The callback takes the mark off before it queues the message.
TakeMark ==
  /\ stage = "mark"
  /\ appendMode' = StripMark(text).marked
  /\ text' = StripMark(text).rest
  /\ stage' = "split"
  /\ UNCHANGED <<cmdMap, index, asked>>

\* processIssueTypeEvent() on the event thread.
SplitList ==
  /\ stage = "split"
  /\ cmdMap' = IssueTypeSplitter(text)
  /\ stage' = "tokens"
  /\ UNCHANGED <<text, appendMode, index, asked>>

\* Mutant: the emptiness of the base is tested before it is sanitized only.
ProcessTokenUnchecked ==
  /\ stage = "tokens" /\ index <= Len(cmdMap)
  /\ asked' = IF BaseOf(cmdMap[index]) = <<>> THEN asked
              ELSE Append(asked, [base |-> Sanitized(BaseOf(cmdMap[index])),
                                  suffix |-> SuffixOf(cmdMap[index]), at |-> index])
  /\ index' = index + 1
  /\ UNCHANGED <<text, stage, appendMode, cmdMap>>

\* An element whose base is empty, also once it is sanitized, is skipped.
ProcessToken ==
  /\ stage = "tokens" /\ index <= Len(cmdMap)
  /\ LET base == Sanitized(BaseOf(cmdMap[index]))
     IN asked' = IF base = <<>> THEN asked
                 ELSE Append(asked, [base |-> base, suffix |-> SuffixOf(cmdMap[index]),
                                     at |-> index])
  /\ index' = index + 1
  /\ UNCHANGED <<text, stage, appendMode, cmdMap>>

ListProcessed ==
  /\ stage = "tokens" /\ index > Len(cmdMap)
  /\ stage' = "processed"
  /\ UNCHANGED <<text, appendMode, cmdMap, index, asked>>

StringNext == TakeMark \/ SplitList \/ ProcessToken \/ ListProcessed

StringSpec == StringInit /\ [][StringNext]_stringVars
-----------------------------------------------------------------------------
\* The intervals of s without a comma that nothing without a comma surrounds.
Run(s) ==
  {r \in (1..Len(s)) \X (1..Len(s)) :
     /\ r[1] <= r[2] /\ \A k \in r[1]..r[2] : s[k] # ","
     /\ r[1] > 1 => s[r[1] - 1] = ","
     /\ r[2] < Len(s) => s[r[2] + 1] = ","}

\* issueTypeSplitter(), which counts first and copies afterwards, finds
\* exactly the stretches between commas, in their order: no element is lost
\* or made up by commas at the ends or in a row.  Of a list of commas only it
\* makes one empty element.
SplitIsExact ==
  stage \in {"tokens", "processed"} =>
    IF Run(text) = {} THEN cmdMap = <<<<>>>>
    ELSE /\ Len(cmdMap) = Cardinality(Run(text))
         /\ \A r \in Run(text) :
              cmdMap[Cardinality({q \in Run(text) : q[1] <= r[1]})] = SubSeq(text, r[1], r[2])

\* What reaches processIssueType() names something and is harmless in a path
\* or a command: a base of letters, digits and dots, not empty, and a suffix
\* that is empty or a short word behind an underscore.
AskedAreSafe ==
  \A i \in 1..Len(asked) :
    /\ asked[i].base # <<>> /\ Len(asked[i].base) < BaseLen
    /\ ToSet(asked[i].base) \subseteq Alnum \union {"."}
    /\ asked[i].suffix # <<>> =>
         /\ Head(asked[i].suffix) = "_" /\ Len(asked[i].suffix) <= MaxSuffix
         /\ ToSet(asked[i].suffix) \subseteq Alnum \union {"_", "-"}

\* The append mark survives the pending cache.  A download stores the base,
\* with the mark behind it in append mode only, and the callback that takes
\* it out again asks checkAppendRequest(): it gets the base back as it was
\* and the mode of the request, for no base can be mistaken for a marked one.
MarkSurvivesCache ==
  \A i \in 1..Len(asked) :
    LET stored == IF appendMode THEN asked[i].base \o AppendMark ELSE asked[i].base
    IN StripMark(stored) = [marked |-> appendMode, rest |-> asked[i].base]

\* getIssueInfo() never stores beyond its array, and reads only slots that
\* were stored in, except that for a base with a dot at one of its ends the
\* sub-node, and for one of dots only the node too, is an uninitialized
\* pointer.
SlotsStored ==
  \A i \in 1..Len(asked) :
    LET s == asked[i].base
    IN /\ Len(StrtokDots(s)) <= ArraySize(s)
       /\ IssueInfo(s).node = <<"?">> => ToSet(s) = {"."}
       /\ IssueInfo(s).subNode = <<"?">> => Head(s) = "." \/ Last(s) = "."
=============================================================================
