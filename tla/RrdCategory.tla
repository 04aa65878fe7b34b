---------------------------- MODULE RrdCategory -----------------------------
(***************************************************************************)
(* The two data elements of the profile: setting the category whose issue  *)
(* types are listed, which is kept in memory and in a file under /tmp, and *)
(* getting the list.  RrdService starts and kills the process around it.   *)
(*                                                                         *)
(* rbus calls one handler of a component at a time.                        *)
(***************************************************************************)
EXTENDS Integers

CONSTANTS
  Category,    \* bound: the strings a category is set to, "all" and "" among them
  FirstLine,   \* each of them up to a newline: what is read back from the file
  Profile,     \* the categories of the profile: of each issue type, whether it
               \*   has commands or only more entries below it
  KeyOf,       \* the category of the profile each string names, in any case
  NoKey,       \* or none
  Nothing,     \* no value
  MaxSet       \* bound: values set in a behaviour

ASSUME CategoryAssumption ==
  /\ {"all", ""} \subseteq Category /\ Nothing \notin Category
  /\ FirstLine \in [Category -> Category] /\ FirstLine["all"] = "all"
  /\ KeyOf \in [Category -> DOMAIN Profile \union {NoKey}]
  /\ \A k \in DOMAIN Profile : Profile[k] \in [DOMAIN Profile[k] -> BOOLEAN]
  /\ MaxSet \in Nat

VARIABLES
  category,  \* RRDProfileCategory
  file,      \* the lines of the file; none when it is absent or empty
  setter,    \* where rrd_SetHandler() is
  acked,     \* history: the last value a caller was told is set,
  since,     \*   the values given after it,
  unkept,    \*   whether closing or reading the file failed since then,
  mine,      \*   the last value this process accepted,
  sets,      \*   and how many were given
  answer     \* what the last rrd_GetHandler() returned

categoryVars == <<category, file, setter, acked, since, unkept, mine, sets, answer>>
historyVars == <<acked, since, unkept, mine, sets>>

CategoryInit ==
  /\ category = "all" /\ file = <<>> /\ setter = "idle"
  /\ acked = "all" /\ since = {} /\ unkept = FALSE /\ mine = Nothing /\ sets = 0
  /\ answer = Nothing
-----------------------------------------------------------------------------
\* load_profile_category(): the first line; "all" if there is none, or the
\* file cannot be read.
Loaded == IF file = <<>> THEN "all" ELSE FirstLine[file[1]]

\* Mutant: without its early return the default replaces what was read.
LoadFallsThrough ==
  /\ category' = "all"
  /\ UNCHANGED <<file, setter, historyVars, answer>>

Load ==
  /\ \/ category' = Loaded /\ UNCHANGED unkept
     \/ category' = "all" /\ unkept' = TRUE
  /\ UNCHANGED <<file, setter, acked, since, mine, sets, answer>>

\* rrd_SetHandler(): the name, the type or the length is wrong.
SetRefused ==
  /\ setter = "idle"
  /\ UNCHANGED categoryVars

\* The category is changed in memory first ...
SetMemory(c) ==
  /\ setter = "idle"
  /\ sets < MaxSet
  /\ sets' = sets + 1
  /\ category' = c /\ mine' = c /\ since' = since \union {c}
  /\ setter' = "save"
  /\ answer' = Nothing
  /\ UNCHANGED <<file, acked, unkept>>

\* The value is acknowledged, or the caller gets an error.
Acknowledge == acked' = category /\ since' = {} /\ setter' = "idle"
SetError == setter' = "idle" /\ UNCHANGED <<acked, since, unkept>>

\* Mutant: save_profile_category() starts from success.
SaveOpenFailsQuietly ==
  /\ setter = "save"
  /\ Acknowledge
  /\ UNCHANGED <<category, file, unkept, mine, sets, answer>>

\* ... then save_profile_category() opens the file, which empties it, ...
SaveOpenFails ==
  /\ setter = "save"
  /\ SetError
  /\ UNCHANGED <<category, file, mine, sets, answer>>

SaveOpen ==
  /\ setter = "save"
  /\ file' = <<>>
  /\ setter' = "write"
  /\ UNCHANGED <<category, historyVars, answer>>

SaveWriteFails ==
  /\ setter = "write"
  /\ SetError
  /\ UNCHANGED <<category, file, mine, sets, answer>>

\* ... and writes the line.  What is written reaches the file when it is
\* closed, which may fail unnoticed.
SaveWrite(closed) ==
  /\ setter = "write"
  /\ file' = IF closed THEN <<category>> ELSE <<>>
  /\ Acknowledge
  /\ unkept' = ~closed
  /\ UNCHANGED <<category, mine, sets, answer>>
-----------------------------------------------------------------------------
\* has_direct_commands(): one issue type with commands is enough.
HasDirectCommands(k) == \E t \in DOMAIN Profile[k] : Profile[k][t]

IssueTypes(k) == DOMAIN Profile[k]

\* get_all_categories_json(): each category with commands of its own, and its
\* issue types.
AllCategories ==
  [k \in {l \in DOMAIN Profile : HasDirectCommands(l) /\ IssueTypes(l) # {}} |-> IssueTypes(k)]

\* get_specific_category_json(): an unknown category stands for all, a nested
\* one has no issue types.
SpecificCategory(c) ==
  IF KeyOf[c] = NoKey THEN [all |-> AllCategories]
  ELSE [one |-> IF HasDirectCommands(KeyOf[c]) THEN IssueTypes(KeyOf[c]) ELSE {}]

\* read_profile_json_file(): the profile cannot be read or has a wrong size,
\* or it is no JSON.
ProfileUnread == answer' = Nothing

\* rrd_GetHandler().
Get ==
  /\ setter = "idle"
  /\ \/ answer' = IF category \in {"", "all"} THEN [all |-> AllCategories]
                  ELSE SpecificCategory(category)
     \/ ProfileUnread
  /\ UNCHANGED <<category, file, setter, historyVars>>

\* The process dies: the memory is gone, the file and what callers were told
\* are not.
CategoryLost ==
  /\ category' = "all" /\ setter' = "idle" /\ mine' = Nothing /\ answer' = Nothing
  /\ UNCHANGED <<file, acked, since, unkept, sets>>

SetHandler ==
  \/ SetRefused \/ SaveOpenFails \/ SaveOpen \/ SaveWriteFails
  \/ \E c \in Category : SetMemory(c)
  \/ \E closed \in BOOLEAN : SaveWrite(closed)
-----------------------------------------------------------------------------
\* A category never comes back from before the last one that was set: not by
\* a failed save, a crash in the middle of one or a restart.  What is in
\* effect is the last value a caller was told is set, one given after it,
\* the first line of one of these, or the default; and a value this process
\* accepted is in effect until the next one, also when its caller got an
\* error because it could not be saved: loading at the start never replaces
\* it.
NoOldCategory ==
  LET given == {acked} \union since
  IN /\ category \in given \union {FirstLine[c] : c \in given} \union {"all"}
     /\ mine # Nothing => category = mine

\* What a reader of the profile expects to see for c: "" and "all" stand for
\* every category, whatever the profile calls its own, and so does a name the
\* profile has not; of a category some of whose issue types have commands, all
\* of them; of any other, none.
Lists(a, c) ==
  LET direct == {k \in DOMAIN Profile : TRUE \in {Profile[k][t] : t \in DOMAIN Profile[k]}}
  IN IF c \in {"", "all"} \/ KeyOf[c] = NoKey
     THEN a = [all |-> [k \in direct |-> DOMAIN Profile[k]]]
     ELSE a = [one |-> {t \in DOMAIN Profile[KeyOf[c]] : KeyOf[c] \in direct}]

\* The values a caller of rrd_GetHandler() may hold to be set: the last one
\* this process accepted; if it accepted none, the first line of the last one
\* that was acknowledged, by whichever process; and only if a set failed after
\* that one, or closing or reading its file did, another.
MaybeSet ==
  LET given == {acked} \union since
  IN CASE mine # Nothing -> {mine}
       [] mine = Nothing /\ since = {} /\ ~unkept -> {FirstLine[acked]}
       [] OTHER -> given \union {FirstLine[c] : c \in given} \union {"all"}

\* A value that was set is what the list is about, also after a restart: every
\* answer lists one of the values that may be set.
ListsWhatWasSet == answer # Nothing => \E c \in MaybeSet : Lists(answer, c)
=============================================================================
