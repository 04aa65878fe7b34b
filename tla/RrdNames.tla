------------------------------ MODULE RrdNames ------------------------------
(***************************************************************************)
(* The names rrdDynamic.c and rrdJsonParser.c write into memory whose size *)
(* they add up from the lengths of the parts.  Only lengths are modelled:  *)
(* of the memory, of the text meant, and of what the calls write of it.    *)
(***************************************************************************)
EXTENDS Integers

CONSTANTS
  ProfileLens,  \* bound: the lengths of the profile name, 0 for no profile
  NodeLens,     \* bound: of the node of an issue
  PartLens      \* bound: of the category and of the type in a deep sleep profile

\* RRD_MEDIA_APPS, RDM_PKG_PREFIX, RDM_PKG_SUFFIX, DEEP_SLEEP_STR, RRD_JSON_FILE
\* and RFC_DELIM by their lengths, and RRD_DYNAMIC_PROFILE_MAX_LENGTH.
MediaApps == 12
PkgPrefix == 8
PkgSuffix == 4
DeepSleepStr == 9
JsonFile == 29
Delim == 1
MaxProfile == 34

ASSUME NamesAssumption ==
  ProfileLens \subseteq Nat /\ NodeLens \subseteq Nat /\ PartLens \subseteq Nat

VARIABLES
  profileLen, nodeLen,   \* the lengths on this device and of this issue
  categoryLen, typeLen,
  names                  \* the names built so far

lenVars == <<profileLen, nodeLen, categoryLen, typeLen>>
namesVars == <<lenVars, names>>

\* The profile name is that of the device if RRD_DEVICE_PROFILE lists it, else
\* empty.
NamesInit ==
  /\ profileLen \in ProfileLens /\ nodeLen \in NodeLens
  /\ categoryLen \in PartLens /\ typeLen \in PartLens
  /\ names = {}

Least(a, b) == IF a < b THEN a ELSE b

\* Name n: meant characters, of which kept are written, into size bytes.
Build(n, size, meant, kept) ==
  /\ \A x \in names : x.name # n
  /\ names' = names \union {[name |-> n, size |-> size, meant |-> meant, kept |-> kept]}
  /\ UNCHANGED lenVars

\* snprintf() with a limit keeps one byte for the terminator.
Printed(meant, limit) == Least(meant, limit - 1)

\* "-" between the profile name and what follows it, if there is a profile.
Dash == IF profileLen > 0 THEN 1 ELSE 0
-----------------------------------------------------------------------------
\* Mutant: the separator is left out of the limit as it is of the size.
DeepSleepLimitUnpatched(size) == size

\* With a profile the limit is one more than was allocated.
DeepSleepLimit(size) == size + Dash

\* RRDProcessDeepSleepAwakeEvents(): where the profile of the package will be.
BuildDeepSleepPath ==
  LET size == MediaApps + PkgPrefix + DeepSleepStr + profileLen + JsonFile + 1
      meant == MediaApps + PkgPrefix + profileLen + Dash + DeepSleepStr + JsonFile
  IN Build("dynJSONPath", size, meant, Printed(meant, DeepSleepLimit(size)))

\* RRDGetProfileStringLength(): the bytes of the package name; -1 refuses.
ProfileStringLength(deepSleep) ==
  IF nodeLen > MaxProfile THEN -1
  ELSE (IF deepSleep THEN PkgPrefix + profileLen + PkgSuffix + DeepSleepStr + Dash
        ELSE PkgPrefix + nodeLen + PkgSuffix) + 1

\* RRDRdmManagerDownloadRequest(): the package asked for ...
BuildParamString(deepSleep) ==
  LET size == ProfileStringLength(deepSleep)
      meant == IF deepSleep
               THEN PkgPrefix + profileLen + Dash + DeepSleepStr + PkgSuffix
               ELSE PkgPrefix + nodeLen + PkgSuffix
  IN /\ size > 0
     /\ Build(IF deepSleep THEN "deepParamString" ELSE "paramString", size, meant, Printed(meant, size))

\* ... and its name in the cache, which is the same without the version.
BuildMsgData(deepSleep) ==
  LET long == PkgPrefix + DeepSleepStr + PkgSuffix + profileLen + Dash
      short == PkgPrefix + nodeLen + 1
  IN /\ ProfileStringLength(deepSleep) > 0
     /\ IF deepSleep
        THEN Build("deepMsgData", long, PkgPrefix + profileLen + Dash + DeepSleepStr,
                   long - PkgSuffix)
        ELSE Build("msgData", short, PkgPrefix + nodeLen,
                   Printed(PkgPrefix + nodeLen, short))

\* Mutant: the bounds of strncpy() and strncat() added to those of the parts.
IssuedCommandUnbounded ==
  Build("issuedCommand", categoryLen + typeLen + Delim + 1, categoryLen + Delim + typeLen,
        categoryLen + Delim + typeLen + 1)

\* processAllDeepSleepAwkMetricsCommands(): the lengths of category and type
\* are swapped, so each is cut at the length of the other.
BuildIssuedCommand ==
  Build("issuedCommand", categoryLen + typeLen + Delim + 1, categoryLen + Delim + typeLen,
        Least(categoryLen, typeLen) + Delim + Least(typeLen, categoryLen))

\* processAllDebugCommand(): the same name, for a whole category.
BuildIssueType ==
  Build("issuetypearray", categoryLen + Delim + typeLen + 1, categoryLen + Delim + typeLen,
        categoryLen + Delim + typeLen)

NamesNext ==
  \/ BuildDeepSleepPath \/ BuildIssuedCommand \/ BuildIssueType
  \/ \E deepSleep \in BOOLEAN : BuildParamString(deepSleep) \/ BuildMsgData(deepSleep)

NamesSpec == NamesInit /\ [][NamesNext]_namesVars
-----------------------------------------------------------------------------
\* Every name and its terminator fit the memory allocated for it, whatever
\* the lengths of profile, node, category and type; but for the path of the
\* deep sleep profile on a device that has a profile name, whose terminator
\* is written one byte behind it.
NamesFit ==
  \A x \in names :
    IF x.name = "dynJSONPath" THEN x.kept + 1 <= x.size + Dash ELSE x.kept + 1 <= x.size

\* No name is cut off, but for the name of a deep sleep issue whose category
\* and type differ in length, which loses characters of the longer one.
NamesWhole ==
  \A x \in names :
    x.kept = x.meant \/ (x.name = "issuedCommand" /\ categoryLen # typeLen)
=============================================================================
