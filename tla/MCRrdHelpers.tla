---------------------------- MODULE MCRrdHelpers ----------------------------
(***************************************************************************)
(* Instances of the five parts that a request passes through alone:        *)
(* RrdIssueString, RrdWebcfg, RrdNames, RrdConfig and RrdTar.  They share  *)
(* no state, so one of them runs in each behaviour.                        *)
(***************************************************************************)
EXTENDS RrdConfig, RrdTar, RrdIssueString, RrdNames, RrdWebcfg, TLC

VARIABLE part  \* the one that runs

Part == {"config", "tar", "string", "names", "webcfg"}

\* Property files that set one thing, both, nothing, or the build type.
MCPropertiesText ==
  {<<>>, "LOG_SERVER" :> "x", "HTTP_UPLOAD_LINK" :> "x",
   "LOG_SERVER" :> "x" @@ "HTTP_UPLOAD_LINK" :> "x", "BUILD_TYPE" :> "prod",
   "BUILD_TYPE" :> "dev" @@ "LOG_SERVER" :> "",
   "BUILD_TYPE" :> "prod" @@ "LOG_SERVER" :> "x" @@ "UPLOAD_PROTOCOL" :> "x"}
MCDcmText ==
  {<<>>, "LOG_SERVER" :> "" @@ "HTTP_UPLOAD_LINK" :> "x",
   "UPLOAD_PROTOCOL" :> "" @@ "LOG_SERVER" :> "x", "BUILD_TYPE" :> "dev",
   "HTTP_UPLOAD_LINK" :> "x" @@ "LOG_SERVER" :> "x"}

\* A file and a link, and a file in a directory; names that fit, that fill
\* the field, and that no header takes.
MCChildren == "root" :> {"f", "d", "s"} @@ "d" :> {"g"}
ShortNames == [e \in {"root", "f", "d", "s", "g"} |-> IF e = "root" THEN 0 ELSE 2]
MCNameLens == {ShortNames, [ShortNames EXCEPT !["g"] = 3], [ShortNames EXCEPT !["f"] = 5]}

MCAppendMark == <<"_", "p">>

\* Documents with some of these entries, and lists of strings and others.
Item(n, k, t) == [name |-> n, key |-> k, type |-> t]
Items ==
  <<Item("remotedebugger", "shorter", "map"), Item("remotedebugger", "longer", "str"),
    Item("remotedebugger", "exact", "map"), Item("subdoc_name", "exact", "str"),
    Item("version", "longer", "uint"), Item("version", "exact", "uint"),
    Item("transaction_id", "exact", "uint")>>
Having(S) ==
  [i \in 1..Cardinality(S) |->
     Items[CHOOSE j \in S : Cardinality({k \in S : k < j}) = i - 1]]
MCDocuments ==
  {[entries |-> Having(S), hasIssues |-> TRUE, issues |-> <<<<"a">>, NotString>>] :
     S \in SUBSET (1..Len(Items))}
  \union {[entries |-> Having({3, 4, 6, 7}), hasIssues |-> TRUE, issues |-> a] :
            a \in BoundedSeq({<<>>, <<"a">>, <<"b", ",", "a">>, <<",">>, NotString}, 3)}
  \union {[entries |-> Having({3, 4, 6, 7}), hasIssues |-> FALSE, issues |-> <<>>]}

\* What a part that does not run starts with.
Some(S) == CHOOSE x \in S : TRUE
TarIdle == nameLen = ShortNames /\ size = [f \in RegFile |-> 0] /\ TarInit
StringIdle == text = <<>> /\ StringInit
NamesIdle ==
  /\ profileLen = Some(ProfileLens) /\ nodeLen = Some(NodeLens)
  /\ categoryLen = Some(PartLens) /\ typeLen = Some(PartLens)
  /\ NamesInit
WebcfgIdle == document = Some(MCDocuments) /\ WebcfgInit

HelpersInit ==
  /\ part \in Part
  /\ ConfigInit
  /\ IF part = "names" THEN NamesInit ELSE NamesIdle
  /\ IF part = "webcfg" THEN WebcfgInit ELSE WebcfgIdle
  /\ IF part = "tar" THEN TarInit ELSE TarIdle
  /\ IF part = "string" THEN StringInit ELSE StringIdle

RunConfig ==
  /\ part = "config" /\ ConfigNext
  /\ UNCHANGED <<part, tarVars, stringVars, namesVars, webcfgVars>>
RunTar ==
  /\ part = "tar" /\ TarNext
  /\ UNCHANGED <<part, configVars, stringVars, namesVars, webcfgVars>>
RunString ==
  /\ part = "string" /\ StringNext
  /\ UNCHANGED <<part, configVars, tarVars, namesVars, webcfgVars>>
RunNames ==
  /\ part = "names" /\ NamesNext
  /\ UNCHANGED <<part, configVars, tarVars, stringVars, webcfgVars>>
RunWebcfg ==
  /\ part = "webcfg" /\ WebcfgNext
  /\ UNCHANGED <<part, configVars, tarVars, stringVars, namesVars>>

HelpersNext == RunConfig \/ RunTar \/ RunString \/ RunNames \/ RunWebcfg

HelpersSpec ==
  HelpersInit
  /\ [][HelpersNext]_<<part, configVars, tarVars, stringVars, namesVars, webcfgVars>>
=============================================================================
