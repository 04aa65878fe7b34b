--------------------------- MODULE MCRrdDispatch ----------------------------
(***************************************************************************)
(* Instances of RrdDispatch for TLC.                                       *)
(*                                                                         *)
(* The static profile knows Net.a; a package for Net repeats it, so an     *)
(* append request for it merges two command lists.  Dev.b is known only to *)
(* the package for Dev, so it always costs a download.                     *)
(***************************************************************************)
EXTENDS RrdDispatch, TLC

MCNode == {"Dev", "Net", "Sleep"}
MCSub  == {"a", "b"}

IssueOf(n, s, x) == [node |-> n, sub |-> s, sfx |-> x]

\* A profile that lists the commands of tbl and nothing else.
ProfileOf(tbl, sanity) ==
  [cmd |-> [i \in MCNode \X MCSub |-> IF i \in DOMAIN tbl THEN tbl[i] ELSE "absent"],
   sanity |-> sanity]

MCStatic == ProfileOf(<<"Net", "a">> :> "clean", TRUE)

MCPackage ==
  [p \in MCNode \union {"SleepPkg"} |->
     CASE p = "Dev" -> ProfileOf(<<"Dev", "b">> :> "clean", TRUE)
       [] p = "Net" -> ProfileOf(<<"Net", "a">> :> "clean", FALSE)
       [] OTHER     -> ProfileOf(<<"Sleep", "a">> :> "clean", TRUE)]

MCIssues == {IssueOf("Dev", "b", TRUE), IssueOf("Net", "a", FALSE)}

\* With a category on its own: in append mode it has no command to merge.
MCIssuesCategory == {IssueOf("Dev", "b", FALSE), IssueOf("Net", NoSub, FALSE)}

\* Only what must be downloaded.
MCIssuesDownload == {IssueOf("Dev", "b", TRUE)}

\* The package for Net carries a command the static profile's sanity list
\* blocks, and no sanity list of its own.
MCPackageUnlisted ==
  [MCPackage EXCEPT !["Net"] = ProfileOf(<<"Net", "a">> :> "harmful", FALSE)]
=============================================================================
