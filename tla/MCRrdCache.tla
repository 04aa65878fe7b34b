----------------------------- MODULE MCRrdCache -----------------------------
(***************************************************************************)
(* An instance of RrdCache for TLC.  The addresses are interchangeable,    *)
(* but symmetry is not used: the run checks liveness.                      *)
(***************************************************************************)
EXTENDS RrdCache, TLC

CONSTANTS a1, a2, a3

MCAddr == {a1, a2, a3}
MCPkg  == {"Dev", "Net"}
=============================================================================
