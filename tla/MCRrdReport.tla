---------------------------- MODULE MCRrdReport -----------------------------
(***************************************************************************)
(* An instance of RrdReport for TLC: one category, so that every two       *)
(* reports of one second want the same directory.                          *)
(***************************************************************************)
EXTENDS RrdReport, TLC

MCNode == {"Dev"}
=============================================================================
