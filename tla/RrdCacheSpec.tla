---------------------------- MODULE RrdCacheSpec ----------------------------
(***************************************************************************)
(* What the pending-download cache promises its two users, the event       *)
(* thread that appends and the RDM handler that finds and removes: each    *)
(* call takes effect at one instant, a search returns the newest entry for *)
(* the package it was asked for, or nothing exactly when there is none,    *)
(* and a removal takes out the entry the last search returned.             *)
(***************************************************************************)
EXTENDS RrdPending

CONSTANTS
  Pkg,      \* package names
  NoEntry   \* the answer of a search that finds nothing; also: no answer

VARIABLES
  cache,    \* the entries
  count,    \* how many were ever appended
  held      \* the answer to the RDM handler's last search

specVars == <<cache, count, held>>

SpecInit == cache = {} /\ count = 0 /\ held = NoEntry

SpecAppend(p) ==
  /\ cache' = Push(cache, [stamp |-> count, pkg |-> p])
  /\ count' = count + 1
  /\ UNCHANGED held

SpecFind(p) ==
  /\ held = NoEntry
  /\ Matching(cache, p) # {}
  /\ held' = [for |-> p, entry |-> Newest(cache, p)]
  /\ UNCHANGED <<cache, count>>

SpecMiss(p) ==
  /\ held = NoEntry
  /\ Matching(cache, p) = {}
  /\ held' = [for |-> p, entry |-> NoEntry]
  /\ UNCHANGED <<cache, count>>

\* The RDM handler takes note that its package was not requested.
SpecForget ==
  /\ held # NoEntry /\ held.entry = NoEntry
  /\ held' = NoEntry
  /\ UNCHANGED <<cache, count>>

SpecRemove ==
  /\ held # NoEntry /\ held.entry # NoEntry
  /\ cache' = Drop(cache, held.entry)
  /\ held' = NoEntry
  /\ UNCHANGED count

SpecNext ==
  \/ SpecForget \/ SpecRemove
  \/ \E p \in Pkg : SpecAppend(p) \/ SpecFind(p) \/ SpecMiss(p)

Spec == SpecInit /\ [][SpecNext]_specVars
=============================================================================
