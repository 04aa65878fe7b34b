----------------------------- MODULE RrdPending -----------------------------
(***************************************************************************)
(* The promise of the pending-download cache of rrdRunCmdThread.c, without *)
(* its linked list: a set of entries, each stamped with the order in which *)
(* append_item() pushed it.  append_item() pushes at the head and          *)
(* findPresentInCache() walks from the head, so the entry a search returns *)
(* is the newest one recorded for the package.                             *)
(*                                                                         *)
(* RrdDispatch uses these operators; RrdCache shows that the doubly linked *)
(* list implements them.                                                   *)
(***************************************************************************)
EXTENDS Integers

\* The entries recorded for package p.
Matching(c, p) == {e \in c : e.pkg = p}

\* findPresentInCache(): the entry nearest the head of the list.
Newest(c, p) ==
  CHOOSE e \in Matching(c, p) : \A f \in Matching(c, p) : f.stamp <= e.stamp

\* append_item(): the new entry is the new head.
Push(c, e) == c \union {e}

\* remove_item(): exactly the node whose address was passed leaves the list.
Drop(c, e) == c \ {e}
=============================================================================
