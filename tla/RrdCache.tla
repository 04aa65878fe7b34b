------------------------------ MODULE RrdCache ------------------------------
(***************************************************************************)
(* rrdRunCmdThread.c: the cache as it is in memory, a doubly linked list   *)
(* of heap nodes under the mutex rrdCacheMut.  The event thread appends;   *)
(* the RDM handler searches, keeps the node's address while the mutex is   *)
(* free (it builds and sends a message from it), then removes and frees    *)
(* it.  malloc() may hand a freed address out again.                       *)
(***************************************************************************)
EXTENDS Integers

CONSTANTS
  Addr,      \* addresses malloc() can return for a node
  Null,      \* the null pointer
  Pkg,       \* package names
  MaxPush    \* bound: nodes linked into the list in a behaviour

ASSUME CacheAssumption ==
  /\ Null \notin Addr /\ MaxPush \in Nat
  /\ Null \notin [stamp : Nat, pkg : Pkg]
  /\ Null \notin [for : Pkg, entry : [stamp : Nat, pkg : Pkg] \union {Null}]

VARIABLES
  cacheDataNode,  \* the head of the list
  rrdCacheMut,    \* who holds the mutex
  live,           \* the addresses allocated
  next,           \* the fields of the nodes ...
  prev,
  mdata,          \* ... the package a node was made for
  stamp,          \* the order in which nodes were linked (not in the code)
  count,          \* how many nodes were ever linked (not in the code)
  epc, tmp, epkg,           \* event thread: where it is, its node and its argument
  hpc, node, hpkg           \* RDM handler: where it is, its cursor or node, its argument

heapVars == <<live, next, prev, mdata, stamp, count>>
appVars  == <<epc, tmp, epkg>>
hdlVars  == <<hpc, node, hpkg>>
vars == <<cacheDataNode, rrdCacheMut, heapVars, appVars, hdlVars>>

Ptr == Addr \union {Null}

\* initCache(), and nothing allocated.
Init ==
  /\ cacheDataNode = Null
  /\ rrdCacheMut = "free"
  /\ live = {}
  /\ next = [a \in Addr |-> Null] /\ prev = [a \in Addr |-> Null]
  /\ mdata \in [Addr -> Pkg]
  /\ stamp = [a \in Addr |-> 0] /\ count = 0
  /\ epc = "idle" /\ tmp = Null /\ epkg \in Pkg
  /\ hpc = "idle" /\ node = Null /\ hpkg \in Pkg
-----------------------------------------------------------------------------
(***************************************************************************)
(* append_item(), by the event thread.                                     *)
(***************************************************************************)
AppendLock(p) ==
  /\ epc = "idle" /\ rrdCacheMut = "free"
  /\ count < MaxPush
  /\ rrdCacheMut' = "append"
  /\ epc' = "create" /\ epkg' = p /\ tmp' = tmp
  /\ UNCHANGED <<cacheDataNode, heapVars, hdlVars>>

\* Mutant: the links of a new node are not cleared.
CreateCacheStale(a) ==
  /\ epc = "create"
  /\ a \notin live
  /\ live' = live \union {a}
  /\ mdata' = [mdata EXCEPT ![a] = epkg]
  /\ stamp' = [stamp EXCEPT ![a] = count]
  /\ tmp' = a /\ epc' = "link"
  /\ UNCHANGED <<cacheDataNode, rrdCacheMut, next, prev, count, epkg, hdlVars>>

\* createCache() gets a node a and fills it in.
CreateCache(a) ==
  /\ epc = "create"
  /\ a \notin live
  /\ live' = live \union {a}
  /\ next' = [next EXCEPT ![a] = Null]
  /\ prev' = [prev EXCEPT ![a] = Null]
  /\ mdata' = [mdata EXCEPT ![a] = epkg]
  /\ stamp' = [stamp EXCEPT ![a] = count]
  /\ tmp' = a /\ epc' = "link"
  /\ UNCHANGED <<cacheDataNode, rrdCacheMut, count, epkg, hdlVars>>

\* Mutant: the early return keeps the mutex.
CreateFailsLocked ==
  /\ epc = "create"
  /\ epc' = "idle"
  /\ UNCHANGED <<cacheDataNode, rrdCacheMut, heapVars, tmp, epkg, hdlVars>>

\* createCache() gets no memory: nothing is appended.
CreateFails ==
  /\ epc = "create"
  /\ epc' = "idle" /\ rrdCacheMut' = "free"
  /\ UNCHANGED <<cacheDataNode, heapVars, tmp, epkg, hdlVars>>

\* Mutant: the old head is not linked behind the new node.
AppendLinkForgets ==
  /\ epc = "link"
  /\ epc' = "head"
  /\ UNCHANGED <<cacheDataNode, rrdCacheMut, heapVars, tmp, epkg, hdlVars>>

\* The new node in front of the head, if there is one.
AppendLink ==
  /\ epc = "link"
  /\ IF cacheDataNode # Null
     THEN /\ next' = [next EXCEPT ![tmp] = cacheDataNode]
          /\ prev' = [prev EXCEPT ![cacheDataNode] = tmp]
     ELSE UNCHANGED <<next, prev>>
  /\ epc' = "head"
  /\ UNCHANGED <<cacheDataNode, rrdCacheMut, live, mdata, stamp, count, tmp, epkg, hdlVars>>

AppendHead ==
  /\ epc = "head"
  /\ cacheDataNode' = tmp
  /\ count' = count + 1
  /\ rrdCacheMut' = "free"
  /\ epc' = "idle"
  /\ UNCHANGED <<live, next, prev, mdata, stamp, tmp, epkg, hdlVars>>
-----------------------------------------------------------------------------
(***************************************************************************)
(* findPresentInCache(), by the RDM handler.                               *)
(***************************************************************************)
FindLock(p) ==
  /\ hpc = "idle" /\ rrdCacheMut = "free"
  /\ rrdCacheMut' = "handler"
  /\ hpc' = "walk" /\ hpkg' = p
  /\ node' = cacheDataNode
  /\ UNCHANGED <<cacheDataNode, heapVars, appVars>>

FindStep ==
  /\ hpc = "walk" /\ node # Null
  /\ mdata[node] # hpkg
  /\ node' = next[node]
  /\ UNCHANGED <<cacheDataNode, rrdCacheMut, heapVars, appVars, hpc, hpkg>>

\* The address leaves the critical section here.
FindHit ==
  /\ hpc = "walk" /\ node # Null
  /\ mdata[node] = hpkg
  /\ rrdCacheMut' = "free"
  /\ hpc' = "use"
  /\ UNCHANGED <<cacheDataNode, heapVars, appVars, node, hpkg>>

FindMiss ==
  /\ hpc = "walk" /\ node = Null
  /\ rrdCacheMut' = "free"
  /\ hpc' = "idle"
  /\ UNCHANGED <<cacheDataNode, heapVars, appVars, node, hpkg>>
-----------------------------------------------------------------------------
(***************************************************************************)
(* remove_item(), by the RDM handler once it is done with the entry.       *)
(***************************************************************************)
RemoveLock ==
  /\ hpc = "use" /\ rrdCacheMut = "free"
  /\ rrdCacheMut' = "handler"
  /\ hpc' = "unlink"
  /\ UNCHANGED <<cacheDataNode, heapVars, appVars, node, hpkg>>

\* Mutant: the new head keeps its back pointer.
UnlinkHeadKeepsPrev ==
  /\ cacheDataNode = node
  /\ cacheDataNode' = next[node]
  /\ UNCHANGED <<next, prev>>

\* The first node: the head moves on.
UnlinkHead ==
  /\ cacheDataNode = node
  /\ cacheDataNode' = next[node]
  /\ prev' = IF next[node] # Null THEN [prev EXCEPT ![next[node]] = Null] ELSE prev
  /\ next' = next

\* Mutant: only the back pointer is joined.
UnlinkInnerHalf ==
  /\ cacheDataNode # node
  /\ cacheDataNode' = cacheDataNode
  /\ prev' = IF next[node] # Null THEN [prev EXCEPT ![next[node]] = prev[node]] ELSE prev
  /\ next' = next

\* Any other node: its neighbours are joined.
UnlinkInner ==
  /\ cacheDataNode # node
  /\ cacheDataNode' = cacheDataNode
  /\ prev' = IF next[node] # Null THEN [prev EXCEPT ![next[node]] = prev[node]] ELSE prev
  /\ next' = IF prev[node] # Null THEN [next EXCEPT ![prev[node]] = next[node]] ELSE next

RemoveUnlink ==
  /\ hpc = "unlink"
  /\ UnlinkHead \/ UnlinkInner
  /\ rrdCacheMut' = "free"
  /\ hpc' = "free"
  /\ UNCHANGED <<live, mdata, stamp, count, appVars, node, hpkg>>

\* freecacheDataCacheNode(), after the mutex is released.
FreeNode ==
  /\ hpc = "free"
  /\ live' = live \ {node}
  /\ node' = Null
  /\ hpc' = "idle"
  /\ UNCHANGED <<cacheDataNode, rrdCacheMut, next, prev, mdata, stamp, count, appVars, hpkg>>
-----------------------------------------------------------------------------
Append == (\E p \in Pkg : AppendLock(p)) \/ (\E a \in Addr : CreateCache(a))
            \/ CreateFails \/ AppendLink \/ AppendHead

Handle == (\E p \in Pkg : FindLock(p)) \/ FindStep \/ FindHit \/ FindMiss
            \/ RemoveLock \/ RemoveUnlink \/ FreeNode

Next == Append \/ Handle

Spec == Init /\ [][Next]_vars

(***************************************************************************)
(* Each thread goes on with the call it is in, and the mutex is not kept   *)
(* from the handler for ever: between two appends the event thread makes a *)
(* bus call, so the mutex is free most of the time.                        *)
(***************************************************************************)
InAppend  == (\E a \in Addr : CreateCache(a)) \/ CreateFails \/ AppendLink \/ AppendHead
InHandler == FindStep \/ FindHit \/ FindMiss \/ RemoveUnlink \/ FreeNode

FairSpec == Spec /\ WF_vars(InAppend) /\ WF_vars(InHandler) /\ SF_vars(RemoveLock)
-----------------------------------------------------------------------------
\* The nodes in the list: allocated, no longer being built, not yet unlinked.
Listed == live \ ((IF epc \in {"link", "head"} THEN {tmp} ELSE {})
                    \union (IF hpc = "free" THEN {node} ELSE {}))

\* The order of the list: S holds the nodes, newest at h, each pointing to
\* the newest one older than itself.
Ordered(S, h) ==
  /\ h = Null => S = {}
  /\ h # Null => h \in S /\ \A b \in S : stamp[b] <= stamp[h]
  /\ \A a, b \in S : stamp[a] = stamp[b] => a = b
  /\ \A a \in S :
       IF next[a] = Null
       THEN \A b \in S : stamp[a] <= stamp[b]
       ELSE /\ next[a] \in S
            /\ stamp[next[a]] < stamp[a]
            /\ \A b \in S : stamp[b] < stamp[a] => stamp[b] <= stamp[next[a]]

\* The back pointers mirror the forward ones.
Mirrored(S, h) ==
  \A a \in S :
    /\ a = h => prev[a] = Null
    /\ a # h => prev[a] \in S /\ next[prev[a]] = a
    /\ next[a] # Null => prev[next[a]] = a
-----------------------------------------------------------------------------
\* Pointers are addresses or null, and the mutex is held by a thread exactly
\* while that thread is between its lock and its unlock.
TypeOK ==
  /\ cacheDataNode \in Ptr
  /\ rrdCacheMut \in {"free", "append", "handler"}
  /\ rrdCacheMut = "append" <=> epc # "idle"
  /\ rrdCacheMut = "handler" <=> hpc \in {"walk", "unlink"}
  /\ live \subseteq Addr
  /\ next \in [Addr -> Ptr] /\ prev \in [Addr -> Ptr]
  /\ mdata \in [Addr -> Pkg]
  /\ stamp \in [Addr -> Nat] /\ count \in Nat
  /\ epc \in {"idle", "create", "link", "head"} /\ tmp \in Ptr /\ epkg \in Pkg
  /\ hpc \in {"idle", "walk", "use", "unlink", "free"} /\ node \in Ptr /\ hpkg \in Pkg

\* append_item() and remove_item() leave a list that holds exactly the nodes
\* appended and not removed, newest first, with matching back pointers,
\* whatever node is removed and whatever addresses malloc() reuses.
ListWellFormed ==
  rrdCacheMut # "append" => Ordered(Listed, cacheDataNode) /\ Mirrored(Listed, cacheDataNode)

\* No thread touches memory it does not own: the cursor of
\* findPresentInCache() is in the list, the address kept across the unlock
\* is still that of the node the search returned until it is freed, and
\* append_item() writes only to its own node and to the head.
NoDanglingUse ==
  /\ hpc = "walk" => node = Null \/ node \in Listed
  /\ hpc \in {"use", "unlink"} => node \in Listed /\ mdata[node] = hpkg
  /\ hpc = "free" => node \in live
  /\ epc \in {"link", "head"} => tmp \in live /\ tmp # node
  /\ cacheDataNode # Null => cacheDataNode \in live

\* The linked list implements the promise of the cache.
EntryOf(a) == [stamp |-> stamp[a], pkg |-> mdata[a]]

CacheBar == {EntryOf(a) : a \in Listed}

HeldBar ==
  CASE hpc \in {"use", "unlink"} -> [for |-> hpkg, entry |-> EntryOf(node)]
    [] hpc = "walk" /\ node = Null -> [for |-> hpkg, entry |-> Null]
    [] OTHER -> Null

Promise == INSTANCE RrdCacheSpec WITH cache <- CacheBar, held <- HeldBar, NoEntry <- Null

\* Each call takes effect at one instant: a search returns the newest entry
\* for its package, fails only if there is none, and a removal takes out the
\* entry found, although the search and the removal are two critical sections
\* and appends fall in between.
ImplementsPromise == Promise!Spec

\* A handler that enters the cache comes out of it with the entry it found
\* removed: findPresentInCache() meets the end of the list whatever was
\* appended, removed and reallocated before, and nobody keeps the mutex.
HandlerComesOut == (hpc = "walk") ~> (hpc = "idle")
=============================================================================
