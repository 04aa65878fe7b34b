--------------------------- MODULE RrdCacheProofs ---------------------------
(***************************************************************************)
(* Theorems about RrdCache, for any number of addresses, packages and      *)
(* appends: the linked list is well formed, nobody uses memory that is not *)
(* theirs, and the list implements RrdCacheSpec.                           *)
(***************************************************************************)
EXTENDS RrdCache, TLAPS

-----------------------------------------------------------------------------
(***************************************************************************)
(* The inductive invariant.  In the middle of append_item() the old head   *)
(* already points back to the new node, which is not in the list yet.      *)
(***************************************************************************)
Front == IF epc = "head" THEN tmp ELSE Null

LinkedBack(S, h, f) ==
  \A a \in S :
    /\ a = h => prev[a] = f
    /\ a # h => prev[a] \in S /\ next[prev[a]] = a
    /\ next[a] # Null => prev[next[a]] = a

\* The node append_item() is about to link.
OwnNode ==
  epc \in {"link", "head"} =>
    /\ tmp \in live /\ stamp[tmp] = count /\ mdata[tmp] = epkg
    /\ prev[tmp] = Null
    /\ next[tmp] = IF epc = "head" THEN cacheDataNode ELSE Null

\* The search has passed no node of its package.
Walked ==
  hpc = "walk" =>
    \A b \in Listed : mdata[b] = hpkg => node # Null /\ stamp[b] <= stamp[node]

CInv ==
  /\ TypeOK
  /\ NoDanglingUse
  /\ Ordered(Listed, cacheDataNode)
  /\ LinkedBack(Listed, cacheDataNode, Front)
  /\ OwnNode
  /\ Walked
  /\ hpc = "idle" => node = Null
  /\ \A a \in Listed : stamp[a] < count
-----------------------------------------------------------------------------
LEMMA InitCInv == Init => CInv
  BY CacheAssumption DEF Init, CInv, TypeOK, NoDanglingUse, Ordered, LinkedBack, OwnNode, Walked,
     Listed, Front, Ptr

\* A step that leaves the heap and the place of each thread's node alone
\* leaves the list alone.
LEMMA SameList ==
  ASSUME CInv, UNCHANGED <<cacheDataNode, next, prev, mdata, stamp, count>>,
         Listed' = Listed, Front' = Front
  PROVE  /\ Ordered(Listed, cacheDataNode)'
         /\ LinkedBack(Listed, cacheDataNode, Front)'
         /\ (\A a \in Listed : stamp[a] < count)'
  BY DEF CInv, Ordered, LinkedBack

LEMMA AppendLockCInv ==
  ASSUME CInv, NEW p \in Pkg, AppendLock(p) PROVE CInv'
<1> USE DEF AppendLock, heapVars, hdlVars
<1>1. Listed' = Listed /\ Front' = Front
  BY DEF CInv, TypeOK, Listed, Front
<1>2. /\ Ordered(Listed, cacheDataNode)'
      /\ LinkedBack(Listed, cacheDataNode, Front)'
      /\ (\A a \in Listed : stamp[a] < count)'
  BY <1>1, SameList
<1>3. TypeOK'
  BY DEF CInv, TypeOK
<1>4. NoDanglingUse' /\ OwnNode' /\ Walked' /\ (hpc = "idle" => node = Null)'
  BY <1>1 DEF CInv, NoDanglingUse, OwnNode, Walked
<1> QED BY <1>2, <1>3, <1>4 DEF CInv

LEMMA CreateCacheCInv ==
  ASSUME CInv, NEW a \in Addr, CreateCache(a) PROVE CInv'
<1> USE DEF CreateCache, hdlVars
<1>1. /\ a \notin Listed /\ Listed' = Listed /\ Front' = Null /\ Front = Null
      /\ Listed \subseteq Addr \ {a}
      /\ rrdCacheMut = "append" /\ hpc \notin {"walk", "unlink"}
  BY DEF CInv, TypeOK, NoDanglingUse, Listed, Front
<1>2. TypeOK'
  BY DEF CInv, TypeOK, Ptr
<1>3. \A b \in Listed : /\ next'[b] = next[b] /\ prev'[b] = prev[b]
                        /\ mdata'[b] = mdata[b] /\ stamp'[b] = stamp[b]
  BY <1>1 DEF CInv, TypeOK
<1>4. NoDanglingUse'
  BY <1>1, <1>3, CacheAssumption DEF CInv, NoDanglingUse, TypeOK
<1>5. Ordered(Listed, cacheDataNode)' /\ (\A b \in Listed : stamp[b] < count)'
  <2>1. cacheDataNode # Null => cacheDataNode \in Listed
    BY DEF CInv, Ordered
  <2> HIDE DEF CreateCache
  <2>2. cacheDataNode' = cacheDataNode /\ count' = count
    BY DEF CreateCache
  <2>3. \A b \in Listed : next[b] # Null => next[b] \in Listed
    BY DEF CInv, Ordered
  <2> QED BY <1>1, <1>3, <2>1, <2>2, <2>3 DEF CInv, Ordered
<1>6. LinkedBack(Listed, cacheDataNode, Front)'
  <2>1. \A b \in Listed : next[b] # Null => next[b] \in Listed
    BY DEF CInv, Ordered
  <2> QED BY <1>1, <1>3, <2>1 DEF CInv, LinkedBack
<1>7. OwnNode'
  BY DEF CInv, TypeOK, OwnNode
<1>8. Walked' /\ (hpc = "idle" => node = Null)'
  BY <1>1 DEF CInv, Walked
<1> QED BY <1>2, <1>4, <1>5, <1>6, <1>7, <1>8 DEF CInv

LEMMA CreateFailsCInv ==
  ASSUME CInv, CreateFails PROVE CInv'
<1> USE DEF CreateFails, heapVars, hdlVars
<1>1. Listed' = Listed /\ Front' = Front
  BY DEF Listed, Front
<1>2. /\ Ordered(Listed, cacheDataNode)'
      /\ LinkedBack(Listed, cacheDataNode, Front)'
      /\ (\A a \in Listed : stamp[a] < count)'
  BY <1>1, SameList
<1>3. TypeOK'
  BY DEF CInv, TypeOK
<1>4. NoDanglingUse' /\ OwnNode' /\ Walked' /\ (hpc = "idle" => node = Null)'
  BY <1>1 DEF CInv, NoDanglingUse, OwnNode, Walked
<1> QED BY <1>2, <1>3, <1>4 DEF CInv

LEMMA AppendLinkCInv ==
  ASSUME CInv, AppendLink PROVE CInv'
<1> USE DEF AppendLink, hdlVars
<1>1. /\ tmp \in Addr /\ tmp \notin Listed /\ Listed' = Listed /\ Front' = tmp /\ Front = Null
      /\ Listed \subseteq Addr
      /\ cacheDataNode # Null => cacheDataNode \in Listed /\ cacheDataNode # tmp
      /\ rrdCacheMut = "append" /\ hpc \notin {"walk", "unlink"}
  BY CacheAssumption DEF CInv, TypeOK, NoDanglingUse, Ordered, Listed, Front, OwnNode
<1>2. TypeOK'
  BY <1>1 DEF CInv, TypeOK, Ptr
<1>3. /\ \A b \in Listed : next'[b] = next[b]
      /\ \A b \in Listed : prev'[b] = IF b = cacheDataNode THEN tmp ELSE prev[b]
      /\ next'[tmp] = cacheDataNode
      /\ prev'[tmp] = Null
  BY <1>1, CacheAssumption DEF CInv, TypeOK, OwnNode
<1>4. NoDanglingUse'
  BY <1>1 DEF CInv, NoDanglingUse
<1>5. Ordered(Listed, cacheDataNode)' /\ (\A b \in Listed : stamp[b] < count)'
  BY <1>1, <1>3 DEF CInv, Ordered
<1>6. LinkedBack(Listed, cacheDataNode, Front)'
  <2>1. \A b \in Listed : next[b] # Null => next[b] \in Listed
    BY DEF CInv, Ordered
  <2>2. \A b \in Listed : next[b] # cacheDataNode \/ next[b] = Null
    BY <1>1 DEF CInv, Ordered, TypeOK
  <2> QED BY <1>1, <1>3, <2>1, <2>2 DEF CInv, LinkedBack
<1>7. OwnNode'
  BY <1>3 DEF CInv, TypeOK, OwnNode
<1>8. Walked' /\ (hpc = "idle" => node = Null)'
  BY <1>1 DEF CInv, Walked
<1> QED BY <1>2, <1>4, <1>5, <1>6, <1>7, <1>8 DEF CInv

LEMMA AppendHeadCInv ==
  ASSUME CInv, AppendHead PROVE CInv'
<1> USE DEF AppendHead, hdlVars
<1>1. /\ tmp \in Addr /\ tmp # Null /\ tmp \notin Listed /\ Listed' = Listed \union {tmp}
      /\ Front' = Null /\ Front = tmp /\ Listed \subseteq Addr
      /\ cacheDataNode # Null => cacheDataNode \in Listed
      /\ rrdCacheMut = "append" /\ hpc \notin {"walk", "unlink"}
  BY CacheAssumption DEF CInv, TypeOK, NoDanglingUse, Ordered, Listed, Front, OwnNode
<1>2. TypeOK'
  BY <1>1 DEF CInv, TypeOK
<1>3. /\ next[tmp] = cacheDataNode /\ prev[tmp] = Null /\ stamp[tmp] = count
      /\ \A b \in Listed : stamp[b] < stamp[tmp]
      /\ \A b \in Listed \union {tmp} : stamp[b] \in Nat
  BY <1>1 DEF CInv, OwnNode, TypeOK
<1>4. NoDanglingUse'
  BY <1>1 DEF CInv, NoDanglingUse, OwnNode
<1>5. (\A b \in Listed : stamp[b] < count)'
  BY <1>1, <1>3 DEF CInv
<1>6. Ordered(Listed, cacheDataNode)'
  BY <1>1, <1>3 DEF CInv, Ordered
<1>7. LinkedBack(Listed, cacheDataNode, Front)'
  <2>1. \A b \in Listed : next[b] # Null => next[b] \in Listed
    BY DEF CInv, Ordered
  <2> QED BY <1>1, <1>3, <2>1 DEF CInv, LinkedBack
<1>8. OwnNode' /\ Walked' /\ (hpc = "idle" => node = Null)'
  BY <1>1 DEF CInv, Walked, OwnNode
<1> QED BY <1>2, <1>4, <1>5, <1>6, <1>7, <1>8 DEF CInv
-----------------------------------------------------------------------------
LEMMA FindLockCInv ==
  ASSUME CInv, NEW p \in Pkg, FindLock(p) PROVE CInv'
<1> USE DEF FindLock, heapVars, appVars
<1>1. /\ Listed' = Listed /\ Front' = Front
      /\ cacheDataNode # Null => cacheDataNode \in Listed
      /\ epc = "idle"
  BY DEF CInv, TypeOK, Listed, Front, Ordered
<1>2. /\ Ordered(Listed, cacheDataNode)'
      /\ LinkedBack(Listed, cacheDataNode, Front)'
      /\ (\A a \in Listed : stamp[a] < count)'
  BY <1>1, SameList
<1>3. TypeOK'
  BY DEF CInv, TypeOK
<1>4. NoDanglingUse' /\ OwnNode' /\ (hpc = "idle" => node = Null)'
  BY <1>1 DEF CInv, NoDanglingUse, OwnNode
<1>5. Walked'
  BY <1>1 DEF CInv, Walked, Ordered
<1> QED BY <1>2, <1>3, <1>4, <1>5 DEF CInv

LEMMA FindStepCInv ==
  ASSUME CInv, FindStep PROVE CInv'
<1> USE DEF FindStep, heapVars, appVars
<1>1. /\ node \in Listed /\ Listed' = Listed /\ Front' = Front
      /\ next[node] # Null => next[node] \in Listed
      /\ epc = "idle" /\ Listed \subseteq Addr
  BY DEF CInv, TypeOK, NoDanglingUse, Listed, Front, Ordered
<1>2. /\ Ordered(Listed, cacheDataNode)'
      /\ LinkedBack(Listed, cacheDataNode, Front)'
      /\ (\A a \in Listed : stamp[a] < count)'
  BY <1>1, SameList
<1>3. TypeOK'
  BY <1>1 DEF CInv, TypeOK
<1>4. NoDanglingUse' /\ OwnNode' /\ (hpc = "idle" => node = Null)'
  BY <1>1 DEF CInv, NoDanglingUse, OwnNode
<1>5. Walked'
  <2> SUFFICES ASSUME NEW b \in Listed, mdata[b] = hpkg
               PROVE  next[node] # Null /\ stamp[b] <= stamp[next[node]]
    BY <1>1 DEF Walked
  <2>1. b # node /\ stamp[b] <= stamp[node] /\ stamp[b] \in Nat /\ stamp[node] \in Nat
    BY <1>1 DEF CInv, Walked, TypeOK
  <2>2. stamp[b] < stamp[node]
    BY <1>1, <2>1 DEF CInv, Ordered
  <2> QED BY <1>1, <2>1, <2>2 DEF CInv, Ordered
<1> QED BY <1>2, <1>3, <1>4, <1>5 DEF CInv

LEMMA FindHitCInv ==
  ASSUME CInv, FindHit PROVE CInv'
<1> USE DEF FindHit, heapVars, appVars
<1>1. /\ node \in Listed /\ Listed' = Listed /\ Front' = Front
      /\ epc = "idle"
  BY DEF CInv, TypeOK, NoDanglingUse, Listed, Front
<1>2. /\ Ordered(Listed, cacheDataNode)'
      /\ LinkedBack(Listed, cacheDataNode, Front)'
      /\ (\A a \in Listed : stamp[a] < count)'
  BY <1>1, SameList
<1>3. TypeOK'
  BY DEF CInv, TypeOK
<1>4. NoDanglingUse' /\ OwnNode' /\ Walked' /\ (hpc = "idle" => node = Null)'
  BY <1>1 DEF CInv, NoDanglingUse, OwnNode, Walked
<1> QED BY <1>2, <1>3, <1>4 DEF CInv

LEMMA FindMissCInv ==
  ASSUME CInv, FindMiss PROVE CInv'
<1> USE DEF FindMiss, heapVars, appVars
<1>1. Listed' = Listed /\ Front' = Front /\ epc = "idle"
  BY DEF CInv, TypeOK, Listed, Front
<1>2. /\ Ordered(Listed, cacheDataNode)'
      /\ LinkedBack(Listed, cacheDataNode, Front)'
      /\ (\A a \in Listed : stamp[a] < count)'
  BY <1>1, SameList
<1>3. TypeOK'
  BY DEF CInv, TypeOK
<1>4. NoDanglingUse' /\ OwnNode' /\ Walked' /\ (hpc = "idle" => node = Null)'
  BY <1>1 DEF CInv, NoDanglingUse, OwnNode, Walked
<1> QED BY <1>2, <1>3, <1>4 DEF CInv

LEMMA RemoveLockCInv ==
  ASSUME CInv, RemoveLock PROVE CInv'
<1> USE DEF RemoveLock, heapVars, appVars
<1>1. Listed' = Listed /\ Front' = Front /\ epc = "idle"
  BY DEF CInv, TypeOK, Listed, Front
<1>2. /\ Ordered(Listed, cacheDataNode)'
      /\ LinkedBack(Listed, cacheDataNode, Front)'
      /\ (\A a \in Listed : stamp[a] < count)'
  BY <1>1, SameList
<1>3. TypeOK'
  BY DEF CInv, TypeOK
<1>4. NoDanglingUse' /\ OwnNode' /\ Walked' /\ (hpc = "idle" => node = Null)'
  BY <1>1 DEF CInv, NoDanglingUse, OwnNode, Walked
<1> QED BY <1>2, <1>3, <1>4 DEF CInv

\* What remove_item() takes out of the list.
LEMMA UnlinkedList ==
  ASSUME CInv, RemoveUnlink
  PROVE  /\ Listed' = Listed \ {node} /\ stamp' = stamp /\ Front' = Null
         /\ node \in Listed /\ Listed \subseteq Addr /\ Null \notin Addr /\ Front = Null
         /\ next \in [Addr -> Ptr] /\ prev \in [Addr -> Ptr]
         /\ \A a \in Listed : stamp[a] \in Nat
  BY CacheAssumption DEF CInv, TypeOK, NoDanglingUse, Listed, Front, RemoveUnlink, appVars

\* Taking the head out.
LEMMA UnlinkHeadList ==
  ASSUME CInv, RemoveUnlink, UnlinkHead
  PROVE  Ordered(Listed, cacheDataNode)' /\ LinkedBack(Listed, cacheDataNode, Front)'
<1> DEFINE S == Listed \ {node}
<1>1. /\ Listed' = S /\ stamp' = stamp /\ Front' = Null
      /\ node \in Listed /\ Listed \subseteq Addr /\ Null \notin Addr /\ Front = Null
      /\ next \in [Addr -> Ptr] /\ prev \in [Addr -> Ptr]
      /\ \A a \in Listed : stamp[a] \in Nat
  BY UnlinkedList
<1> USE DEF UnlinkHead
<1>2. /\ \A a \in S : stamp[a] < stamp[node]
      /\ \A a \in S : next[a] # node
      /\ next[node] # Null => next[node] \in S
  BY <1>1 DEF CInv, Ordered
<1>3. \A a \in S : next[a] # Null => next[a] # next[node]
  BY <1>1 DEF CInv, LinkedBack
<1>4. \A a \in S : prev'[a] = IF a = next[node] THEN Null ELSE prev[a]
  BY <1>1
<1>5. \A a \in S : a # next[node] => prev[a] \in S /\ next[prev[a]] = a
  BY <1>1 DEF CInv, LinkedBack
<1>6. Ordered(Listed, cacheDataNode)'
  <2>1. next[node] = Null => S = {}
    BY <1>1, <1>2 DEF CInv, Ordered
  <2>2. \A a \in S : next[node] # Null /\ stamp[a] <= stamp[next[node]]
    BY <1>1, <1>2 DEF CInv, Ordered
  <2>3. \A a \in S : next[a] # Null => next[a] \in S
    BY <1>1, <1>2 DEF CInv, Ordered
  <2> QED BY <1>1, <1>2, <2>1, <2>2, <2>3 DEF CInv, Ordered
<1>7. LinkedBack(Listed, cacheDataNode, Front)'
  <2>1. \A a \in S : next[a] # Null => next[a] \in S /\ prev[next[a]] = a
    BY <1>1, <1>2 DEF CInv, Ordered, LinkedBack
  <2>2. \A a \in S : next[a] # Null => prev'[next[a]] = a
    BY <1>3, <1>4, <2>1
  <2> HIDE DEF S
  <2> QED BY <1>1, <1>4, <1>5, <2>2 DEF LinkedBack
<1> QED BY <1>6, <1>7

\* Taking another node out.
LEMMA UnlinkInnerList ==
  ASSUME CInv, RemoveUnlink, UnlinkInner
  PROVE  Ordered(Listed, cacheDataNode)' /\ LinkedBack(Listed, cacheDataNode, Front)'
<1> DEFINE S == Listed \ {node}
           p == prev[node]
           x == next[node]
<1>1. /\ Listed' = S /\ stamp' = stamp /\ Front' = Null
      /\ node \in Listed /\ Listed \subseteq Addr /\ Null \notin Addr /\ Front = Null
      /\ next \in [Addr -> Ptr] /\ prev \in [Addr -> Ptr]
      /\ \A a \in Listed : stamp[a] \in Nat
  BY UnlinkedList
<1> USE DEF UnlinkInner
<1>2. /\ p \in Listed /\ next[p] = node /\ p # Null
      /\ x # Null => x \in Listed /\ prev[x] = node /\ stamp[x] < stamp[node]
      /\ stamp[node] < stamp[p]
  BY <1>1 DEF CInv, LinkedBack, Ordered
<1>3. p \in S /\ (x # Null => x \in S) /\ x # p
  BY <1>1, <1>2
<1>4. \A a \in S : a # p => next[a] # node
  BY <1>1, <1>2 DEF CInv, LinkedBack
<1>5. \A a \in S : /\ next'[a] = IF a = p THEN x ELSE next[a]
                   /\ prev'[a] = IF a = x THEN p ELSE prev[a]
  BY <1>1, <1>2, <1>3
<1>6. \A a \in S : a # p /\ next[a] # Null =>
        /\ next[a] \in S /\ next[a] # x /\ prev[next[a]] = a /\ stamp[next[a]] < stamp[a]
  BY <1>1, <1>2, <1>4 DEF CInv, LinkedBack, Ordered
<1>7. /\ cacheDataNode' = cacheDataNode /\ cacheDataNode \in S /\ cacheDataNode # Null
      /\ cacheDataNode # x
  BY <1>1, <1>2 DEF CInv, Ordered, LinkedBack
<1> HIDE DEF UnlinkInner
<1>8. Ordered(Listed, cacheDataNode)'
  <2>1. /\ \A b \in S : stamp[b] <= stamp[cacheDataNode]
        /\ \A a, b \in S : stamp[a] = stamp[b] => a = b
    BY <1>1, <1>7 DEF CInv, Ordered
  <2>2. x = Null => \A b \in S : stamp[p] <= stamp[b]
    BY <1>1, <1>2, <1>3 DEF CInv, Ordered
  <2>3. x # Null => /\ stamp[x] < stamp[p]
                    /\ \A b \in S : stamp[b] < stamp[p] => stamp[b] <= stamp[x]
    BY <1>1, <1>2, <1>3 DEF CInv, Ordered
  <2>4. ASSUME NEW a \in S, a # p
        PROVE  IF next[a] = Null
               THEN \A b \in S : stamp[a] <= stamp[b]
               ELSE \A b \in S : stamp[b] < stamp[a] => stamp[b] <= stamp[next[a]]
    BY <1>1, <2>4 DEF CInv, Ordered
  <2> HIDE DEF S, p, x
  <2> QED BY <1>1, <1>3, <1>5, <1>6, <1>7, <2>1, <2>2, <2>3, <2>4 DEF Ordered
<1>9. LinkedBack(Listed, cacheDataNode, Front)'
  <2>1. prev[cacheDataNode] = Null
    BY <1>1, <1>7 DEF CInv, LinkedBack
  <2>2. ASSUME NEW a \in S, a # cacheDataNode, a # x
        PROVE  prev[a] \in S /\ next[prev[a]] = a /\ prev[a] # p
    BY <1>1, <1>2, <2>2 DEF CInv, LinkedBack
  <2> HIDE DEF S, p, x
  <2> QED BY <1>1, <1>3, <1>5, <1>6, <1>7, <2>1, <2>2 DEF LinkedBack
<1> QED BY <1>8, <1>9

LEMMA RemoveUnlinkCInv ==
  ASSUME CInv, RemoveUnlink PROVE CInv'
<1> USE DEF RemoveUnlink, appVars
<1>1. /\ Listed' = Listed \ {node} /\ stamp' = stamp
      /\ node \in Listed /\ Listed \subseteq Addr /\ Null \notin Addr
      /\ epc = "idle" /\ node \in live
  <2>1. epc = "idle" /\ node \in live
    BY DEF CInv, TypeOK, NoDanglingUse, Listed
  <2> QED BY <2>1, UnlinkedList
<1>2. Ordered(Listed, cacheDataNode)' /\ LinkedBack(Listed, cacheDataNode, Front)'
  BY UnlinkHeadList, UnlinkInnerList
<1>3. TypeOK'
  <2>1. next[node] \in Ptr /\ prev[node] \in Ptr
    BY <1>1 DEF CInv, TypeOK
  <2> QED BY <2>1 DEF CInv, TypeOK, UnlinkHead, UnlinkInner, Ptr
<1>4. NoDanglingUse'
  <2>1. cacheDataNode' # Null => cacheDataNode' \in live'
    BY <1>1, <1>2 DEF Ordered, Listed
  <2> QED BY <1>1, <2>1 DEF NoDanglingUse
<1>5. OwnNode' /\ Walked' /\ (hpc = "idle" => node = Null)' /\ (\A a \in Listed : stamp[a] < count)'
  BY <1>1 DEF CInv, OwnNode, Walked
<1> QED BY <1>2, <1>3, <1>4, <1>5 DEF CInv

LEMMA FreeNodeCInv ==
  ASSUME CInv, FreeNode PROVE CInv'
<1> USE DEF FreeNode, appVars
<1>1. /\ Listed' = Listed /\ Front' = Front /\ node \notin Listed
      /\ cacheDataNode # Null => cacheDataNode \in Listed
      /\ epc \in {"link", "head"} => tmp # Null
  BY CacheAssumption DEF CInv, TypeOK, NoDanglingUse, Listed, Front, Ordered
<1>2. /\ Ordered(Listed, cacheDataNode)'
      /\ LinkedBack(Listed, cacheDataNode, Front)'
      /\ (\A a \in Listed : stamp[a] < count)'
  BY <1>1, SameList
<1>3. TypeOK'
  BY DEF CInv, TypeOK, Ptr
<1>4. NoDanglingUse'
  BY <1>1 DEF CInv, NoDanglingUse, Listed
<1>5. OwnNode' /\ Walked' /\ (hpc = "idle" => node = Null)'
  BY <1>1 DEF CInv, OwnNode, NoDanglingUse, Walked
<1> QED BY <1>2, <1>3, <1>4, <1>5 DEF CInv
-----------------------------------------------------------------------------
LEMMA NextCInv == CInv /\ [Next]_vars => CInv'
<1> SUFFICES ASSUME CInv, [Next]_vars PROVE CInv'
  OBVIOUS
<1>1. CASE UNCHANGED vars
  BY <1>1 DEF vars, heapVars, appVars, hdlVars, CInv, TypeOK, NoDanglingUse, Ordered, LinkedBack,
              OwnNode, Walked, Listed, Front
<1>2. CASE Append
  BY <1>2, AppendLockCInv, CreateCacheCInv, CreateFailsCInv, AppendLinkCInv, AppendHeadCInv DEF Append
<1>3. CASE Handle
  BY <1>3, FindLockCInv, FindStepCInv, FindHitCInv, FindMissCInv, RemoveLockCInv,
     RemoveUnlinkCInv, FreeNodeCInv DEF Handle
<1> QED BY <1>1, <1>2, <1>3 DEF Next

LEMMA CInvAlways == Spec => []CInv
  BY InitCInv, NextCInv, PTL DEF Spec

\* Pointers of rrdRunCmdThread.c are addresses or null, and rrdCacheMut is held
\* by a thread exactly while it is inside one of the three functions.
THEOREM CacheTypeCorrect == Spec => []TypeOK
  BY CInvAlways, PTL DEF CInv

\* append_item() and remove_item() keep the list well formed, whatever is
\* removed and however malloc() reuses addresses.
THEOREM ListStaysWellFormed == Spec => []ListWellFormed
<1>1. CInv => ListWellFormed
  BY DEF CInv, TypeOK, ListWellFormed, LinkedBack, Mirrored, Front
<1> QED BY <1>1, CInvAlways, PTL

\* findPresentInCache() walks over nodes of the list only, and the address it
\* returns is that of a listed node until remove_item() has unlinked it.
THEOREM NothingDangles == Spec => []NoDanglingUse
  BY CInvAlways, PTL DEF CInv
-----------------------------------------------------------------------------
(***************************************************************************)
(* The refinement.  The abstract cache changes when append_item() sets the *)
(* head and when remove_item() unlinks; a search takes effect when it      *)
(* meets its node or the end of the list.                                  *)
(***************************************************************************)
Entry == [stamp : Nat, pkg : Pkg]

LEMMA EntryType ==
  ASSUME CInv
  PROVE  /\ \A a \in Listed : EntryOf(a) \in Entry /\ EntryOf(a).stamp = stamp[a]
                              /\ EntryOf(a).pkg = mdata[a]
         /\ Listed \subseteq Addr
         /\ \A a, b \in Listed : EntryOf(a) = EntryOf(b) => a = b
<1>1. Listed \subseteq Addr
  BY DEF CInv, TypeOK, Listed
<1>2. \A a \in Listed : stamp[a] \in Nat /\ mdata[a] \in Pkg
  BY <1>1 DEF CInv, TypeOK
<1>3. \A a, b \in Listed : stamp[a] = stamp[b] => a = b
  BY DEF CInv, Ordered
<1> QED BY <1>1, <1>2, <1>3 DEF EntryOf, Entry

\* What the handler holds, in each place it can be.
LEMMA HeldBarCases ==
  /\ hpc \in {"use", "unlink"} => HeldBar = [for |-> hpkg, entry |-> EntryOf(node)]
  /\ hpc = "walk" /\ node = Null => HeldBar = [for |-> hpkg, entry |-> Null]
  /\ hpc = "walk" /\ node # Null => HeldBar = Null
  /\ hpc \in {"idle", "free"} => HeldBar = Null
  BY DEF HeldBar

\* The answers of searches are none of them null.
LEMMA HeldNotNull ==
  ASSUME NEW p \in Pkg, NEW e \in Entry
  PROVE  /\ [for |-> p, entry |-> e] # Null /\ e # Null
         /\ [for |-> p, entry |-> Null] # Null
  BY CacheAssumption DEF Entry

\* A step that keeps the nodes of the list and the handler's place in it is
\* one of stuttering.
LEMMA SameBar ==
  ASSUME Listed' = Listed, \A a \in Listed : EntryOf(a)' = EntryOf(a),
         HeldBar' = HeldBar, count' = count
  PROVE  UNCHANGED Promise!specVars
  BY DEF CacheBar, Promise!specVars

LEMMA InitRefines == Init => Promise!SpecInit
  BY DEF Init, Promise!SpecInit, CacheBar, HeldBar, Listed

LEMMA AppendHeadRefines ==
  ASSUME CInv, AppendHead PROVE Promise!SpecAppend(epkg)
<1> USE DEF AppendHead, hdlVars
<1>1. Listed' = Listed \union {tmp}
  BY DEF CInv, TypeOK, NoDanglingUse, Listed, OwnNode
<1>2. EntryOf(tmp) = [stamp |-> count, pkg |-> epkg]
  BY DEF CInv, OwnNode, EntryOf
<1>3. CacheBar' = CacheBar \union {[stamp |-> count, pkg |-> epkg]}
  BY <1>1, <1>2 DEF CacheBar, EntryOf
<1>4. HeldBar' = HeldBar
  BY DEF HeldBar, EntryOf
<1> QED BY <1>3, <1>4 DEF Promise!SpecAppend, Promise!Push

LEMMA CreateCacheRefines ==
  ASSUME CInv, NEW a \in Addr, CreateCache(a) PROVE UNCHANGED Promise!specVars
<1> USE DEF CreateCache, hdlVars
<1>1. /\ Listed' = Listed /\ a \notin Listed /\ Listed \subseteq Addr
      /\ hpc \in {"idle", "use", "free"} /\ (hpc = "use" => node \in Listed)
  BY DEF CInv, TypeOK, NoDanglingUse, Listed
<1>2. \A b \in Listed : EntryOf(b)' = EntryOf(b)
  BY <1>1 DEF CInv, TypeOK, EntryOf
<1>3. HeldBar' = HeldBar
  BY <1>1, <1>2 DEF HeldBar
<1> QED BY <1>1, <1>2, <1>3, SameBar

\* What findPresentInCache() passed without a hit holds no entry.
LEMMA EndOfListRefines ==
  ASSUME CInv, NEW p \in Pkg, \A b \in Listed : mdata[b] # p,
         HeldBar = Null, HeldBar' = [for |-> p, entry |-> Null],
         CacheBar' = CacheBar, count' = count
  PROVE  Promise!SpecMiss(p)
  BY EntryType DEF Promise!SpecMiss, Promise!Matching, CacheBar

LEMMA FindLockRefines ==
  ASSUME CInv, NEW p \in Pkg, FindLock(p) PROVE Promise!SpecMiss(p) \/ UNCHANGED Promise!specVars
<1> USE DEF FindLock, heapVars, appVars
<1>1. /\ Listed' = Listed /\ HeldBar = Null /\ CacheBar' = CacheBar
      /\ \A a \in Listed : EntryOf(a)' = EntryOf(a)
  BY HeldBarCases DEF Listed, CacheBar, EntryOf
<1>2. CASE cacheDataNode = Null
  <2>1. Listed = {}
    BY <1>2 DEF CInv, Ordered
  <2>2. HeldBar' = [for |-> p, entry |-> Null]
    BY <1>2 DEF HeldBar
  <2> QED BY <1>1, <2>1, <2>2, EndOfListRefines
<1>3. CASE cacheDataNode # Null
  <2>1. HeldBar' = Null
    BY <1>3 DEF HeldBar
  <2> QED BY <1>1, <2>1, SameBar
<1> QED BY <1>2, <1>3

LEMMA FindStepRefines ==
  ASSUME CInv, FindStep PROVE Promise!SpecMiss(hpkg) \/ UNCHANGED Promise!specVars
<1> USE DEF FindStep, heapVars, appVars
<1>1. /\ Listed' = Listed /\ HeldBar = Null /\ CacheBar' = CacheBar
      /\ \A a \in Listed : EntryOf(a)' = EntryOf(a)
      /\ hpkg \in Pkg
  BY HeldBarCases DEF Listed, CacheBar, EntryOf, CInv, TypeOK
<1>2. CASE node' = Null
  <2>1. Walked' /\ mdata' = mdata /\ hpkg' = hpkg
    BY FindStepCInv DEF CInv
  <2>2. \A b \in Listed : mdata[b] # hpkg
    BY <1>1, <1>2, <2>1 DEF Walked
  <2>3. HeldBar' = [for |-> hpkg, entry |-> Null]
    BY <1>2 DEF HeldBar
  <2> QED BY <1>1, <2>2, <2>3, EndOfListRefines
<1>3. CASE node' # Null
  <2>1. HeldBar' = Null
    BY <1>3 DEF HeldBar
  <2> QED BY <1>1, <2>1, SameBar
<1> QED BY <1>2, <1>3

LEMMA FindHitRefines ==
  ASSUME CInv, FindHit PROVE Promise!SpecFind(hpkg)
<1> USE DEF FindHit, heapVars, appVars
<1>1. /\ Listed' = Listed /\ HeldBar = Null /\ CacheBar' = CacheBar
      /\ HeldBar' = [for |-> hpkg, entry |-> EntryOf(node)]
      /\ hpkg \in Pkg
  BY HeldBarCases DEF Listed, CacheBar, EntryOf, CInv, TypeOK, HeldBar
<1>2. /\ node \in Listed
      /\ \A b \in Listed : mdata[b] = hpkg => stamp[b] <= stamp[node]
      /\ \A b \in Listed : stamp[b] \in Nat
      /\ \A a, b \in Listed : stamp[a] = stamp[b] => a = b
  BY EntryType DEF CInv, NoDanglingUse, Walked, TypeOK, Ordered
<1> DEFINE M == Promise!Matching(CacheBar, hpkg)
<1>3. M = {EntryOf(b) : b \in {a \in Listed : mdata[a] = hpkg}}
  BY EntryType DEF Promise!Matching, CacheBar
<1>4. EntryOf(node) \in M
  BY <1>2, <1>3
<1>5. \A e \in M : e.stamp <= EntryOf(node).stamp
  BY <1>2, <1>3, EntryType
<1>6. ASSUME NEW e \in M, \A f \in M : f.stamp <= e.stamp PROVE e = EntryOf(node)
  <2>1. PICK b \in Listed : e = EntryOf(b) /\ mdata[b] = hpkg
    BY <1>3
  <2>2. EntryOf(node).stamp <= e.stamp /\ e.stamp <= EntryOf(node).stamp
    BY <1>4, <1>5, <1>6
  <2>3. stamp[b] = stamp[node]
    BY <1>2, <2>1, <2>2, EntryType
  <2> QED BY <1>2, <2>1, <2>3
<1>7. Promise!Newest(CacheBar, hpkg) = EntryOf(node)
  <2> HIDE DEF M
  <2>1. (CHOOSE e \in M : \A f \in M : f.stamp <= e.stamp) = EntryOf(node)
    BY <1>4, <1>5, <1>6
  <2> QED BY <2>1 DEF Promise!Newest, M
<1> QED BY <1>1, <1>4, <1>7 DEF Promise!SpecFind

LEMMA FindMissRefines ==
  ASSUME CInv, FindMiss PROVE Promise!SpecForget
<1> USE DEF FindMiss, heapVars, appVars
<1>1. /\ HeldBar = [for |-> hpkg, entry |-> Null] /\ HeldBar' = Null
      /\ CacheBar' = CacheBar
  BY HeldBarCases DEF HeldBar, CacheBar, EntryOf, Listed
<1>2. [for |-> hpkg, entry |-> Null] # Null
  BY CacheAssumption DEF CInv, TypeOK
<1> QED BY <1>1, <1>2 DEF Promise!SpecForget

LEMMA RemoveUnlinkRefines ==
  ASSUME CInv, RemoveUnlink PROVE Promise!SpecRemove
<1>1. /\ HeldBar = [for |-> hpkg, entry |-> EntryOf(node)] /\ HeldBar' = Null
      /\ hpkg \in Pkg
  BY HeldBarCases DEF HeldBar, RemoveUnlink, CInv, TypeOK
<1>2. Listed' = Listed \ {node} /\ node \in Listed
  BY UnlinkedList
<1>3. CacheBar' = CacheBar \ {EntryOf(node)}
  <2>1. \A a \in Listed : EntryOf(a)' = EntryOf(a)
    BY DEF EntryOf, RemoveUnlink
  <2> QED BY <1>2, <2>1, EntryType DEF CacheBar
<1>4. HeldBar # Null /\ EntryOf(node) # Null
  BY <1>1, <1>2, EntryType, HeldNotNull
<1>5. count' = count
  BY DEF RemoveUnlink
<1> QED BY <1>1, <1>3, <1>4, <1>5 DEF Promise!SpecRemove, Promise!Drop

\* The steps that take no effect of their own.
LEMMA QuietRefines ==
  ASSUME CInv,
         \/ \E p \in Pkg : AppendLock(p)
         \/ CreateFails \/ AppendLink \/ RemoveLock \/ FreeNode \/ UNCHANGED vars
  PROVE  UNCHANGED Promise!specVars
<1> USE DEF heapVars, appVars, hdlVars
<1>1. UNCHANGED <<stamp, mdata, count>>
  BY DEF AppendLock, CreateFails, AppendLink, RemoveLock, FreeNode, vars
<1>2. \A a \in Listed : EntryOf(a)' = EntryOf(a)
  BY <1>1 DEF EntryOf
<1>3. Listed' = Listed
  BY CacheAssumption DEF CInv, TypeOK, NoDanglingUse, Listed, AppendLock, CreateFails, AppendLink,
     RemoveLock, FreeNode, vars
<1>4. HeldBar' = HeldBar
  <2>1. CASE FreeNode
    BY <2>1 DEF FreeNode, HeldBar
  <2>2. CASE RemoveLock
    BY <1>1, <2>2 DEF RemoveLock, HeldBar, EntryOf
  <2>3. CASE ~FreeNode /\ ~RemoveLock
    <3>1. UNCHANGED hdlVars
      BY <2>3 DEF AppendLock, CreateFails, AppendLink, vars
    <3> QED BY <1>1, <3>1 DEF HeldBar, EntryOf
  <2> QED BY <2>1, <2>2, <2>3
<1> QED BY <1>1, <1>2, <1>3, <1>4, SameBar

LEMMA NextRefines ==
  CInv /\ [Next]_vars => [Promise!SpecNext]_(Promise!specVars)
<1> SUFFICES ASSUME CInv, [Next]_vars
             PROVE  Promise!SpecNext \/ UNCHANGED Promise!specVars
  OBVIOUS
<1> USE DEF Promise!SpecNext
<1>1. epkg \in Pkg /\ hpkg \in Pkg
  BY DEF CInv, TypeOK
<1>2. CASE AppendHead
  BY <1>1, <1>2, AppendHeadRefines
<1>3. CASE \E a \in Addr : CreateCache(a)
  BY <1>3, CreateCacheRefines
<1>4. CASE \E p \in Pkg : FindLock(p)
  BY <1>4, FindLockRefines
<1>5. CASE FindStep
  BY <1>1, <1>5, FindStepRefines
<1>6. CASE FindHit
  BY <1>1, <1>6, FindHitRefines
<1>7. CASE FindMiss
  BY <1>7, FindMissRefines
<1>8. CASE RemoveUnlink
  BY <1>8, RemoveUnlinkRefines
<1>9. CASE \/ \E p \in Pkg : AppendLock(p)
           \/ CreateFails \/ AppendLink \/ RemoveLock \/ FreeNode \/ UNCHANGED vars
  BY <1>9, QuietRefines
<1> QED BY <1>2, <1>3, <1>4, <1>5, <1>6, <1>7, <1>8, <1>9 DEF Next, Append, Handle

\* The linked list of rrdRunCmdThread.c implements the cache RrdDispatch is
\* written with: append_item(), findPresentInCache() and remove_item() are
\* atomic to their callers, although findPresentInCache() hands an address
\* out of its critical section and remove_item() frees after its own.
THEOREM ListImplementsCache == Spec => ImplementsPromise
<1>1. Spec => Promise!Spec
  BY InitRefines, NextRefines, CInvAlways, PTL DEF Spec, Promise!Spec
<1> QED BY <1>1 DEF ImplementsPromise
=============================================================================
