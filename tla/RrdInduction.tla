---------------------------- MODULE RrdInduction ----------------------------
(***************************************************************************)
(* Induction over numbers, recursive functions, and the order of finite    *)
(* sets of numbers, as the proofs about strings and archives need them.    *)
(* The induction theorems of the library take an operator as a parameter;  *)
(* here a set takes its place.                                             *)
(***************************************************************************)
EXTENDS Integers, Sequences, FiniteSets, FiniteSetTheorems, WellFoundedInduction, TLAPS

\* A set of natural numbers with a member has a least one.
LEMMA LeastMember ==
  ASSUME NEW T \in SUBSET Nat, T # {}
  PROVE  \E x \in T : \A y \in T : x <= y
<1> DEFINE R == OpToRel(<, Nat)
<1>1. IsWellFoundedOn(R, Nat)
  BY NatLessThanWellFounded
<1>2. PICK x \in T : \A y \in T : ~(<<y, x>> \in R)
  <2> HIDE DEF R
  <2> QED BY <1>1, WFMin, Zenon
<1>3. ASSUME NEW y \in T PROVE x <= y
  <2>1. ~(y < x)
    BY <1>2 DEF OpToRel
  <2> QED BY <2>1
<1> QED BY <1>3

\* A set of numbers below a bound that has a member has a largest one.
LEMMA LargestBelow ==
  ASSUME NEW n \in Nat, NEW T \in SUBSET (0..n), T # {}
  PROVE  \E x \in T : \A y \in T : y <= x
<1> DEFINE D == {n - t : t \in T}
<1>1. D \subseteq Nat /\ D # {}
  <2>1. \A t \in T : n - t \in Nat
    OBVIOUS
  <2>2. D \subseteq Nat
    BY <2>1
  <2>3. PICK t \in T : TRUE
    OBVIOUS
  <2>4. n - t \in D
    BY <2>3
  <2> QED BY <2>2, <2>4
<1> DEFINE R == OpToRel(<, Nat)
<1>2. IsWellFoundedOn(R, Nat)
  BY NatLessThanWellFounded
<1>3. PICK d \in D : \A y \in D : ~(<<y, d>> \in R)
  <2> HIDE DEF D, R
  <2> QED BY <1>1, <1>2, WFMin, Zenon
<1>4. PICK x \in T : d = n - x
  BY <1>3
<1>5. ASSUME NEW y \in T PROVE y <= x
  <2>1. n - y \in D /\ n - y \in Nat /\ d \in Nat
    BY <1>1, <1>3
  <2>2. ~(n - y < d)
    BY <1>3, <2>1 DEF OpToRel
  <2> QED BY <1>4, <2>2
<1> QED BY <1>5

\* A set that has 0, and with a number the next one, has all of them.
LEMMA InductionOnSet ==
  ASSUME NEW T, 0 \in T, \A n \in Nat : n \in T => n + 1 \in T
  PROVE  \A n \in Nat : n \in T
<1> SUFFICES ASSUME Nat \ T # {} PROVE FALSE
  OBVIOUS
<1>1. PICK x \in Nat \ T : \A y \in Nat \ T : x <= y
  BY LeastMember
<1>2. x # 0 /\ x - 1 \in Nat /\ x = (x - 1) + 1
  BY <1>1
<1>3. x - 1 \in T
  BY <1>1, <1>2
<1> QED BY <1>1, <1>2, <1>3

\* A function on 0..n is defined by its value at 0 and by how each value
\* follows from the one before.
Rounds(n, v0, step, g) == g[0] = v0 /\ \A i \in 1..n : g[i] = step[<<i, g[i - 1]>>]

LEMMA RecursionOnSet ==
  ASSUME NEW V, NEW v0 \in V, NEW step \in [Nat \X V -> V], NEW m \in Nat
  PROVE  \E g \in [0..m -> V] : Rounds(m, v0, step, g)
<1> DEFINE Good(n, g) == g[0] = v0 /\ \A i \in 1..n : g[i] = step[<<i, g[i - 1]>>]
           T == {n \in Nat : \E g \in [0..n -> V] : Good(n, g)}
<1>1. 0 \in T
  <2>1. [i \in 0..0 |-> v0] \in [0..0 -> V] /\ Good(0, [i \in 0..0 |-> v0])
    OBVIOUS
  <2> QED BY <2>1
<1>2. ASSUME NEW n \in Nat, n \in T PROVE n + 1 \in T
  <2>1. PICK g \in [0..n -> V] : Good(n, g)
    BY <1>2
  <2> DEFINE h == [i \in 0..(n + 1) |-> IF i <= n THEN g[i] ELSE step[<<n + 1, g[n]>>]]
  <2>2. h \in [0..(n + 1) -> V]
    OBVIOUS
  <2>3. h[0] = v0
    BY <2>1
  <2>4. ASSUME NEW i \in 1..(n + 1) PROVE h[i] = step[<<i, h[i - 1]>>]
    <3>1. h[i - 1] = g[i - 1]
      OBVIOUS
    <3>2. CASE i <= n
      BY <2>1, <3>1, <3>2
    <3>3. CASE i = n + 1
      <4>1. h[i] = step[<<n + 1, g[n]>>] /\ i - 1 = n
        BY <3>3
      <4> HIDE DEF h
      <4> QED BY <3>1, <3>3, <4>1
    <3> QED BY <3>2, <3>3
  <2> HIDE DEF h
  <2> QED BY <2>2, <2>3, <2>4
<1>3. \A n \in Nat : n \in T
  <2> HIDE DEF T
  <2> QED BY <1>1, <1>2, InductionOnSet
<1> QED BY <1>3 DEF Rounds

\* A function on 0..n whose value at each place is given, or follows from the
\* one at a later place.
Backwards(n, nxt, leaf, join, g) ==
  \A p \in 0..n : g[p] = IF nxt[p] = 0 THEN leaf[p] ELSE join[<<p, g[nxt[p]]>>]

LEMMA BackwardsOnSet ==
  ASSUME NEW V, NEW n \in Nat, NEW nxt, NEW leaf \in [0..n -> V],
         NEW join \in [(0..n) \X V -> V],
         \A p \in 0..n : nxt[p] = 0 \/ nxt[p] \in (p + 1)..n
  PROVE  \E g \in [0..n -> V] : Backwards(n, nxt, leaf, join, g)
<1> DEFINE Val(g, p) == IF nxt[p] = 0 THEN leaf[p] ELSE join[<<p, g[nxt[p]]>>]
           Good(m, g) == \A p \in 0..n : p + m > n => g[p] = Val(g, p)
           T == {m \in Nat : m <= n + 1 => \E g \in [0..n -> V] : Good(m, g)}
<1>1. 0 \in T
  <2>1. Good(0, leaf)
    OBVIOUS
  <2> QED BY <2>1
<1>2. ASSUME NEW m \in Nat, m \in T PROVE m + 1 \in T
  <2> SUFFICES ASSUME m + 1 <= n + 1 PROVE \E g \in [0..n -> V] : Good(m + 1, g)
    OBVIOUS
  <2>1. PICK g \in [0..n -> V] : Good(m, g)
    BY <1>2
  <2> DEFINE a == n - m
             h == [g EXCEPT ![a] = Val(g, a)]
  <2>2. a \in 0..n
    OBVIOUS
  <2>3. \A p \in 0..n : Val(g, p) \in V
    OBVIOUS
  <2>4. h \in [0..n -> V] /\ h[a] = Val(g, a) /\ \A p \in 0..n : p # a => h[p] = g[p]
    <3> HIDE DEF Val
    <3> QED BY <2>2, <2>3
  <2>5. ASSUME NEW p \in 0..n, p >= a PROVE Val(h, p) = Val(g, p)
    <3>1. nxt[p] # 0 => nxt[p] \in 0..n /\ nxt[p] # a
      BY <2>2, <2>5
    <3> HIDE DEF h, a
    <3> QED BY <2>4, <3>1
  <2> HIDE DEF Val, h
  <2>6. ASSUME NEW p \in 0..n, p + (m + 1) > n PROVE h[p] = Val(h, p)
    <3>1. p >= a
      BY <2>6
    <3>2. CASE p = a
      BY <2>4, <2>5, <3>1, <3>2
    <3>3. CASE p # a
      <4>1. p + m > n
        BY <2>6, <3>3
      <4>2. g[p] = Val(g, p)
        BY <2>1, <4>1
      <4> QED BY <2>4, <2>5, <3>1, <3>3, <4>2
    <3> QED BY <3>2, <3>3
  <2> QED BY <2>4, <2>6
<1>3. \A m \in Nat : m \in T
  <2> HIDE DEF T
  <2> QED BY <1>1, <1>2, InductionOnSet
<1>4. PICK g \in [0..n -> V] : Good(n + 1, g)
  <2>1. n + 1 \in T
    <3> HIDE DEF T
    <3> QED BY <1>3
  <2> HIDE DEF Good
  <2> QED BY <2>1
<1>5. \A p \in 0..n : g[p] = Val(g, p)
  <2> HIDE DEF Val
  <2>1. \A p \in 0..n : p + (n + 1) > n
    OBVIOUS
  <2> QED BY <1>4, <2>1
<1> QED BY <1>5 DEF Backwards
-----------------------------------------------------------------------------
(***************************************************************************)
(* Sequences and finite sets.                                              *)
(***************************************************************************)

LEMMA LargerAlphabet ==
  ASSUME NEW A, NEW B, A \subseteq B, NEW s \in Seq(A)
  PROVE  s \in Seq(B)
  OBVIOUS

LEMMA FirstIsHead ==
  ASSUME NEW S, NEW s \in Seq(S), s # <<>>
  PROVE  Len(s) > 0 /\ Head(s) = s[1]
  OBVIOUS

LEMMA EmptyEnd ==
  ASSUME NEW S, NEW s \in Seq(S)
  PROVE  SubSeq(s, Len(s) + 1, Len(s)) = <<>>
<1> DEFINE q == SubSeq(s, Len(s) + 1, Len(s))
<1>1. q \in Seq(S) /\ Len(q) = 0
  OBVIOUS
<1> HIDE DEF q
<1>2. q = <<>>
  BY <1>1
<1> QED BY <1>2 DEF q

LEMMA UpToFinite ==
  ASSUME NEW n \in Nat
  PROVE  IsFiniteSet(1..n)
  BY FS_Interval

LEMMA PairSize ==
  ASSUME NEW x, NEW y, x # y
  PROVE  Cardinality({x} \union {y}) = 2
<1>1. IsFiniteSet({x}) /\ Cardinality({x}) = 1 /\ y \notin {x}
  BY FS_Singleton
<1>2. Cardinality({x} \union {y}) = Cardinality({x}) + 1
  BY <1>1, FS_AddElement
<1>3. Cardinality({x}) + 1 = 2
  BY <1>1
<1> QED BY <1>2, <1>3
-----------------------------------------------------------------------------
(***************************************************************************)
(* Ranks: the place of a member of a finite set of numbers in their order. *)
(***************************************************************************)
Rank(T, k) == Cardinality({j \in T : j < k})

LEMMA RankType ==
  ASSUME NEW T, IsFiniteSet(T), NEW k
  PROVE  /\ IsFiniteSet({j \in T : j < k}) /\ Rank(T, k) \in Nat
         /\ Rank(T, k) <= Cardinality(T) /\ Cardinality(T) \in Nat
<1>1. {j \in T : j < k} \subseteq T
  OBVIOUS
<1> QED BY <1>1, FS_Subset, FS_CardinalityType DEF Rank

\* The next member has the next rank.
LEMMA RankNext ==
  ASSUME NEW T \in SUBSET Nat, IsFiniteSet(T), NEW k \in T, NEW l \in T, k < l,
         \A j \in T : ~(k < j /\ j < l)
  PROVE  Rank(T, l) = Rank(T, k) + 1
<1> DEFINE A == {j \in T : j < k}
<1>0. \A j \in T : j \in Nat
  OBVIOUS
<1>1. {j \in T : j < l} = A \union {k}
  <2>1. k \in Nat /\ l \in Nat
    BY <1>0
  <2>2. ASSUME NEW j \in T PROVE j < l <=> j < k \/ j = k
    <3>1. j \in Nat
      BY <1>0
    <3> QED BY <2>1, <3>1
  <2> QED BY <2>2
<1>2. k \notin A
  BY <1>0
<1>3. IsFiniteSet(A)
  BY RankType
<1> HIDE DEF A
<1>4. Cardinality(A \union {k}) = Cardinality(A) + 1
  BY <1>2, <1>3, FS_AddElement
<1> QED BY <1>1, <1>4 DEF Rank, A

\* The first member has rank 0.
LEMMA RankFirst ==
  ASSUME NEW T \in SUBSET Nat, NEW k \in T, \A j \in T : k <= j
  PROVE  Rank(T, k) = 0
<1>0. \A j \in T : j \in Nat
  OBVIOUS
<1>1. {j \in T : j < k} = {}
  <2>1. ASSUME NEW j \in T PROVE ~(j < k)
    <3>1. j \in Nat /\ k \in Nat
      BY <1>0
    <3> QED BY <3>1
  <2> QED BY <2>1
<1> QED BY <1>1, FS_EmptySet DEF Rank

\* The last member has the highest rank.
LEMMA RankLast ==
  ASSUME NEW T \in SUBSET Nat, IsFiniteSet(T), NEW k \in T, \A j \in T : j <= k
  PROVE  Cardinality(T) = Rank(T, k) + 1
<1> DEFINE A == {j \in T : j < k}
<1>0. \A j \in T : j \in Nat
  OBVIOUS
<1>1. T = A \union {k}
  <2>1. ASSUME NEW j \in T PROVE j < k \/ j = k
    <3>1. j \in Nat /\ k \in Nat
      BY <1>0
    <3> QED BY <3>1
  <2> QED BY <2>1
<1>2. k \notin A
  BY <1>0
<1>3. IsFiniteSet(A)
  BY RankType
<1> HIDE DEF A
<1>4. Cardinality(A \union {k}) = Cardinality(A) + 1
  BY <1>2, <1>3, FS_AddElement
<1> QED BY <1>1, <1>4 DEF Rank, A

\* A set of more members than a number has a member of that rank.
LEMMA RankExists ==
  ASSUME NEW T \in SUBSET Nat, IsFiniteSet(T)
  PROVE  \A r \in Nat : r < Cardinality(T) => \E k \in T : Rank(T, k) = r
<1> DEFINE P(r) == r < Cardinality(T) => \E k \in T : Rank(T, k) = r
           I == {r \in Nat : P(r)}
<1>1. 0 \in I
  <2> SUFFICES ASSUME 0 < Cardinality(T) PROVE \E k \in T : Rank(T, k) = 0
    OBVIOUS
  <2>1. T # {}
    BY FS_EmptySet
  <2>2. PICK k \in T : \A j \in T : k <= j
    BY <2>1, LeastMember
  <2> QED BY <2>2, RankFirst
<1>2. ASSUME NEW r \in Nat, r \in I PROVE r + 1 \in I
  <2> SUFFICES ASSUME r + 1 < Cardinality(T) PROVE \E k \in T : Rank(T, k) = r + 1
    OBVIOUS
  <2>0. Cardinality(T) \in Nat
    BY FS_CardinalityType
  <2>1. PICK k \in T : Rank(T, k) = r
    BY <1>2, <2>0
  <2> DEFINE U == {j \in T : k < j}
  <2>2. U # {}
    <3> SUFFICES ASSUME U = {} PROVE FALSE
      OBVIOUS
    <3>1. \A j \in T : j <= k
      OBVIOUS
    <3>2. Cardinality(T) = r + 1
      BY <2>1, <3>1, RankLast
    <3> QED BY <2>0, <3>2
  <2>3. U \in SUBSET Nat
    OBVIOUS
  <2>4. PICK l \in U : \A j \in U : l <= j
    <3> HIDE DEF U
    <3> QED BY <2>2, <2>3, LeastMember
  <2>5. Rank(T, l) = Rank(T, k) + 1
    BY <2>4, RankNext
  <2> QED BY <2>1, <2>4, <2>5
<1>3. \A r \in Nat : r \in I
  <2> HIDE DEF I
  <2> QED BY <1>1, <1>2, InductionOnSet
<1> QED BY <1>3

\* Ranks grow with the members.
LEMMA RankGrows ==
  ASSUME NEW T \in SUBSET Nat, IsFiniteSet(T), NEW k \in T, NEW l \in T, k < l
  PROVE  Rank(T, k) < Rank(T, l)
<1> DEFINE A == {j \in T : j < k}
           B == {j \in T : j < l}
<1>0. \A j \in T : j \in Nat
  OBVIOUS
<1>1. A \subseteq B /\ k \in B /\ k \notin A
  <2>1. k \in Nat /\ l \in Nat
    BY <1>0
  <2>2. ASSUME NEW j \in T, j < k PROVE j < l
    <3>1. j \in Nat
      BY <1>0
    <3> QED BY <2>1, <2>2, <3>1
  <2>3. k < l /\ ~(k < k)
    BY <2>1
  <2> QED BY <2>2, <2>3
<1>2. IsFiniteSet(A) /\ IsFiniteSet(B)
  BY RankType
<1> HIDE DEF A, B
<1>3. Cardinality(A) < Cardinality(B)
  <2>1. Cardinality(A \union {k}) = Cardinality(A) + 1 /\ IsFiniteSet(A \union {k})
    BY <1>1, <1>2, FS_AddElement
  <2>2. A \union {k} \subseteq B
    BY <1>1
  <2>3. Cardinality(A \union {k}) <= Cardinality(B)
    BY <1>2, <2>2, FS_Subset
  <2>4. Cardinality(A) \in Nat /\ Cardinality(B) \in Nat
    BY <1>2, FS_CardinalityType
  <2> QED BY <2>1, <2>3, <2>4
<1> QED BY <1>3 DEF Rank, A, B
=============================================================================
