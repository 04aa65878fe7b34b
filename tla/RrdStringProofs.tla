-------------------------- MODULE RrdStringProofs ---------------------------
(***************************************************************************)
(* Proofs about the strings a request passes through: the request itself   *)
(* (RrdIssueString), of any length; the list a web configuration document  *)
(* is turned into (RrdWebcfg), for all documents; and the names written    *)
(* into memory of computed size (RrdNames), for all lengths of their       *)
(* parts.                                                                  *)
(***************************************************************************)
EXTENDS RrdIssueString, RrdWebcfg, RrdNames, RrdInduction

(***************************************************************************)
(* The operators on strings.                                               *)
(***************************************************************************)

\* The loop of Kept: it starts with nothing and looks at one character more
\* in every round.
KeptSoFar(s, C) ==
  CHOOSE kept :
    kept = [i \in 0..Len(s) |->
              IF i = 0 THEN <<>>
              ELSE IF s[i] \in C THEN Append(kept[i - 1], s[i]) ELSE kept[i - 1]]

LEMMA KeptRounds ==
  ASSUME NEW S, NEW s \in Seq(S), NEW C
  PROVE  LET f == KeptSoFar(s, C)
         IN /\ Kept(s, C) = f[Len(s)]
            /\ f[0] = <<>>
            /\ \A i \in 1..Len(s) :
                 f[i] = IF s[i] \in C THEN Append(f[i - 1], s[i]) ELSE f[i - 1]
<1> DEFINE N == Len(s)
           Round(i, k) == IF s[i] \in C THEN Append(k, s[i]) ELSE k
           Is(f) == f = [i \in 0..N |-> IF i = 0 THEN <<>> ELSE Round(i, f[i - 1])]
           step == [p \in Nat \X Seq(C) |->
                      IF p[1] \in 1..N THEN Round(p[1], p[2]) ELSE p[2]]
<1>1. N \in Nat
  OBVIOUS
<1>2. step \in [Nat \X Seq(C) -> Seq(C)]
  OBVIOUS
<1>3. PICK g \in [0..N -> Seq(C)] :
        g[0] = <<>> /\ \A i \in 1..N : g[i] = step[<<i, g[i - 1]>>]
  <2> DEFINE V == Seq(C)
             v0 == <<>>
  <2>1. v0 \in V /\ step \in [Nat \X V -> V]
    BY <1>2
  <2> HIDE DEF step, N, V, v0
  <2>2. \E g \in [0..N -> V] : Rounds(N, v0, step, g)
    BY <1>1, <2>1, RecursionOnSet
  <2> QED BY <2>2 DEF V, v0, Rounds
<1>4. ASSUME NEW i \in 1..N PROVE g[i] = Round(i, g[i - 1])
  <2> HIDE DEF Round
  <2>1. i \in Nat /\ g[i - 1] \in Seq(C)
    BY <1>1
  <2>2. \A k \in Seq(C) : step[<<i, k>>] = Round(i, k)
    BY <2>1
  <2> HIDE DEF step, N
  <2> QED BY <1>3, <2>1, <2>2
<1>5. Is(g)
  <2> HIDE DEF Round
  <2>1. \A i \in 0..N : g[i] = IF i = 0 THEN <<>> ELSE Round(i, g[i - 1])
    BY <1>1, <1>3, <1>4
  <2> HIDE DEF N
  <2> QED BY <2>1
<1>6. Is(KeptSoFar(s, C))
  BY <1>5, Zenon DEF KeptSoFar
<1>7. Kept(s, C) = KeptSoFar(s, C)[N]
  BY DEF Kept, KeptSoFar
<1> DEFINE f == KeptSoFar(s, C)
<1>8. f[0] = <<>> /\ \A i \in 1..N : f[i] = Round(i, f[i - 1])
  <2> HIDE DEF f, Round
  <2>1. Is(f)
    BY <1>6 DEF f
  <2> QED BY <1>1, <2>1
<1> QED BY <1>7, <1>8

\* What Kept keeps: members of C only, no more than there were, and the first
\* one first if it is a member.
LEMMA KeptFacts ==
  ASSUME NEW S, NEW s \in Seq(S), NEW C
  PROVE  /\ Kept(s, C) \in Seq(C) /\ Len(Kept(s, C)) <= Len(s)
         /\ \A k \in 1..Len(Kept(s, C)) : \E j \in 1..Len(s) : Kept(s, C)[k] = s[j]
         /\ Len(s) > 0 /\ s[1] \in C => Len(Kept(s, C)) > 0 /\ Kept(s, C)[1] = s[1]
<1> DEFINE N == Len(s)
           f == KeptSoFar(s, C)
           P(i) == /\ f[i] \in Seq(C) /\ Len(f[i]) <= i
                   /\ \A k \in 1..Len(f[i]) : \E j \in 1..N : f[i][k] = s[j]
                   /\ i > 0 /\ s[1] \in C => Len(f[i]) > 0 /\ f[i][1] = s[1]
           T == {i \in Nat : i <= N => P(i)}
<1> HIDE DEF f
<1>1. N \in Nat
  OBVIOUS
<1>2. /\ Kept(s, C) = f[N] /\ f[0] = <<>>
      /\ \A i \in 1..N : f[i] = IF s[i] \in C THEN Append(f[i - 1], s[i]) ELSE f[i - 1]
  BY KeptRounds DEF f
<1>3. 0 \in T
  <2>1. f[0] \in Seq(C) /\ Len(f[0]) = 0
    BY <1>2
  <2> QED BY <1>1, <2>1
<1>4. ASSUME NEW n \in Nat, n \in T PROVE n + 1 \in T
  <2> SUFFICES ASSUME n + 1 <= N PROVE P(n + 1)
    OBVIOUS
  <2>0. n + 1 \in 1..N /\ (n + 1) - 1 = n
    BY <1>1
  <2>1. P(n)
    BY <1>1, <1>4
  <2>2. CASE s[n + 1] \in C
    <3>1. f[n + 1] = Append(f[n], s[n + 1])
      BY <1>2, <2>0, <2>2
    <3> DEFINE q == f[n]
               x == s[n + 1]
    <3>2. q \in Seq(C) /\ Len(q) \in 0..n /\ x \in C
      BY <2>1, <2>2
    <3>3. /\ f[n + 1] \in Seq(C) /\ Len(f[n + 1]) = Len(q) + 1
          /\ \A k \in 1..Len(q) : f[n + 1][k] = q[k]
          /\ f[n + 1][Len(q) + 1] = x
      BY <3>1, <3>2
    <3>4. n = 0 \/ s[1] \notin C \/ (Len(q) > 0 /\ q[1] = s[1])
      BY <2>1
    <3>5. \A k \in 1..Len(q) : \E j \in 1..N : q[k] = s[j]
      BY <2>1
    <3> HIDE DEF q, P
    <3>6. s[1] \in C => Len(f[n + 1]) > 0 /\ f[n + 1][1] = s[1]
      BY <3>2, <3>3, <3>4
    <3>7. \A k \in 1..Len(f[n + 1]) : \E j \in 1..N : f[n + 1][k] = s[j]
      BY <2>0, <3>2, <3>3, <3>5
    <3> QED BY <3>2, <3>3, <3>6, <3>7 DEF P
  <2>3. CASE s[n + 1] \notin C
    <3>1. f[n + 1] = f[n]
      BY <1>2, <2>0, <2>3
    <3> QED BY <1>1, <1>2, <2>1, <2>3, <3>1
  <2> QED BY <2>2, <2>3
<1>5. \A n \in Nat : n \in T
  <2> HIDE DEF T
  <2> QED BY <1>3, <1>4, InductionOnSet
<1>6. P(N)
  BY <1>1, <1>5
<1> QED BY <1>1, <1>2, <1>6

\* Where the delimiters from i on end, and where the token from i on does.
LEMMA SkipFacts ==
  ASSUME NEW S, NEW s \in Seq(S), NEW d, NEW i \in 1..(Len(s) + 1)
  PROVE  /\ SkipDelims(s, d, i) \in i..(Len(s) + 1)
         /\ SkipDelims(s, d, i) <= Len(s) => s[SkipDelims(s, d, i)] # d
         /\ \A k \in i..(SkipDelims(s, d, i) - 1) : s[k] = d
<1> DEFINE T == {j \in i..(Len(s) + 1) : j <= Len(s) => s[j] # d}
<1>1. T \subseteq Nat /\ Len(s) + 1 \in T /\ Len(s) \in Nat
  OBVIOUS
<1>2. PICK j \in T : \A y \in T : j <= y
  <2> HIDE DEF T
  <2> QED BY <1>1, LeastMember
<1>3. \A k \in i..(j - 1) : s[k] = d
  BY <1>1, <1>2
<1> QED BY <1>1, <1>2, <1>3 DEF SkipDelims

LEMMA TokenFacts ==
  ASSUME NEW S, NEW s \in Seq(S), NEW d, NEW i \in 1..(Len(s) + 1)
  PROVE  /\ TokenEnd(s, d, i) \in i..(Len(s) + 1)
         /\ TokenEnd(s, d, i) <= Len(s) => s[TokenEnd(s, d, i)] = d
         /\ \A k \in i..(TokenEnd(s, d, i) - 1) : s[k] # d
<1> DEFINE T == {j \in i..(Len(s) + 1) : j <= Len(s) => s[j] = d}
<1>1. T \subseteq Nat /\ Len(s) + 1 \in T /\ Len(s) \in Nat
  OBVIOUS
<1>2. PICK j \in T : \A y \in T : j <= y
  <2> HIDE DEF T
  <2> QED BY <1>1, LeastMember
<1>3. \A k \in i..(j - 1) : s[k] # d
  BY <1>1, <1>2
<1> QED BY <1>1, <1>2, <1>3 DEF TokenEnd

\* The text of a token has no delimiter.
LEMMA TokenText ==
  ASSUME NEW S, NEW s \in Seq(S), NEW d, NEW i \in 1..(Len(s) + 1)
  PROVE  SubSeq(s, i, TokenEnd(s, d, i) - 1) \in Seq(S \ {d})
<1> DEFINE e == TokenEnd(s, d, i)
<1>1. e \in i..(Len(s) + 1) /\ \A k \in i..(e - 1) : s[k] # d
  BY TokenFacts
<1> HIDE DEF e
<1>2. SubSeq(s, i, e - 1) \in Seq(S \ {d})
  <2>1. Len(s) \in Nat /\ e - 1 \in Int /\ e - 1 <= Len(s)
    BY <1>1
  <2>2. \A k \in i..(e - 1) : s[k] \in S \ {d}
    BY <1>1, <2>1
  <2> QED BY <2>1, <2>2
<1> QED BY <1>2 DEF e

\* Where the n elements of a list begin, as issueTypeSplitter() finds them
\* one after the other.
Froms(s, d, n) ==
  CHOOSE from :
    from = [i \in 1..n |-> IF i = 1 THEN SkipDelims(s, d, 1)
                           ELSE SkipDelims(s, d, TokenEnd(s, d, from[i - 1]))]

LEMMA FromsFacts ==
  ASSUME NEW S, NEW s \in Seq(S), NEW d, NEW n \in Nat \ {0}
  PROVE  /\ Froms(s, d, n)[1] = SkipDelims(s, d, 1)
         /\ \A i \in 2..n :
              Froms(s, d, n)[i] = SkipDelims(s, d, TokenEnd(s, d, Froms(s, d, n)[i - 1]))
         /\ \A i \in 1..n : Froms(s, d, n)[i] \in 1..(Len(s) + 1)
<1> DEFINE V == 1..(Len(s) + 1)
           v0 == SkipDelims(s, d, 1)
           After(v) == SkipDelims(s, d, TokenEnd(s, d, v))
           step == [p \in Nat \X V |-> After(p[2])]
           Is(f) == f = [i \in 1..n |-> IF i = 1 THEN v0 ELSE After(f[i - 1])]
<1>1. \A v \in V : After(v) \in V
  <2> SUFFICES ASSUME NEW v \in V PROVE After(v) \in V
    OBVIOUS
  <2>1. TokenEnd(s, d, v) \in v..(Len(s) + 1) /\ Len(s) \in Nat
    BY TokenFacts
  <2>2. TokenEnd(s, d, v) \in V
    BY <2>1
  <2>3. After(v) \in TokenEnd(s, d, v)..(Len(s) + 1)
    BY <2>2, SkipFacts
  <2> QED BY <2>1, <2>2, <2>3
<1>2. v0 \in V
  <2>1. 1 \in 1..(Len(s) + 1)
    OBVIOUS
  <2> QED BY <2>1, SkipFacts
<1> HIDE DEF v0, After
<1>3. step \in [Nat \X V -> V]
  BY <1>1
<1>4. PICK g \in [0..(n - 1) -> V] : Rounds(n - 1, v0, step, g)
  <2>1. n - 1 \in Nat
    OBVIOUS
  <2> HIDE DEF V, step
  <2> QED BY <1>2, <1>3, <2>1, RecursionOnSet
<1>5. g[0] = v0 /\ \A i \in 1..(n - 1) : g[i] = After(g[i - 1])
  <2>1. \A i \in 1..(n - 1) : i \in Nat /\ g[i - 1] \in V
    BY <1>4
  <2>2. \A i \in Nat, v \in V : step[<<i, v>>] = After(v)
    OBVIOUS
  <2> HIDE DEF V, step
  <2> QED BY <1>4, <2>1, <2>2 DEF Rounds
<1> DEFINE h == [i \in 1..n |-> g[i - 1]]
<1>6. \A i \in 1..n : h[i] = IF i = 1 THEN v0 ELSE After(h[i - 1])
  BY <1>5
<1>7. Is(h)
  <2>1. h = [i \in 1..n |-> h[i]]
    OBVIOUS
  <2> HIDE DEF h
  <2> QED BY <1>6, <2>1
<1>8. Is(Froms(s, d, n))
  <2> HIDE DEF h
  <2> QED BY <1>7, Zenon DEF Froms, v0, After
<1> DEFINE f == Froms(s, d, n)
<1> HIDE DEF f
<1>9. \A i \in 1..n : f[i] = IF i = 1 THEN v0 ELSE After(f[i - 1])
  BY <1>8 DEF f
<1>10. \A i \in 1..n : f[i] \in V
  <2> DEFINE T == {i \in Nat : i \in 1..n => f[i] \in V}
  <2>1. 0 \in T
    OBVIOUS
  <2>2. ASSUME NEW i \in Nat, i \in T PROVE i + 1 \in T
    <3> SUFFICES ASSUME i + 1 \in 1..n PROVE f[i + 1] \in V
      OBVIOUS
    <3>1. CASE i = 0
      BY <1>2, <1>9, <3>1
    <3>2. CASE i \in 1..n
      <4>1. f[i] \in V
        BY <2>2, <3>2
      <4>2. f[i + 1] = After(f[i])
        BY <1>9, <3>2
      <4> QED BY <1>1, <4>1, <4>2
    <3> QED BY <3>1, <3>2
  <2>3. \A i \in Nat : i \in T
    <3> HIDE DEF T
    <3> QED BY <2>1, <2>2, InductionOnSet
  <2> QED BY <2>3
<1>11. f[1] = v0 /\ \A i \in 2..n : f[i] = After(f[i - 1])
  BY <1>9
<1> QED BY <1>10, <1>11 DEF f, v0, After

LEMMA Without ==
  ASSUME NEW S, NEW x, NEW s \in Seq(S \ {x})
  PROVE  s \in Seq(S) /\ \A k \in 1..Len(s) : s[k] # x
  OBVIOUS

\* A sequence and a mark behind it can be taken apart again.
LEMMA SplitMark ==
  ASSUME NEW S, NEW base \in Seq(S), NEW mark \in Seq(S)
  PROVE  LET s == base \o mark
             n == Len(mark)
         IN /\ Len(s) >= n /\ SubSeq(s, Len(s) - n + 1, Len(s)) = mark
            /\ SubSeq(s, 1, Len(s) - n) = base
<1> DEFINE n == Len(mark)
           b == Len(base)
           s == base \o mark
<1>1. n \in Nat /\ b \in Nat
  OBVIOUS
<1>2. s \in Seq(S) /\ Len(s) = b + n
  BY <1>1
<1>3. /\ \A k \in 1..b : s[k] = base[k]
      /\ \A k \in 1..n : s[b + k] = mark[k]
  BY <1>1
<1> HIDE DEF s
<1>4. Len(s) >= n /\ Len(s) - n = b /\ Len(s) - n + 1 = b + 1
  BY <1>1, <1>2
<1>5. SubSeq(s, b + 1, b + n) = mark
  BY <1>1, <1>2, <1>3
<1>6. SubSeq(s, 1, b) = base
  BY <1>1, <1>2, <1>3
<1> QED BY <1>2, <1>4, <1>5, <1>6 DEF s

\* A sequence without the first element of the mark does not end in the mark.
LEMMA NoMark ==
  ASSUME NEW S, NEW base \in Seq(S), NEW mark \in Seq(S), Len(mark) > 0,
         \A k \in 1..Len(base) : base[k] # mark[1],
         Len(base) >= Len(mark)
  PROVE  SubSeq(base, Len(base) - Len(mark) + 1, Len(base)) # mark
<1> DEFINE a == Len(base) - Len(mark) + 1
<1>1. a \in 1..Len(base)
  OBVIOUS
<1>2. SubSeq(base, a, Len(base))[1] = base[a]
  BY <1>1
<1> QED BY <1>1, <1>2

\* What checkAppendRequest() makes of a name that went through the pending
\* cache: with the mark behind it the name comes back marked, without it the
\* name comes back as it is, provided it has no underscore, as the base of an
\* issue type has none.
THEOREM MarkRoundTrip ==
  ASSUME NEW base \in Seq(Char \ {"_"})
  PROVE  /\ StripMark(base \o AppendMark) = [marked |-> TRUE, rest |-> base]
         /\ StripMark(base) = [marked |-> FALSE, rest |-> base]
<1>1. AppendMark \in Seq(Char) /\ Len(AppendMark) > 0 /\ AppendMark[1] = "_"
  <2>1. AppendMark \in Seq(Char) /\ AppendMark # <<>> /\ Head(AppendMark) = "_"
    BY StringAssumption
  <2>2. Len(AppendMark) > 0 /\ Head(AppendMark) = AppendMark[1]
    BY <2>1, FirstIsHead
  <2> QED BY <2>1, <2>2
<1>2. base \in Seq(Char) /\ \A k \in 1..Len(base) : base[k] # AppendMark[1]
  BY <1>1, Without
<1>3. StripMark(base \o AppendMark) = [marked |-> TRUE, rest |-> base]
  <2> DEFINE s == base \o AppendMark
             n == Len(AppendMark)
  <2>1. /\ Len(s) >= n /\ SubSeq(s, Len(s) - n + 1, Len(s)) = AppendMark
        /\ SubSeq(s, 1, Len(s) - n) = base
    BY <1>1, <1>2, SplitMark
  <2> HIDE DEF s
  <2>2. StripMark(s) = [marked |-> TRUE, rest |-> base]
    BY <2>1 DEF StripMark
  <2> QED BY <2>2 DEF s
<1>4. Len(base) >= Len(AppendMark) =>
        SubSeq(base, Len(base) - Len(AppendMark) + 1, Len(base)) # AppendMark
  BY <1>1, <1>2, NoMark
<1>5. StripMark(base) = [marked |-> FALSE, rest |-> base]
  BY <1>4 DEF StripMark
<1> QED BY <1>3, <1>5
-----------------------------------------------------------------------------
(***************************************************************************)
(* What processIssueTypeEvent() asks for.                                  *)
(***************************************************************************)

\* As much of the text before the first d as a buffer takes, and the rest.
LEMMA BeforeFacts ==
  ASSUME NEW S, NEW s \in Seq(S), NEW d, NEW n \in Nat \ {0}
  PROVE  LET b == SubSeq(s, 1, Smaller(TokenEnd(s, d, 1), n) - 1)
         IN b \in Seq(S) /\ Len(b) < n
<1> DEFINE e == TokenEnd(s, d, 1)
           m == Smaller(e, n) - 1
<1>1. e \in 1..(Len(s) + 1) /\ Len(s) \in Nat
  BY TokenFacts
<1> HIDE DEF e
<1>2. m \in 0..Len(s) /\ m < n
  BY <1>1 DEF Smaller
<1> HIDE DEF m
<1>3. SubSeq(s, 1, m) \in Seq(S) /\ Len(SubSeq(s, 1, m)) = m
  BY <1>1, <1>2
<1>4. SubSeq(s, 1, m) \in Seq(S) /\ Len(SubSeq(s, 1, m)) < n
  BY <1>2, <1>3
<1> QED BY <1>4 DEF e, m

LEMMA RestFacts ==
  ASSUME NEW S, NEW s \in Seq(S), NEW d
  PROVE  LET r == SubSeq(s, TokenEnd(s, d, 1), Len(s))
         IN r \in Seq(S) /\ (Len(r) > 0 => r[1] = d)
<1> DEFINE e == TokenEnd(s, d, 1)
           r == SubSeq(s, e, Len(s))
<1>1. e \in 1..(Len(s) + 1) /\ Len(s) \in Nat /\ (e <= Len(s) => s[e] = d)
  BY TokenFacts
<1> HIDE DEF e
<1>2. r \in Seq(S) /\ (Len(r) > 0 => r[1] = d)
  BY <1>1
<1> QED BY <1>2 DEF e

\* Keeping members of C of a sequence without x keeps none that is x.
LEMMA KeptWithout ==
  ASSUME NEW S, NEW x, NEW s \in Seq(S \ {x}), NEW C
  PROVE  Kept(s, C) \in Seq(C \ {x})
<1> DEFINE q == Kept(s, C)
<1>1. q \in Seq(C) /\ \A k \in 1..Len(q) : \E j \in 1..Len(s) : q[k] = s[j]
  BY KeptFacts
<1> HIDE DEF q
<1>2. \A j \in 1..Len(s) : s[j] # x
  OBVIOUS
<1>3. q \in Seq(C \ {x})
  BY <1>1, <1>2
<1> QED BY <1>3 DEF q

\* The characters of an element of the list, of a base and of a suffix.
ListChar == Char \ {","}
NameChar == Alnum \union {"."}
WordChar == Alnum \union {"_", "-"}

\* A base, once it is sanitized.
LEMMA BaseFacts ==
  ASSUME NEW s \in Seq(ListChar)
  PROVE  /\ Sanitized(BaseOf(s)) \in Seq(NameChar)
         /\ Len(Sanitized(BaseOf(s))) < BaseLen
<1> DEFINE b == BaseOf(s)
           C == Alnum \union {",", "."}
<1>1. BaseLen \in Nat \ {0}
  BY StringAssumption
<1>2. b \in Seq(ListChar) /\ Len(b) < BaseLen
  <2> DEFINE d == "_"
  <2>1. b = SubSeq(s, 1, Smaller(TokenEnd(s, d, 1), BaseLen) - 1)
    BY DEF BaseOf
  <2> HIDE DEF b, d
  <2> QED BY <1>1, <2>1, BeforeFacts
<1>3. Len(Kept(b, C)) <= Len(b)
  <2> HIDE DEF b, C
  <2> QED BY <1>2, KeptFacts
<1>4. Kept(b, C) \in Seq(C \ {","})
  <2> DEFINE x == ","
  <2>1. b \in Seq(Char \ {x})
    BY <1>2 DEF ListChar
  <2> HIDE DEF b, C, x
  <2>2. Kept(b, C) \in Seq(C \ {x})
    BY <2>1, KeptWithout
  <2> QED BY <2>2 DEF x
<1>5. C \ {","} = NameChar
  BY StringAssumption DEF NameChar
<1>6. Sanitized(b) = Kept(b, C)
  BY DEF Sanitized
<1>7. Len(Kept(b, C)) < BaseLen
  <2>1. Len(Kept(b, C)) \in Nat /\ Len(b) \in Nat
    <3>1. Kept(b, C) \in Seq(NameChar)
      BY <1>4, <1>5
    <3> HIDE DEF C, b
    <3> QED BY <1>2, <3>1
  <2> HIDE DEF C, b
  <2> QED BY <1>1, <1>2, <1>3, <2>1
<1> QED BY <1>4, <1>5, <1>6, <1>7

LEMMA SuffixFacts ==
  ASSUME NEW s \in Seq(ListChar)
  PROVE  /\ SuffixOf(s) \in Seq(WordChar) /\ Len(SuffixOf(s)) <= MaxSuffix
         /\ Len(SuffixOf(s)) > 0 => SuffixOf(s)[1] = "_"
<1> DEFINE d == "_"
           r == SubSeq(s, TokenEnd(s, d, 1), Len(s))
           q == Kept(r, WordChar)
<1>1. MaxSuffix \in Nat /\ d \in WordChar
  BY StringAssumption DEF WordChar
<1>2. SuffixOf(s) = IF Len(r) <= MaxSuffix THEN q ELSE <<>>
  BY DEF SuffixOf, WordChar
<1>3. r \in Seq(ListChar) /\ (Len(r) > 0 => r[1] = d)
  <2> HIDE DEF d
  <2> QED BY RestFacts
<1> HIDE DEF r, d
<1>4. /\ q \in Seq(WordChar) /\ Len(q) <= Len(r) /\ Len(r) \in Nat
      /\ Len(r) > 0 /\ r[1] \in WordChar => Len(q) > 0 /\ q[1] = r[1]
  BY <1>3, KeptFacts
<1> HIDE DEF q
<1> DEFINE z == SuffixOf(s)
<1> HIDE DEF z
<1>5. CASE Len(r) <= MaxSuffix
  <2>1. z = q
    BY <1>2, <1>5 DEF z
  <2>2. z \in Seq(WordChar) /\ Len(z) <= MaxSuffix /\ (Len(z) > 0 => z[1] = d)
    BY <1>1, <1>3, <1>4, <1>5, <2>1
  <2> QED BY <2>2 DEF z, d
<1>6. CASE ~(Len(r) <= MaxSuffix)
  <2>1. z = <<>>
    BY <1>2, <1>6 DEF z
  <2>2. z \in Seq(WordChar) /\ Len(z) = 0
    BY <2>1
  <2>3. z \in Seq(WordChar) /\ Len(z) <= MaxSuffix /\ (Len(z) > 0 => z[1] = d)
    BY <1>1, <2>2
  <2> QED BY <2>3 DEF z, d
<1> QED BY <1>5, <1>6

\* How many elements issueTypeSplitter() finds, and where.
LEMMA CountType ==
  ASSUME NEW S, NEW s \in Seq(S)
  PROVE  CountTokens(s) \in Nat \ {0}
<1> DEFINE d == ","
           start == SkipDelims(s, d, 1)
           K == {k \in (start + 1)..(Len(s) - 1) : s[k] = d /\ s[k + 1] # d}
<1>1. start \in 1..(Len(s) + 1) /\ Len(s) \in Nat
  <2> HIDE DEF d
  <2> QED BY SkipFacts
<1>2. IsFiniteSet(K)
  <2>1. K \subseteq 1..Len(s)
    <3> HIDE DEF start, d
    <3> QED BY <1>1
  <2> HIDE DEF K, start, d
  <2>2. IsFiniteSet(1..Len(s))
    BY <1>1, UpToFinite
  <2> QED BY <2>1, <2>2, FS_Subset
<1>3. Cardinality(K) \in Nat
  BY <1>2, FS_CardinalityType
<1>4. CountTokens(s) = 1 + Cardinality(K)
  BY DEF CountTokens
<1> HIDE DEF K
<1> QED BY <1>3, <1>4

LEMMA SplitterTokens ==
  ASSUME NEW S, NEW s \in Seq(S)
  PROVE  LET n == CountTokens(s)
             f == Froms(s, ",", n)
         IN IssueTypeSplitter(s) = [i \in 1..n |-> SubSeq(s, f[i], TokenEnd(s, ",", f[i]) - 1)]
  BY DEF IssueTypeSplitter, Froms

LEMMA SplitterType ==
  ASSUME NEW s \in Seq(Char)
  PROVE  IssueTypeSplitter(s) \in Seq(Seq(ListChar))
<1> DEFINE d == ","
           n == CountTokens(s)
           f == Froms(s, d, n)
           tokens == [i \in 1..n |-> SubSeq(s, f[i], TokenEnd(s, d, f[i]) - 1)]
<1>1. n \in Nat \ {0}
  BY CountType
<1>2. \A i \in 1..n : f[i] \in 1..(Len(s) + 1)
  <2> HIDE DEF d, n
  <2> QED BY <1>1, FromsFacts
<1> HIDE DEF f
<1>3. \A i \in 1..n : SubSeq(s, f[i], TokenEnd(s, d, f[i]) - 1) \in Seq(Char \ {d})
  <2> HIDE DEF d, n
  <2> QED BY <1>2, TokenText
<1>4. \A i \in 1..n : SubSeq(s, f[i], TokenEnd(s, d, f[i]) - 1) \in Seq(ListChar)
  BY <1>3 DEF ListChar
<1>5. tokens \in Seq(Seq(ListChar))
  <2> DEFINE W == Seq(ListChar)
             Token(i) == SubSeq(s, f[i], TokenEnd(s, d, f[i]) - 1)
  <2>1. \A i \in 1..n : Token(i) \in W
    BY <1>4
  <2> HIDE DEF n, W, Token
  <2>2. [i \in 1..n |-> Token(i)] \in Seq(W)
    BY <1>1, <2>1
  <2> QED BY <2>2 DEF W, Token
<1>6. IssueTypeSplitter(s) = tokens
  BY SplitterTokens DEF f
<1> QED BY <1>5, <1>6
-----------------------------------------------------------------------------
(***************************************************************************)
(* The specification.  StrInv adds to AskedAreSafe the elements the list   *)
(* is made of, which is what processIssueType() is asked for from.         *)
(***************************************************************************)
Asked == [base : Seq(NameChar), suffix : Seq(WordChar), at : Nat]

Names(a) ==
  /\ Len(a.base) > 0 /\ Len(a.base) < BaseLen
  /\ Len(a.suffix) <= MaxSuffix
  /\ Len(a.suffix) > 0 => a.suffix[1] = "_"

StrInv ==
  /\ text \in Seq(Char) /\ appendMode \in BOOLEAN
  /\ cmdMap \in Seq(Seq(ListChar)) /\ index \in Nat \ {0}
  /\ asked \in Seq(Asked) /\ \A i \in 1..Len(asked) : Names(asked[i])
  /\ stage \in {"mark", "split", "tokens", "processed"}
  /\ stage \in {"tokens", "processed"} => cmdMap = IssueTypeSplitter(text)

LEMMA InitStrInv == StringInit => StrInv
<1> SUFFICES ASSUME StringInit PROVE StrInv
  OBVIOUS
<1>1. text \in Seq(Char)
  <2>1. MaxText \in Nat
    BY StringAssumption
  <2>2. text \in SeqOf(Char, MaxText)
    BY DEF StringInit, BoundedSeq
  <2>3. PICK m \in 0..MaxText : text \in [1..m -> Char]
    BY <2>2 DEF SeqOf
  <2> QED BY <2>1, <2>3
<1>2. cmdMap \in Seq(Seq(ListChar)) /\ asked \in Seq(Asked) /\ Len(asked) = 0
  BY DEF StringInit
<1>3. \A i \in 1..Len(asked) : Names(asked[i])
  BY <1>2
<1>4. index = 1 /\ stage = "mark" /\ appendMode \in BOOLEAN
  <2>1. index = 1 /\ stage = "mark" /\ appendMode = FALSE
    BY DEF StringInit
  <2>2. appendMode \in BOOLEAN
    BY <2>1, Zenon
  <2> QED BY <2>1, <2>2
<1>5. stage \notin {"tokens", "processed"}
  BY <1>4
<1>6. index \in Nat \ {0}
  BY <1>4
<1> QED BY <1>1, <1>2, <1>3, <1>4, <1>5, <1>6, Zenon DEF StrInv

\* What checkAppendRequest() leaves is a string again.
LEMMA StripMarkType ==
  ASSUME NEW s \in Seq(Char)
  PROVE  StripMark(s).marked \in BOOLEAN /\ StripMark(s).rest \in Seq(Char)
<1> DEFINE n == Len(AppendMark)
<1>1. n \in Nat
  <2>1. AppendMark \in Seq(Char)
    BY StringAssumption
  <2> QED BY <2>1
<1>2. Len(s) >= n => SubSeq(s, 1, Len(s) - n) \in Seq(Char)
  BY <1>1
<1> QED BY <1>2 DEF StripMark

\* A list with one more that names something.
LEMMA AskedMore ==
  ASSUME NEW q \in Seq(Asked), \A i \in 1..Len(q) : Names(q[i]), NEW a \in Asked, Names(a)
  PROVE  Append(q, a) \in Seq(Asked) /\ \A i \in 1..Len(Append(q, a)) : Names(Append(q, a)[i])
  OBVIOUS

LEMMA NextStrInv == StrInv /\ [StringNext]_stringVars => StrInv'
<1> SUFFICES ASSUME StrInv, [StringNext]_stringVars PROVE StrInv'
  OBVIOUS
<1>1. CASE TakeMark
  BY <1>1, StripMarkType DEF TakeMark, StrInv
<1>2. CASE SplitList
  BY <1>2, SplitterType DEF SplitList, StrInv
<1>3. CASE ProcessToken
  <2> DEFINE s == cmdMap[index]
             base == Sanitized(BaseOf(s))
             a == [base |-> base, suffix |-> SuffixOf(s), at |-> index]
  <2>1. index \in Nat /\ s \in Seq(ListChar)
    <3> DEFINE W == Seq(ListChar)
    <3>1. cmdMap \in Seq(W) /\ index \in Nat \ {0} /\ index <= Len(cmdMap)
      BY <1>3 DEF ProcessToken, StrInv
    <3> HIDE DEF W
    <3>2. index \in Nat /\ s \in W
      BY <3>1
    <3> QED BY <3>2 DEF W
  <2>2. base \in Seq(NameChar) /\ Len(base) < BaseLen
    BY <2>1, BaseFacts
  <2>3. /\ SuffixOf(s) \in Seq(WordChar) /\ Len(SuffixOf(s)) <= MaxSuffix
        /\ Len(SuffixOf(s)) > 0 => SuffixOf(s)[1] = "_"
    BY <2>1, SuffixFacts
  <2>4. a \in Asked
    BY <2>1, <2>2, <2>3 DEF Asked
  <2>5. base # <<>> => Names(a)
    <3> HIDE DEF base
    <3>1. base # <<>> => Len(base) > 0
      BY <2>2
    <3> QED BY <2>2, <2>3, <3>1 DEF Names
  <2>6. asked' = IF base = <<>> THEN asked ELSE Append(asked, a)
    BY <1>3 DEF ProcessToken
  <2>7. asked \in Seq(Asked) /\ \A i \in 1..Len(asked) : Names(asked[i])
    BY DEF StrInv
  <2> HIDE DEF a, base, s
  <2>8. asked' \in Seq(Asked) /\ \A i \in 1..Len(asked') : Names(asked'[i])
    BY <2>4, <2>5, <2>6, <2>7, AskedMore
  <2> QED BY <1>3, <2>1, <2>8 DEF ProcessToken, StrInv
<1>4. CASE ListProcessed
  BY <1>4 DEF ListProcessed, StrInv
<1>5. CASE UNCHANGED stringVars
  BY <1>5 DEF stringVars, StrInv
<1> QED BY <1>1, <1>2, <1>3, <1>4, <1>5 DEF StringNext

LEMMA StrAlways == StringSpec => []StrInv
  BY InitStrInv, NextStrInv, PTL DEF StringSpec

LEMMA AskedOne ==
  ASSUME StrInv, NEW i \in 1..Len(asked)
  PROVE  asked[i] \in Asked /\ Names(asked[i])
  BY DEF StrInv

\* Whatever the request, each issue type that reaches processIssueType() has
\* a base of letters, digits and dots that fits its buffer, and a suffix that
\* is empty or a short word behind an underscore.
THEOREM AskedAlwaysSafe == StringSpec => []AskedAreSafe
<1>1. StrInv => AskedAreSafe
  <2> SUFFICES ASSUME StrInv, NEW i \in 1..Len(asked)
               PROVE  /\ asked[i].base # <<>> /\ Len(asked[i].base) < BaseLen
                      /\ ToSet(asked[i].base) \subseteq Alnum \union {"."}
                      /\ asked[i].suffix # <<>> =>
                           /\ Head(asked[i].suffix) = "_" /\ Len(asked[i].suffix) <= MaxSuffix
                           /\ ToSet(asked[i].suffix) \subseteq Alnum \union {"_", "-"}
    BY DEF AskedAreSafe
  <2> DEFINE b == asked[i].base
             x == asked[i].suffix
  <2>1. b \in Seq(NameChar) /\ x \in Seq(WordChar) /\ Names(asked[i])
    BY AskedOne DEF Asked
  <2>2. b # <<>> /\ Len(b) < BaseLen
    <3>1. Len(b) > 0 /\ Len(b) < BaseLen
      BY <2>1 DEF Names
    <3> HIDE DEF b
    <3>2. b # <<>>
      BY <2>1, <3>1
    <3> QED BY <3>1, <3>2
  <2>3. ToSet(b) \subseteq NameChar /\ ToSet(x) \subseteq WordChar
    <3> HIDE DEF b, x
    <3> QED BY <2>1 DEF ToSet
  <2>4. x # <<>> => Head(x) = "_"
    <3>1. x # <<>> => Len(x) > 0 /\ Head(x) = x[1]
      <4> HIDE DEF x
      <4> QED BY <2>1, FirstIsHead
    <3> QED BY <2>1, <3>1 DEF Names
  <2>5. Len(x) <= MaxSuffix
    BY <2>1 DEF Names
  <2> QED BY <2>2, <2>3, <2>4, <2>5 DEF NameChar, WordChar
<1> QED BY <1>1, StrAlways, PTL

\* Whatever the request, a base comes back from the pending cache as it was,
\* and with the mode of the request.
THEOREM MarkAlwaysSurvives == StringSpec => []MarkSurvivesCache
<1>1. StrInv => MarkSurvivesCache
  <2> SUFFICES ASSUME StrInv, NEW i \in 1..Len(asked)
               PROVE  LET stored == IF appendMode THEN asked[i].base \o AppendMark
                                    ELSE asked[i].base
                      IN StripMark(stored) = [marked |-> appendMode, rest |-> asked[i].base]
    BY DEF MarkSurvivesCache
  <2> DEFINE b == asked[i].base
  <2>1. b \in Seq(NameChar)
    BY AskedOne DEF Asked
  <2>2. NameChar \subseteq Char \ {"_"}
    BY StringAssumption DEF NameChar, Char
  <2>3. b \in Seq(Char \ {"_"})
    <3> DEFINE W == Char \ {"_"}
    <3> HIDE DEF b, W
    <3>1. NameChar \subseteq W
      BY <2>2 DEF W
    <3>2. b \in Seq(W)
      BY <2>1, <3>1, LargerAlphabet
    <3> QED BY <3>2 DEF W
  <2> HIDE DEF b
  <2>4. /\ StripMark(b \o AppendMark) = [marked |-> TRUE, rest |-> b]
        /\ StripMark(b) = [marked |-> FALSE, rest |-> b]
    BY <2>3, MarkRoundTrip
  <2>5. appendMode = TRUE \/ appendMode = FALSE
    BY Zenon DEF StrInv
  <2>6. CASE appendMode = TRUE
    BY <2>4, <2>6, Zenon DEF b
  <2>7. CASE appendMode = FALSE
    BY <2>4, <2>7, Zenon DEF b
  <2> QED BY <2>5, <2>6, <2>7
<1> QED BY <1>1, StrAlways, PTL
-----------------------------------------------------------------------------
(***************************************************************************)
(* The pieces between delimiters, and the slots of getIssueInfo().         *)
(***************************************************************************)

\* Where the pieces of s between ds begin.
Starts(s, d) == {k \in 1..Len(s) : s[k] # d /\ (k = 1 \/ s[k - 1] = d)}

LEMMA StartsType ==
  ASSUME NEW S, NEW s \in Seq(S), NEW d
  PROVE  /\ Starts(s, d) \in SUBSET Nat /\ IsFiniteSet(Starts(s, d))
         /\ Starts(s, d) \subseteq 1..Len(s) /\ Len(s) \in Nat
<1>1. Len(s) \in Nat /\ Starts(s, d) \subseteq 1..Len(s)
  BY DEF Starts
<1>2. IsFiniteSet(1..Len(s))
  BY <1>1, UpToFinite
<1> QED BY <1>1, <1>2, FS_Subset

\* From a place that holds no d, some piece begins there or before it.
LEMMA StartBefore ==
  ASSUME NEW S, NEW s \in Seq(S), NEW d, NEW a \in 1..Len(s), NEW k \in a..Len(s),
         s[k] # d, a = 1 \/ s[a - 1] = d
  PROVE  \E j \in Starts(s, d) : a <= j /\ j <= k
<1> DEFINE T == {j \in a..Len(s) : s[j] # d}
<1>0. Len(s) \in Nat
  OBVIOUS
<1>1. T \in SUBSET Nat /\ k \in T
  BY <1>0
<1>2. PICK j \in T : \A y \in T : j <= y
  <2> HIDE DEF T
  <2> QED BY <1>1, LeastMember
<1>3. j <= k
  BY <1>1, <1>2
<1>4. j = a \/ (j - 1 \in a..Len(s) /\ s[j - 1] = d)
  <2> SUFFICES ASSUME j # a PROVE j - 1 \in a..Len(s) /\ s[j - 1] = d
    OBVIOUS
  <2>1. j - 1 \in a..Len(s) /\ ~(j <= j - 1)
    BY <1>0, <1>2
  <2> QED BY <1>2, <2>1
<1>5. j \in Starts(s, d)
  BY <1>0, <1>2, <1>4 DEF Starts
<1> QED BY <1>2, <1>3, <1>5

\* A piece is not empty and has no delimiter.
Piece(s, d, i) ==
  LET k == CHOOSE k \in Starts(s, d) : Rank(Starts(s, d), k) = i - 1
  IN SubSeq(s, k, TokenEnd(s, d, k) - 1)

LEMMA PieceFacts ==
  ASSUME NEW S, NEW s \in Seq(S), NEW d, NEW i \in 1..Cardinality(Starts(s, d))
  PROVE  Piece(s, d, i) \in Seq(S \ {d}) /\ Len(Piece(s, d, i)) > 0
<1> DEFINE T == Starts(s, d)
           k == CHOOSE k \in T : Rank(T, k) = i - 1
           e == TokenEnd(s, d, k)
<1>1. T \in SUBSET Nat /\ IsFiniteSet(T) /\ Cardinality(T) \in Nat
  BY StartsType, FS_CardinalityType
<1>2. k \in T
  <2>1. i - 1 \in Nat /\ i - 1 < Cardinality(T)
    BY <1>1
  <2>2. \E j \in T : Rank(T, j) = i - 1
    <3> HIDE DEF T
    <3> QED BY <1>1, <2>1, RankExists
  <2> HIDE DEF T
  <2> QED BY <2>2
<1> HIDE DEF k
<1>3. k \in 1..Len(s) /\ s[k] # d /\ Len(s) \in Nat
  BY <1>2 DEF Starts
<1>4. /\ e \in k..(Len(s) + 1) /\ (e <= Len(s) => s[e] = d)
      /\ SubSeq(s, k, e - 1) \in Seq(S \ {d})
  BY <1>3, TokenFacts, TokenText
<1>5. e - 1 \in k..Len(s)
  <2>1. e # k
    BY <1>3, <1>4
  <2> HIDE DEF e
  <2> QED BY <1>3, <1>4, <2>1
<1>6. Len(SubSeq(s, k, e - 1)) > 0
  <2> HIDE DEF e
  <2> QED BY <1>3, <1>5
<1> QED BY <1>4, <1>6 DEF Piece, k

\* getIssueInfo() stores at most as many pieces as the array has slots: every
\* piece but the first one of the string follows a dot of its own.
THEOREM SlotsSuffice ==
  ASSUME NEW s \in Seq(Char)
  PROVE  Len(StrtokDots(s)) <= ArraySize(s)
<1> DEFINE N == Len(s)
           start == {k \in 1..N : s[k] # "." /\ (k = 1 \/ s[k - 1] = ".")}
           dots == {k \in 1..N : s[k] = "."}
           later == start \ {1}
<1>1. N \in Nat /\ IsFiniteSet(1..N)
  BY FS_Interval
<1>2. IsFiniteSet(start) /\ IsFiniteSet(dots) /\ IsFiniteSet(later)
  BY <1>1, FS_Subset
<1>3. Cardinality(later) <= Cardinality(dots)
  <2> DEFINE f == [k \in later |-> k - 1]
  <2>1. f \in Injection(later, dots)
    BY <1>1 DEF Injection, IsInjective
  <2> QED BY <1>2, <2>1, FS_Injection
<1>4. Cardinality(start) <= Cardinality(later) + 1
  <2>1. Cardinality(start) \in Nat
    BY <1>2, FS_CardinalityType
  <2> HIDE DEF start
  <2>2. Cardinality(later) = IF 1 \in start THEN Cardinality(start) - 1 ELSE Cardinality(start)
    BY <1>2, FS_RemoveElement
  <2> QED BY <2>1, <2>2
<1>5. Len(StrtokDots(s)) = Cardinality(start)
  BY <1>2, FS_CardinalityType DEF StrtokDots
<1>6. ArraySize(s) = Cardinality(dots) + 1
  BY DEF ArraySize, GetParamcount
<1>7. Cardinality(start) \in Nat /\ Cardinality(dots) \in Nat /\ Cardinality(later) \in Nat
  BY <1>2, FS_CardinalityType
<1> HIDE DEF start, dots, later
<1> QED BY <1>3, <1>4, <1>5, <1>6, <1>7

LEMMA OnePiece ==
  ASSUME NEW S, NEW s \in Seq(S), NEW d, NEW k \in 1..Len(s), s[k] # d
  PROVE  Cardinality(Starts(s, d)) >= 1
<1>1. Len(s) \in Nat /\ 1 \in 1..Len(s) /\ k \in 1..Len(s)
  OBVIOUS
<1>2. Starts(s, d) # {}
  BY <1>1, StartBefore
<1>3. IsFiniteSet(Starts(s, d))
  BY StartsType
<1>4. Cardinality(Starts(s, d)) \in Nat /\ Cardinality(Starts(s, d)) # 0
  BY <1>2, <1>3, FS_EmptySet, FS_CardinalityType
<1> QED BY <1>4

\* A delimiter between two characters that are none makes two pieces.
LEMMA TwoPieces ==
  ASSUME NEW S, NEW s \in Seq(S), NEW d, NEW m \in 1..Len(s), s[m] = d,
         s[1] # d, s[Len(s)] # d
  PROVE  Cardinality(Starts(s, d)) >= 2
<1> DEFINE T == Starts(s, d)
           a == m + 1
<1>1. Len(s) \in Nat /\ 1 \in 1..Len(s) /\ a \in 2..Len(s) /\ a - 1 = m
  <2>1. m # Len(s)
    OBVIOUS
  <2> QED BY <2>1
<1>2. 1 \in T
  BY <1>1 DEF Starts
<1> HIDE DEF T
<1>3. a \in 1..Len(s) /\ Len(s) \in a..Len(s) /\ s[a - 1] = d
  BY <1>1
<1>4. PICK j \in T : a <= j
  <2> HIDE DEF a
  <2> QED BY <1>3, StartBefore DEF T
<1>5. j # 1
  <2>1. j \in Nat
    BY <1>4, StartsType DEF T
  <2> QED BY <1>1, <1>4, <2>1
<1>7. Cardinality({1} \union {j}) = 2
  BY <1>5, PairSize
<1>8. {1} \union {j} \subseteq T
  BY <1>2, <1>4
<1>9. IsFiniteSet(T)
  BY StartsType DEF T
<1>10. Cardinality({1} \union {j}) <= Cardinality(T) /\ Cardinality(T) \in Nat
  BY <1>8, <1>9, FS_Subset, FS_CardinalityType
<1> QED BY <1>7, <1>10 DEF T

\* A slot a piece was stored in holds no uninitialized pointer.
LEMMA SlotStored ==
  ASSUME NEW s \in Seq(NameChar), NEW i \in Nat \ {0}, i <= Cardinality(Starts(s, "."))
  PROVE  Slot(s, i) # <<"?">>
<1> DEFINE d == "."
           n == Cardinality(Starts(s, d))
           p == Piece(s, d, i)
<1>1. StrtokDots(s) = [j \in 1..n |-> Piece(s, d, j)]
  BY DEF StrtokDots, Starts, Piece, Rank
<1>2. n \in Nat
  BY StartsType, FS_CardinalityType
<1> HIDE DEF d
<1>3. i \in 1..n
  BY <1>2 DEF d
<1>4. p \in Seq(NameChar \ {d}) /\ Len(p) > 0
  BY <1>3, PieceFacts
<1>5. p[1] \in NameChar \ {d}
  <2> HIDE DEF p
  <2> QED BY <1>4
<1>6. p[1] # "?"
  BY <1>5, StringAssumption DEF NameChar, d
<1>7. Slot(s, i) = p
  <2>1. Len(StrtokDots(s)) = n /\ StrtokDots(s)[i] = p
    <3> HIDE DEF p, n
    <3> QED BY <1>1, <1>2, <1>3 DEF p
  <2> HIDE DEF n, p
  <2> QED BY <1>2, <1>3, <2>1 DEF Slot
<1> HIDE DEF p
<1> QED BY <1>6, <1>7

\* Whatever the request, getIssueInfo() stores within its array, and reads a
\* slot nothing was stored in only for the sub-node of a base with a dot at
\* one of its ends, and for the node of a base of dots only.
THEOREM SlotsAlwaysStored == StringSpec => []SlotsStored
<1>1. StrInv => SlotsStored
  <2> SUFFICES ASSUME StrInv, NEW i \in 1..Len(asked)
               PROVE  LET s == asked[i].base
                      IN /\ Len(StrtokDots(s)) <= ArraySize(s)
                         /\ IssueInfo(s).node = <<"?">> => ToSet(s) = {"."}
                         /\ IssueInfo(s).subNode = <<"?">> => Head(s) = "." \/ Last(s) = "."
    BY DEF SlotsStored
  <2> DEFINE s == asked[i].base
             d == "."
             n == Cardinality(Starts(s, d))
  <2>1. s \in Seq(NameChar) /\ Len(s) > 0
    BY AskedOne DEF Asked, Names
  <2> HIDE DEF s
  <2>2. Len(StrtokDots(s)) <= ArraySize(s)
    <3>1. s \in Seq(Char)
      <4>1. NameChar \subseteq Char
        BY DEF NameChar, Char
      <4> QED BY <2>1, <4>1, LargerAlphabet
    <3> QED BY <3>1, SlotsSuffice
  <2>3. ASSUME IssueInfo(s).node = <<"?">> PROVE ToSet(s) = {d}
    <3>1. Slot(s, 1) = <<"?">>
      BY <2>3 DEF IssueInfo
    <3>2. ~(1 <= n)
      BY <2>1, <3>1, SlotStored
    <3>3. \A k \in 1..Len(s) : s[k] = d
      <4> HIDE DEF d
      <4> QED BY <2>1, <3>2, OnePiece
    <3> HIDE DEF d
    <3> QED BY <2>1, <3>3 DEF ToSet
  <2>4. ASSUME IssueInfo(s).subNode = <<"?">> PROVE Head(s) = d \/ Last(s) = d
    <3>1. GetParamcount(s) # 0 /\ Slot(s, 2) = <<"?">>
      <4>1. IssueInfo(s).subNode = IF GetParamcount(s) = 0 THEN <<>> ELSE Slot(s, 2)
        BY DEF IssueInfo
      <4>2. <<"?">> # <<>>
        OBVIOUS
      <4> QED BY <2>4, <4>1, <4>2
    <3>2. ~(2 <= n)
      BY <2>1, <3>1, SlotStored
    <3>3. PICK m \in 1..Len(s) : s[m] = d
      <4>1. Cardinality({}) = 0
        BY FS_EmptySet
      <4>2. {k \in 1..Len(s) : s[k] = d} # {}
        BY <3>1, <4>1 DEF GetParamcount
      <4> QED BY <4>2
    <3> HIDE DEF d
    <3>4. s[1] = d \/ s[Len(s)] = d
      BY <2>1, <3>2, <3>3, TwoPieces
    <3> QED BY <2>1, <3>4 DEF Last
  <2> QED BY <2>2, <2>3, <2>4 DEF s
<1> QED BY <1>1, StrAlways, PTL
-----------------------------------------------------------------------------
(***************************************************************************)
(* issueTypeSplitter() finds the stretches between commas.  They begin at  *)
(* Starts(s, ","): the count is that of its members, and the splitter goes *)
(* from each to the next.                                                  *)
(***************************************************************************)

\* From the end of a token the splitter comes to the next start.
LEMMA NextStart ==
  ASSUME NEW S, NEW s \in Seq(S), NEW d, NEW k \in Starts(s, d), NEW l \in Starts(s, d), k < l
  PROVE  LET j == SkipDelims(s, d, TokenEnd(s, d, k))
         IN j \in Starts(s, d) /\ k < j /\ \A x \in Starts(s, d) : ~(k < x /\ x < j)
<1> DEFINE N == Len(s)
           e == TokenEnd(s, d, k)
           j == SkipDelims(s, d, e)
<1>1. /\ N \in Nat
      /\ \A x \in Starts(s, d) : x \in 1..N /\ s[x] # d /\ (x = 1 \/ s[x - 1] = d)
      /\ \A x \in 1..N : s[x] # d /\ s[x - 1] = d => x \in Starts(s, d)
  BY DEF Starts
<1>2. k \in 1..N /\ s[k] # d /\ l \in 1..N
  BY <1>1
<1>3. e \in k..(N + 1) /\ (e <= N => s[e] = d) /\ \A x \in k..(e - 1) : s[x] # d
  BY <1>1, <1>2, TokenFacts
<1>4. e \in 1..(N + 1) /\ k < e
  <2> HIDE DEF e
  <2> QED BY <1>1, <1>2, <1>3
<1>5. j \in e..(N + 1) /\ (j <= N => s[j] # d) /\ \A x \in e..(j - 1) : s[x] = d
  <2> HIDE DEF e
  <2> QED BY <1>4, SkipFacts
<1> HIDE DEF e, j, N
<1>6. ASSUME NEW x \in Starts(s, d), k < x PROVE e < x
  <2>1. x \in 1..N /\ s[x] # d /\ x # 1 /\ s[x - 1] = d
    BY <1>1, <1>2, <1>6
  <2>2. ~(x - 1 \in k..(e - 1))
    BY <1>3, <2>1
  <2>3. x # e
    BY <1>3, <2>1
  <2> QED BY <1>2, <1>4, <1>6, <2>1, <2>2, <2>3
<1>7. e < l /\ e <= N /\ s[e] = d
  <2>1. e < l
    BY <1>6
  <2>2. e <= N
    BY <1>1, <1>2, <1>4, <2>1
  <2> QED BY <1>3, <2>1, <2>2
<1>8. j <= l
  <2>1. ~(l \in e..(j - 1))
    BY <1>1, <1>5
  <2> QED BY <1>1, <1>2, <1>4, <1>5, <1>7, <2>1
<1>9. j \in 1..N /\ j # e
  BY <1>1, <1>2, <1>4, <1>5, <1>7, <1>8
<1>10. s[j] # d /\ s[j - 1] = d
  BY <1>1, <1>4, <1>5, <1>9
<1>11. j \in Starts(s, d) /\ k < j
  BY <1>1, <1>2, <1>4, <1>5, <1>9, <1>10
<1>12. ASSUME NEW x \in Starts(s, d), k < x, x < j PROVE FALSE
  <2>1. e < x /\ x \in 1..N /\ s[x] # d
    BY <1>1, <1>6, <1>12
  <2>2. x \in e..(j - 1)
    BY <1>4, <1>9, <1>12, <2>1
  <2> QED BY <1>5, <2>1, <2>2
<1> QED BY <1>11, <1>12 DEF j, e

\* The first start, where the delimiters at the beginning of s end.
LEMMA FirstStart ==
  ASSUME NEW S, NEW s \in Seq(S), NEW d
  PROVE  LET j == SkipDelims(s, d, 1)
         IN /\ Starts(s, d) # {} => j \in Starts(s, d) /\ \A x \in Starts(s, d) : j <= x
            /\ Starts(s, d) = {} => j = Len(s) + 1
<1> DEFINE N == Len(s)
           j == SkipDelims(s, d, 1)
<1>1. /\ N \in Nat
      /\ \A x \in Starts(s, d) : x \in 1..N /\ s[x] # d
      /\ \A x \in 1..N : s[x] # d /\ (x = 1 \/ s[x - 1] = d) => x \in Starts(s, d)
  BY DEF Starts
<1>2. j \in 1..(N + 1) /\ (j <= N => s[j] # d) /\ \A x \in 1..(j - 1) : s[x] = d
  <2>1. 1 \in 1..(N + 1)
    BY <1>1
  <2> QED BY <2>1, SkipFacts
<1> HIDE DEF j, N
<1>3. ASSUME NEW x \in Starts(s, d) PROVE j <= x
  <2>1. x \in 1..N /\ ~(x \in 1..(j - 1))
    BY <1>1, <1>2
  <2> QED BY <1>2, <2>1
<1>4. j <= N => j \in Starts(s, d)
  BY <1>1, <1>2
<1>5. Starts(s, d) # {} => j <= N
  BY <1>1, <1>2, <1>3
<1>6. Starts(s, d) = {} => j = N + 1
  BY <1>1, <1>2, <1>4
<1> QED BY <1>3, <1>4, <1>5, <1>6 DEF j, N

\* So the i-th place the splitter comes to is the start of rank i - 1.
LEMMA FromsAreStarts ==
  ASSUME NEW S, NEW s \in Seq(S), NEW d, NEW n \in Nat, n = Cardinality(Starts(s, d)), n # 0
  PROVE  \A i \in 1..n : /\ Froms(s, d, n)[i] \in Starts(s, d)
                         /\ Rank(Starts(s, d), Froms(s, d, n)[i]) = i - 1
<1> DEFINE T == Starts(s, d)
           f == Froms(s, d, n)
           P(i) == f[i] \in T /\ Rank(T, f[i]) = i - 1
           I == {i \in Nat : i \in 1..n => P(i)}
<1>1. T \in SUBSET Nat /\ IsFiniteSet(T)
  BY StartsType
<1>2. T # {}
  BY FS_EmptySet
<1>3. /\ f[1] = SkipDelims(s, d, 1)
      /\ \A i \in 2..n : f[i] = SkipDelims(s, d, TokenEnd(s, d, f[i - 1]))
  <2>1. n \in Nat \ {0}
    OBVIOUS
  <2> QED BY <2>1, FromsFacts
<1> HIDE DEF f
<1>4. 0 \in I
  OBVIOUS
<1>5. ASSUME NEW i \in Nat, i \in I PROVE i + 1 \in I
  <2> SUFFICES ASSUME i + 1 \in 1..n PROVE P(i + 1)
    OBVIOUS
  <2>1. CASE i = 0
    <3>1. f[1] \in T /\ \A x \in T : f[1] <= x
      BY <1>2, <1>3, FirstStart
    <3>2. Rank(T, f[1]) = 0
      <4> HIDE DEF T
      <4> QED BY <1>1, <3>1, RankFirst
    <3> QED BY <2>1, <3>1, <3>2
  <2>2. CASE i # 0
    <3>1. i \in 1..n /\ i + 1 \in 2..n /\ (i + 1) - 1 = i
      BY <2>2
    <3>2. f[i] \in T /\ Rank(T, f[i]) = i - 1
      BY <1>5, <3>1
    <3>3. PICK l \in T : f[i] < l
      <4> SUFFICES ASSUME \A x \in T : ~(f[i] < x) PROVE FALSE
        OBVIOUS
      <4>1. \A x \in T : x <= f[i]
        <5>1. ASSUME NEW x \in T PROVE x <= f[i]
          <6>1. x \in Nat /\ f[i] \in Nat /\ ~(f[i] < x)
            BY <1>1, <3>2
          <6> QED BY <6>1
        <5> QED BY <5>1
      <4>2. Cardinality(T) = Rank(T, f[i]) + 1
        <5> HIDE DEF T
        <5> QED BY <1>1, <3>2, <4>1, RankLast
      <4> QED BY <3>1, <3>2, <4>2
    <3>4. f[i + 1] \in T /\ f[i] < f[i + 1] /\ \A x \in T : ~(f[i] < x /\ x < f[i + 1])
      <4>1. f[i + 1] = SkipDelims(s, d, TokenEnd(s, d, f[i]))
        BY <1>3, <3>1
      <4> QED BY <3>2, <3>3, <4>1, NextStart
    <3>5. Rank(T, f[i + 1]) = Rank(T, f[i]) + 1
      <4> HIDE DEF T
      <4> QED BY <1>1, <3>2, <3>4, RankNext
    <3> QED BY <3>2, <3>4, <3>5
  <2> QED BY <2>1, <2>2
<1>6. \A i \in Nat : i \in I
  <2> HIDE DEF I
  <2> QED BY <1>4, <1>5, InductionOnSet
<1> QED BY <1>6 DEF f

\* The delimiters that are counted stand before every start but the first.
LEMMA CountIsStarts ==
  ASSUME NEW S, NEW s \in Seq(S)
  PROVE  CountTokens(s) = IF Starts(s, ",") = {} THEN 1 ELSE Cardinality(Starts(s, ","))
<1> DEFINE d == ","
           N == Len(s)
           T == Starts(s, d)
           a == SkipDelims(s, d, 1)
           K == {k \in (a + 1)..(N - 1) : s[k] = d /\ s[k + 1] # d}
           L == T \ {a}
<1>1. CountTokens(s) = 1 + Cardinality(K)
  BY DEF CountTokens
<1> HIDE DEF d
<1>2. T \in SUBSET Nat /\ IsFiniteSet(T) /\ N \in Nat
  BY StartsType
<1>3. /\ T # {} => a \in T /\ \A x \in T : a <= x
      /\ T = {} => a = N + 1
  BY FirstStart
<1>4. a \in 1..(N + 1) /\ \A x \in T : x \in 1..N /\ s[x] # d /\ (x = 1 \/ s[x - 1] = d)
  <2>1. 1 \in 1..(N + 1)
    BY <1>2
  <2> QED BY <2>1, SkipFacts DEF Starts
<1>5. \A x \in 1..N : s[x] # d /\ s[x - 1] = d => x \in T
  BY DEF Starts
<1> HIDE DEF a, T, N
<1>6. CASE T = {}
  <2>1. K = {}
    BY <1>2, <1>3, <1>6
  <2>2. Cardinality(K) = 0
    BY <2>1, FS_EmptySet
  <2> HIDE DEF K
  <2>3. CountTokens(s) = 1
    BY <1>1, <2>2
  <2> QED BY <1>6, <2>3 DEF T, d
<1>7. CASE T # {}
  <2> DEFINE g == [k \in K |-> k + 1]
  <2>1. \A k \in K : k \in 1..N /\ k + 1 \in 1..N /\ a < k /\ s[k] = d /\ s[k + 1] # d
    BY <1>2, <1>4
  <2>2. \A k \in K : k + 1 \in L
    <3> SUFFICES ASSUME NEW k \in K PROVE k + 1 \in L
      OBVIOUS
    <3>1. k \in 1..N /\ k + 1 \in 1..N /\ a < k /\ s[k] = d /\ s[k + 1] # d /\ (k + 1) - 1 = k
      BY <1>2, <2>1
    <3>2. k + 1 \in T
      BY <1>5, <3>1
    <3>3. k + 1 # a
      BY <1>4, <3>1
    <3> QED BY <3>2, <3>3
  <2>3. \A x \in L : x - 1 \in K /\ (x - 1) + 1 = x
    <3> SUFFICES ASSUME NEW x \in L PROVE x - 1 \in K /\ (x - 1) + 1 = x
      OBVIOUS
    <3>1. x \in T /\ x # a /\ x \in 1..N /\ s[x] # d
      BY <1>4
    <3>2. a \in T /\ a < x /\ s[a] # d
      BY <1>3, <1>4, <1>7, <3>1
    <3>3. s[x - 1] = d /\ (x - 1) + 1 = x
      BY <1>4, <3>1, <3>2
    <3>4. x - 1 # a
      BY <3>2, <3>3
    <3>5. x - 1 \in (a + 1)..(N - 1)
      BY <1>2, <1>4, <3>1, <3>2, <3>4
    <3> QED BY <3>1, <3>3, <3>5
  <2>4. IsFiniteSet(L) /\ Cardinality(L) = Cardinality(T) - 1 /\ Cardinality(T) \in Nat
    BY <1>2, <1>3, <1>7, FS_RemoveElement, FS_CardinalityType
  <2>5. Cardinality(K) = Cardinality(L)
    <3>1. g \in [K -> L]
      BY <2>2
    <3>2. \A k, l \in K : g[k] = g[l] => k = l
      BY <2>1
    <3>3. \A x \in L : \E k \in K : g[k] = x
      BY <2>3
    <3> HIDE DEF K, L, g
    <3>4. g \in Injection(K, L) /\ g \in Surjection(K, L)
      BY <3>1, <3>2, <3>3 DEF Injection, IsInjective, Surjection
    <3> QED BY <2>4, <3>4, FS_Injection
  <2> HIDE DEF K, L
  <2>6. CountTokens(s) = Cardinality(T)
    BY <1>1, <2>4, <2>5
  <2> QED BY <1>7, <2>6 DEF T, d
<1> QED BY <1>6, <1>7

\* The stretches without a delimiter that nothing without one surrounds.
Runs(s, d) ==
  {r \in (1..Len(s)) \X (1..Len(s)) :
     /\ r[1] <= r[2] /\ \A k \in r[1]..r[2] : s[k] # d
     /\ r[1] > 1 => s[r[1] - 1] = d
     /\ r[2] < Len(s) => s[r[2] + 1] = d}

\* They begin at the starts and end where the token does.
LEMMA RunsFromStarts ==
  ASSUME NEW S, NEW s \in Seq(S), NEW d
  PROVE  /\ \A r \in Runs(s, d) : r[1] \in Starts(s, d) /\ r = <<r[1], TokenEnd(s, d, r[1]) - 1>>
         /\ \A k \in Starts(s, d) : <<k, TokenEnd(s, d, k) - 1>> \in Runs(s, d)
<1> DEFINE N == Len(s)
<1>0. N \in Nat
  OBVIOUS
<1>1. ASSUME NEW r \in Runs(s, d)
      PROVE  r[1] \in Starts(s, d) /\ r = <<r[1], TokenEnd(s, d, r[1]) - 1>>
  <2> DEFINE a == r[1]
             b == r[2]
             e == TokenEnd(s, d, a)
  <2>1. /\ r = <<a, b>> /\ a \in 1..N /\ b \in 1..N /\ a <= b
        /\ \A k \in a..b : s[k] # d
        /\ a > 1 => s[a - 1] = d
        /\ b < N => s[b + 1] = d
    BY <1>1 DEF Runs
  <2> HIDE DEF a, b
  <2>2. a \in Starts(s, d)
    <3>1. s[a] # d /\ (a = 1 \/ s[a - 1] = d)
      BY <2>1
    <3> QED BY <2>1, <3>1 DEF Starts
  <2>3. e \in a..(N + 1) /\ (e <= N => s[e] = d) /\ \A k \in a..(e - 1) : s[k] # d
    <3>1. a \in 1..(N + 1)
      BY <1>0, <2>1
    <3> QED BY <3>1, TokenFacts
  <2> HIDE DEF e, N
  <2>4. ~(e \in a..b)
    BY <1>0, <2>1, <2>3
  <2>5. ~(b + 1 \in a..(e - 1))
    BY <1>0, <2>1, <2>3
  <2>6. e - 1 = b
    BY <1>0, <2>1, <2>3, <2>4, <2>5
  <2>7. a \in Starts(s, d) /\ r = <<a, e - 1>>
    BY <2>1, <2>2, <2>6
  <2> QED BY <2>7 DEF a, e
<1>2. ASSUME NEW k \in Starts(s, d) PROVE <<k, TokenEnd(s, d, k) - 1>> \in Runs(s, d)
  <2> DEFINE e == TokenEnd(s, d, k)
  <2>1. k \in 1..N /\ s[k] # d /\ (k = 1 \/ s[k - 1] = d)
    BY DEF Starts
  <2>2. e \in k..(N + 1) /\ (e <= N => s[e] = d) /\ \A x \in k..(e - 1) : s[x] # d
    <3>1. k \in 1..(N + 1)
      BY <1>0, <2>1
    <3> QED BY <3>1, TokenFacts
  <2> HIDE DEF e
  <2>3. e - 1 \in 1..N /\ k <= e - 1 /\ (e - 1 < N => s[(e - 1) + 1] = d)
    BY <1>0, <2>1, <2>2
  <2>4. k > 1 => s[k - 1] = d
    BY <2>1
  <2>5. <<k, e - 1>> \in Runs(s, d)
    BY <2>1, <2>2, <2>3, <2>4 DEF Runs
  <2> QED BY <2>5 DEF e
<1> QED BY <1>1, <1>2

\* There are as many of them, up to each of them, as there are starts.
LEMMA RunsCounted ==
  ASSUME NEW S, NEW s \in Seq(S), NEW d
  PROVE  /\ Cardinality(Runs(s, d)) = Cardinality(Starts(s, d))
         /\ \A r \in Runs(s, d) :
              Cardinality({q \in Runs(s, d) : q[1] <= r[1]}) = Rank(Starts(s, d), r[1]) + 1
<1> DEFINE T == Starts(s, d)
           R == Runs(s, d)
           End(k) == TokenEnd(s, d, k) - 1
<1>1. /\ \A r \in R : r[1] \in T /\ r = <<r[1], End(r[1])>>
      /\ \A k \in T : <<k, End(k)>> \in R
  BY RunsFromStarts
<1>2. T \in SUBSET Nat /\ IsFiniteSet(T)
  BY StartsType
<1> HIDE DEF T, R, End
<1>3. ASSUME NEW A \in SUBSET R, NEW B \in SUBSET T, IsFiniteSet(B),
             \A r \in A : r[1] \in B, \A k \in B : <<k, End(k)>> \in A
      PROVE  Cardinality(A) = Cardinality(B)
  <2> DEFINE g == [r \in A |-> r[1]]
  <2>1. g \in [A -> B]
    BY <1>3
  <2>2. \A r, q \in A : g[r] = g[q] => r = q
    BY <1>1, <1>3
  <2>3. \A k \in B : \E r \in A : g[r] = k
    BY <1>3
  <2> HIDE DEF g
  <2>4. g \in Injection(A, B) /\ g \in Surjection(A, B)
    BY <2>1, <2>2, <2>3 DEF Injection, IsInjective, Surjection
  <2> QED BY <1>3, <2>4, FS_Injection
<1>4. Cardinality(R) = Cardinality(T)
  BY <1>1, <1>2, <1>3
<1>5. ASSUME NEW r \in R PROVE Cardinality({q \in R : q[1] <= r[1]}) = Rank(T, r[1]) + 1
  <2> DEFINE A == {q \in R : q[1] <= r[1]}
             B == {k \in T : k <= r[1]}
             C == {k \in T : k < r[1]}
  <2>1. r[1] \in T /\ r[1] \in Nat /\ \A k \in T : k \in Nat
    BY <1>1, <1>2
  <2>2. IsFiniteSet(B) /\ IsFiniteSet(C)
    BY <1>2, FS_Subset
  <2>3. \A q \in A : q[1] \in B
    BY <1>1
  <2>4. \A k \in B : <<k, End(k)>> \in A
    BY <1>1
  <2>5. Cardinality(A) = Cardinality(B)
    BY <1>3, <2>2, <2>3, <2>4
  <2>6. B = C \union {r[1]} /\ r[1] \notin C
    <3>1. ASSUME NEW k \in T PROVE k <= r[1] <=> k < r[1] \/ k = r[1]
      <4>1. k \in Nat
        BY <2>1
      <4> QED BY <2>1, <4>1
    <3>2. ~(r[1] < r[1])
      BY <2>1
    <3> QED BY <2>1, <3>1, <3>2
  <2> HIDE DEF A, B, C
  <2>7. Cardinality(C \union {r[1]}) = Cardinality(C) + 1
    BY <2>2, <2>6, FS_AddElement
  <2>8. Cardinality(A) = Rank(T, r[1]) + 1
    BY <2>5, <2>6, <2>7 DEF Rank, C
  <2> QED BY <2>8 DEF A
<1> QED BY <1>4, <1>5 DEF R, T

\* What issueTypeSplitter() makes of any string.
LEMMA SplitterExact ==
  ASSUME NEW S, NEW s \in Seq(S)
  PROVE  IF Run(s) = {} THEN IssueTypeSplitter(s) = <<<<>>>>
         ELSE /\ Len(IssueTypeSplitter(s)) = Cardinality(Run(s))
              /\ \A r \in Run(s) :
                   IssueTypeSplitter(s)[Cardinality({q \in Run(s) : q[1] <= r[1]})]
                     = SubSeq(s, r[1], r[2])
<1> DEFINE d == ","
           T == Starts(s, d)
           R == Run(s)
           n == CountTokens(s)
           f == Froms(s, d, n)
           Token(i) == SubSeq(s, f[i], TokenEnd(s, d, f[i]) - 1)
           tokens == IssueTypeSplitter(s)
<1>1. tokens = [i \in 1..n |-> Token(i)]
  BY SplitterTokens
<1>2. n \in Nat \ {0} /\ n = IF T = {} THEN 1 ELSE Cardinality(T)
  BY CountType, CountIsStarts
<1>3. R = Runs(s, d)
  BY DEF Run, Runs
<1> HIDE DEF d, n, tokens, R
<1>4. /\ \A r \in R : r[1] \in T /\ r = <<r[1], TokenEnd(s, d, r[1]) - 1>>
      /\ \A k \in T : <<k, TokenEnd(s, d, k) - 1>> \in R
  BY <1>3, RunsFromStarts
<1>5. /\ Cardinality(R) = Cardinality(T)
      /\ \A r \in R : Cardinality({q \in R : q[1] <= r[1]}) = Rank(T, r[1]) + 1
  BY <1>3, RunsCounted
<1>6. T \in SUBSET Nat /\ IsFiniteSet(T) /\ Len(s) \in Nat
  BY StartsType
<1>7. CASE R = {}
  <2>1. T = {} /\ n = 1
    <3>1. T = {}
      BY <1>4, <1>7
    <3> QED BY <1>2, <3>1
  <2>2. f[1] = Len(s) + 1
    <3>1. f[1] = SkipDelims(s, d, 1)
      BY <1>2, FromsFacts
    <3> QED BY <2>1, <3>1, FirstStart
  <2> HIDE DEF f
  <2>3. TokenEnd(s, d, f[1]) = Len(s) + 1
    <3>1. Len(s) + 1 \in 1..(Len(s) + 1)
      BY <1>6
    <3>2. TokenEnd(s, d, Len(s) + 1) \in (Len(s) + 1)..(Len(s) + 1)
      BY <3>1, TokenFacts
    <3>3. TokenEnd(s, d, Len(s) + 1) = Len(s) + 1
      BY <1>6, <3>2
    <3> QED BY <2>2, <3>3
  <2>4. Token(1) = <<>>
    <3>1. Token(1) = SubSeq(s, Len(s) + 1, Len(s))
      <4>1. (Len(s) + 1) - 1 = Len(s)
        BY <1>6
      <4> QED BY <2>2, <2>3, <4>1
    <3> HIDE DEF Token
    <3> QED BY <3>1, EmptyEnd
  <2> HIDE DEF Token
  <2>5. tokens = <<<<>>>>
    <3>1. tokens = [i \in 1..1 |-> Token(i)]
      BY <1>1, <2>1
    <3>2. tokens = <<Token(1)>>
      BY <3>1
    <3> QED BY <2>4, <3>2
  <2> QED BY <1>7, <2>5 DEF R, tokens
<1>8. CASE R # {}
  <2>1. T # {} /\ n = Cardinality(T) /\ n \in Nat /\ n # 0
    <3>1. T # {}
      BY <1>4, <1>8
    <3> QED BY <1>2, <3>1
  <2>2. \A i \in 1..n : f[i] \in T /\ Rank(T, f[i]) = i - 1
    BY <2>1, FromsAreStarts
  <2> HIDE DEF f, T
  <2>3. Len(tokens) = Cardinality(R)
    <3> HIDE DEF Token
    <3> QED BY <1>1, <1>5, <2>1
  <2>4. ASSUME NEW r \in R
        PROVE  tokens[Cardinality({q \in R : q[1] <= r[1]})] = SubSeq(s, r[1], r[2])
    <3> DEFINE k == r[1]
               i == Rank(T, k) + 1
    <3>1. k \in T /\ r = <<k, TokenEnd(s, d, k) - 1>>
      BY <1>4
    <3>2. r[2] = TokenEnd(s, d, k) - 1
      BY <3>1
    <3> HIDE DEF k
    <3>3. Rank(T, k) \in Nat /\ Rank(T, k) < n
      <4> DEFINE A == {j \in T : j < k}
      <4>1. A \in SUBSET T /\ A # T
        <5>1. ~(k < k)
          BY <1>6, <3>1
        <5> QED BY <3>1, <5>1
      <4> HIDE DEF A
      <4>2. Cardinality(A) <= Cardinality(T) /\ Cardinality(A) # Cardinality(T)
        BY <1>6, <4>1, FS_Subset
      <4>3. Rank(T, k) \in Nat
        BY <1>6, RankType
      <4>4. Rank(T, k) = Cardinality(A)
        BY DEF Rank, A
      <4> QED BY <2>1, <4>2, <4>3, <4>4
    <3>4. i \in 1..n /\ i - 1 = Rank(T, k)
      BY <2>1, <3>3
    <3>5. f[i] \in T /\ Rank(T, f[i]) = Rank(T, k)
      <4> HIDE DEF i
      <4> QED BY <2>2, <3>4
    <3>6. f[i] = k
      <4> DEFINE x == f[i]
      <4>1. x \in T /\ x \in Nat /\ k \in Nat /\ Rank(T, x) = Rank(T, k)
        BY <1>6, <3>1, <3>5
      <4> HIDE DEF x
      <4>2. ~(x < k) /\ ~(k < x)
        BY <1>6, <3>1, <3>3, <4>1, RankGrows
      <4>3. x = k
        BY <4>1, <4>2
      <4> QED BY <4>3 DEF x
    <3>7. tokens[i] = Token(i)
      <4> HIDE DEF Token, i
      <4> QED BY <1>1, <3>4
    <3>8. tokens[i] = SubSeq(s, k, TokenEnd(s, d, k) - 1)
      <4> HIDE DEF i
      <4> QED BY <3>6, <3>7
    <3>9. Cardinality({q \in R : q[1] <= r[1]}) = i
      BY <1>5 DEF k
    <3> HIDE DEF i
    <3> QED BY <3>2, <3>8, <3>9 DEF k
  <2> QED BY <1>8, <2>3, <2>4 DEF R, tokens
<1> QED BY <1>7, <1>8

\* Whatever the request, its list is split exactly at the commas.
THEOREM SplitAlwaysExact == StringSpec => []SplitIsExact
<1>1. StrInv => SplitIsExact
  <2> SUFFICES ASSUME StrInv, stage \in {"tokens", "processed"}
               PROVE  IF Run(text) = {} THEN cmdMap = <<<<>>>>
                      ELSE /\ Len(cmdMap) = Cardinality(Run(text))
                           /\ \A r \in Run(text) :
                                cmdMap[Cardinality({q \in Run(text) : q[1] <= r[1]})]
                                  = SubSeq(text, r[1], r[2])
    BY DEF SplitIsExact
  <2>1. text \in Seq(Char) /\ cmdMap = IssueTypeSplitter(text)
    BY DEF StrInv
  <2> QED BY <2>1, SplitterExact
<1> QED BY <1>1, StrAlways, PTL
-----------------------------------------------------------------------------
(***************************************************************************)
(* RrdWebcfg: the elements of a list that is put together from parts.      *)
(***************************************************************************)

\* The last place of the piece of s that begins at k, and the pieces.
Ending(s, d, k) ==
  CHOOSE j \in k..Len(s) : (j < Len(s) => s[j + 1] = d) /\ \A l \in k..j : s[l] # d
ElementsOf(s, d) ==
  [i \in 1..Cardinality(Starts(s, d)) |->
     LET k == CHOOSE k \in Starts(s, d) : Rank(Starts(s, d), k) = i - 1
     IN SubSeq(s, k, Ending(s, d, k))]

LEMMA ElementsAre ==
  ASSUME NEW s
  PROVE  Elements(s) = ElementsOf(s, ",")
  BY DEF Elements, ElementsOf, Starts, Rank, Ending

\* The piece that begins at k ends where the next delimiter comes.
Spans(s, d, k, j) ==
  j \in k..Len(s) /\ (j < Len(s) => s[j + 1] = d) /\ \A l \in k..j : s[l] # d

LEMMA EndingSpans ==
  ASSUME NEW S, NEW s \in Seq(S), NEW d, NEW k \in Starts(s, d)
  PROVE  Spans(s, d, k, Ending(s, d, k))
<1> DEFINE e == TokenEnd(s, d, k)
<1>1. k \in 1..Len(s) /\ s[k] # d /\ Len(s) \in Nat
  BY DEF Starts
<1>2. /\ e \in k..(Len(s) + 1) /\ (e <= Len(s) => s[e] = d)
      /\ \A l \in k..(e - 1) : s[l] # d
  BY <1>1, TokenFacts
<1> HIDE DEF e
<1>3. e - 1 \in k..Len(s) /\ (e - 1 < Len(s) => e <= Len(s)) /\ (e - 1) + 1 = e
  BY <1>1, <1>2
<1>4. Spans(s, d, k, e - 1)
  BY <1>2, <1>3 DEF Spans
<1> QED BY <1>4 DEF Spans, Ending

LEMMA SpansOnce ==
  ASSUME NEW S, NEW s \in Seq(S), NEW d, NEW k \in Starts(s, d), NEW i, NEW j,
         Spans(s, d, k, i), Spans(s, d, k, j)
  PROVE  i = j
<1>1. Len(s) \in Nat /\ k \in Nat
  BY DEF Starts
<1>2. i \in Nat /\ j \in Nat /\ k <= i /\ k <= j /\ i <= Len(s) /\ j <= Len(s)
  BY <1>1 DEF Spans
<1>3. ~(i < j)
  <2> SUFFICES ASSUME i < j PROVE FALSE
    OBVIOUS
  <2>1. i + 1 \in k..j /\ i < Len(s)
    BY <1>1, <1>2
  <2> QED BY <2>1 DEF Spans
<1>4. ~(j < i)
  <2> SUFFICES ASSUME j < i PROVE FALSE
    OBVIOUS
  <2>1. j + 1 \in k..i /\ j < Len(s)
    BY <1>1, <1>2
  <2> QED BY <2>1 DEF Spans
<1> QED BY <1>2, <1>3, <1>4

\* A start and its end give the element whose place is the rank of the start.
LEMMA ElementIs ==
  ASSUME NEW S, NEW s \in Seq(S), NEW d, NEW k \in Starts(s, d), NEW j, Spans(s, d, k, j),
         NEW i, i = Rank(Starts(s, d), k) + 1
  PROVE  i \in 1..Cardinality(Starts(s, d)) /\ ElementsOf(s, d)[i] = SubSeq(s, k, j)
<1> DEFINE T == Starts(s, d)
           c == CHOOSE c \in T : Rank(T, c) = i - 1
<1>1. T \in SUBSET Nat /\ IsFiniteSet(T) /\ Cardinality(T) \in Nat /\ Rank(T, k) \in Nat
  <2>1. T \in SUBSET Nat /\ IsFiniteSet(T)
    BY StartsType
  <2> HIDE DEF T
  <2> QED BY <2>1, RankType
<1>2. k \in T /\ Rank(T, k) = i - 1
  <2>1. k \in T
    OBVIOUS
  <2> HIDE DEF T
  <2> QED BY <1>1, <2>1 DEF T
<1>3. i \in 1..Cardinality(T)
  <2> DEFINE A == {x \in T : x < k}
  <2> HIDE DEF T
  <2>1. k \notin A /\ IsFiniteSet(A) /\ A \union {k} \subseteq T
    BY <1>1, <1>2, RankType
  <2>2. Cardinality(A \union {k}) = Cardinality(A) + 1
    <3> HIDE DEF A
    <3> QED BY <2>1, FS_AddElement
  <2>3. Cardinality(A \union {k}) <= Cardinality(T)
    <3> HIDE DEF A
    <3> QED BY <1>1, <2>1, FS_Subset
  <2>4. Cardinality(A) = Rank(T, k)
    BY DEF Rank
  <2> HIDE DEF A
  <2>5. Rank(T, k) + 1 <= Cardinality(T) /\ i = Rank(T, k) + 1
    BY <2>2, <2>3, <2>4 DEF T
  <2> QED BY <1>1, <2>5
<1>4. c = k
  <2>1. c \in T /\ Rank(T, c) = i - 1
    <3> HIDE DEF T
    <3> QED BY <1>2
  <2> HIDE DEF T, c
  <2>2. c \in Nat /\ k \in Nat
    BY <1>1, <1>2, <2>1
  <2>3. ~(c < k)
    BY <1>1, <1>2, <2>1, RankGrows
  <2>4. ~(k < c)
    BY <1>1, <1>2, <2>1, RankGrows
  <2> QED BY <2>2, <2>3, <2>4
<1>5. ElementsOf(s, d)[i] = SubSeq(s, c, Ending(s, d, c))
  BY <1>3 DEF ElementsOf
<1>6. Ending(s, d, k) = j
  BY EndingSpans, SpansOnce
<1> QED BY <1>3, <1>4, <1>5, <1>6

\* Each element is a piece.
LEMMA ElementExists ==
  ASSUME NEW S, NEW s \in Seq(S), NEW d, NEW i \in 1..Cardinality(Starts(s, d))
  PROVE  \E k \in Starts(s, d) :
           /\ i = Rank(Starts(s, d), k) + 1
           /\ Spans(s, d, k, Ending(s, d, k))
           /\ ElementsOf(s, d)[i] = SubSeq(s, k, Ending(s, d, k))
<1> DEFINE T == Starts(s, d)
<1>1. T \in SUBSET Nat /\ IsFiniteSet(T) /\ Cardinality(T) \in Nat
  BY StartsType, FS_CardinalityType
<1>2. i - 1 \in Nat /\ i - 1 < Cardinality(T) /\ i = (i - 1) + 1
  BY <1>1
<1>3. PICK k \in T : Rank(T, k) = i - 1
  <2> HIDE DEF T
  <2> QED BY <1>1, <1>2, RankExists
<1>4. i = Rank(T, k) + 1
  BY <1>2, <1>3
<1>5. Spans(s, d, k, Ending(s, d, k))
  BY <1>3, EndingSpans
<1> QED BY <1>3, <1>4, <1>5, ElementIs

LEMMA ElementsType ==
  ASSUME NEW S, NEW s \in Seq(S), NEW d
  PROVE  /\ ElementsOf(s, d) \in Seq(Seq(S))
         /\ Len(ElementsOf(s, d)) = Cardinality(Starts(s, d))
         /\ Cardinality(Starts(s, d)) \in Nat
<1> DEFINE n == Cardinality(Starts(s, d))
<1>1. n \in Nat
  BY StartsType, FS_CardinalityType
<1>2. ASSUME NEW i \in 1..n PROVE ElementsOf(s, d)[i] \in Seq(S)
  <2>1. PICK k \in Starts(s, d) : /\ Spans(s, d, k, Ending(s, d, k))
                                  /\ ElementsOf(s, d)[i] = SubSeq(s, k, Ending(s, d, k))
    BY ElementExists
  <2>2. k \in 1..Len(s) /\ Ending(s, d, k) \in k..Len(s) /\ Len(s) \in Nat
    BY <2>1 DEF Starts, Spans
  <2>3. SubSeq(s, k, Ending(s, d, k)) \in Seq(S)
    BY <2>2
  <2> QED BY <2>1, <2>3
<1>3. ElementsOf(s, d) = [i \in 1..n |-> ElementsOf(s, d)[i]]
  <2> DEFINE F(i) == LET k == CHOOSE k \in Starts(s, d) : Rank(Starts(s, d), k) = i - 1
                     IN SubSeq(s, k, Ending(s, d, k))
  <2>1. ElementsOf(s, d) = [i \in 1..n |-> F(i)]
    BY DEF ElementsOf
  <2> HIDE DEF F, n
  <2> QED BY <2>1
<1> HIDE DEF n
<1>4. ElementsOf(s, d) \in Seq(Seq(S)) /\ Len(ElementsOf(s, d)) = n
  BY <1>1, <1>2, <1>3
<1> QED BY <1>1, <1>4 DEF n

\* Numbers moved up by a are as many.
Shifted(T, a) == {k + a : k \in T}

LEMMA ShiftedSize ==
  ASSUME NEW T \in SUBSET Nat, IsFiniteSet(T), NEW a \in Nat
  PROVE  IsFiniteSet(Shifted(T, a)) /\ Cardinality(Shifted(T, a)) = Cardinality(T)
<1> DEFINE f == [k \in T |-> k + a]
<1>0. \A k \in T : k \in Nat
  OBVIOUS
<1>1. f \in [T -> Shifted(T, a)]
  BY DEF Shifted
<1>2. \A k, l \in T : f[k] = f[l] => k = l
  <2> SUFFICES ASSUME NEW k \in T, NEW l \in T, f[k] = f[l] PROVE k = l
    OBVIOUS
  <2>1. k \in Nat /\ l \in Nat /\ k + a = l + a
    BY <1>0
  <2> QED BY <2>1
<1>3. \A x \in Shifted(T, a) : \E k \in T : f[k] = x
  BY DEF Shifted
<1> HIDE DEF f
<1>4. f \in Bijection(T, Shifted(T, a))
  BY <1>1, <1>2, <1>3 DEF Bijection, Injection, Surjection, IsInjective
<1>5. ExistsBijection(T, Shifted(T, a))
  BY <1>4 DEF ExistsBijection
<1> QED BY <1>5, FS_Bijection

\* Members up to a, and others moved beyond it.
LEMMA BesideShifted ==
  ASSUME NEW a \in Nat, NEW X \in SUBSET (1..a), NEW Y \in SUBSET (Nat \ {0}),
         IsFiniteSet(X), IsFiniteSet(Y)
  PROVE  /\ Cardinality(X \union Shifted(Y, a)) = Cardinality(X) + Cardinality(Y)
         /\ IsFiniteSet(X \union Shifted(Y, a))
         /\ Cardinality(X) \in Nat /\ Cardinality(Y) \in Nat
<1>1. X \intersect Shifted(Y, a) = {}
  <2> SUFFICES ASSUME NEW k \in X, NEW l \in Y, k = l + a PROVE FALSE
    BY DEF Shifted
  <2>1. k \in 1..a /\ l \in Nat /\ l # 0
    OBVIOUS
  <2> QED BY <2>1
<1>2. IsFiniteSet(Shifted(Y, a)) /\ Cardinality(Shifted(Y, a)) = Cardinality(Y)
  <2>1. Y \in SUBSET Nat
    OBVIOUS
  <2> QED BY <2>1, ShiftedSize
<1>3. Cardinality(X) \in Nat /\ Cardinality(Y) \in Nat
  BY FS_CardinalityType
<1>4. /\ IsFiniteSet(X \union Shifted(Y, a))
      /\ Cardinality(X \union Shifted(Y, a)) = Cardinality(X) + Cardinality(Shifted(Y, a)) - 0
  BY <1>1, <1>2, FS_Union, FS_EmptySet
<1> QED BY <1>2, <1>3, <1>4

LEMMA Concatenated ==
  ASSUME NEW S, NEW u \in Seq(S), NEW v \in Seq(S)
  PROVE  /\ u \o v \in Seq(S) /\ Len(u \o v) = Len(u) + Len(v)
         /\ Len(u) \in Nat /\ Len(v) \in Nat
         /\ \A i \in 1..Len(u) : (u \o v)[i] = u[i]
         /\ \A i \in 1..Len(v) : (u \o v)[Len(u) + i] = v[i]
  OBVIOUS

\* Behind a part that is empty or ends with a delimiter, the elements of the
\* rest follow those of the part.
LEMMA ElementsJoin ==
  ASSUME NEW S, NEW x \in Seq(S), NEW y \in Seq(S), NEW d, Len(x) = 0 \/ x[Len(x)] = d
  PROVE  ElementsOf(x \o y, d) = ElementsOf(x, d) \o ElementsOf(y, d)
<1> DEFINE z == x \o y
           a == Len(x)
           b == Len(y)
           X == Starts(x, d)
           Y == Starts(y, d)
           Z == Starts(z, d)
<1>1. /\ a \in Nat /\ b \in Nat /\ z \in Seq(S) /\ Len(z) = a + b
      /\ \A k \in 1..a : z[k] = x[k]
      /\ \A k \in 1..b : z[k + a] = y[k]
  OBVIOUS
<1>2. a = 0 \/ (a \in 1..a /\ z[a] = d)
  BY <1>1
<1> HIDE DEF z
<1>3. ASSUME NEW k \in 1..a PROVE k \in Z <=> k \in X
  <2>1. k \in 1..Len(z) /\ z[k] = x[k]
    BY <1>1
  <2>2. k # 1 => z[k - 1] = x[k - 1]
    <3> SUFFICES ASSUME k # 1 PROVE z[k - 1] = x[k - 1]
      OBVIOUS
    <3>1. k - 1 \in 1..a
      BY <1>1
    <3> QED BY <1>1, <3>1
  <2> HIDE DEF a
  <2>3. k \in Z <=> z[k] # d /\ (k = 1 \/ z[k - 1] = d)
    BY <2>1 DEF Starts
  <2>4. k \in X <=> x[k] # d /\ (k = 1 \/ x[k - 1] = d)
    BY DEF Starts, a
  <2> HIDE DEF X, Z
  <2> QED BY <2>1, <2>2, <2>3, <2>4
<1>4. ASSUME NEW k \in 1..b PROVE k + a \in Z <=> k \in Y
  <2>1. k + a \in 1..Len(z) /\ z[k + a] = y[k]
    BY <1>1
  <2>2. CASE k = 1
    <3>1. k + a = 1 \/ z[(k + a) - 1] = d
      BY <1>1, <1>2, <2>2
    <3>2. k + a \in Z <=> z[k + a] # d
      BY <2>1, <3>1 DEF Starts
    <3>3. k \in Y <=> y[k] # d
      BY <2>2 DEF Starts
    <3> HIDE DEF Y, Z
    <3> QED BY <2>1, <3>2, <3>3
  <2>3. CASE k # 1
    <3>1. k - 1 \in 1..b /\ (k + a) - 1 = (k - 1) + a /\ k + a # 1
      <4> HIDE DEF a, b
      <4> QED BY <1>1, <2>3
    <3>2. z[(k + a) - 1] = y[k - 1]
      BY <1>1, <3>1
    <3>3. k + a \in Z <=> z[k + a] # d /\ z[(k + a) - 1] = d
      BY <2>1, <3>1 DEF Starts
    <3>4. k \in Y <=> y[k] # d /\ y[k - 1] = d
      BY <2>3 DEF Starts
    <3> HIDE DEF Y, Z
    <3> QED BY <2>1, <3>2, <3>3, <3>4
  <2> QED BY <2>2, <2>3
<1>5. /\ X \in SUBSET (1..a) /\ Y \in SUBSET (1..b) /\ Z \in SUBSET (1..(a + b))
      /\ IsFiniteSet(X) /\ IsFiniteSet(Y) /\ IsFiniteSet(Z)
  BY <1>1, StartsType
<1> HIDE DEF X, Y, Z, a, b
<1>6. Z = X \union Shifted(Y, a)
  <2>1. ASSUME NEW k \in Z PROVE k \in X \union Shifted(Y, a)
    <3>1. k \in 1..(a + b)
      BY <1>5
    <3>2. CASE k <= a
      <4>1. k \in 1..a
        BY <1>1, <3>1, <3>2
      <4> QED BY <1>3, <4>1
    <3>3. CASE k > a
      <4>1. k - a \in 1..b /\ (k - a) + a = k
        BY <1>1, <3>1, <3>3
      <4>2. k - a \in Y
        BY <1>4, <4>1
      <4> QED BY <4>1, <4>2 DEF Shifted
    <3> QED BY <1>1, <3>1, <3>2, <3>3
  <2>2. ASSUME NEW k \in X PROVE k \in Z
    BY <1>3, <1>5
  <2>3. ASSUME NEW k \in Y PROVE k + a \in Z
    BY <1>4, <1>5
  <2> QED BY <2>1, <2>2, <2>3 DEF Shifted
<1>7. /\ Cardinality(Z) = Cardinality(X) + Cardinality(Y)
      /\ Cardinality(X) \in Nat /\ Cardinality(Y) \in Nat
  <2>1. Y \in SUBSET (Nat \ {0})
    BY <1>1, <1>5
  <2> QED BY <1>1, <1>5, <1>6, <2>1, BesideShifted
<1>8. ASSUME NEW k \in X PROVE Rank(Z, k) = Rank(X, k)
  <2>1. k \in 1..a
    BY <1>5
  <2>2. ASSUME NEW j \in Z, j < k PROVE j \in X
    <3>1. j \in 1..a
      BY <1>1, <1>5, <2>1, <2>2
    <3> QED BY <1>3, <3>1
  <2>3. ASSUME NEW j \in X PROVE j \in Z
    BY <1>3, <1>5
  <2>4. {j \in Z : j < k} = {j \in X : j < k}
    BY <2>2, <2>3
  <2> QED BY <2>4 DEF Rank
<1>9. ASSUME NEW k \in Y PROVE Rank(Z, k + a) = Cardinality(X) + Rank(Y, k)
  <2> DEFINE B == {j \in Y : j < k}
  <2>1. {j \in Z : j < k + a} = X \union Shifted(B, a)
    <3>0. k \in Nat /\ k > 0 /\ a \in Nat
      BY <1>1, <1>5
    <3>1. ASSUME NEW j \in X PROVE j < k + a
      <4>1. j \in 1..a
        BY <1>5
      <4> QED BY <3>0, <4>1
    <3>2. ASSUME NEW j \in Y PROVE j + a < k + a <=> j < k
      <4>1. j \in Nat
        BY <1>1, <1>5
      <4> QED BY <3>0, <4>1
    <3> QED BY <1>6, <3>1, <3>2 DEF Shifted
  <2>2. B \in SUBSET (Nat \ {0}) /\ IsFiniteSet(B)
    <3>1. B \subseteq Y
      OBVIOUS
    <3>2. Y \subseteq Nat \ {0}
      BY <1>1, <1>5
    <3> HIDE DEF B
    <3> QED BY <1>5, <3>1, <3>2, FS_Subset
  <2>3. Cardinality(X \union Shifted(B, a)) = Cardinality(X) + Cardinality(B)
    <3> HIDE DEF B
    <3> QED BY <1>1, <1>5, <2>2, BesideShifted
  <2> QED BY <2>1, <2>3 DEF Rank
<1> DEFINE E == ElementsOf(x, d)
           F == ElementsOf(y, d)
           G == ElementsOf(z, d)
<1>10. /\ E \in Seq(Seq(S)) /\ Len(E) = Cardinality(X)
       /\ F \in Seq(Seq(S)) /\ Len(F) = Cardinality(Y)
       /\ G \in Seq(Seq(S)) /\ Len(G) = Cardinality(X) + Cardinality(Y)
  BY <1>1, <1>7, ElementsType DEF X, Y, Z
<1>11. ASSUME NEW i \in 1..Len(E) PROVE G[i] = E[i]
  <2>1. PICK k \in X : /\ i = Rank(X, k) + 1 /\ Spans(x, d, k, Ending(x, d, k))
                       /\ E[i] = SubSeq(x, k, Ending(x, d, k))
    <3>1. i \in 1..Cardinality(Starts(x, d))
      BY <1>10 DEF X
    <3> QED BY <3>1, ElementExists DEF X
  <2> DEFINE j == Ending(x, d, k)
  <2>2. k \in 1..a /\ j \in k..a /\ (j < a => x[j + 1] = d) /\ \A l \in k..j : x[l] # d
    BY <1>5, <2>1 DEF Spans, a
  <2>3. Spans(z, d, k, j)
    <3> HIDE DEF j
    <3>1. j # a
      <4> SUFFICES ASSUME j = a PROVE FALSE
        OBVIOUS
      <4>1. a \in k..j /\ a # 0 /\ a \in 1..a
        BY <1>1, <2>2
      <4>2. z[a] = d /\ z[a] = x[a]
        BY <1>1, <1>2, <4>1
      <4> QED BY <2>2, <4>1, <4>2
    <3>2. j \in k..Len(z) /\ j + 1 \in 1..a /\ j < a
      BY <1>1, <2>2, <3>1
    <3>3. z[j + 1] = d
      BY <1>1, <2>2, <3>2
    <3>4. ASSUME NEW l \in k..j PROVE z[l] # d
      <4>1. l \in 1..a
        BY <1>1, <2>2
      <4> QED BY <1>1, <2>2, <4>1
    <3> QED BY <3>2, <3>3, <3>4 DEF Spans
  <2>4. G[i] = SubSeq(z, k, j)
    <3>1. k \in Z /\ i = Rank(Z, k) + 1
      BY <1>6, <1>8, <2>1
    <3> HIDE DEF j
    <3> QED BY <1>1, <2>3, <3>1, ElementIs DEF Z
  <2>5. SubSeq(z, k, j) = SubSeq(x, k, j)
    <3> HIDE DEF j
    <3>1. k \in Nat /\ k >= 1 /\ j \in Nat /\ j <= a /\ j <= Len(z)
      BY <1>1, <2>2
    <3>2. \A l \in k..j : z[l] = x[l]
      BY <1>1, <3>1
    <3> QED BY <1>1, <3>1, <3>2 DEF a
  <2> QED BY <2>1, <2>4, <2>5
<1>12. ASSUME NEW i \in 1..Len(F) PROVE G[Len(E) + i] = F[i]
  <2>1. PICK k \in Y : /\ i = Rank(Y, k) + 1 /\ Spans(y, d, k, Ending(y, d, k))
                       /\ F[i] = SubSeq(y, k, Ending(y, d, k))
    <3>1. i \in 1..Cardinality(Starts(y, d))
      BY <1>10 DEF Y
    <3> QED BY <3>1, ElementExists DEF Y
  <2> DEFINE j == Ending(y, d, k)
  <2>2. k \in 1..b /\ j \in k..b /\ (j < b => y[j + 1] = d) /\ \A l \in k..j : y[l] # d
    BY <1>5, <2>1 DEF Spans, b
  <2>3. Spans(z, d, k + a, j + a)
    <3> HIDE DEF j
    <3>1. j + a \in (k + a)..Len(z)
      BY <1>1, <2>2
    <3>2. ASSUME j + a < Len(z) PROVE z[(j + a) + 1] = d
      <4>1. j < b /\ j + 1 \in 1..b /\ (j + a) + 1 = (j + 1) + a
        BY <1>1, <2>2, <3>2
      <4> QED BY <1>1, <2>2, <4>1
    <3>3. ASSUME NEW l \in (k + a)..(j + a) PROVE z[l] # d
      <4>1. l - a \in k..j /\ l - a \in 1..b /\ (l - a) + a = l
        BY <1>1, <2>2
      <4> QED BY <1>1, <2>2, <4>1
    <3> QED BY <3>1, <3>2, <3>3 DEF Spans
  <2>4. G[Len(E) + i] = SubSeq(z, k + a, j + a)
    <3>1. k + a \in Z
      BY <1>6 DEF Shifted
    <3>2. Rank(Z, k + a) = Cardinality(X) + Rank(Y, k) /\ Rank(Y, k) \in Nat
      BY <1>5, <1>9, RankType
    <3>3. Len(E) + i = Rank(Z, k + a) + 1
      BY <1>7, <1>10, <2>1, <3>2
    <3> HIDE DEF j, E
    <3> QED BY <1>1, <2>3, <3>1, <3>3, ElementIs DEF Z
  <2>5. SubSeq(z, k + a, j + a) = SubSeq(y, k, j)
    <3> HIDE DEF j
    <3>1. k \in Nat /\ k >= 1 /\ j \in Nat /\ j <= b /\ j + a <= Len(z) /\ k <= j
      BY <1>1, <2>2
    <3>2. /\ SubSeq(z, k + a, j + a) \in Seq(S) /\ Len(SubSeq(z, k + a, j + a)) = j - k + 1
          /\ \A l \in 1..(j - k + 1) : SubSeq(z, k + a, j + a)[l] = z[(k + a) + l - 1]
      BY <1>1, <3>1
    <3>3. /\ SubSeq(y, k, j) \in Seq(S) /\ Len(SubSeq(y, k, j)) = j - k + 1
          /\ \A l \in 1..(j - k + 1) : SubSeq(y, k, j)[l] = y[k + l - 1]
      BY <1>1, <3>1 DEF b
    <3>4. ASSUME NEW l \in 1..(j - k + 1) PROVE z[(k + a) + l - 1] = y[k + l - 1]
      <4>1. k + l - 1 \in 1..b /\ (k + l - 1) + a = (k + a) + l - 1
        BY <1>1, <3>1
      <4> QED BY <1>1, <4>1
    <3> DEFINE u == SubSeq(z, k + a, j + a)
               v == SubSeq(y, k, j)
    <3> HIDE DEF u, v
    <3>5. u \in Seq(S) /\ v \in Seq(S) /\ Len(u) = Len(v) /\ \A l \in 1..Len(u) : u[l] = v[l]
      BY <3>1, <3>2, <3>3, <3>4 DEF u, v
    <3>6. u = v
      BY <3>5
    <3> QED BY <3>6 DEF u, v
  <2> QED BY <2>1, <2>4, <2>5
<1> HIDE DEF E, F, G
<1>13. G = E \o F
  <2>1. /\ E \o F \in Seq(Seq(S)) /\ Len(E \o F) = Len(E) + Len(F)
        /\ Len(E) \in Nat /\ Len(F) \in Nat
        /\ \A i \in 1..Len(E) : (E \o F)[i] = E[i]
        /\ \A i \in 1..Len(F) : (E \o F)[Len(E) + i] = F[i]
    <3> DEFINE Q == Seq(S)
    <3>1. E \in Seq(Q) /\ F \in Seq(Q)
      BY <1>10
    <3> HIDE DEF Q
    <3>2. /\ E \o F \in Seq(Q) /\ Len(E \o F) = Len(E) + Len(F)
          /\ Len(E) \in Nat /\ Len(F) \in Nat
          /\ \A i \in 1..Len(E) : (E \o F)[i] = E[i]
          /\ \A i \in 1..Len(F) : (E \o F)[Len(E) + i] = F[i]
      BY <3>1, Concatenated
    <3> QED BY <3>2 DEF Q
  <2>2. ASSUME NEW i \in 1..Len(G) PROVE G[i] = (E \o F)[i]
    <3>0. i \in 1..(Len(E) + Len(F))
      BY <1>10
    <3>1. CASE i <= Len(E)
      <4>1. i \in 1..Len(E)
        BY <2>1, <3>0, <3>1
      <4> QED BY <1>11, <2>1, <4>1
    <3>2. CASE i > Len(E)
      <4>1. i - Len(E) \in 1..Len(F) /\ Len(E) + (i - Len(E)) = i
        BY <2>1, <3>0, <3>2
      <4>2. (E \o F)[Len(E) + (i - Len(E))] = F[i - Len(E)]
        BY <2>1, <4>1
      <4>3. G[Len(E) + (i - Len(E))] = F[i - Len(E)]
        BY <1>12, <4>1
      <4> QED BY <4>1, <4>2, <4>3
    <3> QED BY <2>1, <3>0, <3>1, <3>2
  <2> DEFINE W == E \o F
  <2> HIDE DEF W
  <2>3. W \in Seq(Seq(S)) /\ Len(W) = Len(G) /\ \A i \in 1..Len(G) : G[i] = W[i]
    BY <1>10, <2>1, <2>2 DEF W
  <2>4. G = W
    BY <1>10, <2>3
  <2> QED BY <2>4 DEF W
<1> QED BY <1>13 DEF E, F, G, z

\* A delimiter at the end adds no element.
LEMMA ElementsEnd ==
  ASSUME NEW S, NEW y \in Seq(S), NEW d \in S
  PROVE  ElementsOf(y \o <<d>>, d) = ElementsOf(y, d)
<1> DEFINE z == y \o <<d>>
           b == Len(y)
           Y == Starts(y, d)
<1>1. /\ b \in Nat /\ z \in Seq(S) /\ Len(z) = b + 1
      /\ \A k \in 1..b : z[k] = y[k]
      /\ z[b + 1] = d
  OBVIOUS
<1> HIDE DEF z
<1>2. Starts(z, d) = Y
  <2>1. ASSUME NEW k \in 1..b PROVE k \in Starts(z, d) <=> k \in Y
    <3>1. k \in 1..Len(z) /\ z[k] = y[k]
      BY <1>1
    <3>2. k # 1 => z[k - 1] = y[k - 1]
      <4> SUFFICES ASSUME k # 1 PROVE z[k - 1] = y[k - 1]
        OBVIOUS
      <4>1. k - 1 \in 1..b
        BY <1>1
      <4> QED BY <1>1, <4>1
    <3> HIDE DEF b
    <3>3. k \in Starts(z, d) <=> z[k] # d /\ (k = 1 \/ z[k - 1] = d)
      BY <3>1 DEF Starts
    <3>4. k \in Y <=> y[k] # d /\ (k = 1 \/ y[k - 1] = d)
      BY DEF Starts, b
    <3> HIDE DEF Y
    <3> QED BY <3>1, <3>2, <3>3, <3>4
  <2>2. b + 1 \notin Starts(z, d)
    BY <1>1 DEF Starts
  <2>3. Y \subseteq 1..b /\ Starts(z, d) \subseteq 1..(b + 1)
    BY <1>1, StartsType
  <2> HIDE DEF Y, b
  <2>4. \A k \in 1..(b + 1) : k \in 1..b \/ k = b + 1
    BY <1>1
  <2>5. \A k : k \in Starts(z, d) => k \in Y
    BY <2>1, <2>2, <2>3, <2>4
  <2>6. \A k : k \in Y => k \in Starts(z, d)
    BY <2>1, <2>3
  <2> QED BY <2>5, <2>6
<1> DEFINE E == ElementsOf(y, d)
           G == ElementsOf(z, d)
<1>3. /\ E \in Seq(Seq(S)) /\ Len(E) = Cardinality(Y)
      /\ G \in Seq(Seq(S)) /\ Len(G) = Cardinality(Y)
  BY <1>1, <1>2, ElementsType
<1>4. ASSUME NEW i \in 1..Len(E) PROVE G[i] = E[i]
  <2>1. PICK k \in Y : /\ i = Rank(Y, k) + 1 /\ Spans(y, d, k, Ending(y, d, k))
                       /\ E[i] = SubSeq(y, k, Ending(y, d, k))
    <3>1. i \in 1..Cardinality(Starts(y, d))
      BY <1>3
    <3> QED BY <3>1, ElementExists
  <2> DEFINE j == Ending(y, d, k)
  <2>2. k \in 1..b /\ j \in k..b /\ (j < b => y[j + 1] = d) /\ \A l \in k..j : y[l] # d
    BY <2>1 DEF Spans, Starts
  <2> HIDE DEF b, Y
  <2>3. Spans(z, d, k, j)
    <3> HIDE DEF j
    <3>1. j \in k..Len(z)
      BY <1>1, <2>2
    <3>2. z[j + 1] = d
      <4>1. CASE j = b
        BY <1>1, <4>1
      <4>2. CASE j # b
        <5>1. j < b /\ j + 1 \in 1..b
          BY <1>1, <2>2, <4>2
        <5> QED BY <1>1, <2>2, <5>1
      <4> QED BY <4>1, <4>2
    <3>3. ASSUME NEW l \in k..j PROVE z[l] # d
      <4>1. l \in 1..b
        BY <1>1, <2>2
      <4> QED BY <1>1, <2>2, <4>1
    <3> QED BY <3>1, <3>2, <3>3 DEF Spans
  <2>4. G[i] = SubSeq(z, k, j)
    <3>1. k \in Starts(z, d) /\ i = Rank(Starts(z, d), k) + 1
      BY <1>2, <2>1
    <3> HIDE DEF j
    <3> QED BY <1>1, <2>3, <3>1, ElementIs
  <2>5. SubSeq(z, k, j) = SubSeq(y, k, j)
    <3> HIDE DEF j
    <3>1. k \in Nat /\ k >= 1 /\ j \in Nat /\ j <= b /\ j <= Len(z)
      BY <1>1, <2>2
    <3>2. \A l \in k..j : z[l] = y[l]
      BY <1>1, <3>1
    <3> QED BY <1>1, <3>1, <3>2 DEF b
  <2> QED BY <2>1, <2>4, <2>5
<1> HIDE DEF E, G, Y
<1>5. G = E
  BY <1>3, <1>4
<1> QED BY <1>5 DEF E, G, z
-----------------------------------------------------------------------------
(***************************************************************************)
(* The three loops over the array, each a function of the elements done.   *)
(***************************************************************************)
Comma == ","
Text(arr, i) == arr[i] \o (IF i < Len(arr) THEN <<Comma>> ELSE <<>>)

ListSoFar(arr) ==
  CHOOSE list :
    list = [i \in 0..Len(arr) |->
              IF i = 0 THEN <<>>
              ELSE IF arr[i] = NotString THEN list[i - 1]
              ELSE list[i - 1] \o (arr[i] \o (IF i < Len(arr) THEN <<",">> ELSE <<>>))]
SizeSoFar(arr) ==
  CHOOSE size :
    size = [i \in 0..Len(arr) |->
              IF i = 0 THEN 0
              ELSE IF arr[i] = NotString THEN size[i - 1] ELSE size[i - 1] + Len(arr[i])]
WantedSoFar(arr) ==
  CHOOSE wanted :
    wanted = [i \in 0..Len(arr) |->
                IF i = 0 THEN <<>>
                ELSE IF arr[i] = NotString THEN wanted[i - 1]
                ELSE wanted[i - 1] \o Elements(arr[i])]

Array(arr, C) ==
  /\ Len(arr) \in Nat
  /\ \A i \in 1..Len(arr) : arr[i] = NotString \/ arr[i] \in Seq(C)

LEMMA LoopsAre ==
  ASSUME NEW arr
  PROVE  /\ Join(arr) = ListSoFar(arr)[Len(arr)]
         /\ ReqTotalSize(arr) = SizeSoFar(arr)[Len(arr)] + Len(arr) + 1
         /\ Wanted(arr) = WantedSoFar(arr)[Len(arr)]
  BY DEF Join, ReqTotalSize, Wanted, ListSoFar, SizeSoFar, WantedSoFar

\* What one loop adds up: for each place that is not skipped, what belongs to it.
Adds(n, v0, skip, add, op, g) ==
  \A i \in 0..n : g[i] = IF i = 0 THEN v0
                         ELSE IF i \in skip THEN g[i - 1] ELSE op[<<g[i - 1], add[i]>>]

LEMMA Accumulated ==
  ASSUME NEW n \in Nat, NEW V, NEW v0 \in V, NEW skip, NEW add, NEW op \in [V \X V -> V],
         \A i \in 1..n : i \notin skip => add[i] \in V
  PROVE  \E g \in [0..n -> V] : Adds(n, v0, skip, add, op, g)
<1> DEFINE Val(g, i) == IF i \in skip THEN g[i - 1] ELSE op[<<g[i - 1], add[i]>>]
           step == [x \in Nat \X V |-> IF x[1] \in (1..n) \ skip THEN op[<<x[2], add[x[1]]>>] ELSE x[2]]
<1>1. step \in [Nat \X V -> V]
  OBVIOUS
<1>2. PICK g \in [0..n -> V] : Rounds(n, v0, step, g)
  <2> HIDE DEF step
  <2> QED BY <1>1, RecursionOnSet
<1>3. ASSUME NEW i \in 1..n PROVE g[i] = Val(g, i)
  <2>1. i - 1 \in 0..n /\ i \in Nat
    OBVIOUS
  <2>2. g[i] = step[<<i, g[i - 1]>>]
    BY <1>2 DEF Rounds
  <2>3. g[i - 1] \in V
    BY <2>1
  <2> QED BY <2>1, <2>2, <2>3
<1>4. ASSUME NEW i \in 0..n PROVE g[i] = IF i = 0 THEN v0 ELSE Val(g, i)
  <2> HIDE DEF Val, step
  <2>1. CASE i = 0
    BY <1>2, <2>1 DEF Rounds
  <2>2. CASE i # 0
    <3>1. i \in 1..n
      BY <2>2
    <3> QED BY <1>3, <2>2, <3>1
  <2> QED BY <2>1, <2>2
<1> QED BY <1>4 DEF Adds

LEMMA ListLoop ==
  ASSUME NEW C, Comma \in C, NEW arr, Array(arr, C)
  PROVE  /\ ListSoFar(arr)[0] = <<>>
         /\ \A i \in 1..Len(arr) :
              ListSoFar(arr)[i] = IF arr[i] = NotString THEN ListSoFar(arr)[i - 1]
                                  ELSE ListSoFar(arr)[i - 1] \o Text(arr, i)
<1> DEFINE n == Len(arr)
           V == Seq(C)
           Add(i) == Text(arr, i)
           add == [i \in 1..n |-> Add(i)]
           skip == {i \in 1..n : arr[i] = NotString}
           op == [x \in V \X V |-> x[1] \o x[2]]
           Val(g, i) == IF i = 0 THEN <<>>
                        ELSE IF arr[i] = NotString THEN g[i - 1] ELSE g[i - 1] \o Add(i)
           Is(g) == g = [i \in 0..n |-> Val(g, i)]
<1>1. n \in Nat /\ \A i \in 1..n : arr[i] = NotString \/ arr[i] \in Seq(C)
  BY DEF Array
<1>2. <<>> \in V
  OBVIOUS
<1>3. op \in [V \X V -> V] /\ \A u, v \in V : op[<<u, v>>] = u \o v
  <2>1. \A u, v \in V : u \o v \in V
    OBVIOUS
  <2> HIDE DEF V
  <2> QED BY <2>1
<1>4. \A i \in 1..n : i \notin skip => Add(i) \in V
  <2>1. <<Comma>> \in Seq(C) /\ <<>> \in Seq(C)
    OBVIOUS
  <2>2. ASSUME NEW i \in 1..n, i \notin skip PROVE Add(i) \in V
    <3>1. arr[i] \in Seq(C)
      BY <1>1, <2>2
    <3> QED BY <2>1, <3>1 DEF Text
  <2> QED BY <2>2
<1>5. \A i \in 1..n : add[i] = Add(i)
  <2> HIDE DEF Add
  <2> QED OBVIOUS
<1> HIDE DEF Add
<1>6. PICK g \in [0..n -> V] : Adds(n, <<>>, skip, add, op, g)
  <2>1. \A i \in 1..n : i \notin skip => add[i] \in V
    <3> HIDE DEF add, V, skip
    <3> QED BY <1>4, <1>5
  <2> HIDE DEF n, V, add, skip, op
  <2> QED BY <1>1, <1>2, <1>3, <2>1, Accumulated
<1>7. ASSUME NEW i \in 0..n PROVE g[i] = Val(g, i)
  <2>1. CASE i = 0
    BY <1>6, <2>1 DEF Adds
  <2>2. CASE i # 0
    <3>1. i \in 1..n /\ i - 1 \in 0..n
      BY <1>1, <2>2
    <3>2. i \in skip <=> arr[i] = NotString
      BY <3>1
    <3> HIDE DEF skip, op, add, n, V
    <3>3. g[i - 1] \in V
      BY <3>1
    <3>4. i \notin skip => op[<<g[i - 1], add[i]>>] = g[i - 1] \o Add(i)
      BY <1>3, <1>4, <1>5, <3>1, <3>3
    <3>5. g[i] = IF i \in skip THEN g[i - 1] ELSE op[<<g[i - 1], add[i]>>]
      BY <1>6, <2>2 DEF Adds
    <3> QED BY <2>2, <3>2, <3>4, <3>5
  <2> QED BY <2>1, <2>2
<1>8. Is(g)
  <2> HIDE DEF Val
  <2> QED BY <1>7
<1> DEFINE L == ListSoFar(arr)
<1>9. Is(L)
  BY <1>8, Zenon DEF ListSoFar, Add, Text, Comma
<1>10. \A i \in 0..n : L[i] = Val(L, i)
  <2> HIDE DEF L, Val
  <2> QED BY <1>9
<1>11. \A i \in 1..n : i \in 0..n /\ i # 0
  BY <1>1
<1>12. 0 \in 0..n
  BY <1>1
<1> HIDE DEF L, n
<1> QED BY <1>10, <1>11, <1>12, Zenon DEF Add, L, n

LEMMA SizeLoop ==
  ASSUME NEW C, NEW arr, Array(arr, C)
  PROVE  /\ SizeSoFar(arr)[0] = 0
         /\ \A i \in 1..Len(arr) :
              SizeSoFar(arr)[i] = IF arr[i] = NotString THEN SizeSoFar(arr)[i - 1]
                                  ELSE SizeSoFar(arr)[i - 1] + Len(arr[i])
<1> DEFINE n == Len(arr)
           V == Nat
           Add(i) == Len(arr[i])
           add == [i \in 1..n |-> Add(i)]
           skip == {i \in 1..n : arr[i] = NotString}
           op == [x \in V \X V |-> x[1] + x[2]]
           Val(g, i) == IF i = 0 THEN 0
                        ELSE IF arr[i] = NotString THEN g[i - 1] ELSE g[i - 1] + Add(i)
           Is(g) == g = [i \in 0..n |-> Val(g, i)]
<1>1. n \in Nat /\ \A i \in 1..n : arr[i] = NotString \/ arr[i] \in Seq(C)
  BY DEF Array
<1>2. 0 \in V
  OBVIOUS
<1>3. op \in [V \X V -> V] /\ \A u, v \in V : op[<<u, v>>] = u + v
  <2>1. \A u, v \in V : u + v \in V
    OBVIOUS
  <2> HIDE DEF V
  <2> QED BY <2>1
<1>4. \A i \in 1..n : i \notin skip => Add(i) \in V
  <2>1. ASSUME NEW i \in 1..n, i \notin skip PROVE Add(i) \in V
    <3>1. arr[i] \in Seq(C)
      BY <1>1, <2>1
    <3> QED BY <3>1
  <2> QED BY <2>1
<1>5. \A i \in 1..n : add[i] = Add(i)
  <2> HIDE DEF Add
  <2> QED OBVIOUS
<1> HIDE DEF Add
<1>6. PICK g \in [0..n -> V] : Adds(n, 0, skip, add, op, g)
  <2>1. \A i \in 1..n : i \notin skip => add[i] \in V
    <3> HIDE DEF add, V, skip
    <3> QED BY <1>4, <1>5
  <2> HIDE DEF n, V, add, skip, op
  <2> QED BY <1>1, <1>2, <1>3, <2>1, Accumulated
<1>7. ASSUME NEW i \in 0..n PROVE g[i] = Val(g, i)
  <2>1. CASE i = 0
    BY <1>6, <2>1 DEF Adds
  <2>2. CASE i # 0
    <3>1. i \in 1..n /\ i - 1 \in 0..n
      BY <1>1, <2>2
    <3>2. i \in skip <=> arr[i] = NotString
      BY <3>1
    <3> HIDE DEF skip, op, add, n, V
    <3>3. g[i - 1] \in V
      BY <3>1
    <3>4. i \notin skip => op[<<g[i - 1], add[i]>>] = g[i - 1] + Add(i)
      BY <1>3, <1>4, <1>5, <3>1, <3>3
    <3>5. g[i] = IF i \in skip THEN g[i - 1] ELSE op[<<g[i - 1], add[i]>>]
      BY <1>6, <2>2 DEF Adds
    <3> QED BY <2>2, <3>2, <3>4, <3>5
  <2> QED BY <2>1, <2>2
<1>8. Is(g)
  <2> HIDE DEF Val
  <2> QED BY <1>7
<1> DEFINE L == SizeSoFar(arr)
<1>9. Is(L)
  BY <1>8, Zenon DEF SizeSoFar, Add
<1>10. \A i \in 0..n : L[i] = Val(L, i)
  <2> HIDE DEF L, Val
  <2> QED BY <1>9
<1>11. \A i \in 1..n : i \in 0..n /\ i # 0
  BY <1>1
<1>12. 0 \in 0..n
  BY <1>1
<1> HIDE DEF L, n
<1> QED BY <1>10, <1>11, <1>12, Zenon DEF Add, L, n

LEMMA WantedLoop ==
  ASSUME NEW C, NEW arr, Array(arr, C)
  PROVE  /\ WantedSoFar(arr)[0] = <<>>
         /\ \A i \in 1..Len(arr) :
              WantedSoFar(arr)[i] = IF arr[i] = NotString THEN WantedSoFar(arr)[i - 1]
                                    ELSE WantedSoFar(arr)[i - 1] \o Elements(arr[i])
<1> DEFINE n == Len(arr)
           V == Seq(Seq(C))
           Add(i) == Elements(arr[i])
           add == [i \in 1..n |-> Add(i)]
           skip == {i \in 1..n : arr[i] = NotString}
           op == [x \in V \X V |-> x[1] \o x[2]]
           Val(g, i) == IF i = 0 THEN <<>>
                        ELSE IF arr[i] = NotString THEN g[i - 1] ELSE g[i - 1] \o Add(i)
           Is(g) == g = [i \in 0..n |-> Val(g, i)]
<1>1. n \in Nat /\ \A i \in 1..n : arr[i] = NotString \/ arr[i] \in Seq(C)
  BY DEF Array
<1>2. <<>> \in V
  OBVIOUS
<1>3. op \in [V \X V -> V] /\ \A u, v \in V : op[<<u, v>>] = u \o v
  <2>1. \A u, v \in V : u \o v \in V
    OBVIOUS
  <2> HIDE DEF V
  <2> QED BY <2>1
<1>4. \A i \in 1..n : i \notin skip => Add(i) \in V
  <2>1. ASSUME NEW i \in 1..n, i \notin skip PROVE Add(i) \in V
    <3>1. arr[i] \in Seq(C)
      BY <1>1, <2>1
    <3>2. ElementsOf(arr[i], ",") \in Seq(Seq(C))
      BY <3>1, ElementsType
    <3> QED BY <3>2, ElementsAre
  <2> QED BY <2>1
<1>5. \A i \in 1..n : add[i] = Add(i)
  <2> HIDE DEF Add
  <2> QED OBVIOUS
<1> HIDE DEF Add
<1>6. PICK g \in [0..n -> V] : Adds(n, <<>>, skip, add, op, g)
  <2>1. \A i \in 1..n : i \notin skip => add[i] \in V
    <3> HIDE DEF add, V, skip
    <3> QED BY <1>4, <1>5
  <2> HIDE DEF n, V, add, skip, op
  <2> QED BY <1>1, <1>2, <1>3, <2>1, Accumulated
<1>7. ASSUME NEW i \in 0..n PROVE g[i] = Val(g, i)
  <2>1. CASE i = 0
    BY <1>6, <2>1 DEF Adds
  <2>2. CASE i # 0
    <3>1. i \in 1..n /\ i - 1 \in 0..n
      BY <1>1, <2>2
    <3>2. i \in skip <=> arr[i] = NotString
      BY <3>1
    <3> HIDE DEF skip, op, add, n, V
    <3>3. g[i - 1] \in V
      BY <3>1
    <3>4. i \notin skip => op[<<g[i - 1], add[i]>>] = g[i - 1] \o Add(i)
      BY <1>3, <1>4, <1>5, <3>1, <3>3
    <3>5. g[i] = IF i \in skip THEN g[i - 1] ELSE op[<<g[i - 1], add[i]>>]
      BY <1>6, <2>2 DEF Adds
    <3> QED BY <2>2, <3>2, <3>4, <3>5
  <2> QED BY <2>1, <2>2
<1>8. Is(g)
  <2> HIDE DEF Val
  <2> QED BY <1>7
<1> DEFINE L == WantedSoFar(arr)
<1>9. Is(L)
  BY <1>8, Zenon DEF WantedSoFar, Add
<1>10. \A i \in 0..n : L[i] = Val(L, i)
  <2> HIDE DEF L, Val
  <2> QED BY <1>9
<1>11. \A i \in 1..n : i \in 0..n /\ i # 0
  BY <1>1
<1>12. 0 \in 0..n
  BY <1>1
<1> HIDE DEF L, n
<1> QED BY <1>10, <1>11, <1>12, Zenon DEF Add, L, n

LEMMA EmptyElements == ElementsOf(<<>>, Comma) = <<>> 
<1>1. Starts(<<>>, Comma) = {}
  BY DEF Starts
<1>2. Cardinality(Starts(<<>>, Comma)) = 0
  BY <1>1, FS_EmptySet
<1>3. <<>> \in Seq({}) 
  OBVIOUS
<1>4. ElementsOf(<<>>, Comma) \in Seq(Seq({})) /\ Len(ElementsOf(<<>>, Comma)) = 0
  BY <1>2, <1>3, ElementsType
<1> QED BY <1>4

\* The list has the elements of the strings, and no more characters than the
\* size that was worked out.
LEMMA JoinFacts ==
  ASSUME NEW C, Comma \in C, NEW arr, Array(arr, C)
  PROVE  /\ Join(arr) \in Seq(C)
         /\ Elements(Join(arr)) = Wanted(arr)
         /\ Len(Join(arr)) <= ReqTotalSize(arr)
         /\ ReqTotalSize(arr) \in Nat
<1> DEFINE n == Len(arr)
           L == ListSoFar(arr)
           Z == SizeSoFar(arr)
           W == WantedSoFar(arr)
           P(i) == /\ L[i] \in Seq(C) /\ Z[i] \in Nat
                   /\ ElementsOf(L[i], Comma) = W[i]
                   /\ Len(L[i]) <= Z[i] + i
                   /\ (i < n => Len(L[i]) = 0 \/ L[i][Len(L[i])] = Comma)
           T == {i \in Nat : i <= n => P(i)}
<1>0. n \in Nat /\ \A i \in 1..n : arr[i] = NotString \/ arr[i] \in Seq(C)
  BY DEF Array
<1>1. /\ L[0] = <<>> /\ Z[0] = 0 /\ W[0] = <<>>
      /\ \A i \in 1..n : L[i] = IF arr[i] = NotString THEN L[i - 1] ELSE L[i - 1] \o Text(arr, i)
      /\ \A i \in 1..n : Z[i] = IF arr[i] = NotString THEN Z[i - 1] ELSE Z[i - 1] + Len(arr[i])
      /\ \A i \in 1..n : W[i] = IF arr[i] = NotString THEN W[i - 1] ELSE W[i - 1] \o Elements(arr[i])
  BY ListLoop, SizeLoop, WantedLoop
<1>2. \A s : Elements(s) = ElementsOf(s, Comma)
  BY ElementsAre DEF Comma
<1>3. \A i \in 1..n : Text(arr, i) = arr[i] \o (IF i < n THEN <<Comma>> ELSE <<>>)
  BY DEF Text
<1> HIDE DEF L, Z, W, n
<1>4. 0 \in T
  <2>1. P(0)
    BY <1>1, EmptyElements
  <2> QED BY <2>1
<1>5. ASSUME NEW m \in Nat, m \in T PROVE m + 1 \in T
  <2> SUFFICES ASSUME m + 1 <= n PROVE P(m + 1)
    OBVIOUS
  <2> DEFINE i == m + 1
  <2>1. i \in 1..n /\ i - 1 = m /\ m < n /\ i \in Nat
    BY <1>0
  <2>2. P(m)
    BY <1>0, <1>5, <2>1
  <2> HIDE DEF i
  <2>3. CASE arr[i] = NotString
    <3>1. L[i] = L[m] /\ Z[i] = Z[m] /\ W[i] = W[m]
      BY <1>1, <2>1, <2>3
    <3>2. i = m + 1
      BY DEF i
    <3>3. Len(L[m]) \in Nat
      BY <2>2
    <3> QED BY <2>1, <2>2, <3>1, <3>2, <3>3 DEF i
  <2>4. CASE arr[i] # NotString
    <3> DEFINE x == L[m]
               y == arr[i]
               t == Text(arr, i)
    <3>1. L[i] = x \o t /\ Z[i] = Z[m] + Len(y) /\ W[i] = W[m] \o ElementsOf(y, Comma)
      BY <1>1, <1>2, <2>1, <2>4
    <3>2. y \in Seq(C) /\ x \in Seq(C) /\ (Len(x) = 0 \/ x[Len(x)] = Comma)
      BY <1>0, <2>1, <2>2, <2>4
    <3>3. t = IF i < n THEN y \o <<Comma>> ELSE y
      <4>1. y \o <<>> = y
        BY <3>2
      <4> QED BY <1>3, <2>1, <4>1
    <3> HIDE DEF x, y, t
    <3>4. /\ t \in Seq(C) /\ ElementsOf(t, Comma) = ElementsOf(y, Comma)
          /\ Len(t) <= Len(y) + 1 /\ Len(y) \in Nat
          /\ (i < n => Len(t) > 0 /\ t[Len(t)] = Comma)
      <4>1. CASE i < n
        <5>1. t = y \o <<Comma>>
          BY <3>3, <4>1
        <5>2. ElementsOf(t, Comma) = ElementsOf(y, Comma)
          BY <3>2, <5>1, ElementsEnd
        <5>3. /\ t \in Seq(C) /\ Len(t) = Len(y) + 1 /\ Len(y) \in Nat
              /\ t[Len(y) + 1] = Comma
          BY <3>2, <5>1
        <5> QED BY <5>2, <5>3
      <4>2. CASE ~(i < n)
        BY <3>2, <3>3, <4>2
      <4> QED BY <4>1, <4>2
    <3>5. ElementsOf(L[i], Comma) = ElementsOf(x, Comma) \o ElementsOf(t, Comma)
      BY <3>1, <3>2, <3>4, ElementsJoin
    <3>6. ElementsOf(L[i], Comma) = W[i]
      BY <2>2, <3>1, <3>4, <3>5 DEF x
    <3>7. /\ x \o t \in Seq(C) /\ Len(x \o t) = Len(x) + Len(t) /\ Len(x) \in Nat /\ Len(t) \in Nat
          /\ \A k \in 1..Len(t) : (x \o t)[Len(x) + k] = t[k]
      BY <3>2, <3>4, Concatenated
    <3>8. L[i] \in Seq(C) /\ Z[i] \in Nat
      BY <2>2, <3>1, <3>4, <3>7
    <3>9. Len(L[i]) <= Z[i] + i
      <4>1. Len(x) <= Z[m] + m /\ Z[m] \in Nat
        BY <2>2 DEF x
      <4> QED BY <3>1, <3>4, <3>7, <4>1 DEF i
    <3>10. i < n => L[i][Len(L[i])] = Comma
      <4> SUFFICES ASSUME i < n PROVE L[i][Len(L[i])] = Comma
        OBVIOUS
      <4>1. Len(t) \in 1..Len(t) /\ t[Len(t)] = Comma
        BY <3>4, <3>7
      <4> QED BY <3>1, <3>7, <4>1
    <3> QED BY <3>6, <3>8, <3>9, <3>10 DEF i
  <2> QED BY <2>3, <2>4
<1>6. \A i \in Nat : i \in T
  <2> HIDE DEF T
  <2> QED BY <1>4, <1>5, InductionOnSet
<1>7. P(n)
  <2>1. n \in T
    <3> HIDE DEF T
    <3> QED BY <1>0, <1>6
  <2> HIDE DEF P
  <2> QED BY <1>0, <2>1
<1>8. Join(arr) = L[n] /\ ReqTotalSize(arr) = Z[n] + n + 1 /\ Wanted(arr) = W[n]
  BY LoopsAre DEF L, Z, W, n
<1>9. Len(L[n]) \in Nat
  BY <1>7
<1> QED BY <1>0, <1>2, <1>7, <1>8, <1>9
-----------------------------------------------------------------------------
(***************************************************************************)
(* RrdWebcfg.  DInv adds what the steps of a decoding have done so far.    *)
(***************************************************************************)
Decoding ==
  /\ document \in Documents
  /\ decodeStep \in {"decode", "exec", "framework", "free", "done", "undefined"}
  /\ decodeStep \in {"decode", "exec", "framework"} => reported = "none" /\ pushed = <<>>
  /\ decodeStep = "framework" => returned = "0"
  /\ decodeStep = "free" /\ reported = "SYSCFG_FAILURE" => returned = "0"

DInv == Decoding /\ DecodingDefined

\* Searched for as a map, a key that is exactly the name and the only one of
\* that name is found, whatever the type of its entry.
LEMMA FinderFinds ==
  ASSUME document \in Documents, NEW i \in 1..Len(document.entries),
         document.entries[i].key = "exact",
         \A j \in 1..Len(document.entries) :
           document.entries[j].name = document.entries[i].name => j = i
  PROVE  Finder(document.entries[i].name, "map") = i
<1> DEFINE F == Found(document.entries[i].name, "map")
<1>1. F = {i}
  BY DEF Found
<1>2. i \in Nat
  BY WebcfgAssumption
<1>3. (CHOOSE k \in F : \A j \in F : k <= j) = i
  BY <1>1, <1>2
<1>4. Finder(document.entries[i].name, "map") = IF F = {} THEN 0 ELSE CHOOSE k \in F : \A j \in F : k <= j
  BY DEF Finder
<1> HIDE DEF F
<1> QED BY <1>1, <1>3, <1>4

\* Of a well formed document all that is used is there and of its type.
LEMMA WellFormedUsable ==
  ASSUME document \in Documents, WellFormed(document)
  PROVE  Usable
<1> DEFINE Has(name, type) ==
             \E i \in 1..Len(document.entries) :
               document.entries[i].name = name /\ document.entries[i].type = type
           Gets(name, type) ==
             /\ Finder(name, "map") \in 1..Len(document.entries)
             /\ document.entries[Finder(name, "map")].type = type
<1>1. ASSUME NEW name, NEW type, Has(name, type)
      PROVE  Gets(name, type)
  <2>1. PICK i \in 1..Len(document.entries) :
          document.entries[i].name = name /\ document.entries[i].type = type
    BY <1>1
  <2>2. /\ document.entries[i].key = "exact"
        /\ \A j \in 1..Len(document.entries) :
             document.entries[j].name = document.entries[i].name => j = i
    BY DEF WellFormed
  <2>3. Finder(document.entries[i].name, "map") = i
    BY <2>2, FinderFinds
  <2> QED BY <2>1, <2>3
<1>2. /\ Has("remotedebugger", "map") /\ Has("subdoc_name", "str")
      /\ Has("version", "uint") /\ Has("transaction_id", "uint")
  <2>1. \A k \in {<<"remotedebugger", "map">>, <<"subdoc_name", "str">>, <<"version", "uint">>,
                  <<"transaction_id", "uint">>} : Has(k[1], k[2])
    BY DEF WellFormed
  <2> HIDE DEF Has
  <2> QED BY <2>1
<1>3. /\ Gets("remotedebugger", "map") /\ Gets("subdoc_name", "str")
      /\ Gets("version", "uint") /\ Gets("transaction_id", "uint")
  <2> HIDE DEF Has, Gets
  <2> QED BY <1>1, <1>2
<1>4. document.entries[Inner].type = "map"
  BY <1>3 DEF Inner
<1>5. 0 \notin Beside
  <2>1. 0 \notin 1..Len(document.entries)
    BY WebcfgAssumption
  <2>2. /\ Finder("subdoc_name", "map") \in 1..Len(document.entries)
        /\ Finder("version", "map") \in 1..Len(document.entries)
        /\ Finder("transaction_id", "map") \in 1..Len(document.entries)
    BY <1>3
  <2> QED BY <2>1, <2>2 DEF Beside
<1>6. document.entries[Finder("subdoc_name", "map")].type = "str"
  BY <1>3
<1> QED BY <1>4, <1>5, <1>6 DEF Usable

LEMMA NextDInv == DInv /\ [WebcfgNext]_webcfgVars => DInv'
<1> SUFFICES ASSUME DInv, [WebcfgNext]_webcfgVars PROVE DInv'
  OBVIOUS
<1>1. /\ document \in Documents /\ document' = document
      /\ docs = IF decodeStep \in {"exec", "framework", "free"} THEN 1 ELSE 0
  BY DEF DInv, Decoding, DecodingDefined, WebcfgNext, webcfgVars, DecodeFails, ConvertEmpty,
         ConvertUndefined, Convert, ConvertFails, PushRequest, ExecDataFails, ProcessRequest,
         ProcessRequestFails, FreeRequest
<1>2. CASE ConvertUndefined
  <2>1. ~WellFormed(document)
    BY <1>1, <1>2, WellFormedUsable DEF ConvertUndefined
  <2>2. ~WellFormed(document')
    BY <1>1, <2>1
  <2> QED BY <1>1, <1>2, <2>2 DEF DInv, Decoding, DecodingDefined, ConvertUndefined
<1>3. CASE DecodeFails \/ ConvertFails
  BY <1>1, <1>3 DEF DInv, Decoding, DecodingDefined, DecodeFails, ConvertFails
<1>4. CASE ConvertEmpty \/ Convert
  BY <1>1, <1>4 DEF DInv, Decoding, DecodingDefined, ConvertEmpty, Convert
<1>5. CASE PushRequest \/ ExecDataFails
  BY <1>1, <1>5 DEF DInv, Decoding, DecodingDefined, PushRequest, ExecDataFails
<1>6. CASE ProcessRequest
  BY <1>1, <1>6 DEF DInv, Decoding, DecodingDefined, ProcessRequest
<1>7. CASE ProcessRequestFails
  BY <1>1, <1>7 DEF DInv, Decoding, DecodingDefined, ProcessRequestFails
<1>8. CASE FreeRequest
  BY <1>1, <1>8 DEF DInv, Decoding, DecodingDefined, FreeRequest
<1>9. CASE UNCHANGED webcfgVars
  BY <1>9 DEF DInv, Decoding, DecodingDefined, webcfgVars
<1> QED BY <1>2, <1>3, <1>4, <1>5, <1>6, <1>7, <1>8, <1>9 DEF WebcfgNext

\* A well formed document never leads the decoder to an entry that is missing
\* or of another type, a document without a wrapper is reported as a failure
\* and pushes nothing, and the decoded document is freed exactly once.
THEOREM DecodingIsDefined == WebcfgSpec => []DecodingDefined
<1>1. WebcfgInit => DInv
  BY DEF WebcfgInit, DInv, Decoding, DecodingDefined
<1>2. DInv => DecodingDefined
  BY DEF DInv
<1> QED BY <1>1, <1>2, NextDInv, PTL DEF WebcfgSpec

\* From Convert to ProcessRequest the list and its size are those of the array.
LInv ==
  /\ (decodeStep = "decode" => commandList = <<>> /\ resultLen = 0)
  /\ (decodeStep \in {"exec", "framework"} /\ Inner # 0 =>
        commandList = Join(document.issues) /\ resultLen = ReqTotalSize(document.issues))
  /\ ListRestored

LEMMA DocumentArray ==
  ASSUME document \in Documents
  PROVE  \E C : Comma \in C /\ Array(document.issues, C)
<1> DEFINE C == TextChar \union {Comma}
           arr == document.issues
<1>1. Len(arr) \in Nat /\ \A i \in 1..Len(arr) : arr[i] = NotString \/ arr[i] \in Seq(TextChar)
  BY WebcfgAssumption
<1>2. TextChar \subseteq C /\ Comma \in C
  OBVIOUS
<1> HIDE DEF C, arr
<1>3. \A i \in 1..Len(arr) : arr[i] = NotString \/ arr[i] \in Seq(C)
  BY <1>1, <1>2, LargerAlphabet
<1>4. Array(arr, C)
  BY <1>1, <1>3 DEF Array
<1> QED BY <1>2, <1>4 DEF arr

LEMMA NextLInv == DInv /\ LInv /\ [WebcfgNext]_webcfgVars => LInv'
<1> SUFFICES ASSUME DInv, LInv, [WebcfgNext]_webcfgVars PROVE LInv'
  OBVIOUS
<1>1. /\ document \in Documents /\ document' = document
      /\ decodeStep \in {"decode", "exec", "framework"} => pushed = <<>>
  BY DEF DInv, Decoding, WebcfgNext, webcfgVars, DecodeFails, ConvertEmpty,
         ConvertUndefined, Convert, ConvertFails, PushRequest, ExecDataFails, ProcessRequest,
         ProcessRequestFails, FreeRequest
<1> DEFINE arr == document.issues
<1>2. /\ Elements(Join(arr)) = Wanted(arr) /\ Len(Join(arr)) <= ReqTotalSize(arr)
      /\ ReqTotalSize(arr) \in Nat /\ Len(Join(arr)) \in Nat
      /\ SubSeq(Join(arr), 1, Len(Join(arr))) = Join(arr)
  <2>1. PICK C : Comma \in C /\ Array(arr, C)
    BY <1>1, DocumentArray
  <2> HIDE DEF arr
  <2>2. /\ Join(arr) \in Seq(C) /\ Elements(Join(arr)) = Wanted(arr)
        /\ Len(Join(arr)) <= ReqTotalSize(arr) /\ ReqTotalSize(arr) \in Nat
    BY <2>1, JoinFacts
  <2> QED BY <2>2
<1> DEFINE same == /\ UNCHANGED <<commandList, resultLen, pushed>>
                   /\ (decodeStep' = "decode" => decodeStep = "decode")
                   /\ (decodeStep' \in {"exec", "framework"} => decodeStep \in {"exec", "framework"})
<1>3. ASSUME same PROVE LInv'
  <2>1. Inner' = Inner
    BY <1>1 DEF Inner, Finder, Found
  <2>2. ListRestored'
    BY <1>1, <1>3 DEF LInv, ListRestored
  <2> QED BY <1>1, <1>3, <2>1, <2>2 DEF LInv
<1>4. CASE DecodeFails \/ ConvertUndefined \/ ConvertFails \/ PushRequest \/ ExecDataFails
           \/ ProcessRequestFails \/ FreeRequest \/ UNCHANGED webcfgVars
  <2>1. same
    BY <1>4 DEF DecodeFails, ConvertUndefined, ConvertFails, PushRequest, ExecDataFails,
                ProcessRequestFails, FreeRequest, webcfgVars
  <2> QED BY <1>3, <2>1
<1>5. CASE ConvertEmpty
  <2>1. Inner' = 0
    BY <1>1, <1>5 DEF ConvertEmpty, Inner, Finder, Found
  <2>2. ListRestored'
    BY <1>1, <1>5 DEF LInv, ListRestored, ConvertEmpty
  <2> QED BY <1>5, <2>1, <2>2 DEF LInv, ConvertEmpty
<1>6. CASE Convert
  <2>1. /\ commandList' = Join(arr) /\ resultLen' = ReqTotalSize(arr) /\ pushed' = <<>>
        /\ decodeStep' = "exec"
    BY <1>1, <1>6 DEF Convert
  <2>2. ListRestored'
    BY <1>2, <2>1 DEF ListRestored
  <2> QED BY <1>1, <2>1, <2>2 DEF LInv
<1>7. CASE ProcessRequest
  <2>1. CASE Inner = 0
    <3>1. UNCHANGED <<commandList, resultLen, pushed>> /\ decodeStep' = "free"
      BY <1>7, <2>1 DEF ProcessRequest
    <3> QED BY <1>3, <3>1
  <2>2. CASE Inner # 0
    <3> DEFINE n == Shorter(Len(commandList), resultLen)
    <3>1. commandList = Join(arr) /\ resultLen = ReqTotalSize(arr)
      BY <1>7, <2>2 DEF ProcessRequest, LInv
    <3>2. n = Len(Join(arr))
      BY <1>2, <3>1 DEF Shorter
    <3>3. /\ pushed' = Append(pushed, SubSeq(commandList, 1, n)) /\ decodeStep' = "free"
          /\ UNCHANGED <<commandList, resultLen>>
      BY <1>7, <2>2 DEF ProcessRequest
    <3> HIDE DEF n
    <3>4. pushed = <<>>
      BY <1>1, <1>7 DEF ProcessRequest
    <3>5. pushed' = <<Join(arr)>>
      BY <1>2, <3>1, <3>2, <3>3, <3>4
    <3>6. ListRestored'
      <4>1. Len(pushed') = 1 /\ pushed'[1] = Join(arr)
        BY <3>5
      <4>2. \A i \in 1..Len(pushed') : Elements(pushed'[i]) = Wanted(arr)
        BY <1>2, <4>1
      <4> QED BY <1>1, <1>2, <3>1, <3>3, <4>2 DEF ListRestored
    <3> QED BY <3>3, <3>6 DEF LInv
  <2> QED BY <2>1, <2>2
<1> QED BY <1>4, <1>5, <1>6, <1>7 DEF WebcfgNext

\* Whatever document is received, the list that is queued holds the elements
\* of its strings, in their order and each once, and the copy fits.
THEOREM ListAlwaysRestored == WebcfgSpec => []ListRestored
<1>1. WebcfgInit => DInv /\ LInv
  BY DEF WebcfgInit, DInv, Decoding, DecodingDefined, LInv, ListRestored
<1>2. LInv => ListRestored
  BY DEF LInv
<1> QED BY <1>1, <1>2, NextDInv, NextLInv, PTL DEF WebcfgSpec
-----------------------------------------------------------------------------
(***************************************************************************)
(* RrdNames.  The lengths never change while names are built, so both      *)
(* properties carry over to the names there are; each action shows them of *)
(* its own name.                                                           *)
(***************************************************************************)
LengthsOK == profileLen \in Nat /\ nodeLen \in Nat /\ categoryLen \in Nat /\ typeLen \in Nat

\* What NamesFit and NamesWhole say of one name.
FitsWhole(n, size, meant, kept) ==
  /\ IF n = "dynJSONPath" THEN kept + 1 <= size + Dash ELSE kept + 1 <= size
  /\ kept = meant \/ (n = "issuedCommand" /\ categoryLen # typeLen)

NInv == LengthsOK /\ \A x \in names : FitsWhole(x.name, x.size, x.meant, x.kept)

\* A name that fits and is whole joins the others.
LEMMA BuildNInv ==
  ASSUME NInv, NEW n, NEW size, NEW meant, NEW kept, Build(n, size, meant, kept),
         FitsWhole(n, size, meant, kept)
  PROVE  NInv'
<1>1. /\ UNCHANGED <<profileLen, nodeLen, categoryLen, typeLen>>
      /\ names' = names \union {[name |-> n, size |-> size, meant |-> meant, kept |-> kept]}
  BY DEF Build, lenVars
<1>2. LengthsOK'
  BY <1>1 DEF NInv, LengthsOK
<1>3. ASSUME NEW x \in names' PROVE FitsWhole(x.name, x.size, x.meant, x.kept)
  <2>1. CASE x \in names
    BY <2>1 DEF NInv
  <2>2. CASE x = [name |-> n, size |-> size, meant |-> meant, kept |-> kept]
    <3>1. x.name = n /\ x.size = size /\ x.meant = meant /\ x.kept = kept
      BY <2>2
    <3> QED BY <3>1
  <2> QED BY <1>1, <2>1, <2>2
<1>4. Dash' = Dash
  BY <1>1 DEF Dash
<1>5. ASSUME NEW x \in names' PROVE FitsWhole(x.name, x.size, x.meant, x.kept)'
  BY <1>1, <1>3, <1>4, <1>5 DEF FitsWhole
<1> QED BY <1>2, <1>5 DEF NInv

LEMMA NextNInv == NInv /\ [NamesNext]_namesVars => NInv'
<1> SUFFICES ASSUME NInv, [NamesNext]_namesVars PROVE NInv'
  OBVIOUS
<1>1. LengthsOK /\ Dash \in {0, 1}
  BY DEF NInv, Dash
<1>2. CASE BuildDeepSleepPath
  <2> DEFINE size == MediaApps + PkgPrefix + DeepSleepStr + profileLen + JsonFile + 1
             meant == MediaApps + PkgPrefix + profileLen + Dash + DeepSleepStr + JsonFile
             kept == Printed(meant, DeepSleepLimit(size))
  <2>1. FitsWhole("dynJSONPath", size, meant, kept)
    BY <1>1 DEF FitsWhole, LengthsOK, Printed, DeepSleepLimit, Least, MediaApps, PkgPrefix,
                DeepSleepStr, JsonFile
  <2>2. Build("dynJSONPath", size, meant, kept)
    BY <1>2 DEF BuildDeepSleepPath
  <2> HIDE DEF size, meant, kept
  <2> QED BY <2>1, <2>2, BuildNInv
<1>3. CASE BuildIssuedCommand
  <2> DEFINE size == categoryLen + typeLen + Delim + 1
             meant == categoryLen + Delim + typeLen
             kept == Least(categoryLen, typeLen) + Delim + Least(typeLen, categoryLen)
  <2>1. FitsWhole("issuedCommand", size, meant, kept)
    BY <1>1 DEF FitsWhole, LengthsOK, Least, Delim
  <2>2. Build("issuedCommand", size, meant, kept)
    BY <1>3 DEF BuildIssuedCommand
  <2> HIDE DEF size, meant, kept
  <2> QED BY <2>1, <2>2, BuildNInv
<1>4. CASE BuildIssueType
  <2> DEFINE size == categoryLen + Delim + typeLen + 1
             meant == categoryLen + Delim + typeLen
  <2>1. FitsWhole("issuetypearray", size, meant, meant)
    BY <1>1 DEF FitsWhole, LengthsOK, Delim
  <2>2. Build("issuetypearray", size, meant, meant)
    BY <1>4 DEF BuildIssueType
  <2> HIDE DEF size, meant
  <2> QED BY <2>1, <2>2, BuildNInv
<1>5. ASSUME NEW deepSleep \in BOOLEAN, BuildParamString(deepSleep)
      PROVE  NInv'
  <2> DEFINE size == ProfileStringLength(deepSleep)
             meant == IF deepSleep
                      THEN PkgPrefix + profileLen + Dash + DeepSleepStr + PkgSuffix
                      ELSE PkgPrefix + nodeLen + PkgSuffix
             n == IF deepSleep THEN "deepParamString" ELSE "paramString"
  <2>1. size > 0 /\ Build(n, size, meant, Printed(meant, size))
    BY <1>5 DEF BuildParamString
  <2>2. n # "dynJSONPath" /\ n # "issuedCommand"
    OBVIOUS
  <2>3. meant \in Nat /\ size \in Int /\ Printed(meant, size) = meant /\ meant + 1 <= size
    BY <1>1, <2>1 DEF LengthsOK, Printed, Least, ProfileStringLength, PkgPrefix, DeepSleepStr, PkgSuffix
  <2> HIDE DEF size, meant, n
  <2>4. FitsWhole(n, size, meant, Printed(meant, size))
    BY <2>2, <2>3 DEF FitsWhole
  <2> QED BY <2>1, <2>4, BuildNInv
<1>6. ASSUME NEW deepSleep \in BOOLEAN, BuildMsgData(deepSleep)
      PROVE  NInv'
  <2> DEFINE long == PkgPrefix + DeepSleepStr + PkgSuffix + profileLen + Dash
             short == PkgPrefix + nodeLen + 1
             long_meant == PkgPrefix + profileLen + Dash + DeepSleepStr
             short_meant == PkgPrefix + nodeLen
  <2>1. \/ Build("deepMsgData", long, long_meant, long - PkgSuffix)
        \/ Build("msgData", short, short_meant, Printed(short_meant, short))
    BY <1>6 DEF BuildMsgData
  <2>2. FitsWhole("deepMsgData", long, long_meant, long - PkgSuffix)
    BY <1>1 DEF FitsWhole, LengthsOK, PkgPrefix, DeepSleepStr, PkgSuffix
  <2>3. FitsWhole("msgData", short, short_meant, Printed(short_meant, short))
    BY <1>1 DEF FitsWhole, LengthsOK, Printed, Least, PkgPrefix
  <2> HIDE DEF long, short, long_meant, short_meant
  <2> QED BY <2>1, <2>2, <2>3, BuildNInv
<1>7. CASE UNCHANGED namesVars
  BY <1>7 DEF NInv, LengthsOK, FitsWhole, Dash, namesVars, lenVars
<1> QED BY <1>2, <1>3, <1>4, <1>5, <1>6, <1>7 DEF NamesNext

LEMMA NamesAlways == NamesSpec => []NInv
<1>1. NamesInit => NInv
  BY NamesAssumption DEF NamesInit, NInv, LengthsOK
<1> QED BY <1>1, NextNInv, PTL DEF NamesSpec

\* Whatever the lengths, every name and its terminator fit the memory that
\* was allocated, the deep sleep path with a profile name being one byte over.
THEOREM NamesAlwaysFit == NamesSpec => []NamesFit
<1>1. NInv => NamesFit
  <2> SUFFICES ASSUME NInv, NEW x \in names
               PROVE  IF x.name = "dynJSONPath" THEN x.kept + 1 <= x.size + Dash
                                                ELSE x.kept + 1 <= x.size
    BY DEF NamesFit
  <2> QED BY DEF NInv, FitsWhole
<1> QED BY <1>1, NamesAlways, PTL

\* Only the name of a deep sleep issue is ever cut, and only when category
\* and type differ in length.
THEOREM NamesAlwaysWhole == NamesSpec => []NamesWhole
<1>1. NInv => NamesWhole
  BY DEF NInv, FitsWhole, NamesWhole
<1> QED BY <1>1, NamesAlways, PTL
=============================================================================
