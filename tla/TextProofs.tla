----------------------------- MODULE TextProofs -----------------------------
(***************************************************************************)
(* What the operators of module Texts do, for texts of any length: parts   *)
(* and lines of a text and what they become when they are joined again,    *)
(* trimming, the entries of a header's dictionary, and what a set or an    *)
(* unset statement on one of them changes.                                 *)
(*                                                                         *)
(* Sequences are put together with WithLast, Linked and Joined: the provers    *)
(* need the definitions only in the lemmas that introduce them, and use    *)
(* those lemmas afterwards.                                                *)
(***************************************************************************)
EXTENDS Texts, Sums, SequenceTheorems

LEMMA SameText ==
  ASSUME NEW S, NEW T, NEW s \in Seq(S), NEW u \in Seq(T), Len(s) = Len(u),
         \A k \in 1 .. Len(s) : s[k] = u[k]
  PROVE  s = u
PROOF OBVIOUS

LEMMA Concat2 ==
  ASSUME NEW S, NEW s \in Seq(S), NEW t \in Seq(S)
  PROVE  /\ s \o t \in Seq(S)
         /\ Len(s \o t) = Len(s) + Len(t)
         /\ \A k \in 1 .. Len(s) : (s \o t)[k] = s[k]
         /\ \A k \in 1 .. Len(t) : (s \o t)[Len(s) + k] = t[k]
PROOF OBVIOUS

LEMMA AppendIs ==
  ASSUME NEW S, NEW s \in Seq(S), NEW x \in S
  PROVE  /\ Append(s, x) \in Seq(S) /\ Append(s, x) # <<>>
         /\ Len(s) \in Nat /\ Len(Append(s, x)) = Len(s) + 1
         /\ Append(s, x)[Len(s) + 1] = x
         /\ \A k \in 1 .. Len(s) : Append(s, x)[k] = s[k]
PROOF OBVIOUS

LEMMA FunctionIsSeq ==
  ASSUME NEW S, NEW n \in Nat, NEW f \in [1 .. n -> S]
  PROVE  f \in Seq(S) /\ Len(f) = n /\ (f = <<>> <=> n = 0)
PROOF OBVIOUS

LEMMA EmptyText ==
  ASSUME NEW S
  PROVE  /\ <<>> \in Seq(S) /\ Len(<<>>) = 0
         /\ \A s \in Seq(S) : s \o <<>> = s /\ <<>> \o s = s /\ (Len(s) = 0 => s = <<>>)
PROOF OBVIOUS

-----------------------------------------------------------------------------
(* How often a character occurs.                                            *)

At(c, s) == {i \in 1 .. Len(s) : s[i] = c}

Count(c, s) == Cardinality(At(c, s))

LEMMA CountIs ==
  ASSUME NEW S, NEW s \in Seq(S), NEW c
  PROVE  /\ IsFiniteSet(At(c, s))
         /\ Count(c, s) \in Nat
         /\ Count(c, s) = 0 <=> \A i \in 1 .. Len(s) : s[i] # c
PROOF
  <1>1. IsFiniteSet(1 .. Len(s)) BY PlacesFinite
  <1>2. At(c, s) \subseteq 1 .. Len(s) BY DEF At
  <1>3. IsFiniteSet(At(c, s)) BY <1>1, <1>2, FS_Subset
  <1>4. Count(c, s) \in Nat BY <1>3, FS_CardinalityType DEF Count
  <1>5. Count(c, s) = 0 <=> At(c, s) = {} BY <1>3, FS_EmptySet DEF Count
  <1>6. QED BY <1>3, <1>4, <1>5 DEF At

LEMMA CountConcat ==
  ASSUME NEW S, NEW s \in Seq(S), NEW t \in Seq(S), NEW c
  PROVE  Count(c, s \o t) = Count(c, s) + Count(c, t)
PROOF
  <1> DEFINE n == Len(s)
             moved == {n + i : i \in At(c, t)}
             f == [i \in At(c, t) |-> n + i]
  <1>1. n \in Nat /\ Len(t) \in Nat OBVIOUS
  <1>2. IsFiniteSet(At(c, s)) /\ IsFiniteSet(At(c, t)) BY CountIs
  <1>3. At(c, s \o t) = At(c, s) \cup moved
    <2>1. ASSUME NEW i \in At(c, s \o t), i \notin At(c, s) PROVE i \in moved
      <3>1. i \in 1 .. n + Len(t) /\ (s \o t)[i] = c BY <2>1, Concat2 DEF At
      <3>2. i > n BY <2>1, <3>1, Concat2 DEF At
      <3>3. i - n \in 1 .. Len(t) /\ i = n + (i - n) BY <3>1, <3>2
      <3>4. t[i - n] = c BY <3>1, <3>3, Concat2
      <3>5. i - n \in At(c, t) BY <3>3, <3>4 DEF At
      <3>6. QED BY <3>3, <3>5
    <2>2. ASSUME NEW i \in At(c, s) PROVE i \in At(c, s \o t)
      <3>1. i \in 1 .. n /\ s[i] = c BY DEF At
      <3>2. i \in 1 .. Len(s \o t) BY <3>1, Concat2
      <3>3. (s \o t)[i] = c BY <3>1, Concat2
      <3>4. QED BY <3>2, <3>3 DEF At
    <2>3. ASSUME NEW i \in At(c, t) PROVE n + i \in At(c, s \o t)
      <3>1. i \in 1 .. Len(t) /\ t[i] = c BY DEF At
      <3>2. n + i \in 1 .. Len(s \o t) BY <3>1, Concat2
      <3>3. (s \o t)[n + i] = c BY <3>1, Concat2
      <3>4. QED BY <3>2, <3>3 DEF At
    <2>4. QED BY <2>1, <2>2, <2>3
  <1>4. At(c, s) \cap moved = {} BY <1>1 DEF At
  <1>5. f \in Bijection(At(c, t), moved)
    <2>1. \A i \in At(c, t) : i \in Int BY DEF At
    <2>2. f \in [At(c, t) -> moved] OBVIOUS
    <2>3. f \in Injection(At(c, t), moved) BY <1>1, <2>1, <2>2 DEF Injection, IsInjective
    <2>4. f \in Surjection(At(c, t), moved) BY <2>2 DEF Surjection
    <2>5. QED BY <2>3, <2>4 DEF Bijection
  <1>6. ExistsBijection(At(c, t), moved) BY <1>5 DEF ExistsBijection
  <1>7. IsFiniteSet(moved) /\ Cardinality(moved) = Cardinality(At(c, t))
    BY <1>2, <1>6, FS_Bijection
  <1>8. Cardinality(At(c, s) \cup moved) = Cardinality(At(c, s)) + Cardinality(moved)
    <2> HIDE DEF moved
    <2>1. Cardinality(At(c, s) \cup moved)
            = Cardinality(At(c, s)) + Cardinality(moved) - Cardinality({})
      BY <1>2, <1>4, <1>7, FS_Union
    <2>2. Cardinality({}) = 0 BY FS_EmptySet
    <2>3. Cardinality(At(c, s)) \in Nat /\ Cardinality(moved) \in Nat
      BY <1>2, <1>7, FS_CardinalityType
    <2>4. QED BY <2>1, <2>2, <2>3
  <1>9. QED BY <1>3, <1>7, <1>8 DEF Count

LEMMA CountOne ==
  ASSUME NEW c, NEW d
  PROVE  Count(c, <<d>>) = IF c = d THEN 1 ELSE 0
PROOF
  <1>1. At(c, <<d>>) = IF c = d THEN {1} ELSE {} BY DEF At
  <1>2. QED BY <1>1, FS_EmptySet, FS_Singleton DEF Count

LEMMA CountNone == \A c : Count(c, <<>>) = 0
PROOF
  <1>1. \A c : At(c, <<>>) = {} BY DEF At
  <1>2. QED BY <1>1, FS_EmptySet DEF Count

LEMMA Halves ==
  ASSUME NEW S, NEW s \in Seq(S), NEW k \in 0 .. Len(s)
  PROVE  s = SubSeq(s, 1, k) \o SubSeq(s, k + 1, Len(s))
PROOF
  <1> DEFINE u == SubSeq(s, 1, k)  v == SubSeq(s, k + 1, Len(s))
  <1>1. /\ u \in Seq(S) /\ Len(u) = k
        /\ \A i \in 1 .. k : u[i] = s[i]
    OBVIOUS
  <1>2. /\ v \in Seq(S) /\ Len(v) = Len(s) - k
        /\ \A i \in 1 .. Len(s) - k : v[i] = s[k + i]
    OBVIOUS
  <1> HIDE DEF u, v
  <1>3. Len(s) \in Nat /\ k \in Nat OBVIOUS
  <1>4. u \o v \in Seq(S) /\ Len(u \o v) = Len(s) BY <1>1, <1>2, <1>3, Concat2
  <1>5. ASSUME NEW i \in 1 .. Len(s) PROVE (u \o v)[i] = s[i]
    <2>1. CASE i <= k BY <1>1, <1>2, <2>1, Concat2
    <2>2. CASE ~(i <= k)
      <3>1. i - k \in 1 .. Len(s) - k /\ k + (i - k) = i BY <1>3, <2>2
      <3>2. (u \o v)[k + (i - k)] = v[i - k] BY <1>1, <1>2, <3>1, Concat2
      <3>3. QED BY <1>2, <3>1, <3>2
    <2>3. QED BY <2>1, <2>2
  <1>6. u \o v = s BY <1>4, <1>5, SameText
  <1>7. QED BY <1>6 DEF u, v

LEMMA CountPart ==
  ASSUME NEW S, NEW s \in Seq(S), NEW a \in 1 .. Len(s) + 1, NEW b \in 0 .. Len(s), NEW c
  PROVE  Count(c, SubSeq(s, a, b)) <= Count(c, s)
PROOF
  <1> DEFINE w == SubSeq(s, 1, b)  v == SubSeq(s, b + 1, Len(s))
             u == SubSeq(w, 1, a - 1)  p == SubSeq(w, a, b)
  <1>1. w \in Seq(S) /\ v \in Seq(S) /\ Len(w) = b OBVIOUS
  <1>2. s = w \o v BY Halves
  <1>3. Count(c, s) = Count(c, w) + Count(c, v) BY <1>1, <1>2, CountConcat
  <1>4. Count(c, s) \in Nat /\ Count(c, w) \in Nat /\ Count(c, v) \in Nat BY <1>1, CountIs
  <1>5. CASE a <= b
    <2>1. u \in Seq(S) /\ p \in Seq(S) BY <1>1, <1>5
    <2>2. w = u \o p
      <3>1. a - 1 \in 0 .. Len(w) /\ (a - 1) + 1 = a BY <1>1, <1>5
      <3> HIDE DEF w
      <3>2. w = SubSeq(w, 1, a - 1) \o SubSeq(w, (a - 1) + 1, Len(w)) BY <1>1, <3>1, Halves
      <3>3. QED BY <1>1, <3>1, <3>2
    <2>3. Count(c, w) = Count(c, u) + Count(c, p) BY <2>1, <2>2, CountConcat
    <2>4. Count(c, u) \in Nat /\ Count(c, p) \in Nat BY <2>1, CountIs
    <2>5. p = SubSeq(s, a, b) BY <1>1, <1>5
    <2>6. Count(c, p) <= Count(c, s)
      <3> HIDE DEF u, p, v, w
      <3>1. QED BY <1>3, <1>4, <2>3, <2>4
    <2>7. QED BY <2>5, <2>6
  <1>6. CASE ~(a <= b)
    <2>1. SubSeq(s, a, b) = <<>> BY <1>6
    <2>2. QED BY <1>4, <2>1, CountNone
  <1>7. QED BY <1>5, <1>6

-----------------------------------------------------------------------------
(* Sequences made longer one by one: the least counterexample.              *)

LEMMA LeastSeq ==
  ASSUME NEW S, NEW T \in SUBSET Seq(S), T # {}, <<>> \notin T
  PROVE  \E s \in Seq(S), x \in S : s \notin T /\ Append(s, x) \in T
PROOF
  <1> DEFINE L == {Len(s) : s \in T}
  <1>1. PICK n \in L : \A m \in L : n <= m
    <2>1. \A s \in T : Len(s) \in Nat OBVIOUS
    <2>2. L \in SUBSET Nat /\ L # {} BY <2>1
    <2> HIDE DEF L
    <2>3. QED BY <2>2, LeastNat
  <1>2. PICK t \in T : Len(t) = n OBVIOUS
  <1>3. t \in Seq(S) /\ t # <<>> /\ Len(t) \in Nat \ {0} OBVIOUS
  <1> DEFINE s == SubSeq(t, 1, n - 1)
  <1>4. s \in Seq(S) /\ Len(s) = n - 1 /\ t[n] \in S BY <1>2, <1>3
  <1>5. Append(s, t[n]) = t BY <1>2, <1>3, <1>4
  <1>6. s \notin T
    <2>1. ~(n <= Len(s)) BY <1>2, <1>3, <1>4
    <2>2. Len(s) \notin L BY <1>1, <2>1
    <2> HIDE DEF s
    <2>3. QED BY <2>2
  <1>7. QED BY <1>2, <1>4, <1>5, <1>6

(* f[i] is what the first i sequences make.                                 *)
Flattening(ss, f) ==
  f = [i \in 1 .. Len(ss) |-> IF i = 1 THEN ss[i] ELSE f[i - 1] \o ss[i]]

LEMMA FlatteningAt ==
  ASSUME NEW ss, NEW f, Flattening(ss, f), NEW i \in 1 .. Len(ss)
  PROVE  f[i] = IF i = 1 THEN ss[i] ELSE f[i - 1] \o ss[i]
PROOF BY DEF Flattening

LEMMA FlatteningMade ==
  ASSUME NEW S, NEW ss \in Seq(S), NEW f, f = [i \in 1 .. Len(ss) |-> f[i]],
         \A i \in 1 .. Len(ss) : f[i] = IF i = 1 THEN ss[i] ELSE f[i - 1] \o ss[i]
  PROVE  Flattening(ss, f)
PROOF BY DEF Flattening

LEMMA FlatteningUnique ==
  ASSUME NEW S, NEW ss \in Seq(S), NEW f, Flattening(ss, f),
         NEW T, NEW tt \in Seq(T), NEW g, Flattening(tt, g), Len(ss) <= Len(tt),
         \A i \in 1 .. Len(ss) : tt[i] = ss[i]
  PROVE  \A i \in 1 .. Len(ss) : f[i] = g[i]
PROOF
  <1> DEFINE B == {i \in 1 .. Len(ss) : f[i] # g[i]}
  <1> SUFFICES ASSUME B # {} PROVE FALSE OBVIOUS
  <1>1. PICK i \in B : \A j \in B : i <= j
    <2>1. B \in SUBSET Nat OBVIOUS
    <2> HIDE DEF B
    <2>2. QED BY <2>1, LeastNat
  <1>2. i \in 1 .. Len(ss) /\ i \in 1 .. Len(tt) /\ tt[i] = ss[i] OBVIOUS
  <1>3. /\ f[i] = IF i = 1 THEN ss[i] ELSE f[i - 1] \o ss[i]
        /\ g[i] = IF i = 1 THEN tt[i] ELSE g[i - 1] \o tt[i]
    BY <1>2, FlatteningAt
  <1>4. i # 1 BY <1>1, <1>2, <1>3
  <1>5. i - 1 \in 1 .. Len(ss) /\ ~(i <= i - 1) BY <1>2, <1>4
  <1>6. f[i - 1] = g[i - 1] BY <1>1, <1>5
  <1>7. QED BY <1>1, <1>2, <1>3, <1>4, <1>6

LEMMA FlatteningExists ==
  ASSUME NEW S, NEW ss \in Seq(S)
  PROVE  \E f : Flattening(ss, f)
PROOF
  <1> DEFINE T == {s \in Seq(S) : ~ \E f : Flattening(s, f)}
  <1> SUFFICES ASSUME T # {} PROVE FALSE OBVIOUS
  <1>1. <<>> \notin T
    <2> DEFINE f == [i \in 1 .. 0 |-> <<>>]
    <2>1. Flattening(<<>>, f) BY DEF Flattening
    <2>2. QED BY <2>1
  <1>2. PICK s \in Seq(S), x \in S : s \notin T /\ Append(s, x) \in T
    <2>1. T \in SUBSET Seq(S) OBVIOUS
    <2> HIDE DEF T
    <2>2. QED BY <1>1, <2>1, LeastSeq
  <1>3. PICK f : Flattening(s, f) BY <1>2
  <1> DEFINE n == Len(s)
             t == Append(s, x)
             g == [i \in 1 .. n + 1 |-> IF i <= n THEN f[i]
                                        ELSE IF n = 0 THEN x ELSE f[n] \o x]
  <1>4. n \in Nat /\ t \in Seq(S) /\ Len(t) = n + 1 /\ t[n + 1] = x
        /\ \A i \in 1 .. n : t[i] = s[i]
    OBVIOUS
  <1>5. ASSUME NEW i \in 1 .. Len(t)
        PROVE  g[i] = IF i = 1 THEN t[i] ELSE g[i - 1] \o t[i]
    <2>1. CASE i <= n
      <3>1. i \in 1 .. n BY <1>4, <2>1
      <3>2. f[i] = IF i = 1 THEN s[i] ELSE f[i - 1] \o s[i] BY <1>3, <3>1, FlatteningAt
      <3>3. g[i] = f[i] /\ (i # 1 => g[i - 1] = f[i - 1]) BY <1>4, <3>1
      <3> HIDE DEF g, t
      <3>4. QED BY <1>4, <3>1, <3>2, <3>3
    <2>2. CASE ~(i <= n)
      <3>1. i = n + 1 BY <1>4, <2>2
      <3>2. CASE n = 0
        <4>1. i = 1 BY <3>1, <3>2
        <4>2. g[i] = x BY <3>2, <4>1
        <4>3. QED BY <1>4, <3>2, <4>1, <4>2
      <3>3. CASE n # 0
        <4>1. g[i] = f[n] \o x /\ g[n] = f[n] /\ i # 1 /\ i - 1 = n BY <1>4, <3>1, <3>3
        <4> HIDE DEF g, t
        <4>2. QED BY <1>4, <3>1, <4>1
      <3>4. QED BY <3>2, <3>3
    <2>3. QED BY <2>1, <2>2
  <1>6. g = [i \in 1 .. Len(t) |-> g[i]] BY <1>4
  <1>7. Flattening(t, g)
    <2> HIDE DEF g, t
    <2>1. QED BY <1>4, <1>5, <1>6, FlatteningMade
  <1>8. QED BY <1>2, <1>7

LEMMA FlattenIs ==
  ASSUME NEW S, NEW ss \in Seq(S), ss # <<>>
  PROVE  \E f : Flattening(ss, f) /\ FlattenSeq(ss) = f[Len(ss)]
PROOF
  <1> DEFINE g == CHOOSE f : Flattening(ss, f)
  <1>1. Flattening(ss, g) BY FlatteningExists
  <1>2. FlattenSeq(ss) = g[Len(ss)] BY DEF FlattenSeq, Flattening
  <1> HIDE DEF g
  <1>3. QED BY <1>1, <1>2

LEMMA FlattenNone == FlattenSeq(<<>>) = <<>>
PROOF BY DEF FlattenSeq

LEMMA FlattenAppend ==
  ASSUME NEW S, NEW ss \in Seq(S), NEW x \in S
  PROVE  FlattenSeq(Append(ss, x)) = IF ss = <<>> THEN x ELSE FlattenSeq(ss) \o x
PROOF
  <1> DEFINE n == Len(ss)
             t == Append(ss, x)
  <1>1. n \in Nat /\ t \in Seq(S) /\ Len(t) = n + 1 /\ t[n + 1] = x /\ t # <<>>
        /\ \A i \in 1 .. n : t[i] = ss[i]
    OBVIOUS
  <1> HIDE DEF t
  <1>2. PICK g : Flattening(t, g) /\ FlattenSeq(t) = g[n + 1] BY <1>1, FlattenIs
  <1>3. n + 1 \in 1 .. Len(t) BY <1>1
  <1>4. g[n + 1] = IF n + 1 = 1 THEN t[n + 1] ELSE g[(n + 1) - 1] \o t[n + 1]
    BY <1>2, <1>3, FlatteningAt
  <1>5. CASE ss = <<>>
    <2>1. n = 0 BY <1>5
    <2>2. QED BY <1>1, <1>2, <1>4, <1>5, <2>1 DEF t
  <1>6. CASE ss # <<>>
    <2>1. n # 0 /\ n \in 1 .. n /\ (n + 1) - 1 = n /\ n + 1 # 1 /\ n <= Len(t) BY <1>1, <1>6
    <2>2. PICK f : Flattening(ss, f) /\ FlattenSeq(ss) = f[n] BY <1>6, FlattenIs
    <2>3. f[n] = g[n] BY <1>1, <1>2, <2>1, <2>2, FlatteningUnique
    <2>4. g[n + 1] = g[n] \o x BY <1>1, <1>4, <2>1
    <2>5. QED BY <1>2, <1>6, <2>2, <2>3, <2>4 DEF t
  <1>7. QED BY <1>5, <1>6

LEMMA FlattenSnoc ==
  ASSUME NEW S, NEW ss \in Seq(Seq(S))
  PROVE  /\ FlattenSeq(ss) \in Seq(S)
         /\ \A x \in Seq(S) : FlattenSeq(Append(ss, x)) = FlattenSeq(ss) \o x
PROOF
  <1>1. FlattenSeq(ss) \in Seq(S)
    <2> DEFINE T == {s \in Seq(Seq(S)) : FlattenSeq(s) \notin Seq(S)}
    <2> SUFFICES ASSUME T # {} PROVE FALSE OBVIOUS
    <2>1. <<>> \notin T
      <3>1. <<>> \in Seq(S) OBVIOUS
      <3>2. QED BY <3>1, FlattenNone
    <2>2. T \in SUBSET Seq(Seq(S)) OBVIOUS
    <2>3. PICK s \in Seq(Seq(S)), x \in Seq(S) : s \notin T /\ Append(s, x) \in T
      <3> HIDE DEF T
      <3>1. QED BY <2>1, <2>2, LeastSeq
    <2>4. FlattenSeq(s) \in Seq(S) BY <2>3
    <2>5. FlattenSeq(Append(s, x)) = IF s = <<>> THEN x ELSE FlattenSeq(s) \o x
      BY FlattenAppend
    <2>6. FlattenSeq(Append(s, x)) \in Seq(S) BY <2>4, <2>5
    <2>7. QED BY <2>3, <2>6
  <1>2. \A x \in Seq(S) : FlattenSeq(Append(ss, x)) = FlattenSeq(ss) \o x
    BY FlattenAppend, FlattenNone
  <1>3. QED BY <1>1, <1>2

-----------------------------------------------------------------------------
(* Places in order, and what lies between them.                             *)

Rank(E, i) == Cardinality({j \in E : j <= i})

Nth(E, k) == CHOOSE i \in E : Rank(E, i) = k

LEMMA RankIs ==
  ASSUME NEW E \in SUBSET Nat, IsFiniteSet(E), NEW i \in E
  PROVE  Rank(E, i) \in 1 .. Cardinality(E)
PROOF
  <1> DEFINE B == {j \in E : j <= i}
  <1>1. IsFiniteSet(B) /\ Cardinality(B) <= Cardinality(E) BY FS_Subset
  <1>2. i \in B OBVIOUS
  <1>3. Cardinality(B) \in Nat /\ Cardinality(E) \in Nat BY <1>1, FS_CardinalityType
  <1>4. Cardinality(B) # 0 BY <1>1, <1>2, FS_EmptySet
  <1>5. QED BY <1>1, <1>3, <1>4 DEF Rank

LEMMA RankGrows ==
  ASSUME NEW E \in SUBSET Nat, IsFiniteSet(E), NEW i \in E, NEW j \in E, i < j
  PROVE  Rank(E, i) < Rank(E, j)
PROOF
  <1> DEFINE A == {k \in E : k <= i}  B == {k \in E : k <= j}
  <1>1. IsFiniteSet(A) /\ IsFiniteSet(B) BY FS_Subset
  <1>2. i \in Nat /\ j \in Nat /\ \A k \in E : k \in Nat OBVIOUS
  <1>7. j <= j /\ ~(j <= i) /\ \A k \in E : k <= i => k <= j BY <1>2
  <1>8. A \in SUBSET B /\ j \in B /\ j \notin A
    <2> HIDE <1>2
    <2>1. QED BY <1>7
  <1>3. Cardinality(A) \in Nat /\ Cardinality(B) \in Nat BY <1>1, FS_CardinalityType
  <1> HIDE DEF A, B
  <1>4. Cardinality(A) <= Cardinality(B) /\ Cardinality(A) # Cardinality(B)
    BY <1>1, <1>8, FS_Subset
  <1>5. Cardinality(A) < Cardinality(B) BY <1>3, <1>4
  <1>6. QED BY <1>5 DEF Rank, A, B

LEMMA Ranked ==
  ASSUME NEW E \in SUBSET Nat, IsFiniteSet(E)
  PROVE  /\ \A i, j \in E : Rank(E, i) = Rank(E, j) => i = j
         /\ \A k \in 1 .. Cardinality(E) : \E i \in E : Rank(E, i) = k
PROOF
  <1> DEFINE n == Cardinality(E)
             f == [i \in E |-> Rank(E, i)]
  <1>1. n \in Nat BY FS_CardinalityType
  <1>2. ASSUME NEW i \in E, NEW j \in E, Rank(E, i) = Rank(E, j) PROVE i = j
    <2>1. Rank(E, i) \in Int /\ Rank(E, j) \in Int BY <1>1, RankIs
    <2>2. CASE i < j BY <1>2, <2>1, <2>2, RankGrows
    <2>3. CASE j < i BY <1>2, <2>1, <2>3, RankGrows
    <2>4. QED BY <2>2, <2>3
  <1>3. f \in [E -> 1 .. n] BY RankIs
  <1>4. f \in Injection(E, 1 .. n) BY <1>2, <1>3 DEF Injection, IsInjective
  <1>5. IsFiniteSet(1 .. n) /\ Cardinality(1 .. n) = n BY <1>1, FS_Interval
  <1>6. f \in Surjection(E, 1 .. n)
    <2> HIDE DEF f
    <2>1. Cardinality(E) = Cardinality(1 .. n) BY <1>5
    <2>2. QED BY <1>4, <1>5, <2>1, FS_Injection
  <1>7. QED BY <1>2, <1>6 DEF Surjection

LEMMA NthIs ==
  ASSUME NEW E \in SUBSET Nat, IsFiniteSet(E), NEW k \in 1 .. Cardinality(E)
  PROVE  Nth(E, k) \in E /\ Rank(E, Nth(E, k)) = k
PROOF BY Ranked DEF Nth

LEMMA NthThat ==
  ASSUME NEW E \in SUBSET Nat, IsFiniteSet(E), NEW i \in E
  PROVE  Nth(E, Rank(E, i)) = i
PROOF
  <1> DEFINE k == Rank(E, i)
  <1>1. k \in 1 .. Cardinality(E) BY RankIs
  <1> HIDE DEF k
  <1> DEFINE m == Nth(E, k)
  <1>2. m \in E /\ Rank(E, m) = k BY <1>1, NthIs
  <1> HIDE DEF m
  <1>3. Rank(E, m) = Rank(E, i) BY <1>2 DEF k
  <1>4. m = i BY <1>2, <1>3, Ranked
  <1>5. QED BY <1>4 DEF k, m

(* A place beyond all others is the last one.                               *)
LEMMA RankTop ==
  ASSUME NEW E \in SUBSET Nat, IsFiniteSet(E), NEW m \in Nat, \A i \in E : i < m
  PROVE  LET F == E \cup {m}
         IN /\ F \in SUBSET Nat /\ IsFiniteSet(F)
            /\ Cardinality(F) = Cardinality(E) + 1
            /\ Nth(F, Cardinality(E) + 1) = m
            /\ \A k \in 1 .. Cardinality(E) : Nth(F, k) = Nth(E, k)
PROOF
  <1> DEFINE F == E \cup {m}
  <1>1. F \in SUBSET Nat /\ m \notin E /\ m \in F OBVIOUS
  <1>2. IsFiniteSet(F) /\ Cardinality(F) = Cardinality(E) + 1 BY <1>1, FS_AddElement
  <1>3. {j \in F : j <= m} = F
    <2>1. \A j \in F : j \in Nat /\ j <= m OBVIOUS
    <2>2. QED BY <2>1
  <1>4. Rank(F, m) = Cardinality(E) + 1 BY <1>2, <1>3 DEF Rank
  <1>5. ASSUME NEW i \in E PROVE Rank(F, i) = Rank(E, i) /\ i \in F
    <2>1. {j \in F : j <= i} = {j \in E : j <= i} OBVIOUS
    <2>2. QED BY <2>1 DEF Rank
  <1>6. Nth(F, Cardinality(E) + 1) = m
    <2> HIDE DEF F
    <2>1. Nth(F, Rank(F, m)) = m BY <1>1, <1>2, NthThat
    <2>2. QED BY <1>4, <2>1
  <1>7. ASSUME NEW k \in 1 .. Cardinality(E) PROVE Nth(F, k) = Nth(E, k)
    <2> DEFINE i == Nth(E, k)
    <2>1. i \in E /\ Rank(E, i) = k BY NthIs
    <2> HIDE DEF i, F
    <2>2. Rank(F, i) = k /\ i \in F BY <1>5, <2>1
    <2>3. Nth(F, Rank(F, i)) = i BY <1>1, <1>2, <2>2, NthThat
    <2>4. QED BY <2>2, <2>3 DEF i
  <1>8. QED BY <1>1, <1>2, <1>6, <1>7

-----------------------------------------------------------------------------
(* Splitting.                                                               *)

Ends(text, c) == At(c, text) \cup {Len(text) + 1}

Between(text, E, k) ==
  SubSeq(text, IF k = 1 THEN 1 ELSE Nth(E, k - 1) + 1, Nth(E, k) - 1)

LEMMA SplitIs ==
  ASSUME NEW S, NEW text \in Seq(S), NEW c
  PROVE  /\ Split(text, c) =
              [k \in 1 .. Cardinality(Ends(text, c)) |-> Between(text, Ends(text, c), k)]
         /\ Ends(text, c) \in SUBSET Nat /\ IsFiniteSet(Ends(text, c))
         /\ Cardinality(Ends(text, c)) = Count(c, text) + 1
PROOF
  <1>1. DOMAIN text = 1 .. Len(text) /\ Len(text) \in Nat OBVIOUS
  <1>2. {i \in DOMAIN text : text[i] = c} \cup {Len(text) + 1} = Ends(text, c)
    BY <1>1 DEF Ends, At
  <1>3. Split(text, c) =
          [k \in 1 .. Cardinality(Ends(text, c)) |-> Between(text, Ends(text, c), k)]
    <2> DEFINE E == {i \in DOMAIN text : text[i] = c} \cup {Len(text) + 1}
    <2>1. Split(text, c) = [k \in 1 .. Cardinality(E) |-> Between(text, E, k)]
      BY DEF Split, Between, Nth, Rank
    <2>2. E = Ends(text, c) BY <1>2
    <2> HIDE DEF E
    <2>3. QED BY <2>1, <2>2
  <1>4. IsFiniteSet(At(c, text)) /\ At(c, text) \subseteq 1 .. Len(text) BY CountIs DEF At
  <1>5. Len(text) + 1 \notin At(c, text) BY <1>1, <1>4
  <1>6. IsFiniteSet(Ends(text, c)) /\ Cardinality(Ends(text, c)) = Count(c, text) + 1
    BY <1>4, <1>5, FS_AddElement DEF Ends, Count
  <1>7. QED BY <1>1, <1>3, <1>4, <1>6 DEF Ends

LEMMA SplitOne ==
  ASSUME NEW S, NEW text \in Seq(S), NEW c, Count(c, text) = 0
  PROVE  Split(text, c) = <<text>>
PROOF
  <1> DEFINE E == Ends(text, c)
  <1>1. Len(text) \in Nat /\ At(c, text) = {}
    <2>1. \A i \in 1 .. Len(text) : text[i] # c BY CountIs
    <2>2. QED BY <2>1 DEF At
  <1>2. E = {Len(text) + 1} BY <1>1 DEF Ends
  <1>3. Cardinality(E) = 1 /\ IsFiniteSet(E) /\ E \in SUBSET Nat BY SplitIs
  <1>4. Nth(E, 1) = Len(text) + 1
    <2>1. Nth(E, 1) \in E BY <1>3, NthIs
    <2>2. QED BY <1>2, <2>1
  <1>5. Between(text, E, 1) = text
    <2>1. Between(text, E, 1) = SubSeq(text, 1, Len(text)) BY <1>1, <1>4 DEF Between
    <2>2. QED BY <2>1
  <1>6. Split(text, c) = [k \in 1 .. Cardinality(E) |-> Between(text, E, k)] BY SplitIs
  <1> HIDE DEF E
  <1>7. [k \in 1 .. 1 |-> Between(text, E, k)] = [k \in 1 .. 1 |-> text] BY <1>5
  <1>8. QED BY <1>3, <1>6, <1>7

(* The last separator: what is before it is split further.                  *)
LEMMA SplitLast ==
  ASSUME NEW S, NEW u \in Seq(S), NEW t \in Seq(S), NEW c \in S, Count(c, t) = 0
  PROVE  Split(u \o <<c>> \o t, c) = Append(Split(u, c), t)
PROOF
  <1> DEFINE s == u \o <<c>> \o t
             n == Len(u)
             m == Len(s) + 1
             E == Ends(u, c)
             F == Ends(s, c)
             w == Cardinality(E)
  <1>1. /\ s \in Seq(S) /\ Len(s) = n + 1 + Len(t) /\ n \in Nat /\ Len(t) \in Nat
        /\ \A i \in 1 .. n : s[i] = u[i]
        /\ s[n + 1] = c
        /\ \A i \in 1 .. Len(t) : s[n + 1 + i] = t[i]
    <2> DEFINE v == u \o <<c>>
    <2>1. /\ v \in Seq(S) /\ Len(v) = n + 1 /\ n \in Nat /\ Len(t) \in Nat
          /\ (\A i \in 1 .. n : v[i] = u[i]) /\ v[n + 1] = c
      OBVIOUS
    <2> HIDE DEF v
    <2>2. /\ v \o t \in Seq(S) /\ Len(v \o t) = n + 1 + Len(t)
          /\ \A k \in 1 .. n + 1 : (v \o t)[k] = v[k]
          /\ \A k \in 1 .. Len(t) : (v \o t)[n + 1 + k] = t[k]
      <3>0. v \in Seq(S) BY <2>1
      <3>1. /\ v \o t \in Seq(S) /\ Len(v \o t) = Len(v) + Len(t)
            /\ \A k \in 1 .. Len(v) : (v \o t)[k] = v[k]
            /\ \A k \in 1 .. Len(t) : (v \o t)[Len(v) + k] = t[k]
        BY ONLY <3>0, Concat2
      <3> HIDE DEF n
      <3>2. QED BY <2>1, <3>1
    <2>3. s = v \o t BY DEF v
    <2> HIDE DEF s
    <2>4. QED BY <2>1, <2>2, <2>3
  <1>2. E \in SUBSET Nat /\ IsFiniteSet(E) /\ w = Count(c, u) + 1 /\ Count(c, u) \in Nat
    BY SplitIs, CountIs
  <1>3. \A i \in 1 .. Len(t) : t[i] # c BY CountIs
  <1>4. F = E \cup {m}
    <2> HIDE DEF s
    <2>1. ASSUME NEW i \in F, i # m PROVE i \in E
      <3>1. i \in 1 .. Len(s) /\ s[i] = c BY <2>1 DEF Ends, At
      <3>2. ~(i > n + 1)
        <4> SUFFICES ASSUME i > n + 1 PROVE FALSE OBVIOUS
        <4>1. i - (n + 1) \in 1 .. Len(t) /\ i = n + 1 + (i - (n + 1)) BY <1>1, <3>1
        <4>2. t[i - (n + 1)] = c BY <1>1, <3>1, <4>1
        <4>3. QED BY <1>3, <4>1, <4>2
      <3>3. i \in 1 .. n \/ i = n + 1 BY <1>1, <3>1, <3>2
      <3>4. CASE i \in 1 .. n BY <1>1, <3>1, <3>4 DEF Ends, At
      <3>5. CASE i = n + 1 BY <3>5 DEF Ends
      <3>6. QED BY <3>3, <3>4, <3>5
    <2>2. ASSUME NEW i \in E PROVE i \in F
      <3>1. CASE i = n + 1 BY <1>1, <3>1 DEF Ends, At
      <3>2. CASE i # n + 1
        <4>1. i \in 1 .. n /\ u[i] = c BY <3>2 DEF Ends, At
        <4>2. i \in 1 .. Len(s) /\ s[i] = c BY <1>1, <4>1
        <4>3. QED BY <4>2 DEF Ends, At
      <3>3. QED BY <3>1, <3>2
    <2>3. m \in F BY DEF Ends
    <2>4. QED BY <2>1, <2>2, <2>3
  <1>5. n + 1 \in E /\ m \in Nat /\ n + 1 < m /\ \A i \in E : i <= n + 1
    <2> HIDE DEF s
    <2>1. n + 1 \in E BY DEF Ends
    <2>2. \A i \in E : i <= n + 1 BY <1>1 DEF Ends, At
    <2>3. QED BY <1>1, <2>1, <2>2
  <1>6. Rank(E, n + 1) = w
    <2>1. {j \in E : j <= n + 1} = E
      <3> HIDE DEF E, n
      <3>1. QED BY <1>5
    <2>2. QED BY <2>1 DEF Rank
  <1>7. Nth(E, w) = n + 1
    <2> HIDE DEF E, n
    <2>1. Nth(E, Rank(E, n + 1)) = n + 1 BY <1>2, <1>5, NthThat
    <2>2. QED BY <1>6, <2>1
  <1>8. /\ Cardinality(F) = w + 1 /\ Nth(F, w + 1) = m
        /\ \A k \in 1 .. w : Nth(F, k) = Nth(E, k)
    <2>1. \A i \in E : i < m
      <3> HIDE DEF E, n, m
      <3>1. \A i \in E : i \in Nat BY <1>2
      <3>2. n + 1 \in Nat BY <1>1
      <3>3. QED BY <1>5, <3>1, <3>2
    <2> HIDE DEF E, F, m, n
    <2>2. QED BY <1>2, <1>4, <1>5, <2>1, RankTop
  <1>9. Split(s, c) = [k \in 1 .. w + 1 |-> Between(s, F, k)]
    <2>1. Split(s, c) = [k \in 1 .. Cardinality(F) |-> Between(s, F, k)]
      <3> HIDE DEF s
      <3>1. QED BY <1>1, SplitIs
    <2> HIDE DEF s, F
    <2>2. QED BY <1>8, <2>1
  <1>10. ASSUME NEW k \in 1 .. w PROVE Between(s, F, k) = Between(u, E, k)
    <2> DEFINE a == IF k = 1 THEN 1 ELSE Nth(E, k - 1) + 1
               b == Nth(E, k) - 1
    <2>1. w \in Nat /\ k \in 1 .. w /\ (k # 1 => k - 1 \in 1 .. w) BY <1>2
    <2>2. Nth(E, k) \in E /\ (k # 1 => Nth(E, k - 1) \in E)
      <3> HIDE DEF E
      <3>1. QED BY <1>2, <2>1, NthIs
    <2>3. /\ Nth(F, k) = Nth(E, k) /\ (k # 1 => Nth(F, k - 1) = Nth(E, k - 1))
      BY <1>8, <2>1
    <2>4. Between(s, F, k) = SubSeq(s, a, b) BY <2>3 DEF Between
    <2>5. Between(u, E, k) = SubSeq(u, a, b) BY DEF Between
    <2>6. Nth(E, k) \in 1 .. n + 1 /\ (k # 1 => Nth(E, k - 1) \in 1 .. n + 1)
      <3>1. \A i \in E : i \in 1 .. n + 1 BY <1>1 DEF Ends, At
      <3> HIDE DEF E, n
      <3>2. QED BY <2>2, <3>1
    <2>7. a \in 1 .. n + 2 /\ b \in 0 .. n
      <3> HIDE DEF E
      <3>1. QED BY <1>1, <2>6
    <2> HIDE DEF a, b, s
    <2>8. SubSeq(s, a, b) = SubSeq(u, a, b)
      <3>1. \A i \in a .. b : s[i] \in S /\ s[i] = u[i] /\ u[i] \in S
        <4>1. \A i \in a .. b : i \in 1 .. n /\ i \in 1 .. Len(s) BY <1>1, <2>7
        <4>2. \A i \in 1 .. n : u[i] \in S OBVIOUS
        <4>3. QED BY <1>1, <4>1, <4>2
      <3>2. SubSeq(s, a, b) = [i \in 1 .. b - a + 1 |-> s[a + i - 1]] BY <2>7 DEF SubSeq
      <3>3. SubSeq(u, a, b) = [i \in 1 .. b - a + 1 |-> u[a + i - 1]] BY <2>7 DEF SubSeq
      <3>4. \A i \in 1 .. b - a + 1 : a + i - 1 \in a .. b BY <2>7
      <3>5. QED BY <3>1, <3>2, <3>3, <3>4
    <2>9. QED BY <2>4, <2>5, <2>8
  <1>11. Between(s, F, w + 1) = t
    <2>1. w + 1 # 1 /\ (w + 1) - 1 = w /\ w \in 1 .. w /\ n + 1 + 1 = n + 2 BY <1>1, <1>2
    <2>2. Nth(F, w) = n + 1 BY <1>7, <1>8, <2>1
    <2>3. Between(s, F, w + 1) = SubSeq(s, n + 2, Len(s))
      <3>1. Nth(F, w + 1) - 1 = Len(s) BY <1>1, <1>8
      <3> HIDE DEF s, F, w, n
      <3>2. QED BY <2>1, <2>2, <3>1 DEF Between
    <2>4. SubSeq(s, n + 2, Len(s)) = t
      <3> DEFINE p == SubSeq(s, n + 2, Len(s))
      <3> HIDE DEF s
      <3>1. /\ p \in Seq(S) /\ Len(p) = Len(t)
            /\ \A i \in 1 .. Len(t) : p[i] = s[n + 1 + i]
        BY <1>1
      <3> HIDE DEF p
      <3>2. \A i \in 1 .. Len(p) : p[i] = t[i] BY <1>1, <3>1
      <3>3. p = t BY <3>1, <3>2, SameText
      <3>4. QED BY <3>3 DEF p
    <2>5. QED BY <2>3, <2>4
  <1>12. Split(u, c) = [k \in 1 .. w |-> Between(u, E, k)] BY SplitIs
  <1>13. Split(s, c) = Append(Split(u, c), t)
    <2> HIDE DEF s, E, F, w
    <2>1. w \in Nat BY <1>2
    <2>2. Append([k \in 1 .. w |-> Between(u, E, k)], t) =
            [k \in 1 .. w + 1 |-> IF k = w + 1 THEN t ELSE Between(u, E, k)]
      BY <2>1
    <2>3. [k \in 1 .. w + 1 |-> Between(s, F, k)] =
            [k \in 1 .. w + 1 |-> IF k = w + 1 THEN t ELSE Between(u, E, k)]
      <3>1. \A k \in 1 .. w + 1 : k # w + 1 => k \in 1 .. w BY <2>1
      <3>2. QED BY <1>10, <1>11, <3>1
    <2>4. QED BY <1>9, <1>12, <2>2, <2>3
  <1>14. QED BY <1>13

(* A text has no separator, or a last one.                                  *)
LEMMA LastCut ==
  ASSUME NEW S, NEW text \in Seq(S), NEW c \in S, Count(c, text) # 0
  PROVE  \E u \in Seq(S), t \in Seq(S) :
           text = u \o <<c>> \o t /\ Count(c, t) = 0 /\ Len(u) < Len(text)
PROOF
  <1>1. PICK i \in 1 .. Len(text) : text[i] = c BY CountIs
  <1> DEFINE A == At(c, text)
             m == Max(A)
  <1>2. A # {} /\ A \subseteq Nat /\ IsFiniteSet(A) /\ A \subseteq 1 .. Len(text)
    BY <1>1, CountIs DEF At
  <1>3. m \in A /\ \A j \in A : j <= m
    <2> HIDE DEF A
    <2>1. QED BY <1>2, MaxIsLargest
  <1> HIDE DEF m
  <1>4. m \in 1 .. Len(text) /\ text[m] = c BY <1>3 DEF At
  <1> DEFINE u == SubSeq(text, 1, m - 1)
             v == SubSeq(text, 1, m)
             t == SubSeq(text, m + 1, Len(text))
  <1>5. text = v \o t BY <1>4, Halves
  <1>6. u \in Seq(S) /\ v \in Seq(S) /\ t \in Seq(S) /\ Len(u) = m - 1 BY <1>4
  <1>7. v = u \o <<c>> BY <1>4
  <1>8. Count(c, t) = 0
    <2>1. ASSUME NEW j \in 1 .. Len(t), t[j] = c PROVE FALSE
      <3>1. m + j \in 1 .. Len(text) /\ text[m + j] = c BY <1>4, <2>1
      <3>2. m + j <= m BY <1>3, <3>1 DEF At
      <3>3. QED BY <1>4, <3>2
    <2> HIDE DEF t
    <2>2. QED BY <1>6, <2>1, CountIs
  <1>9. text = u \o <<c>> \o t BY <1>5, <1>7
  <1>10. Len(u) < Len(text) BY <1>4, <1>6
  <1> HIDE DEF u, t, v
  <1>11. QED BY <1>6, <1>8, <1>9, <1>10

LEMMA LeastText ==
  ASSUME NEW S, NEW T \in SUBSET Seq(S), T # {}, NEW c \in S,
         \A t \in T : Count(c, t) # 0
  PROVE  \E u \in Seq(S), t \in Seq(S) :
           u \notin T /\ Count(c, t) = 0 /\ u \o <<c>> \o t \in T
PROOF
  <1> DEFINE L == {Len(s) : s \in T}
  <1>1. PICK n \in L : \A m \in L : n <= m
    <2>1. \A s \in T : Len(s) \in Nat OBVIOUS
    <2>2. L \in SUBSET Nat /\ L # {} BY <2>1
    <2> HIDE DEF L
    <2>3. QED BY <2>2, LeastNat
  <1>2. PICK s \in T : Len(s) = n OBVIOUS
  <1>3. PICK u \in Seq(S), t \in Seq(S) :
          s = u \o <<c>> \o t /\ Count(c, t) = 0 /\ Len(u) < Len(s)
    <2>1. s \in Seq(S) /\ Count(c, s) # 0 BY <1>2
    <2>2. QED BY <2>1, LastCut
  <1>4. u \notin T
    <2>1. Len(u) \in Nat /\ Len(s) \in Nat OBVIOUS
    <2>2. ~(n <= Len(u)) BY <1>2, <1>3, <2>1
    <2>3. Len(u) \notin L BY <1>1, <2>2
    <2>4. QED BY <2>3
  <1>5. QED BY <1>2, <1>3, <1>4

LEMMA SplitTyped ==
  ASSUME NEW S, NEW c \in S, NEW text \in Seq(S)
  PROVE  /\ Split(text, c) \in Seq(Seq(S)) /\ Split(text, c) # <<>>
         /\ \A k \in 1 .. Len(Split(text, c)) :
              Count(c, Split(text, c)[k]) = 0
PROOF
  <1> DEFINE Fine(s) == /\ Split(s, c) \in Seq(Seq(S)) /\ Split(s, c) # <<>>
                        /\ \A k \in 1 .. Len(Split(s, c)) : Count(c, Split(s, c)[k]) = 0
             T == {s \in Seq(S) : ~Fine(s)}
  <1> SUFFICES ASSUME T # {} PROVE FALSE OBVIOUS
  <1>1. ASSUME NEW s \in T PROVE Count(c, s) # 0
    <2> SUFFICES ASSUME Count(c, s) = 0 PROVE FALSE OBVIOUS
    <2>1. s \in Seq(S) /\ Split(s, c) = <<s>> BY SplitOne
    <2> DEFINE p == <<s>>
    <2>2. p \in Seq(Seq(S)) /\ p # <<>> /\ \A k \in 1 .. Len(p) : p[k] = s BY <2>1
    <2>3. Split(s, c) = p BY <2>1
    <2> HIDE DEF p
    <2>4. QED BY <2>2, <2>3
  <1>2. PICK u \in Seq(S), t \in Seq(S) :
          u \notin T /\ Count(c, t) = 0 /\ u \o <<c>> \o t \in T
    <2>1. T \in SUBSET Seq(S) OBVIOUS
    <2> HIDE DEF T
    <2>2. QED BY <1>1, <2>1, LeastText
  <1>3. Fine(u) BY <1>2
  <1> DEFINE s == u \o <<c>> \o t
             p == Split(u, c)
             q == Append(p, t)
  <1>4. Split(s, c) = q BY <1>2, SplitLast
  <1>5. p \in Seq(Seq(S)) BY <1>3
  <1>6. \A k \in 1 .. Len(p) : Count(c, p[k]) = 0 BY <1>3
  <1> HIDE DEF p
  <1>7. /\ q \in Seq(Seq(S)) /\ q # <<>>
        /\ \A k \in 1 .. Len(q) : (k \in 1 .. Len(p) /\ q[k] = p[k]) \/ q[k] = t
    <2>1. /\ q \in Seq(Seq(S)) /\ q # <<>> /\ Len(p) \in Nat /\ Len(q) = Len(p) + 1
          /\ q[Len(p) + 1] = t /\ \A k \in 1 .. Len(p) : q[k] = p[k]
      BY <1>5, AppendIs
    <2> HIDE DEF q
    <2>2. \A k \in 1 .. Len(q) : k \in 1 .. Len(p) \/ k = Len(p) + 1 BY <2>1
    <2>3. QED BY <2>1, <2>2
  <1> HIDE DEF q
  <1>8. \A k \in 1 .. Len(q) : Count(c, q[k]) = 0 BY <1>2, <1>6, <1>7
  <1>9. Fine(s) BY <1>4, <1>7, <1>8
  <1>10. QED BY <1>2, <1>9

-----------------------------------------------------------------------------
(* Joining.                                                                 *)

Led(parts, sep) == [i \in DOMAIN parts |-> IF i = 1 THEN parts[i] ELSE sep \o parts[i]]

LEMMA JoinedNone == \A sep : Joined(<<>>, sep) = <<>>
PROOF
  <1>1. \A sep : Led(<<>>, sep) = <<>> BY DEF Led
  <1>2. QED BY <1>1, FlattenNone DEF Joined, Led

LEMMA JoinedAppend ==
  ASSUME NEW S, NEW parts \in Seq(Seq(S)), NEW sep \in Seq(S), NEW x \in Seq(S)
  PROVE  /\ Joined(parts, sep) \in Seq(S)
         /\ Joined(Append(parts, x), sep) =
              IF parts = <<>> THEN x ELSE Joined(parts, sep) \o (sep \o x)
PROOF
  <1> DEFINE n == Len(parts)
             all == Append(parts, x)
             y == IF n = 0 THEN x ELSE sep \o x
             led == Led(parts, sep)
  <1>1. n \in Nat /\ y \in Seq(S) /\ sep \o x \in Seq(S) OBVIOUS
  <1>2. led \in Seq(Seq(S)) /\ Len(led) = n /\ (led = <<>> <=> parts = <<>>)
    <2>1. \A i \in 1 .. n : parts[i] \in Seq(S) OBVIOUS
    <2>2. \A i \in 1 .. n : sep \o parts[i] \in Seq(S) BY <2>1
    <2>3. DOMAIN parts = 1 .. n OBVIOUS
    <2>4. led \in [1 .. n -> Seq(S)] BY <2>1, <2>2, <2>3 DEF Led
    <2> HIDE DEF led
    <2>5. parts = <<>> <=> n = 0 OBVIOUS
    <2> HIDE DEF n
    <2>6. QED BY <1>1, <2>4, <2>5, FunctionIsSeq
  <1>3. Led(all, sep) = Append(led, y)
    <2>1. all \in Seq(Seq(S)) /\ Len(all) = n + 1 /\ DOMAIN all = 1 .. n + 1 /\ all[n + 1] = x
          /\ \A i \in 1 .. n : all[i] = parts[i]
      OBVIOUS
    <2> HIDE DEF all
    <2>2. Led(all, sep) = [i \in 1 .. n + 1 |-> IF i = 1 THEN all[i] ELSE sep \o all[i]]
      BY <2>1 DEF Led
    <2>3. \A i \in 1 .. n : led[i] = IF i = 1 THEN parts[i] ELSE sep \o parts[i] BY DEF Led
    <2> HIDE DEF led
    <2>4. Append(led, y) = [i \in 1 .. n + 1 |-> IF i = n + 1 THEN y ELSE led[i]]
      BY <1>1, <1>2
    <2>5. ASSUME NEW i \in 1 .. n + 1
          PROVE  (IF i = 1 THEN all[i] ELSE sep \o all[i]) = IF i = n + 1 THEN y ELSE led[i]
      <3>1. CASE i = n + 1 BY <1>1, <2>1, <3>1
      <3>2. CASE i # n + 1
        <4>1. i \in 1 .. n BY <1>1, <3>2
        <4> HIDE DEF n
        <4>2. QED BY <2>1, <2>3, <3>2, <4>1
      <3>3. QED BY <3>1, <3>2
    <2>6. QED BY <2>2, <2>4, <2>5
  <1>4. Joined(parts, sep) = FlattenSeq(led) BY DEF Joined, Led
  <1>5. Joined(all, sep) = FlattenSeq(Led(all, sep)) BY DEF Joined, Led
  <1> HIDE DEF all, led
  <1>6. FlattenSeq(led) \in Seq(S) /\ FlattenSeq(Append(led, y)) = FlattenSeq(led) \o y
    BY <1>1, <1>2, FlattenSnoc
  <1>7. CASE parts = <<>>
    <2>1. n = 0 /\ y = x /\ FlattenSeq(led) = <<>> BY <1>2, <1>7, FlattenNone
    <2>2. <<>> \o x = x OBVIOUS
    <2>3. QED BY <1>3, <1>4, <1>5, <1>6, <1>7, <2>1, <2>2 DEF all
  <1>8. CASE parts # <<>>
    <2>1. n # 0 /\ y = sep \o x BY <1>8
    <2>2. QED BY <1>3, <1>4, <1>5, <1>6, <1>8, <2>1 DEF all
  <1>9. QED BY <1>7, <1>8

(* Sequences of texts.                                                      *)
Bodies(S) == Seq(Seq(S))

LEMMA BodiesAre ==
  ASSUME NEW S
  PROVE  /\ <<>> \in Bodies(S)
         /\ \A s \in Bodies(S), x \in Seq(S) :
              /\ Append(s, x) \in Bodies(S) /\ Append(s, x) # <<>>
              /\ Len(s) \in Nat /\ Len(Append(s, x)) = Len(s) + 1
              /\ Append(s, x)[Len(s) + 1] = x
              /\ \A k \in 1 .. Len(s) : Append(s, x)[k] = s[k]
PROOF BY AppendIs DEF Bodies

LEMMA LeastBody ==
  ASSUME NEW S, NEW T \in SUBSET Bodies(S), T # {}, <<>> \notin T
  PROVE  \E s \in Bodies(S), x \in Seq(S) : s \notin T /\ Append(s, x) \in T
PROOF
  <1> DEFINE X == Seq(S)
  <1>1. T \in SUBSET Seq(X) BY DEF Bodies
  <1>2. Bodies(S) = Seq(X) BY DEF Bodies
  <1> HIDE DEF X
  <1>3. \E s \in Seq(X), x \in X : s \notin T /\ Append(s, x) \in T BY <1>1, LeastSeq
  <1>4. QED BY <1>2, <1>3 DEF X

(* The elements of a longer sequence.                                       *)
LEMMA AppendAll ==
  ASSUME NEW S, NEW s \in Bodies(S), NEW x \in Seq(S), NEW c
  PROVE  (\A i \in 1 .. Len(Append(s, x)) : Count(c, Append(s, x)[i]) = 0) <=>
            Count(c, x) = 0 /\ \A i \in 1 .. Len(s) : Count(c, s[i]) = 0
PROOF
  <1> DEFINE a == Append(s, x)
             n == Len(s)
  <1>1. /\ n \in Nat /\ Len(a) = n + 1 /\ a[n + 1] = x
        /\ \A k \in 1 .. n : a[k] = s[k]
    BY BodiesAre
  <1> HIDE DEF a, n
  <1>2. 1 .. Len(a) = 1 .. n \cup {n + 1} BY <1>1
  <1>3. (\A i \in 1 .. Len(a) : Count(c, a[i]) = 0) <=>
           Count(c, x) = 0 /\ \A i \in 1 .. n : Count(c, s[i]) = 0
    BY <1>1, <1>2
  <1>4. QED BY <1>3 DEF a, n

LEMMA JoinedGrows ==
  ASSUME NEW S, NEW parts \in Bodies(S), NEW sep \in Seq(S), NEW x \in Seq(S)
  PROVE  /\ Joined(parts, sep) \in Seq(S)
         /\ Joined(Append(parts, x), sep) =
              IF parts = <<>> THEN x ELSE Joined(parts, sep) \o (sep \o x)
PROOF BY JoinedAppend DEF Bodies

LEMMA JoinedOne ==
  ASSUME NEW S, NEW sep \in Seq(S), NEW x \in Seq(S)
  PROVE  <<x>> \in Bodies(S) /\ Joined(<<x>>, sep) = x
PROOF
  <1> DEFINE none == <<>>
  <1>1. none \in Bodies(S) /\ none = <<>> BY BodiesAre
  <1>2. Append(none, x) = <<x>> OBVIOUS
  <1> HIDE DEF none
  <1>3. Append(none, x) \in Bodies(S) BY <1>1, BodiesAre
  <1>4. Joined(Append(none, x), sep) = x BY <1>1, JoinedGrows
  <1>5. QED BY <1>2, <1>3, <1>4

LEMMA JoinedCount ==
  ASSUME NEW S, NEW parts \in Bodies(S), NEW sep \in Seq(S), NEW c, Count(c, sep) = 0,
         \A i \in 1 .. Len(parts) : Count(c, parts[i]) = 0
  PROVE  Count(c, Joined(parts, sep)) = 0
PROOF
  <1> DEFINE None0(s) == \A i \in 1 .. Len(s) : Count(c, s[i]) = 0
             T == {s \in Bodies(S) : None0(s) /\ Count(c, Joined(s, sep)) # 0}
  <1> SUFFICES ASSUME T # {} PROVE FALSE OBVIOUS
  <1>1. <<>> \notin T BY JoinedNone, CountNone
  <1>2. PICK s \in Bodies(S), x \in Seq(S) : s \notin T /\ Append(s, x) \in T
    <2>1. T \in SUBSET Bodies(S) OBVIOUS
    <2> HIDE DEF T
    <2>2. QED BY <1>1, <2>1, LeastBody
  <1>3. None0(Append(s, x)) <=> Count(c, x) = 0 /\ None0(s) BY AppendAll
  <1> DEFINE j == Joined(s, sep)
             y == sep \o x
  <1>4. j \in Seq(S) /\ Joined(Append(s, x), sep) = IF s = <<>> THEN x ELSE j \o y
    BY JoinedGrows
  <1> HIDE DEF None0
  <1>5. /\ Count(c, x) = 0 /\ Count(c, j) = 0
        /\ Count(c, Joined(Append(s, x), sep)) # 0
    BY <1>2, <1>3
  <1>6. y \in Seq(S) /\ Count(c, y) = 0
    <2>1. Count(c, y) = Count(c, sep) + Count(c, x) BY CountConcat
    <2>2. QED BY <1>5, <2>1
  <1> HIDE DEF j, y, T
  <1>7. Count(c, j \o y) = 0
    <2>1. Count(c, j \o y) = Count(c, j) + Count(c, y) BY <1>4, <1>6, CountConcat
    <2>2. QED BY <1>5, <1>6, <2>1
  <1>8. QED BY <1>4, <1>5, <1>7

LEMMA SplitJoined ==
  ASSUME NEW S, NEW c \in S, NEW parts \in Bodies(S), parts # <<>>,
         \A i \in 1 .. Len(parts) : Count(c, parts[i]) = 0
  PROVE  Split(Joined(parts, <<c>>), c) = parts
PROOF
  <1> DEFINE None0(s) == \A i \in 1 .. Len(s) : Count(c, s[i]) = 0
             sep == <<c>>
             T == {s \in Bodies(S) : None0(s) /\ s # <<>> /\ Split(Joined(s, sep), c) # s}
  <1> SUFFICES ASSUME T # {} PROVE FALSE OBVIOUS
  <1>1. <<>> \notin T OBVIOUS
  <1>2. PICK s \in Bodies(S), x \in Seq(S) : s \notin T /\ Append(s, x) \in T
    <2>1. T \in SUBSET Bodies(S) OBVIOUS
    <2> HIDE DEF T
    <2>2. QED BY <1>1, <2>1, LeastBody
  <1>3. None0(Append(s, x)) <=> Count(c, x) = 0 /\ None0(s) BY AppendAll
  <1> DEFINE j == Joined(s, sep)
             a == Append(s, x)
  <1>4. sep \in Seq(S) OBVIOUS
  <1>5. sep = <<c>> OBVIOUS
  <1>6. Append(<<>>, x) = <<x>> OBVIOUS
  <1> HIDE DEF None0, sep
  <1>7. j \in Seq(S) /\ Joined(a, sep) = IF s = <<>> THEN x ELSE j \o (sep \o x)
    BY <1>4, JoinedGrows
  <1>8. Count(c, x) = 0 /\ Split(Joined(a, sep), c) # a /\ (s # <<>> => Split(j, c) = s)
    BY <1>2, <1>3
  <1> HIDE DEF j, T
  <1>9. CASE s = <<>>
    <2>1. Split(x, c) = <<x>> BY <1>8, SplitOne
    <2>2. QED BY <1>6, <1>7, <1>8, <1>9, <2>1
  <1>10. CASE s # <<>>
    <2>1. j \o (sep \o x) = (j \o sep) \o x BY <1>4, <1>7, ConcatAssociative
    <2>2. Split((j \o sep) \o x, c) = Append(Split(j, c), x)
      BY <1>5, <1>7, <1>8, SplitLast
    <2> HIDE DEF a
    <2>3. Joined(a, sep) = (j \o sep) \o x BY <1>7, <1>10, <2>1
    <2>4. Split(Joined(a, sep), c) = Append(s, x) BY <1>8, <1>10, <2>2, <2>3
    <2>5. QED BY <1>8, <2>4 DEF a
  <1>11. QED BY <1>9, <1>10

(* Other separators for the same parts.                                     *)
LEMMA Rejoined ==
  ASSUME NEW S, NEW c \in S, NEW text \in Seq(S), NEW sep \in Seq(S)
  PROVE  Len(Joined(Split(text, c), sep)) = Len(text) + Count(c, text) * (Len(sep) - 1)
PROOF
  <1> DEFINE w == Len(sep)
             Fine(s) == Len(Joined(Split(s, c), sep)) = Len(s) + Count(c, s) * (w - 1)
             T == {s \in Seq(S) : ~Fine(s)}
  <1> SUFFICES ASSUME T # {} PROVE FALSE OBVIOUS
  <1>1. w \in Nat OBVIOUS
  <1>2. ASSUME NEW s \in T PROVE Count(c, s) # 0
    <2> SUFFICES ASSUME Count(c, s) = 0 PROVE FALSE OBVIOUS
    <2>1. s \in Seq(S) /\ Split(s, c) = <<s>> BY SplitOne
    <2>3. Joined(<<s>>, sep) = s BY <2>1, JoinedOne
    <2>4. Len(s) + 0 * (w - 1) = Len(s) BY <1>1, <2>1
    <2> HIDE DEF w
    <2>5. QED BY <2>1, <2>3, <2>4
  <1>3. PICK u \in Seq(S), t \in Seq(S) :
          u \notin T /\ Count(c, t) = 0 /\ u \o <<c>> \o t \in T
    <2>1. T \in SUBSET Seq(S) OBVIOUS
    <2> HIDE DEF T
    <2>2. QED BY <1>2, <2>1, LeastText
  <1> DEFINE s == u \o <<c>> \o t
             p == Split(u, c)
             k == Count(c, u)
             v == u \o <<c>>
             j == Joined(p, sep)
  <1>4. Fine(u) /\ ~Fine(s) BY <1>3
  <1> HIDE DEF T
  <1>5. Split(s, c) = Append(p, t) /\ p \in Bodies(S) /\ p # <<>>
    BY <1>3, SplitLast, SplitTyped DEF Bodies
  <1>6. /\ k \in Nat /\ Count(c, s) = k + 1 /\ Len(s) = Len(u) + 1 + Len(t)
        /\ Len(u) \in Nat /\ Len(t) \in Nat
    <2>1. v \in Seq(S) /\ Len(v) = Len(u) + 1 /\ Len(u) \in Nat /\ Len(t) \in Nat
          /\ <<c>> \in Seq(S)
      OBVIOUS
    <2>2. Count(c, v) = k + 1 /\ k \in Nat
      <3>1. Count(c, v) = k + Count(c, <<c>>) BY <2>1, CountConcat
      <3>2. Count(c, <<c>>) = 1 BY CountOne
      <3>3. k \in Nat BY CountIs
      <3>4. QED BY <3>1, <3>2, <3>3
    <2>3. s = v \o t OBVIOUS
    <2> HIDE DEF v, k, s
    <2>4. Count(c, v \o t) = Count(c, v) + Count(c, t) BY <2>1, CountConcat
    <2>5. Len(v \o t) = Len(v) + Len(t) BY <2>1, Concat2
    <2>6. QED BY <1>3, <2>1, <2>2, <2>3, <2>4, <2>5
  <1>7. j \in Seq(S) /\ Joined(Append(p, t), sep) = j \o (sep \o t)
    <2> HIDE DEF p
    <2>1. QED BY <1>5, JoinedGrows
  <1>8. Len(j) = Len(u) + k * (w - 1) BY <1>4
  <1> HIDE DEF j, p, k, v, s
  <1>9. Len(j \o (sep \o t)) = Len(j) + (w + Len(t))
    <2>1. sep \o t \in Seq(S) /\ Len(sep \o t) = w + Len(t) OBVIOUS
    <2> HIDE DEF w
    <2>2. QED BY <1>7, <2>1, Concat2
  <1>10. Len(j \o (sep \o t)) = Len(s) + Count(c, s) * (w - 1)
    <2>1. (k + 1) * (w - 1) = k * (w - 1) + (w - 1) BY <1>1, <1>6
    <2>2. k * (w - 1) \in Int BY <1>1, <1>6
    <2> HIDE DEF w
    <2>3. QED BY <1>1, <1>6, <1>8, <1>9, <2>1, <2>2
  <1>11. Len(Joined(Split(s, c), sep)) = Len(s) + Count(c, s) * (w - 1)
    BY <1>5, <1>7, <1>10
  <1>12. QED BY <1>4, <1>11

-----------------------------------------------------------------------------
(* The first of a character.                                                *)

FirstAt(c, s) == SelectInSeq(s, LAMBDA d : d = c)

LEMMA FirstIs ==
  ASSUME NEW S, NEW s \in Seq(S), NEW c
  PROVE  /\ FirstAt(c, s) \in 0 .. Len(s)
         /\ FirstAt(c, s) = 0 <=> Count(c, s) = 0
         /\ FirstAt(c, s) # 0 =>
              s[FirstAt(c, s)] = c /\ \A j \in 1 .. Len(s) : s[j] = c => FirstAt(c, s) <= j
PROOF
  <1> DEFINE A == At(c, s)
  <1>1. FirstAt(c, s) = IF A # {} THEN Min(A) ELSE 0 BY DEF FirstAt, SelectInSeq, At
  <1>2. A \in SUBSET Nat /\ A \subseteq 1 .. Len(s) BY DEF At
  <1>3. Count(c, s) = 0 <=> A = {}
    <2>1. Count(c, s) = 0 <=> \A i \in 1 .. Len(s) : s[i] # c BY CountIs
    <2>2. QED BY <2>1 DEF At
  <1>4. CASE A = {} BY <1>1, <1>3, <1>4
  <1>5. CASE A # {}
    <2> DEFINE m == Min(A)
    <2>1. m \in A /\ \A j \in A : m <= j
      <3> HIDE DEF A
      <3>1. QED BY <1>2, <1>5, MinIsLeast
    <2>2. FirstAt(c, s) = m BY <1>1, <1>5
    <2> HIDE DEF m
    <2>3. m \in 1 .. Len(s) /\ s[m] = c BY <2>1 DEF At
    <2>4. \A j \in 1 .. Len(s) : s[j] = c => m <= j BY <2>1 DEF At
    <2>5. Count(c, s) # 0 BY <1>3, <1>5
    <2>6. QED BY <2>2, <2>3, <2>4, <2>5
  <1>6. QED BY <1>4, <1>5

(* What is before the first has none of it.                                 *)
LEMMA FirstCut ==
  ASSUME NEW S, NEW s \in Seq(S), NEW c \in S, Count(c, s) # 0
  PROVE  LET i == FirstAt(c, s)
             u == SubSeq(s, 1, i - 1)
             v == SubSeq(s, i + 1, Len(s))
         IN /\ u \in Seq(S) /\ v \in Seq(S) /\ Count(c, u) = 0
            /\ s = (u \o <<c>>) \o v
PROOF
  <1> DEFINE i == FirstAt(c, s)
             u == SubSeq(s, 1, i - 1)
             w == SubSeq(s, 1, i)
             v == SubSeq(s, i + 1, Len(s))
  <1>1. i \in 1 .. Len(s) /\ s[i] = c /\ \A j \in 1 .. Len(s) : s[j] = c => i <= j
    <2>1. i \in 0 .. Len(s) /\ i # 0 BY FirstIs
    <2>2. s[i] = c /\ \A j \in 1 .. Len(s) : s[j] = c => i <= j BY <2>1, FirstIs
    <2>3. QED BY <2>1, <2>2
  <1> HIDE DEF i
  <1>2. /\ u \in Seq(S) /\ v \in Seq(S) /\ w \in Seq(S)
        /\ Len(u) = i - 1 /\ \A j \in 1 .. Len(u) : u[j] = s[j]
    BY <1>1
  <1>3. s = w \o v BY <1>1, Halves
  <1>4. w = u \o <<c>> BY <1>1
  <1>5. Count(c, u) = 0
    <2>1. ASSUME NEW j \in 1 .. Len(u), u[j] = c PROVE FALSE
      <3>1. j \in 1 .. Len(s) /\ s[j] = c /\ ~(i <= j) BY <1>1, <1>2, <2>1
      <3>2. QED BY <1>1, <3>1
    <2> HIDE DEF u
    <2>2. QED BY <1>2, <2>1, CountIs
  <1>6. QED BY <1>2, <1>3, <1>4, <1>5 DEF i

Parted(u, c, v) == (u \o <<c>>) \o v

LEMMA FirstPut ==
  ASSUME NEW S, NEW u \in Seq(S), NEW c \in S, NEW v \in Seq(S), Count(c, u) = 0,
         NEW s, s = Parted(u, c, v)
  PROVE  /\ s \in Seq(S) /\ FirstAt(c, s) = Len(u) + 1 /\ Len(u) \in Nat
         /\ SubSeq(s, 1, Len(u)) = u /\ SubSeq(s, Len(u) + 2, Len(s)) = v
PROOF
  <1> DEFINE i == FirstAt(c, s)
             n == Len(u)
             m == Len(v)
             w == u \o <<c>>
  <1>1. /\ w \in Seq(S) /\ Len(w) = n + 1 /\ n \in Nat /\ m \in Nat /\ w[n + 1] = c
        /\ \A j \in 1 .. n : w[j] = u[j]
    OBVIOUS
  <1> HIDE DEF w
  <1>2. s = w \o v BY DEF w, Parted
  <1>3. /\ s \in Seq(S) /\ Len(s) = n + 1 + m
        /\ \A j \in 1 .. n + 1 : s[j] = w[j]
        /\ \A j \in 1 .. m : s[n + 1 + j] = v[j]
    <2>0. Len(w \o v) = Len(w) + Len(v) /\ w \o v \in Seq(S) BY <1>1, Concat2
    <2>1. \A j \in 1 .. Len(w) : (w \o v)[j] = w[j] BY <1>1, Concat2
    <2>2. \A j \in 1 .. Len(v) : (w \o v)[Len(w) + j] = v[j] BY <1>1, Concat2
    <2> HIDE DEF n
    <2>3. QED BY <1>1, <1>2, <2>0, <2>1, <2>2
  <1>4. \A j \in 1 .. n : u[j] # c BY CountIs
  <1>5. n + 1 \in 1 .. Len(s) /\ s[n + 1] = c /\ \A j \in 1 .. n : s[j] # c
    <2> HIDE DEF n, m, i
    <2>1. n + 1 \in 1 .. n + 1 /\ n + 1 \in 1 .. Len(s) BY <1>1, <1>3
    <2>2. s[n + 1] = c BY <1>1, <1>3, <2>1
    <2>3. \A j \in 1 .. n : j \in 1 .. n + 1 BY <1>1
    <2>4. \A j \in 1 .. n : s[j] = u[j] BY <1>1, <1>3, <2>3
    <2>5. QED BY <1>4, <2>1, <2>2, <2>4 DEF n
  <1>6. i = n + 1
    <2>1. i \in 0 .. Len(s) /\ (i # 0 => s[i] = c /\ \A j \in 1 .. Len(s) : s[j] = c => i <= j)
      BY <1>3, FirstIs
    <2>2. i # 0
      <3>0. s \in Seq(S) /\ n + 1 \in 1 .. Len(s) /\ s[n + 1] = c BY <1>3, <1>5
      <3>1. Count(c, s) # 0 BY ONLY <3>0, CountIs
      <3>2. QED BY <1>3, <3>1, FirstIs
    <2> HIDE DEF i, n
    <2>3. i <= n + 1 /\ ~(i \in 1 .. n) BY <1>5, <2>1, <2>2
    <2>4. QED BY <1>1, <1>3, <2>1, <2>2, <2>3
  <1> HIDE DEF i
  <1>7. SubSeq(s, 1, n) = u
    <2> DEFINE p == SubSeq(s, 1, n)
    <2>1. p \in Seq(S) /\ Len(p) = n /\ \A j \in 1 .. n : p[j] = s[j] BY <1>1, <1>3
    <2> HIDE DEF p
    <2>2. \A j \in 1 .. Len(p) : p[j] = u[j] BY <1>1, <1>3, <2>1
    <2>3. p = u BY <2>1, <2>2, SameText
    <2>4. QED BY <2>3 DEF p
  <1>8. SubSeq(s, n + 2, Len(s)) = v
    <2> DEFINE p == SubSeq(s, n + 2, Len(s))
    <2>1. p \in Seq(S) /\ Len(p) = m /\ \A j \in 1 .. m : p[j] = s[n + 1 + j] BY <1>1, <1>3
    <2> HIDE DEF p
    <2>2. \A j \in 1 .. Len(p) : p[j] = v[j] BY <1>3, <2>1
    <2>3. p = v BY <2>1, <2>2, SameText
    <2>4. QED BY <2>3 DEF p
  <1>9. QED BY <1>1, <1>3, <1>6, <1>7, <1>8 DEF i

(* The texts of headers.                                                    *)
C == Characters

LEMMA Written == {"LF", " ", ",", "=", ":"} \subseteq C
PROOF BY DEF C, Characters

LEMMA FirstLineIs ==
  ASSUME NEW text \in Seq(C)
  PROVE  /\ FirstLine(text) \in Seq(C) /\ Count("LF", FirstLine(text)) = 0
         /\ Count("LF", text) = 0 => FirstLine(text) = text
PROOF
  <1>1. FirstLine(text) =
          LET lf == FirstAt("LF", text) IN IF lf = 0 THEN text ELSE SubSeq(text, 1, lf - 1)
    BY DEF FirstLine, FirstAt
  <1>2. FirstAt("LF", text) = 0 <=> Count("LF", text) = 0 BY FirstIs
  <1>3. "LF" \in C BY Written
  <1>4. CASE Count("LF", text) = 0 BY <1>1, <1>2, <1>4
  <1>5. CASE Count("LF", text) # 0
    <2>1. LET u == SubSeq(text, 1, FirstAt("LF", text) - 1)
          IN u \in Seq(C) /\ Count("LF", u) = 0
      BY <1>3, <1>5, FirstCut
    <2>2. QED BY <1>1, <1>2, <1>5, <2>1
  <1>6. QED BY <1>4, <1>5

-----------------------------------------------------------------------------
(* Trimming.                                                                *)

Blank == {" ", "LF"}

Ink(s) == {i \in 1 .. Len(s) : s[i] \notin Blank}

Trimmed(s) == s = <<>> \/ (s[1] \notin Blank /\ s[Len(s)] \notin Blank)

LEMMA TrimIs ==
  ASSUME NEW S, NEW s \in Seq(S)
  PROVE  /\ Trim(s) = IF Ink(s) = {} THEN <<>> ELSE SubSeq(s, Min(Ink(s)), Max(Ink(s)))
         /\ Ink(s) # {} =>
              /\ Min(Ink(s)) \in Ink(s) /\ Max(Ink(s)) \in Ink(s)
              /\ \A i \in Ink(s) : Min(Ink(s)) <= i /\ i <= Max(Ink(s))
PROOF
  <1> DEFINE I == Ink(s)
  <1>1. DOMAIN s = 1 .. Len(s) /\ Len(s) \in Nat OBVIOUS
  <1>2. I = {i \in DOMAIN s : s[i] \notin {" ", "LF"}} BY <1>1 DEF Ink, Blank
  <1>3. Trim(s) = IF I = {} THEN <<>> ELSE SubSeq(s, Min(I), Max(I)) BY <1>2 DEF Trim
  <1>4. I \subseteq 1 .. Len(s) /\ I \in SUBSET Nat BY DEF Ink
  <1>5. IsFiniteSet(I) BY <1>1, <1>4, PlacesFinite, FS_Subset
  <1> HIDE DEF I
  <1>6. ASSUME I # {}
        PROVE  /\ Min(I) \in I /\ Max(I) \in I
               /\ \A i \in I : Min(I) <= i /\ i <= Max(I)
    BY <1>4, <1>5, <1>6, MinIsLeast, MaxIsLargest
  <1>7. QED BY <1>3, <1>6 DEF I

LEMMA TrimFacts ==
  ASSUME NEW S, NEW s \in Seq(S)
  PROVE  /\ Trim(s) \in Seq(S) /\ Trimmed(Trim(s))
         /\ \A c : Count(c, Trim(s)) <= Count(c, s)
PROOF
  <1> DEFINE a == Min(Ink(s))  b == Max(Ink(s))  t == SubSeq(s, a, b)
  <1>1. CASE Ink(s) = {}
    <2>1. Trim(s) = <<>> BY <1>1, TrimIs
    <2>2. \A c : Count(c, s) \in Nat BY CountIs
    <2>3. \A c : 0 <= Count(c, s) BY <2>2
    <2>4. QED BY <2>1, <2>3, CountNone DEF Trimmed
  <1>2. CASE Ink(s) # {}
    <2>1. Trim(s) = t /\ a \in Ink(s) /\ b \in Ink(s) /\ a <= b BY <1>2, TrimIs
    <2> HIDE DEF a, b
    <2>2. a \in 1 .. Len(s) /\ b \in 1 .. Len(s) /\ s[a] \notin Blank /\ s[b] \notin Blank
      BY <2>1 DEF Ink
    <2>3. t \in Seq(S) /\ Len(t) = b - a + 1 /\ t[1] = s[a] /\ t[Len(t)] = s[b]
      BY <2>1, <2>2
    <2>4. \A c : Count(c, t) <= Count(c, s) BY <2>1, <2>2, CountPart
    <2> HIDE DEF t
    <2>5. QED BY <2>1, <2>2, <2>3, <2>4 DEF Trimmed
  <1>3. QED BY <1>1, <1>2

LEMMA TrimSame ==
  ASSUME NEW S, NEW s \in Seq(S), Trimmed(s)
  PROVE  Trim(s) = s
PROOF
  <1> DEFINE a == Min(Ink(s))  b == Max(Ink(s))
  <1>1. CASE s = <<>>
    <2>1. Ink(s) = {} BY <1>1 DEF Ink
    <2>2. QED BY <1>1, <2>1, TrimIs
  <1>2. CASE s # <<>>
    <2>1. Len(s) \in Nat \ {0} BY <1>2
    <2>2. 1 \in Ink(s) /\ Len(s) \in Ink(s) BY <1>2, <2>1 DEF Ink, Trimmed
    <2>3. Trim(s) = SubSeq(s, a, b) /\ a \in Ink(s) /\ b \in Ink(s) /\ a <= 1 /\ Len(s) <= b
      BY <2>2, TrimIs
    <2> HIDE DEF a, b
    <2>4. a \in 1 .. Len(s) /\ b \in 1 .. Len(s) BY <2>3 DEF Ink
    <2>5. a = 1 /\ b = Len(s) BY <2>3, <2>4
    <2>6. QED BY <2>3, <2>5
  <1>3. QED BY <1>1, <1>2

LEMMA TrimTwice ==
  ASSUME NEW S, NEW s \in Seq(S)
  PROVE  Trim(Trim(s)) = Trim(s)
PROOF BY TrimFacts, TrimSame

LEMMA TrimNone ==
  ASSUME NEW S, NEW s \in Seq(S), Count(" ", s) = 0, Count("LF", s) = 0
  PROVE  Trim(s) = s
PROOF
  <1>1. \A i \in 1 .. Len(s) : s[i] \notin Blank BY CountIs DEF Blank
  <1>2. Trimmed(s)
    <2>1. CASE s = <<>> BY <2>1 DEF Trimmed
    <2>2. CASE s # <<>>
      <3>1. Len(s) \in Nat \ {0} BY ONLY s \in Seq(S), <2>2
      <3>2. 1 \in 1 .. Len(s) /\ Len(s) \in 1 .. Len(s) BY ONLY <3>1
      <3>3. QED BY <1>1, <3>2 DEF Trimmed
    <2>3. QED BY <2>1, <2>2
  <1>3. QED BY <1>2, TrimSame

-----------------------------------------------------------------------------
(* Subfields.                                                               *)

EntryForms == [key : Seq(C), val : Seq(C) \cup {Absent}]

Shown(e) == IF e.val = Absent THEN e.key ELSE e.key \o <<"=">> \o e.val

LEMMA NotAbsent == \A s \in Seq(C) : s # Absent
PROOF BY TextsAssumption DEF C

LEMMA EntryBare ==
  ASSUME NEW s \in Seq(C), Count("=", s) = 0
  PROVE  Entry(s) = [key |-> Trim(s), val |-> Absent]
PROOF
  <1>1. FirstAt("=", s) = 0 BY FirstIs
  <1>2. QED BY <1>1 DEF Entry, FirstAt

LEMMA EntryMade ==
  ASSUME NEW u \in Seq(C), NEW v \in Seq(C), Count("=", u) = 0
  PROVE  Entry(u \o <<"=">> \o v) = [key |-> Trim(u), val |-> Trim(v)]
PROOF
  <1> DEFINE s == u \o <<"=">> \o v
             i == FirstAt("=", s)
  <1>1. "=" \in C BY Written
  <1>2. i # 0 /\ SubSeq(s, 1, i - 1) = u /\ SubSeq(s, i + 1, Len(s)) = v
    <2>1. s = Parted(u, "=", v) BY DEF Parted
    <2> HIDE DEF s, i
    <2>2. FirstAt("=", s) = Len(u) + 1 BY <1>1, <2>1, FirstPut
    <2>3. SubSeq(s, 1, Len(u)) = u BY <1>1, <2>1, FirstPut
    <2>4. SubSeq(s, Len(u) + 2, Len(s)) = v BY <1>1, <2>1, FirstPut
    <2> DEFINE n == Len(u)
    <2> HIDE DEF n, i
    <2>5. n \in Nat BY DEF n
    <2>6. i = n + 1 BY <2>2 DEF n, i
    <2>7. i # 0 /\ i - 1 = n /\ i + 1 = n + 2 BY <2>5, <2>6
    <2>8. QED BY <2>3, <2>7, <2>4 DEF n
  <1> HIDE DEF s
  <1>3. Entry(s) = IF i = 0 THEN [key |-> Trim(s), val |-> Absent]
                   ELSE [key |-> Trim(SubSeq(s, 1, i - 1)),
                         val |-> Trim(SubSeq(s, i + 1, Len(s)))]
    BY DEF Entry, FirstAt
  <1> HIDE DEF i
  <1>4. QED BY <1>2, <1>3 DEF s

(* An entry is a bare key, or a key and a value.                            *)
LEMMA EntryParsed ==
  ASSUME NEW s \in Seq(C)
  PROVE  \/ Count("=", s) = 0 /\ Entry(s) = [key |-> Trim(s), val |-> Absent]
         \/ \E u, v \in Seq(C) : /\ s = u \o <<"=">> \o v /\ Count("=", u) = 0
                                 /\ Entry(s) = [key |-> Trim(u), val |-> Trim(v)]
PROOF
  <1>1. CASE Count("=", s) = 0 BY <1>1, EntryBare
  <1>2. CASE Count("=", s) # 0
    <2> DEFINE i == FirstAt("=", s)
               u == SubSeq(s, 1, i - 1)
               v == SubSeq(s, i + 1, Len(s))
    <2>1. "=" \in C BY Written
    <2>2. u \in Seq(C) /\ v \in Seq(C) /\ Count("=", u) = 0 /\ s = u \o <<"=">> \o v
      BY <1>2, <2>1, FirstCut
    <2> HIDE DEF u, v
    <2>3. Entry(s) = [key |-> Trim(u), val |-> Trim(v)] BY <2>2, EntryMade
    <2>4. QED BY <2>2, <2>3
  <1>3. QED BY <1>1, <1>2

LEMMA EqualsCount ==
  ASSUME NEW u \in Seq(C), NEW v \in Seq(C), NEW c
  PROVE  /\ u \o <<"=">> \o v \in Seq(C)
         /\ Count(c, u \o <<"=">> \o v) = Count(c, u) + Count(c, <<"=">>) + Count(c, v)
         /\ Count(c, u) \in Nat /\ Count(c, v) \in Nat /\ Count(c, <<"=">>) \in Nat
PROOF
  <1> DEFINE q == <<"=">>
             w == u \o q
  <1>0. "=" \in C BY Written
  <1>1. q \in Seq(C) BY <1>0
  <1> HIDE DEF q
  <1>2. w \in Seq(C) /\ Count(c, w) = Count(c, u) + Count(c, q) BY <1>1, Concat2, CountConcat
  <1> HIDE DEF w
  <1>3. w \o v \in Seq(C) /\ Count(c, w \o v) = Count(c, w) + Count(c, v)
    BY <1>2, Concat2, CountConcat
  <1>4. Count(c, u) \in Nat /\ Count(c, v) \in Nat /\ Count(c, q) \in Nat BY <1>1, CountIs
  <1>5. QED BY <1>2, <1>3, <1>4 DEF q, w

LEMMA EntryFacts ==
  ASSUME NEW s \in Seq(C)
  PROVE  /\ Entry(s) \in EntryForms
         /\ Shown(Entry(s)) \in Seq(C)
         /\ Entry(Shown(Entry(s))) = Entry(s)
         /\ \A c : Count(c, Shown(Entry(s))) <= Count(c, s)
PROOF
  <1>1. CASE Count("=", s) = 0 /\ Entry(s) = [key |-> Trim(s), val |-> Absent]
    <2>1. Trim(s) \in Seq(C) /\ \A c : Count(c, Trim(s)) <= Count(c, s) BY TrimFacts
    <2>2. Entry(s) \in EntryForms BY <1>1, <2>1 DEF EntryForms
    <2>3. Shown(Entry(s)) = Trim(s) BY <1>1 DEF Shown
    <2>4. Count("=", Trim(s)) = 0
      <3>1. Count("=", Trim(s)) \in Nat BY <2>1, CountIs
      <3>2. Count("=", Trim(s)) <= 0 BY <1>1, <2>1
      <3>3. QED BY <3>1, <3>2
    <2>5. Entry(Trim(s)) = [key |-> Trim(Trim(s)), val |-> Absent] BY <2>1, <2>4, EntryBare
    <2>6. QED BY <1>1, <2>1, <2>2, <2>3, <2>5, TrimTwice
  <1>2. ASSUME NEW u \in Seq(C), NEW v \in Seq(C), s = u \o <<"=">> \o v, Count("=", u) = 0,
               Entry(s) = [key |-> Trim(u), val |-> Trim(v)]
        PROVE  /\ Entry(s) \in EntryForms
               /\ Shown(Entry(s)) \in Seq(C)
               /\ Entry(Shown(Entry(s))) = Entry(s)
               /\ \A c : Count(c, Shown(Entry(s))) <= Count(c, s)
    <2> DEFINE a == Trim(u)  b == Trim(v)
    <2>1. /\ a \in Seq(C) /\ \A c : Count(c, a) <= Count(c, u)
          /\ b \in Seq(C) /\ \A c : Count(c, b) <= Count(c, v)
      BY TrimFacts
    <2>2. Trim(a) = a /\ Trim(b) = b BY TrimTwice
    <2>3. Entry(s) = [key |-> a, val |-> b] BY <1>2
    <2> HIDE DEF a, b
    <2>4. Entry(s) \in EntryForms BY <2>1, <2>3 DEF EntryForms
    <2>5. Shown(Entry(s)) = a \o <<"=">> \o b BY <2>1, <2>3, NotAbsent DEF Shown
    <2>6. Count("=", a) = 0
      <3>1. Count("=", a) \in Nat BY <2>1, CountIs
      <3>2. Count("=", a) <= 0 BY <1>2, <2>1
      <3>3. QED BY <3>1, <3>2
    <2>7. Entry(Shown(Entry(s))) = Entry(s) BY <2>1, <2>2, <2>3, <2>5, <2>6, EntryMade
    <2>8. ASSUME NEW c PROVE Count(c, Shown(Entry(s))) <= Count(c, s)
      <3>1. Count(c, a \o <<"=">> \o b) = Count(c, a) + Count(c, <<"=">>) + Count(c, b)
        BY <2>1, EqualsCount
      <3>2. Count(c, s) = Count(c, u) + Count(c, <<"=">>) + Count(c, v) BY <1>2, EqualsCount
      <3>3. Count(c, a) <= Count(c, u) /\ Count(c, b) <= Count(c, v) BY <2>1
      <3>4. /\ Count(c, a) \in Nat /\ Count(c, b) \in Nat /\ Count(c, u) \in Nat
            /\ Count(c, v) \in Nat /\ Count(c, <<"=">>) \in Nat
        BY <2>1, EqualsCount
      <3>5. QED BY <2>5, <3>1, <3>2, <3>3, <3>4
    <2>9. Shown(Entry(s)) \in Seq(C) BY <2>1, <2>5, EqualsCount
    <2>10. QED BY <2>4, <2>7, <2>8, <2>9
  <1>3. QED BY <1>1, <1>2, EntryParsed

(* What a set statement appends.                                            *)
LEMMA EntrySet ==
  ASSUME NEW key \in Seq(C), NEW text \in Seq(C), Count("=", key) = 0, Trim(key) = key
  PROVE  LET e == [key |-> key, val |-> IF text = <<>> THEN Absent ELSE text]
         IN /\ e \in EntryForms /\ Shown(e) \in Seq(C)
            /\ Entry(Shown(e)).key = key
            /\ Entry(Shown(e)).val = IF text = <<>> THEN Absent ELSE Trim(text)
            /\ \A c : c # "=" => Count(c, Shown(e)) = Count(c, key) + Count(c, text)
PROOF
  <1> DEFINE e == [key |-> key, val |-> IF text = <<>> THEN Absent ELSE text]
  <1>1. e \in EntryForms BY DEF EntryForms
  <1>2. \A c : Count(c, key) \in Nat /\ Count(c, text) \in Nat BY CountIs
  <1>3. CASE text = <<>>
    <2>1. Shown(e) = key BY <1>3 DEF Shown
    <2>2. Entry(key) = [key |-> key, val |-> Absent] BY EntryBare
    <2>3. \A c : Count(c, key) = Count(c, key) + Count(c, text) BY <1>2, <1>3, CountNone
    <2>4. QED BY <1>1, <1>3, <2>1, <2>2, <2>3
  <1>4. CASE text # <<>>
    <2>1. Shown(e) = key \o <<"=">> \o text BY <1>4, NotAbsent DEF Shown
    <2>2. Entry(Shown(e)) = [key |-> key, val |-> Trim(text)] BY <2>1, EntryMade
    <2>3. ASSUME NEW c, c # "="
          PROVE  Count(c, Shown(e)) = Count(c, key) + Count(c, text)
      <3>1. Count(c, <<"=">>) = 0 BY <2>3, CountOne
      <3>2. Count(c, key \o <<"=">> \o text)
              = Count(c, key) + Count(c, <<"=">>) + Count(c, text)
        BY EqualsCount
      <3>3. Count(c, key) \in Nat /\ Count(c, text) \in Nat BY <1>2
      <3> HIDE DEF e
      <3>4. QED BY <2>1, <3>1, <3>2, <3>3
    <2>4. Shown(e) \in Seq(C) BY <2>1, EqualsCount
    <2> HIDE DEF e
    <2>5. QED BY <1>1, <1>4, <2>2, <2>3, <2>4 DEF e
  <1>5. QED BY <1>3, <1>4

-----------------------------------------------------------------------------
(* Elements kept, and images of them.                                       *)

LEMMA AppendAs ==
  ASSUME NEW S, NEW s \in Seq(S), NEW x \in S, NEW n \in Nat, Len(s) = n
  PROVE  Append(s, x) = [i \in 1 .. n + 1 |-> IF i = n + 1 THEN x ELSE s[i]]
PROOF
  <1> DEFINE a == Append(s, x)
             g == [i \in 1 .. n + 1 |-> IF i = n + 1 THEN x ELSE s[i]]
  <1>1. a \in Seq(S) /\ Len(a) = n + 1 /\ a[n + 1] = x /\ \A i \in 1 .. n : a[i] = s[i]
    BY AppendIs
  <1>2. \A i \in 1 .. n : s[i] \in S OBVIOUS
  <1>3. \A i \in 1 .. n + 1 : i # n + 1 => i \in 1 .. n OBVIOUS
  <1>4. g \in [1 .. n + 1 -> S] BY <1>2, <1>3
  <1>5. n + 1 \in Nat OBVIOUS
  <1>6. \A i \in 1 .. n + 1 : a[i] = g[i]
    <2> HIDE DEF a
    <2>1. QED BY <1>1, <1>3
  <1> HIDE DEF a, g
  <1>7. g \in Seq(S) /\ Len(g) = n + 1 BY <1>4, <1>5, FunctionIsSeq
  <1>8. a = g BY <1>1, <1>6, <1>7, SameText
  <1>9. QED BY <1>8 DEF a, g

Bits(s, I) == [i \in DOMAIN s |-> IF i \in I THEN <<s[i]>> ELSE <<>>]

LEMMA BitsSnoc ==
  ASSUME NEW S, NEW s \in Seq(S), NEW x \in S, NEW I
  PROVE  /\ Bits(s, I) \in Bodies(S)
         /\ Bits(Append(s, x), I) =
              Append(Bits(s, I), IF Len(s) + 1 \in I THEN <<x>> ELSE <<>>)
PROOF
  <1> DEFINE n == Len(s)
             t == Append(s, x)
             y == IF n + 1 \in I THEN <<x>> ELSE <<>>
             b == Bits(s, I)
  <1>1. n \in Nat /\ DOMAIN s = 1 .. n /\ DOMAIN t = 1 .. n + 1 /\ t[n + 1] = x
        /\ \A i \in 1 .. n : t[i] = s[i] /\ s[i] \in S
    OBVIOUS
  <1>2. y \in Seq(S) OBVIOUS
  <1> HIDE DEF n, t, y
  <1>3. \A i \in 1 .. n : <<s[i]>> \in Seq(S) BY <1>1
  <1>4. <<>> \in Seq(S) OBVIOUS
  <1>5. b \in [1 .. n -> Seq(S)] BY <1>1, <1>3, <1>4 DEF Bits
  <1> DEFINE X == Seq(S)
  <1>6. b \in Seq(X) /\ Len(b) = n
    <2> HIDE DEF b, X
    <2>1. b \in [1 .. n -> X] BY <1>5 DEF X
    <2>2. QED BY <1>1, <2>1, FunctionIsSeq
  <1>7. \A i \in 1 .. n : b[i] = IF i \in I THEN <<s[i]>> ELSE <<>> BY <1>1 DEF Bits
  <1>8. Bits(t, I) = [i \in 1 .. n + 1 |-> IF i \in I THEN <<t[i]>> ELSE <<>>] BY <1>1 DEF Bits
  <1>9. Append(b, y) = [i \in 1 .. n + 1 |-> IF i = n + 1 THEN y ELSE b[i]]
    <2> HIDE DEF b, X
    <2>1. y \in X BY <1>2 DEF X
    <2>2. b \in Seq(X) /\ Len(b) = n BY <1>6
    <2>3. n \in Nat BY <1>1
    <2>4. QED BY ONLY <2>1, <2>2, <2>3, AppendAs
  <1>10. y = IF n + 1 \in I THEN <<t[n + 1]>> ELSE <<>> BY <1>1 DEF y
  <1>11. \A i \in 1 .. n + 1 : i # n + 1 => i \in 1 .. n BY <1>1
  <1>12. ASSUME NEW i \in 1 .. n + 1
         PROVE  (IF i \in I THEN <<t[i]>> ELSE <<>>) = IF i = n + 1 THEN y ELSE b[i]
    <2> HIDE DEF b
    <2>1. CASE i = n + 1 BY <1>10, <2>1
    <2>2. CASE i # n + 1
      <3>1. i \in 1 .. n BY <1>11, <2>2
      <3>2. QED BY <1>1, <1>7, <2>2, <3>1
    <2>3. QED BY <2>1, <2>2
  <1>13. Bits(t, I) = Append(b, y)
    <2> HIDE DEF b
    <2>1. QED BY <1>8, <1>9, <1>12
  <1>14. b \in Bodies(S) BY <1>6 DEF Bodies
  <1>15. QED BY <1>13, <1>14 DEF n, t, y

LEMMA FlattenSnocBodies ==
  ASSUME NEW S, NEW ss \in Bodies(S), NEW x \in Seq(S)
  PROVE  FlattenSeq(ss) \in Seq(S) /\ FlattenSeq(Append(ss, x)) = FlattenSeq(ss) \o x
PROOF BY FlattenSnoc DEF Bodies

LEMMA KeepSnoc ==
  ASSUME NEW S, NEW s \in Seq(S), NEW x \in S, NEW I
  PROVE  /\ Keep(s, I) \in Seq(S)
         /\ Keep(Append(s, x), I) =
              IF Len(s) + 1 \in I THEN Append(Keep(s, I), x) ELSE Keep(s, I)
PROOF
  <1> DEFINE y == IF Len(s) + 1 \in I THEN <<x>> ELSE <<>>
             b == Bits(s, I)
             t == Append(s, x)
  <1>1. y \in Seq(S) OBVIOUS
  <1>2. b \in Bodies(S) /\ Bits(t, I) = Append(b, y) BY BitsSnoc
  <1>3. Keep(s, I) = FlattenSeq(b) /\ Keep(t, I) = FlattenSeq(Bits(t, I)) BY DEF Keep, Bits
  <1> HIDE DEF b, y, t
  <1>4. FlattenSeq(b) \in Seq(S) /\ FlattenSeq(Append(b, y)) = FlattenSeq(b) \o y
    BY <1>1, <1>2, FlattenSnocBodies
  <1>5. Keep(t, I) = Keep(s, I) \o y /\ Keep(s, I) \in Seq(S) BY <1>2, <1>3, <1>4
  <1>6. \A k \in Seq(S) : k \o <<x>> = Append(k, x) /\ k \o <<>> = k OBVIOUS
  <1>7. QED BY <1>5, <1>6 DEF y, t

LEMMA KeepNone == \A I : Keep(<<>>, I) = <<>>
PROOF
  <1>1. \A I : Bits(<<>>, I) = <<>> BY DEF Bits
  <1>2. QED BY <1>1, FlattenNone DEF Keep, Bits

(* Only places within the sequence count.                                   *)
LEMMA KeepSame ==
  ASSUME NEW S, NEW s \in Seq(S), NEW I, NEW J, \A i \in 1 .. Len(s) : i \in I <=> i \in J
  PROVE  Keep(s, I) = Keep(s, J)
PROOF
  <1>1. DOMAIN s = 1 .. Len(s) OBVIOUS
  <1>2. Bits(s, I) = Bits(s, J) BY <1>1 DEF Bits
  <1>3. QED BY <1>2 DEF Keep, Bits

(* One more element.                                                        *)
WithLast(s, x) == Append(s, x)

(* The image of a sequence.                                                 *)
Image(f, s) == [i \in DOMAIN s |-> f[s[i]]]

LEMMA ImageTyped ==
  ASSUME NEW S, NEW T, NEW f \in [S -> T], NEW s \in Seq(S)
  PROVE  /\ Image(f, s) \in Seq(T) /\ Len(Image(f, s)) = Len(s)
         /\ Image(f, <<>>) = <<>>
PROOF
  <1> DEFINE n == Len(s)
             b == Image(f, s)
  <1>1. n \in Nat /\ DOMAIN s = 1 .. n /\ \A i \in 1 .. n : s[i] \in S OBVIOUS
  <1> HIDE DEF n
  <1>2. b \in [1 .. n -> T] BY <1>1 DEF Image
  <1> HIDE DEF b
  <1>3. b \in Seq(T) /\ Len(b) = n BY <1>1, <1>2, FunctionIsSeq
  <1>4. Image(f, <<>>) = <<>> BY DEF Image
  <1>5. QED BY <1>3, <1>4 DEF b, n

LEMMA ImageSnoc ==
  ASSUME NEW S, NEW T, NEW f \in [S -> T], NEW s \in Seq(S), NEW x \in S
  PROVE  Image(f, WithLast(s, x)) = WithLast(Image(f, s), f[x])
PROOF
  <1> DEFINE n == Len(s)
             t == Append(s, x)
             b == Image(f, s)
  <1>1. n \in Nat /\ DOMAIN s = 1 .. n /\ DOMAIN t = 1 .. n + 1 /\ t[n + 1] = x
        /\ \A i \in 1 .. n : t[i] = s[i] /\ s[i] \in S
    OBVIOUS
  <1> HIDE DEF n, t
  <1>2. \A i \in 1 .. n : b[i] = f[s[i]] BY <1>1 DEF Image
  <1>3. Image(f, t) = [i \in 1 .. n + 1 |-> f[t[i]]] BY <1>1 DEF Image
  <1> HIDE DEF b
  <1>4. b \in Seq(T) /\ Len(b) = n BY ImageTyped DEF b, n
  <1>5. f[x] \in T OBVIOUS
  <1>6. Append(b, f[x]) = [i \in 1 .. n + 1 |-> IF i = n + 1 THEN f[x] ELSE b[i]]
    BY <1>1, <1>4, <1>5
  <1>7. \A i \in 1 .. n + 1 : i # n + 1 => i \in 1 .. n BY <1>1
  <1>8. \A i \in 1 .. n + 1 : f[t[i]] = IF i = n + 1 THEN f[x] ELSE b[i] BY <1>1, <1>2, <1>7
  <1>9. Image(f, t) = Append(b, f[x]) BY <1>3, <1>6, <1>8
  <1>10. QED BY <1>9 DEF b, t, WithLast

-----------------------------------------------------------------------------
(* The dictionary of a text.                                                *)

ParseOf == [t \in Seq(C) |-> Entry(t)]

ShowOf == [e \in EntryForms |-> Shown(e)]

Parsed(parts) == Image(ParseOf, parts)

LEMMA ShownTyped == \A e \in EntryForms : Shown(e) \in Seq(C)
PROOF
  <1> SUFFICES ASSUME NEW e \in EntryForms PROVE Shown(e) \in Seq(C) OBVIOUS
  <1>1. e.key \in Seq(C) /\ (e.val # Absent => e.val \in Seq(C)) BY DEF EntryForms
  <1>2. CASE e.val = Absent BY <1>1, <1>2 DEF Shown
  <1>3. CASE e.val # Absent BY <1>1, <1>3, EqualsCount DEF Shown
  <1>4. QED BY <1>2, <1>3

LEMMA ParsedSnoc ==
  ASSUME NEW p \in Bodies(C), NEW x \in Seq(C)
  PROVE  /\ Parsed(p) \in Seq(EntryForms) /\ Entry(x) \in EntryForms
         /\ Parsed(WithLast(p, x)) = WithLast(Parsed(p), Entry(x))
         /\ Parsed(<<>>) = <<>>
PROOF
  <1> DEFINE X == Seq(C)
  <1>1. ParseOf \in [X -> EntryForms] /\ ParseOf[x] = Entry(x) /\ x \in X
    BY EntryFacts DEF ParseOf
  <1>2. p \in Seq(X) BY DEF Bodies
  <1> DEFINE f == ParseOf
  <1> HIDE DEF X
  <1>3. /\ Image(f, p) \in Seq(EntryForms)
        /\ Image(f, WithLast(p, x)) = WithLast(Image(f, p), f[x])
        /\ Image(f, <<>>) = <<>>
    <2>1. f \in [X -> EntryForms] /\ x \in X BY <1>1
    <2> HIDE DEF f
    <2>2. Image(f, p) \in Seq(EntryForms) BY ONLY <1>2, <2>1, ImageTyped
    <2>3. Image(f, WithLast(p, x)) = WithLast(Image(f, p), f[x]) BY ONLY <1>2, <2>1, ImageSnoc
    <2>4. Image(f, <<>>) = <<>> BY ONLY <1>2, <2>1, ImageTyped
    <2>5. QED BY <2>2, <2>3, <2>4
  <1>4. Entry(x) \in EntryForms BY EntryFacts
  <1>5. QED BY <1>1, <1>3, <1>4 DEF Parsed

-----------------------------------------------------------------------------
(* The value of a key: of the first entry that has it.                      *)

KeyAt(es, k) == SelectInSeq(es, LAMBDA e : e.key = k)

ValueIn(e) == IF e.val = Absent THEN <<>> ELSE e.val

ValueOf(es, k) == IF KeyAt(es, k) = 0 THEN Absent ELSE ValueIn(es[KeyAt(es, k)])

LEMMA KeyAtIs ==
  ASSUME NEW E, NEW es \in Seq(E), NEW k
  PROVE  /\ KeyAt(es, k) \in 0 .. Len(es)
         /\ KeyAt(es, k) = 0 <=> \A i \in 1 .. Len(es) : es[i].key # k
         /\ KeyAt(es, k) # 0 =>
              /\ es[KeyAt(es, k)].key = k
              /\ \A j \in 1 .. Len(es) : es[j].key = k => KeyAt(es, k) <= j
PROOF
  <1> DEFINE A == {i \in 1 .. Len(es) : es[i].key = k}
  <1>1. KeyAt(es, k) = IF A # {} THEN Min(A) ELSE 0 BY DEF KeyAt, SelectInSeq
  <1>2. A \in SUBSET Nat OBVIOUS
  <1>3. CASE A = {} BY <1>1, <1>3
  <1>4. CASE A # {}
    <2> DEFINE m == Min(A)
    <2>1. m \in A /\ \A j \in A : m <= j
      <3> HIDE DEF A
      <3>1. QED BY <1>2, <1>4, MinIsLeast
    <2>2. KeyAt(es, k) = m BY <1>1, <1>4
    <2> HIDE DEF m
    <2>3. QED BY <2>1, <2>2
  <1>5. QED BY <1>3, <1>4

LEMMA ValueTyped ==
  ASSUME NEW es \in Seq(EntryForms), NEW k
  PROVE  /\ ValueOf(es, k) \in Seq(C) \cup {Absent}
         /\ ValueOf(es, k) = Absent <=> KeyAt(es, k) = 0
PROOF
  <1> DEFINE i == KeyAt(es, k)
  <1>1. i \in 0 .. Len(es) BY KeyAtIs
  <1> HIDE DEF i
  <1>2. i # 0 => es[i] \in EntryForms BY <1>1
  <1>3. i # 0 => ValueIn(es[i]) \in Seq(C)
    <2>1. \A e \in EntryForms : ValueIn(e) \in Seq(C) BY DEF EntryForms, ValueIn
    <2>2. QED BY <1>2, <2>1
  <1>4. QED BY <1>3, NotAbsent DEF ValueOf, i

LEMMA ValueNone == \A k : ValueOf(<<>>, k) = Absent
PROOF
  <1> SUFFICES ASSUME NEW k PROVE ValueOf(<<>>, k) = Absent OBVIOUS
  <1> DEFINE s == <<>>
  <1>1. s \in Seq(EntryForms) /\ Len(s) = 0 OBVIOUS
  <1> HIDE DEF s
  <1>2. \A i \in 1 .. Len(s) : s[i].key # k BY <1>1
  <1>3. KeyAt(s, k) = 0 BY <1>1, <1>2, KeyAtIs
  <1>4. QED BY <1>3 DEF ValueOf, s

LEMMA ValueSnoc ==
  ASSUME NEW es \in Seq(EntryForms), NEW e \in EntryForms, NEW k
  PROVE  ValueOf(WithLast(es, e), k) =
           IF ValueOf(es, k) # Absent THEN ValueOf(es, k)
           ELSE IF e.key = k THEN ValueIn(e) ELSE Absent
PROOF
  <1> DEFINE n == Len(es)
             t == Append(es, e)
             i == KeyAt(es, k)
             j == KeyAt(t, k)
  <1>1. /\ t \in Seq(EntryForms) /\ n \in Nat /\ Len(t) = n + 1 /\ t[n + 1] = e
        /\ \A m \in 1 .. n : t[m] = es[m]
    BY AppendIs
  <1> HIDE DEF t, WithLast
  <1>2. /\ i \in 0 .. n /\ (i = 0 <=> \A m \in 1 .. n : es[m].key # k)
        /\ (i # 0 => es[i].key = k /\ \A m \in 1 .. n : es[m].key = k => i <= m)
    BY KeyAtIs
  <1>3. /\ j \in 0 .. n + 1 /\ (j = 0 <=> \A m \in 1 .. n + 1 : t[m].key # k)
        /\ (j # 0 => t[j].key = k /\ \A m \in 1 .. n + 1 : t[m].key = k => j <= m)
    <2> HIDE DEF n
    <2>1. Len(t) = n + 1 /\ t \in Seq(EntryForms) BY <1>1
    <2>2. /\ j \in 0 .. Len(t) /\ (j = 0 <=> \A m \in 1 .. Len(t) : t[m].key # k)
          /\ (j # 0 => t[j].key = k /\ \A m \in 1 .. Len(t) : t[m].key = k => j <= m)
      BY <2>1, KeyAtIs
    <2>3. QED BY <2>1, <2>2
  <1>4. ValueOf(es, k) = Absent <=> i = 0 BY ValueTyped
  <1> HIDE DEF n, i, j
  <1>5. \A m \in 1 .. n : m \in 1 .. n + 1 BY <1>1
  <1>6. n + 1 \in 1 .. n + 1 BY <1>1
  <1>7. CASE i # 0
    <2>1. i \in 1 .. n /\ t[i] = es[i] BY <1>1, <1>2, <1>7
    <2>2. t[i].key = k BY <1>2, <1>7, <2>1
    <2>3. j # 0 /\ j <= i BY <1>3, <1>5, <2>1, <2>2
    <2>4. j \in 1 .. n BY <1>1, <1>3, <2>1, <2>3
    <2>5. i <= j BY <1>1, <1>2, <1>3, <1>7, <2>3, <2>4
    <2>6. i = j BY <2>1, <2>3, <2>4, <2>5
    <2>7. ValueOf(t, k) = ValueIn(t[j]) BY <2>3 DEF ValueOf, j
    <2>8. ValueOf(es, k) = ValueIn(es[i]) BY <1>7 DEF ValueOf, i
    <2>9. ValueOf(t, k) = ValueOf(es, k) BY <2>1, <2>6, <2>7, <2>8
    <2>10. QED BY <1>4, <1>7, <2>9 DEF t, WithLast
  <1>8. CASE i = 0
    <2>1. \A m \in 1 .. n : t[m].key # k BY <1>1, <1>2, <1>8
    <2>2. CASE e.key = k
      <3>1. j # 0 BY <1>1, <1>3, <1>6, <2>2
      <3>2. j \notin 1 .. n BY <1>3, <2>1, <3>1
      <3>3. j = n + 1 BY <1>1, <1>3, <3>1, <3>2
      <3>4. ValueOf(t, k) = ValueIn(t[j]) BY <3>1 DEF ValueOf, j
      <3>5. ValueOf(t, k) = ValueIn(e) BY <1>1, <3>3, <3>4
      <3>6. QED BY <1>4, <1>8, <2>2, <3>5 DEF t, WithLast
    <2>3. CASE e.key # k
      <3>1. \A m \in 1 .. n + 1 : t[m].key # k
        <4>1. \A m \in 1 .. n + 1 : m \in 1 .. n \/ m = n + 1 BY <1>1
        <4>2. QED BY <1>1, <2>1, <2>3, <4>1
      <3>2. j = 0 BY <1>3, <3>1
      <3>3. ValueOf(t, k) = Absent BY <3>2 DEF ValueOf, j
      <3>4. QED BY <1>4, <1>8, <2>3, <3>3 DEF t, WithLast
    <2>4. QED BY <2>2, <2>3
  <1>9. QED BY <1>7, <1>8

LEMMA DictGetIs ==
  ASSUME NEW text \in Seq(C), NEW k, k # <<>>
  PROVE  DictGet(text, k) = ValueOf(Parsed(Split(text, ",")), k)
PROOF
  <1> DEFINE p == Split(text, ",")
  <1>1. p \in Bodies(C) /\ \A i \in 1 .. Len(p) : p[i] \in Seq(C)
    <2>1. "," \in C BY Written
    <2>2. p \in Seq(Seq(C)) BY <2>1, SplitTyped
    <2> HIDE DEF p
    <2>3. QED BY <2>2 DEF Bodies
  <1>2. [i \in DOMAIN p |-> Entry(p[i])] = Parsed(p)
    <2> HIDE DEF p
    <2>1. DOMAIN p = 1 .. Len(p) BY <1>1 DEF Bodies
    <2>2. \A i \in DOMAIN p : Entry(p[i]) = ParseOf[p[i]] BY <1>1, <2>1 DEF ParseOf
    <2>3. QED BY <2>2 DEF Parsed, Image
  <1>3. Entries(text) = IF text = <<>> THEN <<>> ELSE Parsed(p)
    <2>1. Entries(<<>>) = <<>> BY DEF Entries
    <2>2. text # <<>> => Entries(text) = [i \in DOMAIN p |-> Entry(p[i])] BY DEF Entries
    <2> HIDE DEF p
    <2>3. QED BY <1>2, <2>1, <2>2
  <1>4. DictGet(text, k) = ValueOf(Entries(text), k)
    <2> DEFINE es == Entries(text)
    <2>1. DictGet(text, k) = IF KeyAt(es, k) = 0 THEN Absent
                             ELSE IF es[KeyAt(es, k)].val = Absent THEN <<>>
                                  ELSE es[KeyAt(es, k)].val
      BY DEF DictGet, KeyAt
    <2> HIDE DEF es
    <2>2. QED BY <2>1 DEF ValueOf, ValueIn, es
  <1>5. CASE text # <<>>
    <2> HIDE DEF p
    <2>1. QED BY <1>3, <1>4, <1>5 DEF p
  <1>6. CASE text = <<>>
    <2>1. p = <<text>>
      <3>1. Count(",", text) = 0 BY <1>6, CountNone
      <3>2. QED BY <3>1, SplitOne
    <2> DEFINE none == <<>>  nil == <<>>
    <2>2. none \in Bodies(C) /\ nil \in Seq(C) BY BodiesAre
    <2>3. p = WithLast(none, nil)
      <3> HIDE DEF p
      <3>1. p = <<nil>> BY <1>6, <2>1
      <3>2. QED BY <3>1 DEF WithLast
    <2>4. Entry(nil) = [key |-> <<>>, val |-> Absent]
      <3>1. Count("=", nil) = 0 /\ Trim(nil) = <<>>
        <4>1. Count("=", nil) = 0 BY CountNone
        <4>2. Trimmed(nil) BY DEF Trimmed
        <4>3. QED BY <2>2, <4>1, <4>2, TrimSame
      <3>2. QED BY <2>2, <3>1, EntryBare
    <2> HIDE DEF p, none, nil
    <2>5. Parsed(p) = WithLast(Parsed(none), Entry(nil)) /\ Parsed(none) = <<>>
          /\ Entry(nil) \in EntryForms
      BY <2>2, <2>3, ParsedSnoc DEF none
    <2>6. Parsed(none) \in Seq(EntryForms) BY <2>2, ParsedSnoc
    <2>7. ValueOf(Parsed(none), k) = Absent BY <2>5, ValueNone
    <2>8. Entry(nil).key # k BY <2>4
    <2>9. ValueOf(Parsed(p), k) = Absent
      <3> DEFINE es == Parsed(none)  e == Entry(nil)
      <3>1. es \in Seq(EntryForms) /\ e \in EntryForms /\ ValueOf(es, k) = Absent /\ e.key # k
        BY <2>5, <2>6, <2>7, <2>8
      <3>2. Parsed(p) = WithLast(es, e) BY <2>5
      <3> HIDE DEF es, e
      <3>3. ValueOf(WithLast(es, e), k) = Absent BY <3>1, ValueSnoc
      <3>4. QED BY <3>2, <3>3
    <2>10. Entries(text) = <<>> BY <1>3, <1>6
    <2>11. QED BY <1>4, <2>9, <2>10, ValueNone DEF p
  <1>7. QED BY <1>5, <1>6

(* What the last lemmas say, of one more element.                           *)
LEMMA SnocIs ==
  ASSUME NEW S, NEW s \in Seq(S), NEW x \in S
  PROVE  WithLast(s, x) \in Seq(S) /\ WithLast(s, x) # <<>> /\ Len(WithLast(s, x)) = Len(s) + 1
PROOF BY AppendIs DEF WithLast

LEMMA SnocAt ==
  ASSUME NEW S, NEW s \in Seq(S), NEW x \in S
  PROVE  /\ WithLast(s, x)[Len(s) + 1] = x /\ Len(s) \in Nat
         /\ \A k \in 1 .. Len(s) : WithLast(s, x)[k] = s[k]
PROOF BY AppendIs DEF WithLast

LEMMA SnocBody ==
  ASSUME NEW S, NEW s \in Bodies(S), NEW x \in Seq(S)
  PROVE  WithLast(s, x) \in Bodies(S) /\ WithLast(s, x) # <<>>
PROOF BY BodiesAre DEF WithLast

LEMMA LeastSnoc ==
  ASSUME NEW S, NEW T \in SUBSET Bodies(S), T # {}, <<>> \notin T
  PROVE  \E s \in Bodies(S), x \in Seq(S) : s \notin T /\ WithLast(s, x) \in T
PROOF BY LeastBody DEF WithLast

LEMMA JoinedTyped ==
  ASSUME NEW S, NEW p \in Bodies(S), NEW sep \in Seq(S)
  PROVE  Joined(p, sep) \in Seq(S)
PROOF
  <1> DEFINE x == <<>>
  <1>1. x \in Seq(S) OBVIOUS
  <1> HIDE DEF x
  <1>2. QED BY <1>1, JoinedGrows

Linked(j, sep, x) == j \o (sep \o x)

LEMMA JoinedSnoc ==
  ASSUME NEW S, NEW p \in Bodies(S), NEW sep \in Seq(S), NEW x \in Seq(S)
  PROVE  Joined(WithLast(p, x), sep) = IF p = <<>> THEN x ELSE Linked(Joined(p, sep), sep, x)
PROOF BY JoinedGrows DEF WithLast, Linked

LEMMA KeepMore ==
  ASSUME NEW S, NEW s \in Seq(S), NEW x \in S, NEW I
  PROVE  /\ Len(s) + 1 \in I => Keep(WithLast(s, x), I) = WithLast(Keep(s, I), x)
         /\ Len(s) + 1 \notin I => Keep(WithLast(s, x), I) = Keep(s, I)
PROOF BY KeepSnoc DEF WithLast

LEMMA KeepTyped ==
  ASSUME NEW S, NEW s \in Seq(S), NEW I
  PROVE  Keep(s, I) \in Seq(S)
PROOF
  <1> DEFINE n == Len(s)
  <1>1. CASE s = <<>> BY <1>1, KeepNone
  <1>2. CASE s # <<>>
    <2>1. s[1] \in S BY <1>2
    <2>2. QED BY <2>1, KeepSnoc
  <1>3. QED BY <1>1, <1>2

-----------------------------------------------------------------------------
(* Counts of what is joined.                                                *)

LEMMA LinkedCount ==
  ASSUME NEW S, NEW j \in Seq(S), NEW sep \in Seq(S), NEW x \in Seq(S), NEW c
  PROVE  /\ Count(c, Linked(j, sep, x)) = Count(c, j) + Count(c, sep) + Count(c, x)
         /\ Count(c, j) \in Nat /\ Count(c, sep) \in Nat /\ Count(c, x) \in Nat
PROOF
  <1> DEFINE y == sep \o x
  <1>1. y \in Seq(S) /\ Count(c, y) = Count(c, sep) + Count(c, x)
    BY Concat2, CountConcat
  <1>2. Count(c, j) \in Nat /\ Count(c, sep) \in Nat /\ Count(c, x) \in Nat BY CountIs
  <1> HIDE DEF y
  <1>3. Count(c, j \o y) = Count(c, j) + Count(c, y) BY <1>1, CountConcat
  <1>4. Count(c, j \o y) = Count(c, j) + Count(c, sep) + Count(c, x) BY <1>1, <1>2, <1>3
  <1>5. QED BY <1>2, <1>4 DEF y, Linked

LEMMA LinkedLen ==
  ASSUME NEW S, NEW j \in Seq(S), NEW sep \in Seq(S), NEW x \in Seq(S)
  PROVE  Len(Linked(j, sep, x)) = Len(j) + Len(sep) + Len(x)
PROOF
  <1> DEFINE y == sep \o x
  <1>1. y \in Seq(S) /\ Len(y) = Len(sep) + Len(x) BY Concat2
  <1>2. Len(j) \in Nat /\ Len(sep) \in Nat /\ Len(x) \in Nat OBVIOUS
  <1> HIDE DEF y
  <1>3. Len(j \o y) = Len(j) + Len(y) BY <1>1, Concat2
  <1>4. QED BY <1>1, <1>2, <1>3 DEF y, Linked

(* s is made of parts of p: how their joins compare.                        *)
Within(s, p, sep, c) ==
  /\ p = <<>> => s = <<>>
  /\ Count(c, Joined(s, sep)) <= Count(c, Joined(p, sep))

LEMMA WithinSnoc ==
  ASSUME NEW S, NEW s \in Bodies(S), NEW p \in Bodies(S), NEW sep \in Seq(S), NEW c,
         NEW x \in Seq(S), NEW y \in Seq(S), Count(c, y) <= Count(c, x), Within(s, p, sep, c)
  PROVE  Within(s, WithLast(p, x), sep, c) /\ Within(WithLast(s, y), WithLast(p, x), sep, c)
PROOF
  <1> DEFINE J(t) == Joined(t, sep)
             d == Count(c, sep)
  <1>1. J(s) \in Seq(S) /\ J(p) \in Seq(S) BY JoinedTyped
  <1>2. WithLast(p, x) # <<>> BY SnocBody
  <1>3. /\ d \in Nat /\ Count(c, x) \in Nat /\ Count(c, y) \in Nat
        /\ Count(c, J(s)) \in Nat /\ Count(c, J(p)) \in Nat
    BY <1>1, CountIs
  <1>4. /\ (p = <<>> => Count(c, J(WithLast(p, x))) = Count(c, x))
        /\ (p # <<>> => Count(c, J(WithLast(p, x))) = Count(c, J(p)) + d + Count(c, x))
    <2> HIDE DEF d
    <2>1. J(WithLast(p, x)) = IF p = <<>> THEN x ELSE Linked(J(p), sep, x) BY JoinedSnoc
    <2>2. Count(c, Linked(J(p), sep, x)) = Count(c, J(p)) + d + Count(c, x)
      BY <1>1, LinkedCount DEF d
    <2> HIDE DEF J
    <2>3. QED BY <2>1, <2>2
  <1>5. /\ (s = <<>> => Count(c, J(WithLast(s, y))) = Count(c, y))
        /\ (s # <<>> => Count(c, J(WithLast(s, y))) = Count(c, J(s)) + d + Count(c, y))
    <2> HIDE DEF d
    <2>1. J(WithLast(s, y)) = IF s = <<>> THEN y ELSE Linked(J(s), sep, y) BY JoinedSnoc
    <2>2. Count(c, Linked(J(s), sep, y)) = Count(c, J(s)) + d + Count(c, y)
      BY <1>1, LinkedCount DEF d
    <2> HIDE DEF J
    <2>3. QED BY <2>1, <2>2
  <1>6. (p = <<>> => s = <<>>) /\ Count(c, J(s)) <= Count(c, J(p)) BY DEF Within
  <1>7. s = <<>> => Count(c, J(s)) = 0 BY JoinedNone, CountNone
  <1> HIDE DEF J, d
  <1>8. Count(c, J(s)) <= Count(c, J(WithLast(p, x))) BY <1>3, <1>4, <1>6, <1>7
  <1>9. Count(c, J(WithLast(s, y))) <= Count(c, J(WithLast(p, x))) BY <1>3, <1>4, <1>5, <1>6, <1>7
  <1>10. QED BY <1>2, <1>8, <1>9 DEF Within, J

(* A text and its parts.                                                    *)
LEMMA JoinedSplit ==
  ASSUME NEW S, NEW c \in S, NEW text \in Seq(S)
  PROVE  Joined(Split(text, c), <<c>>) = text
PROOF
  <1> DEFINE sep == <<c>>
             Fine(s) == Joined(Split(s, c), sep) = s
             T == {s \in Seq(S) : ~Fine(s)}
  <1> SUFFICES ASSUME T # {} PROVE FALSE OBVIOUS
  <1>1. sep \in Seq(S) OBVIOUS
  <1>2. ASSUME NEW s \in T PROVE Count(c, s) # 0
    <2> SUFFICES ASSUME Count(c, s) = 0 PROVE FALSE OBVIOUS
    <2>1. s \in Seq(S) /\ Split(s, c) = <<s>> BY SplitOne
    <2> HIDE DEF sep
    <2>2. Joined(<<s>>, sep) = s BY <1>1, <2>1, JoinedOne
    <2>3. QED BY <2>1, <2>2
  <1>3. PICK u \in Seq(S), t \in Seq(S) :
          u \notin T /\ Count(c, t) = 0 /\ u \o <<c>> \o t \in T
    <2>1. T \in SUBSET Seq(S) OBVIOUS
    <2> HIDE DEF T
    <2>2. QED BY <1>2, <2>1, LeastText
  <1> DEFINE s == u \o <<c>> \o t
             p == Split(u, c)
  <1>4. Fine(u) /\ ~Fine(s) BY <1>3
  <1> HIDE DEF T
  <1>5. Split(s, c) = WithLast(p, t) /\ p \in Bodies(S) /\ p # <<>>
    BY <1>3, SplitLast, SplitTyped DEF Bodies, WithLast
  <1>6. s = Linked(u, sep, t) BY DEF Linked
  <1> HIDE DEF s, p, sep
  <1>7. Joined(WithLast(p, t), sep) = Linked(Joined(p, sep), sep, t) BY <1>1, <1>5, JoinedSnoc
  <1>8. Joined(p, sep) = u BY <1>4 DEF p
  <1>9. Joined(Split(s, c), sep) = s BY <1>5, <1>6, <1>7, <1>8
  <1>10. QED BY <1>4, <1>9

Shorter(s, p, sep) ==
  /\ p = <<>> => s = <<>>
  /\ Len(Joined(s, sep)) <= Len(Joined(p, sep))

LEMMA ShorterSnoc ==
  ASSUME NEW S, NEW s \in Bodies(S), NEW p \in Bodies(S), NEW sep \in Seq(S),
         NEW x \in Seq(S), Shorter(s, p, sep)
  PROVE  Shorter(s, WithLast(p, x), sep) /\ Shorter(WithLast(s, x), WithLast(p, x), sep)
PROOF
  <1> DEFINE J(t) == Joined(t, sep)
             d == Len(sep)
  <1>1. J(s) \in Seq(S) /\ J(p) \in Seq(S) BY JoinedTyped
  <1>2. WithLast(p, x) # <<>> BY SnocBody
  <1>3. d \in Nat /\ Len(x) \in Nat /\ Len(J(s)) \in Nat /\ Len(J(p)) \in Nat BY <1>1
  <1>4. /\ (p = <<>> => Len(J(WithLast(p, x))) = Len(x))
        /\ (p # <<>> => Len(J(WithLast(p, x))) = Len(J(p)) + d + Len(x))
    <2> HIDE DEF d
    <2>1. J(WithLast(p, x)) = IF p = <<>> THEN x ELSE Linked(J(p), sep, x) BY JoinedSnoc
    <2>2. Len(Linked(J(p), sep, x)) = Len(J(p)) + d + Len(x) BY <1>1, LinkedLen DEF d
    <2> HIDE DEF J
    <2>3. QED BY <2>1, <2>2
  <1>5. /\ (s = <<>> => Len(J(WithLast(s, x))) = Len(x))
        /\ (s # <<>> => Len(J(WithLast(s, x))) = Len(J(s)) + d + Len(x))
    <2> HIDE DEF d
    <2>1. J(WithLast(s, x)) = IF s = <<>> THEN x ELSE Linked(J(s), sep, x) BY JoinedSnoc
    <2>2. Len(Linked(J(s), sep, x)) = Len(J(s)) + d + Len(x) BY <1>1, LinkedLen DEF d
    <2> HIDE DEF J
    <2>3. QED BY <2>1, <2>2
  <1>6. (p = <<>> => s = <<>>) /\ Len(J(s)) <= Len(J(p)) BY DEF Shorter
  <1>7. s = <<>> => Len(J(s)) = 0 BY JoinedNone
  <1> HIDE DEF J, d
  <1>8. Len(J(s)) <= Len(J(WithLast(p, x))) BY <1>3, <1>4, <1>6, <1>7
  <1>9. Len(J(WithLast(s, x))) <= Len(J(WithLast(p, x))) BY <1>3, <1>4, <1>5, <1>6, <1>7
  <1>10. QED BY <1>2, <1>8, <1>9 DEF Shorter, J

NoneHas(c, p) == \A i \in 1 .. Len(p) : Count(c, p[i]) = 0

LEMMA NoneSnoc ==
  ASSUME NEW S, NEW s \in Bodies(S), NEW x \in Seq(S), NEW c
  PROVE  NoneHas(c, WithLast(s, x)) <=> Count(c, x) = 0 /\ NoneHas(c, s)
PROOF BY AppendAll DEF NoneHas, WithLast

-----------------------------------------------------------------------------
(* The entries a set statement keeps: of other keys.                        *)

OtherPlaces(es, key) == {i \in DOMAIN es : es[i].key \notin {key, <<>>}}

Others(es, key) == Keep(es, OtherPlaces(es, key))

LEMMA OthersSnoc ==
  ASSUME NEW es \in Seq(EntryForms), NEW e \in EntryForms, NEW key
  PROVE  /\ e.key \notin {key, <<>>} => Others(WithLast(es, e), key) = WithLast(Others(es, key), e)
         /\ e.key \in {key, <<>>} => Others(WithLast(es, e), key) = Others(es, key)
PROOF
  <1> DEFINE n == Len(es)
             t == WithLast(es, e)
             I == OtherPlaces(es, key)
             K == OtherPlaces(t, key)
  <1>1. /\ n \in Nat /\ t \in Seq(EntryForms) /\ Len(t) = n + 1
        /\ t[n + 1] = e /\ \A k \in 1 .. n : t[k] = es[k]
    BY SnocIs, SnocAt
  <1>2. DOMAIN es = 1 .. n OBVIOUS
  <1>3. DOMAIN t = 1 .. n + 1
    <2> HIDE DEF t, n
    <2>1. DOMAIN t = 1 .. Len(t) BY <1>1
    <2>2. QED BY <1>1, <2>1
  <1> HIDE DEF n, t
  <1>4. \A i \in 1 .. n : i \in I <=> i \in K BY <1>1, <1>2, <1>3 DEF OtherPlaces
  <1>5. n + 1 \in K <=> e.key \notin {key, <<>>} BY <1>1, <1>3 DEF OtherPlaces
  <1> HIDE DEF I, K
  <1>6. Keep(es, I) = Keep(es, K) BY <1>4, KeepSame DEF n
  <1>7. n + 1 \in K => Keep(t, K) = WithLast(Keep(es, K), e) BY KeepMore DEF n, t
  <1>8. n + 1 \notin K => Keep(t, K) = Keep(es, K) BY KeepMore DEF n, t
  <1>9. Others(t, key) = Keep(t, K) /\ Others(es, key) = Keep(es, I) BY DEF Others, I, K
  <1>10. QED BY <1>5, <1>6, <1>7, <1>8, <1>9 DEF t

LEMMA OthersTyped ==
  /\ \A es \in Seq(EntryForms) : \A key : Others(es, key) \in Seq(EntryForms)
  /\ \A key : Others(<<>>, key) = <<>>
PROOF BY KeepTyped, KeepNone DEF Others

Shows(p, key) == Image(ShowOf, Others(Parsed(p), key))

LEMMA ShowsTyped ==
  /\ \A p \in Bodies(C) : \A key : Shows(p, key) \in Bodies(C)
  /\ \A key : Shows(<<>>, key) = <<>>
PROOF
  <1>1. ShowOf \in [EntryForms -> Seq(C)] BY ShownTyped DEF ShowOf
  <1>2. \A p \in Bodies(C) : Parsed(p) \in Seq(EntryForms)
    <2>1. <<>> \in Seq(C) OBVIOUS
    <2>2. QED BY <2>1, ParsedSnoc
  <1>3. \A p \in Bodies(C) : \A key : Others(Parsed(p), key) \in Seq(EntryForms) BY <1>2, OthersTyped
  <1>4. \A es \in Seq(EntryForms) : Image(ShowOf, es) \in Bodies(C)
    BY <1>1, ImageTyped DEF Bodies
  <1>5. \A p \in Bodies(C) : \A key : Shows(p, key) \in Bodies(C) BY <1>3, <1>4 DEF Shows
  <1>6. Parsed(<<>>) = <<>> BY DEF Parsed, Image
  <1>7. \A key : Shows(<<>>, key) = <<>>
    <2>1. Image(ShowOf, <<>>) = <<>> BY DEF Image
    <2>2. QED BY <1>6, <2>1, OthersTyped DEF Shows
  <1>8. QED BY <1>5, <1>7

LEMMA ShowsSnoc ==
  ASSUME NEW p \in Bodies(C), NEW x \in Seq(C), NEW key
  PROVE  /\ Entry(x).key \notin {key, <<>>} =>
              Shows(WithLast(p, x), key) = WithLast(Shows(p, key), Shown(Entry(x)))
         /\ Entry(x).key \in {key, <<>>} => Shows(WithLast(p, x), key) = Shows(p, key)
PROOF
  <1> DEFINE es == Parsed(p)
             e == Entry(x)
             k == Others(es, key)
  <1>1. es \in Seq(EntryForms) /\ e \in EntryForms /\ Parsed(WithLast(p, x)) = WithLast(es, e)
    BY ParsedSnoc
  <1>2. ShowOf \in [EntryForms -> Seq(C)] BY ShownTyped DEF ShowOf
  <1>3. ShowOf[e] = Shown(e) BY <1>1 DEF ShowOf
  <1> HIDE DEF es, e
  <1>4. k \in Seq(EntryForms) BY <1>1, OthersTyped
  <1>5. /\ e.key \notin {key, <<>>} => Others(WithLast(es, e), key) = WithLast(k, e)
        /\ e.key \in {key, <<>>} => Others(WithLast(es, e), key) = k
    BY <1>1, OthersSnoc
  <1> HIDE DEF k
  <1>6. Image(ShowOf, WithLast(k, e)) = WithLast(Image(ShowOf, k), ShowOf[e]) BY <1>1, <1>2, <1>4, ImageSnoc
  <1>7. Shows(p, key) = Image(ShowOf, k) BY DEF Shows, es, k
  <1>8. Shows(WithLast(p, x), key) = Image(ShowOf, Others(WithLast(es, e), key)) BY <1>1 DEF Shows
  <1>9. QED BY <1>3, <1>5, <1>6, <1>7, <1>8 DEF e

(* They are no longer together, and their other keys read the same.         *)
LEMMA ShowsFacts ==
  ASSUME NEW p \in Bodies(C), NEW key, NEW c, NEW sep \in Seq(C)
  PROVE  /\ Within(Shows(p, key), p, sep, c)
         /\ NoneHas(c, p) => NoneHas(c, Shows(p, key))
         /\ ValueOf(Parsed(Shows(p, key)), key) = Absent
         /\ \A k : k \notin {key, <<>>} =>
              ValueOf(Parsed(Shows(p, key)), k) = ValueOf(Parsed(p), k)
PROOF
  <1> DEFINE V(s, k) == ValueOf(Parsed(s), k)
             Fine(s) == /\ Within(Shows(s, key), s, sep, c)
                        /\ NoneHas(c, s) => NoneHas(c, Shows(s, key))
                        /\ V(Shows(s, key), key) = Absent
                        /\ \A k : k \notin {key, <<>>} => V(Shows(s, key), k) = V(s, k)
             T == {s \in Bodies(C) : ~Fine(s)}
  <1> SUFFICES ASSUME T # {} PROVE FALSE OBVIOUS
  <1>1. <<>> \notin T
    <2> DEFINE none == <<>>
    <2>1. Shows(none, key) = none BY ShowsTyped
    <2>2. Within(none, none, sep, c)
      <3>1. Joined(none, sep) = <<>> /\ Count(c, <<>>) = 0 BY JoinedNone, CountNone
      <3> HIDE DEF none
      <3>2. QED BY <3>1 DEF Within
    <2>3. Parsed(none) = <<>> BY DEF Parsed, Image
    <2>4. V(none, key) = Absent BY <2>3, ValueNone
    <2> HIDE DEF none, V
    <2>5. Fine(none) BY <2>1, <2>2, <2>4
    <2>6. QED BY <2>5 DEF none
  <1>2. PICK s \in Bodies(C), x \in Seq(C) : s \notin T /\ WithLast(s, x) \in T
    <2>1. T \in SUBSET Bodies(C) OBVIOUS
    <2> HIDE DEF T
    <2>2. QED BY <1>1, <2>1, LeastSnoc
  <1>3. Fine(s) /\ ~Fine(WithLast(s, x)) BY <1>2
  <1> HIDE DEF T
  <1> DEFINE e == Entry(x)
             y == Shown(e)
             u == Shows(s, key)
             v == Shows(WithLast(s, x), key)
  <1>4. /\ e \in EntryForms /\ y \in Seq(C) /\ Entry(y) = e /\ Count(c, y) <= Count(c, x)
    BY EntryFacts
  <1>5. u \in Bodies(C) BY ShowsTyped
  <1>6. /\ (e.key \notin {key, <<>>} => v = WithLast(u, y)) /\ (e.key \in {key, <<>>} => v = u)
    BY ShowsSnoc
  <1>7. /\ Within(u, s, sep, c) /\ (NoneHas(c, s) => NoneHas(c, u)) /\ V(u, key) = Absent
        /\ \A k : k \notin {key, <<>>} => V(u, k) = V(s, k)
    BY <1>3
  <1> HIDE DEF e, y, u, v
  <1>8. Within(v, WithLast(s, x), sep, c) BY <1>4, <1>5, <1>6, <1>7, WithinSnoc
  <1>9. NoneHas(c, WithLast(s, x)) => NoneHas(c, v)
    <2>1. NoneHas(c, WithLast(s, x)) <=> Count(c, x) = 0 /\ NoneHas(c, s) BY NoneSnoc
    <2>2. NoneHas(c, WithLast(u, y)) <=> Count(c, y) = 0 /\ NoneHas(c, u) BY <1>4, <1>5, NoneSnoc
    <2>3. Count(c, x) = 0 => Count(c, y) = 0
      <3>1. Count(c, y) \in Nat BY <1>4, CountIs
      <3>2. QED BY <1>4, <3>1
    <2>4. QED BY <1>6, <1>7, <2>1, <2>2, <2>3
  <1>10. ASSUME NEW k
         PROVE  /\ V(WithLast(s, x), k) = IF V(s, k) # Absent THEN V(s, k)
                                      ELSE IF e.key = k THEN ValueIn(e) ELSE Absent
                /\ V(WithLast(u, y), k) = IF V(u, k) # Absent THEN V(u, k)
                                      ELSE IF e.key = k THEN ValueIn(e) ELSE Absent
    <2>1. /\ Parsed(s) \in Seq(EntryForms) /\ Parsed(WithLast(s, x)) = WithLast(Parsed(s), e)
      BY ParsedSnoc DEF e
    <2>2. /\ Parsed(u) \in Seq(EntryForms) /\ Parsed(WithLast(u, y)) = WithLast(Parsed(u), e)
      BY <1>4, <1>5, ParsedSnoc
    <2>3. QED BY <1>4, <2>1, <2>2, ValueSnoc
  <1> HIDE DEF V
  <1>11. V(v, key) = Absent
    <2>1. CASE e.key \notin {key, <<>>} BY <1>6, <1>7, <1>10, <2>1
    <2>2. CASE e.key \in {key, <<>>} BY <1>6, <1>7, <2>2
    <2>3. QED BY <2>1, <2>2
  <1>12. ASSUME NEW k, k \notin {key, <<>>} PROVE V(v, k) = V(WithLast(s, x), k)
    <2>1. V(u, k) = V(s, k) BY <1>7, <1>12
    <2>2. CASE e.key \notin {key, <<>>} BY <1>6, <1>10, <2>1, <2>2
    <2>3. CASE e.key \in {key, <<>>} BY <1>6, <1>10, <1>12, <2>1, <2>3
    <2>4. QED BY <2>2, <2>3
  <1>13. Fine(WithLast(s, x)) BY <1>8, <1>9, <1>11, <1>12 DEF v
  <1>14. QED BY <1>3, <1>13

-----------------------------------------------------------------------------
(* The parts an unset statement leaves.                                     *)

LeftPlaces(p, key) == {i \in DOMAIN p : Entry(p[i]).key # key}

LeftOf(p, key) == Keep(p, LeftPlaces(p, key))

LEMMA LeftTyped ==
  /\ \A p \in Bodies(C) : \A key : LeftOf(p, key) \in Bodies(C)
  /\ \A key : LeftOf(<<>>, key) = <<>>
PROOF BY KeepTyped, KeepNone DEF LeftOf, Bodies

LEMMA LeftSnoc ==
  ASSUME NEW p \in Bodies(C), NEW x \in Seq(C), NEW key
  PROVE  /\ Entry(x).key # key => LeftOf(WithLast(p, x), key) = WithLast(LeftOf(p, key), x)
         /\ Entry(x).key = key => LeftOf(WithLast(p, x), key) = LeftOf(p, key)
PROOF
  <1> DEFINE X == Seq(C)
             n == Len(p)
             t == WithLast(p, x)
             I == LeftPlaces(p, key)
             K == LeftPlaces(t, key)
  <1>1. p \in Seq(X) /\ x \in X BY DEF Bodies
  <1> HIDE DEF X
  <1>2. /\ n \in Nat /\ t \in Seq(X) /\ Len(t) = n + 1
        /\ t[n + 1] = x /\ \A k \in 1 .. n : t[k] = p[k]
    BY <1>1, SnocIs, SnocAt
  <1>3. DOMAIN p = 1 .. n BY <1>1
  <1>4. DOMAIN t = 1 .. n + 1
    <2> HIDE DEF t, n
    <2>1. DOMAIN t = 1 .. Len(t) BY <1>2
    <2>2. QED BY <1>2, <2>1
  <1> HIDE DEF n, t
  <1>5. \A i \in 1 .. n : i \in I <=> i \in K BY <1>2, <1>3, <1>4 DEF LeftPlaces
  <1>6. n + 1 \in K <=> Entry(x).key # key BY <1>2, <1>4 DEF LeftPlaces
  <1> HIDE DEF I, K
  <1>7. Keep(p, I) = Keep(p, K) BY <1>1, <1>5, KeepSame DEF n
  <1>8. n + 1 \in K => Keep(t, K) = WithLast(Keep(p, K), x) BY <1>1, KeepMore DEF n, t
  <1>9. n + 1 \notin K => Keep(t, K) = Keep(p, K) BY <1>1, KeepMore DEF n, t
  <1>10. LeftOf(t, key) = Keep(t, K) /\ LeftOf(p, key) = Keep(p, I) BY DEF LeftOf, I, K
  <1>11. QED BY <1>6, <1>7, <1>8, <1>9, <1>10 DEF t

LEMMA LeftFacts ==
  ASSUME NEW p \in Bodies(C), NEW key, NEW c, NEW sep \in Seq(C)
  PROVE  /\ Within(LeftOf(p, key), p, sep, c) /\ Shorter(LeftOf(p, key), p, sep)
         /\ NoneHas(c, p) => NoneHas(c, LeftOf(p, key))
         /\ ValueOf(Parsed(LeftOf(p, key)), key) = Absent
         /\ \A k : k # key => ValueOf(Parsed(LeftOf(p, key)), k) = ValueOf(Parsed(p), k)
PROOF
  <1> DEFINE V(s, k) == ValueOf(Parsed(s), k)
             Fine(s) == /\ Within(LeftOf(s, key), s, sep, c) /\ Shorter(LeftOf(s, key), s, sep)
                        /\ NoneHas(c, s) => NoneHas(c, LeftOf(s, key))
                        /\ V(LeftOf(s, key), key) = Absent
                        /\ \A k : k # key => V(LeftOf(s, key), k) = V(s, k)
             T == {s \in Bodies(C) : ~Fine(s)}
  <1> SUFFICES ASSUME T # {} PROVE FALSE OBVIOUS
  <1>1. <<>> \notin T
    <2> DEFINE none == <<>>
    <2>1. LeftOf(none, key) = none BY LeftTyped
    <2>2. Within(none, none, sep, c) /\ Shorter(none, none, sep)
      <3>1. Joined(none, sep) = <<>> /\ Count(c, <<>>) = 0 /\ Len(<<>>) = 0
        BY JoinedNone, CountNone
      <3> HIDE DEF none
      <3>2. QED BY <3>1 DEF Within, Shorter
    <2>3. Parsed(none) = <<>> BY DEF Parsed, Image
    <2>4. V(none, key) = Absent BY <2>3, ValueNone
    <2> HIDE DEF none, V
    <2>5. Fine(none) BY <2>1, <2>2, <2>4
    <2>6. QED BY <2>5 DEF none
  <1>2. PICK s \in Bodies(C), x \in Seq(C) : s \notin T /\ WithLast(s, x) \in T
    <2>1. T \in SUBSET Bodies(C) OBVIOUS
    <2> HIDE DEF T
    <2>2. QED BY <1>1, <2>1, LeastSnoc
  <1>3. Fine(s) /\ ~Fine(WithLast(s, x)) BY <1>2
  <1> HIDE DEF T
  <1> DEFINE e == Entry(x)
             u == LeftOf(s, key)
             v == LeftOf(WithLast(s, x), key)
  <1>4. e \in EntryForms /\ Count(c, x) \in Nat /\ Count(c, x) <= Count(c, x)
    BY EntryFacts, CountIs
  <1>5. u \in Bodies(C) BY LeftTyped
  <1>6. (e.key # key => v = WithLast(u, x)) /\ (e.key = key => v = u) BY LeftSnoc
  <1>7. /\ Within(u, s, sep, c) /\ Shorter(u, s, sep)
        /\ (NoneHas(c, s) => NoneHas(c, u)) /\ V(u, key) = Absent
        /\ \A k : k # key => V(u, k) = V(s, k)
    BY <1>3
  <1> HIDE DEF e, u, v
  <1>8. Within(v, WithLast(s, x), sep, c) BY <1>4, <1>5, <1>6, <1>7, WithinSnoc
  <1>9. Shorter(v, WithLast(s, x), sep) BY <1>5, <1>6, <1>7, ShorterSnoc
  <1>10. NoneHas(c, WithLast(s, x)) => NoneHas(c, v)
    <2>1. NoneHas(c, WithLast(s, x)) <=> Count(c, x) = 0 /\ NoneHas(c, s) BY NoneSnoc
    <2>2. NoneHas(c, WithLast(u, x)) <=> Count(c, x) = 0 /\ NoneHas(c, u) BY <1>5, NoneSnoc
    <2>3. QED BY <1>6, <1>7, <2>1, <2>2
  <1>11. ASSUME NEW k
         PROVE  /\ V(WithLast(s, x), k) = IF V(s, k) # Absent THEN V(s, k)
                                      ELSE IF e.key = k THEN ValueIn(e) ELSE Absent
                /\ V(WithLast(u, x), k) = IF V(u, k) # Absent THEN V(u, k)
                                      ELSE IF e.key = k THEN ValueIn(e) ELSE Absent
    <2>1. /\ Parsed(s) \in Seq(EntryForms) /\ Parsed(WithLast(s, x)) = WithLast(Parsed(s), e)
      BY ParsedSnoc DEF e
    <2>2. /\ Parsed(u) \in Seq(EntryForms) /\ Parsed(WithLast(u, x)) = WithLast(Parsed(u), e)
      BY <1>5, ParsedSnoc DEF e
    <2>3. QED BY <1>4, <2>1, <2>2, ValueSnoc
  <1> HIDE DEF V
  <1>12. V(v, key) = Absent
    <2>1. CASE e.key # key BY <1>6, <1>7, <1>11, <2>1
    <2>2. CASE e.key = key BY <1>6, <1>7, <2>2
    <2>3. QED BY <2>1, <2>2
  <1>13. ASSUME NEW k, k # key PROVE V(v, k) = V(WithLast(s, x), k)
    <2>1. V(u, k) = V(s, k) BY <1>7, <1>13
    <2>2. CASE e.key # key BY <1>6, <1>11, <2>1, <2>2
    <2>3. CASE e.key = key BY <1>6, <1>11, <1>13, <2>1, <2>3
    <2>4. QED BY <2>2, <2>3
  <1>14. Fine(WithLast(s, x)) BY <1>8, <1>9, <1>10, <1>12, <1>13 DEF v
  <1>15. QED BY <1>3, <1>14

-----------------------------------------------------------------------------
(* The texts subfields are written to.                                      *)

Comma == <<",">>

LEMMA CommaText == "," \in C /\ Comma \in Seq(C)
PROOF
  <1>1. "," \in C BY Written
  <1>2. \A x \in C : <<x>> \in Seq(C)
    <2> HIDE DEF C
    <2>1. QED OBVIOUS
  <1>3. Comma \in Seq(C) BY <1>1, <1>2 DEF Comma
  <1>4. QED BY <1>1, <1>3

PartsOf(text) == Split(text, ",")

LEMMA PartsAre ==
  ASSUME NEW text \in Seq(C)
  PROVE  /\ PartsOf(text) \in Bodies(C) /\ PartsOf(text) # <<>>
         /\ NoneHas(",", PartsOf(text))
         /\ Joined(PartsOf(text), Comma) = text
PROOF BY CommaText, SplitTyped, JoinedSplit DEF PartsOf, Bodies, NoneHas, Comma

LEMMA PartsJoined ==
  ASSUME NEW p \in Bodies(C), p # <<>>, NoneHas(",", p)
  PROVE  PartsOf(Joined(p, Comma)) = p
PROOF BY CommaText, SplitJoined DEF PartsOf, NoneHas, Comma

LEMMA EmptyReads == \A k : k # <<>> => DictGet(<<>>, k) = Absent
PROOF
  <1> SUFFICES ASSUME NEW k, k # <<>> PROVE DictGet(<<>>, k) = Absent OBVIOUS
  <1> DEFINE none == <<>>
  <1>1. Entries(none) = none BY DEF Entries
  <1>2. KeyAt(none, k) = 0
    <2>1. none \in Seq(EntryForms) /\ Len(none) = 0 OBVIOUS
    <2> HIDE DEF none
    <2>2. \A i \in 1 .. Len(none) : none[i].key # k BY <2>1
    <2>3. QED BY <2>1, <2>2, KeyAtIs
  <1> HIDE DEF none
  <1>3. DictGet(none, k) = Absent BY <1>1, <1>2 DEF DictGet, KeyAt
  <1>4. QED BY <1>3 DEF none

(* An unset statement: no longer, no more lines, and the other keys stay.   *)
LEMMA DictUnsetFacts ==
  ASSUME NEW text \in Seq(C), NEW key
  PROVE  /\ DictUnset(text, key) \in Seq(C)
         /\ Len(DictUnset(text, key)) <= Len(text)
         /\ \A c : Count(c, DictUnset(text, key)) <= Count(c, text)
         /\ \A k : k # <<>> => DictGet(DictUnset(text, key), k) =
                                 IF k = key THEN Absent ELSE DictGet(text, k)
PROOF
  <1> DEFINE p == PartsOf(text)
             u == LeftOf(p, key)
             j == Joined(u, Comma)
  <1>1. DictUnset(text, key) = IF text = <<>> THEN <<>> ELSE j
    BY DEF DictUnset, PartsOf, LeftOf, LeftPlaces, Comma
  <1>2. Len(text) \in Nat /\ \A c : Count(c, text) \in Nat BY CountIs
  <1>3. p \in Bodies(C) /\ NoneHas(",", p) /\ Joined(p, Comma) = text BY PartsAre
  <1> HIDE DEF p
  <1>4. u \in Bodies(C) BY <1>3, LeftTyped
  <1>5. /\ \A c : Within(u, p, Comma, c)
        /\ Shorter(u, p, Comma)
        /\ NoneHas(",", u)
        /\ ValueOf(Parsed(u), key) = Absent
        /\ \A k : k # key => ValueOf(Parsed(u), k) = ValueOf(Parsed(p), k)
    BY <1>3, CommaText, LeftFacts
  <1> HIDE DEF u
  <1>6. j \in Seq(C) BY <1>4, CommaText, JoinedTyped
  <1>7. /\ Len(j) <= Len(text)
        /\ \A c : Count(c, j) <= Count(c, text)
    BY <1>3, <1>5 DEF Within, Shorter
  <1>8. ASSUME NEW k, k # <<>>
        PROVE  DictGet(j, k) = IF k = key THEN Absent ELSE DictGet(text, k)
    <2>1. DictGet(text, k) = ValueOf(Parsed(p), k) BY <1>8, DictGetIs DEF p, PartsOf
    <2>2. DictGet(j, k) = ValueOf(Parsed(u), k)
      <3>1. CASE u # <<>>
        <4>1. PartsOf(j) = u BY <1>4, <1>5, <3>1, PartsJoined
        <4> HIDE DEF j
        <4>2. DictGet(j, k) = ValueOf(Parsed(Split(j, ",")), k) BY <1>6, <1>8, DictGetIs
        <4>3. QED BY <4>1, <4>2 DEF PartsOf
      <3>2. CASE u = <<>>
        <4>1. j = <<>> BY <3>2, JoinedNone
        <4>2. Parsed(u) = <<>> BY <3>2 DEF Parsed, Image
        <4>3. ValueOf(Parsed(u), k) = Absent BY <4>2, ValueNone
        <4>4. DictGet(j, k) = Absent BY <1>8, <4>1, EmptyReads
        <4>5. QED BY <4>3, <4>4
      <3>3. QED BY <3>1, <3>2
    <2>3. QED BY <1>5, <2>1, <2>2
  <1> HIDE DEF j
  <1>9. CASE text # <<>>
    <2>1. DictUnset(text, key) = j BY <1>1, <1>9
    <2>2. QED BY <1>6, <1>7, <1>8, <2>1
  <1>10. CASE text = <<>>
    <2>1. DictUnset(text, key) = text BY <1>1, <1>10
    <2>2. \A k : k # <<>> => DictGet(text, k) = Absent BY <1>10, EmptyReads
    <2>3. Len(text) <= Len(text) /\ \A c : Count(c, text) <= Count(c, text) BY <1>2
    <2> HIDE <1>10
    <2>4. QED BY <2>1, <2>2, <2>3
  <1>11. QED BY <1>9, <1>10

-----------------------------------------------------------------------------
(* A set statement.                                                         *)

LEMMA EmptyEntry ==
  /\ <<>> \in Seq(C) /\ Trim(<<>>) = <<>>
  /\ Entry(<<>>) = [key |-> <<>>, val |-> Absent]
PROOF
  <1> DEFINE nil == <<>>
  <1>1. nil \in Seq(C) /\ Count("=", nil) = 0 BY EmptyText, CountNone
  <1>2. Trimmed(nil) BY DEF Trimmed
  <1> HIDE DEF nil
  <1>3. Trim(nil) = nil BY <1>1, <1>2, TrimSame
  <1>4. Entry(nil) = [key |-> Trim(nil), val |-> Absent] BY <1>1, EntryBare
  <1>5. QED BY <1>1, <1>3, <1>4 DEF nil

LEMMA EmptyShows == \A key : Shows(PartsOf(<<>>), key) = <<>>
PROOF
  <1> SUFFICES ASSUME NEW key PROVE Shows(PartsOf(<<>>), key) = <<>> OBVIOUS
  <1> DEFINE nil == <<>>
             none == <<>>
             p == PartsOf(nil)
  <1>1. p = WithLast(none, nil)
    <2>1. Count(",", nil) = 0 BY CountNone
    <2>2. nil \in Seq(C) BY EmptyText
    <2> HIDE DEF nil
    <2>3. p = <<nil>> BY <2>1, <2>2, SplitOne DEF PartsOf
    <2> HIDE DEF p
    <2>4. QED BY <2>3 DEF WithLast
  <1>2. nil \in Seq(C) /\ none \in Bodies(C) BY EmptyText, BodiesAre
  <1>3. Entry(nil).key = <<>> BY EmptyEntry
  <1>4. Shows(none, key) = <<>> BY ShowsTyped
  <1> HIDE DEF nil, none, p
  <1>5. Shows(WithLast(none, nil), key) = Shows(none, key) BY <1>2, <1>3, ShowsSnoc
  <1>6. QED BY <1>1, <1>4, <1>5 DEF p, nil

LEMMA EntriesAre ==
  ASSUME NEW text \in Seq(C)
  PROVE  Entries(text) = IF text = <<>> THEN <<>> ELSE Parsed(PartsOf(text))
PROOF
  <1> DEFINE p == PartsOf(text)
  <1>1. p \in Bodies(C) BY PartsAre
  <1>2. Entries(<<>>) = <<>> BY DEF Entries
  <1>3. text # <<>> => Entries(text) = [i \in DOMAIN p |-> Entry(p[i])] BY DEF Entries, PartsOf
  <1> HIDE DEF p
  <1>4. \A i \in DOMAIN p : Entry(p[i]) = ParseOf[p[i]]
    <2>1. \A i \in DOMAIN p : p[i] \in Seq(C) BY <1>1 DEF Bodies
    <2>2. QED BY <2>1 DEF ParseOf
  <1>5. [i \in DOMAIN p |-> Entry(p[i])] = Parsed(p) BY <1>4 DEF Parsed, Image
  <1>6. QED BY <1>2, <1>3, <1>5 DEF p

NewEntry(key, value) == [key |-> key, val |-> IF value = <<>> THEN Absent ELSE value]

LEMMA DictSetIs ==
  ASSUME NEW text \in Seq(C), NEW key \in Seq(C), NEW value \in Seq(C)
  PROVE  DictSet(text, key, value) =
           Joined(WithLast(Shows(PartsOf(text), key), Shown(NewEntry(key, value))), Comma)
PROOF
  <1> DEFINE held == Entries(text)
             kept == Others(held, key)
             e == NewEntry(key, value)
             all == WithLast(kept, e)
             p == PartsOf(text)
  <1>1. DictSet(text, key, value) = Joined([i \in DOMAIN all |-> Shown(all[i])], Comma)
    BY DEF DictSet, Others, OtherPlaces, NewEntry, WithLast, Shown, Comma
  <1>2. e \in EntryForms BY DEF EntryForms, NewEntry
  <1>3. p \in Bodies(C) BY PartsAre
  <1>4. /\ held \in Seq(EntryForms)
        /\ Image(ShowOf, kept) = Shows(p, key)
    <2>1. CASE text # <<>>
      <3>1. held = Parsed(p) BY <2>1, EntriesAre
      <3>2. Parsed(p) \in Seq(EntryForms) BY <1>3, EmptyEntry, ParsedSnoc
      <3> HIDE DEF held, p
      <3>3. QED BY <3>1, <3>2 DEF Shows
    <2>2. CASE text = <<>>
      <3>1. held = <<>> BY <2>2, EntriesAre
      <3>2. kept = <<>> BY <3>1, OthersTyped
      <3>3. Image(ShowOf, <<>>) = <<>> BY DEF Image
      <3>4. Shows(p, key) = <<>> BY <2>2, EmptyShows
      <3>5. <<>> \in Seq(EntryForms) BY EmptyText
      <3> HIDE DEF held, kept, p
      <3>6. QED BY <3>1, <3>2, <3>3, <3>4, <3>5
    <2>3. QED BY <2>1, <2>2
  <1> HIDE DEF held, e, p
  <1>5. kept \in Seq(EntryForms) BY <1>4, OthersTyped
  <1> HIDE DEF kept
  <1>6. all \in Seq(EntryForms) BY <1>2, <1>5, SnocIs
  <1>7. ShowOf \in [EntryForms -> Seq(C)] BY ShownTyped DEF ShowOf
  <1>8. Image(ShowOf, all) = WithLast(Image(ShowOf, kept), ShowOf[e]) BY <1>2, <1>5, <1>7, ImageSnoc
  <1>9. ShowOf[e] = Shown(e) BY <1>2 DEF ShowOf
  <1> HIDE DEF all
  <1>10. [i \in DOMAIN all |-> Shown(all[i])] = Image(ShowOf, all)
    <2>1. \A i \in DOMAIN all : all[i] \in EntryForms BY <1>6
    <2>2. \A i \in DOMAIN all : Shown(all[i]) = ShowOf[all[i]] BY <2>1 DEF ShowOf
    <2>3. QED BY <2>2 DEF Image
  <1>11. QED BY <1>1, <1>4, <1>8, <1>9, <1>10 DEF e, p

(* What the name of a subfield has none of.                                 *)
PlainKey(key) ==
  /\ key # <<>> /\ Count("=", key) = 0 /\ Count(",", key) = 0
  /\ Count("LF", key) = 0 /\ Count(" ", key) = 0

(* It adds no lines, the key reads its value, and the other keys stay.      *)
LEMMA DictSetFacts ==
  ASSUME NEW text \in Seq(C), NEW key \in Seq(C), NEW value \in Seq(C), PlainKey(key)
  PROVE  /\ DictSet(text, key, value) \in Seq(C)
         /\ Count("LF", value) = 0 =>
              Count("LF", DictSet(text, key, value)) <= Count("LF", text)
         /\ Count(",", value) = 0 =>
              \A k : k # <<>> => DictGet(DictSet(text, key, value), k) =
                                   IF k = key THEN Trim(value) ELSE DictGet(text, k)
PROOF
  <1> DEFINE p == PartsOf(text)
             u == Shows(p, key)
             e == NewEntry(key, value)
             y == Shown(e)
             all == WithLast(u, y)
             j == Joined(all, Comma)
  <1>1. DictSet(text, key, value) = j BY DictSetIs
  <1>2. p \in Bodies(C) /\ NoneHas(",", p) /\ Joined(p, Comma) = text BY PartsAre
  <1>3. Trim(key) = key /\ Count("=", key) = 0 BY TrimNone DEF PlainKey
  <1>4. /\ e \in EntryForms /\ y \in Seq(C)
        /\ Entry(y).key = key
        /\ Entry(y).val = IF value = <<>> THEN Absent ELSE Trim(value)
        /\ \A c : c # "=" => Count(c, y) = Count(c, key) + Count(c, value)
    BY <1>3, EntrySet DEF NewEntry
  <1>5. Entry(y) \in EntryForms /\ ValueIn(Entry(y)) = Trim(value)
    <2>1. Entry(y) \in EntryForms BY <1>4, EntryFacts
    <2>2. Trim(value) \in Seq(C) BY TrimFacts
    <2>3. Trim(value) # Absent BY <2>2, NotAbsent
    <2> HIDE DEF y
    <2>4. CASE value = <<>>
      <3>1. Trim(value) = <<>> BY <2>4, EmptyEntry
      <3>2. QED BY <1>4, <2>1, <2>4, <3>1 DEF ValueIn
    <2>5. CASE value # <<>> BY <1>4, <2>1, <2>3, <2>5 DEF ValueIn
    <2>6. QED BY <2>4, <2>5
  <1> HIDE DEF p, e
  <1>6. u \in Bodies(C) BY <1>2, ShowsTyped
  <1>7. /\ Within(u, p, Comma, "LF")
        /\ NoneHas(",", u)
        /\ ValueOf(Parsed(u), key) = Absent
        /\ \A k : k \notin {key, <<>>} => ValueOf(Parsed(u), k) = ValueOf(Parsed(p), k)
    BY <1>2, CommaText, ShowsFacts
  <1>13. \A c : c # "=" => Count(c, y) = Count(c, key) + Count(c, value) BY <1>4
  <1>14. y \in Seq(C) /\ Entry(y).key = key BY <1>4
  <1> HIDE DEF u, y
  <1>15. ASSUME NEW c, c # "=", Count(c, key) = 0, Count(c, value) = 0
         PROVE  Count(c, y) = 0
    <2>1. Count(c, y) = Count(c, key) + Count(c, value) BY <1>13, <1>15
    <2> HIDE DEF all, j
    <2>2. QED BY <1>15, <2>1
  <1>8. all \in Bodies(C) /\ all # <<>> BY <1>4, <1>6, SnocBody
  <1>9. j \in Seq(C) BY <1>8, CommaText, JoinedTyped
  <1>10. Count("LF", value) = 0 => Count("LF", j) <= Count("LF", text)
    <2>1. Count("LF", value) = 0 => Count("LF", y) = 0 BY <1>15 DEF PlainKey
    <2>2. j = IF u = <<>> THEN y ELSE Linked(Joined(u, Comma), Comma, y)
      <3> DEFINE sep == Comma
      <3>1. sep \in Seq(C) BY CommaText
      <3> HIDE DEF sep
      <3>2. Joined(WithLast(u, y), sep) = IF u = <<>> THEN y ELSE Linked(Joined(u, sep), sep, y)
        BY <1>6, <1>14, <3>1, JoinedSnoc
      <3>3. QED BY <3>2 DEF sep
    <2>3. Count("LF", Joined(u, Comma)) <= Count("LF", text) BY <1>2, <1>7 DEF Within
    <2>4. Count("LF", Comma) = 0 BY CountOne DEF Comma
    <2>5. Joined(u, Comma) \in Seq(C) BY <1>6, CommaText, JoinedTyped
    <2>6. Count("LF", text) \in Nat BY CountIs
    <2>7. Count("LF", Linked(Joined(u, Comma), Comma, y)) =
            Count("LF", Joined(u, Comma)) + Count("LF", Comma) + Count("LF", y)
          /\ Count("LF", Joined(u, Comma)) \in Nat
      <3> DEFINE sep == Comma  w == Joined(u, Comma)
      <3>1. sep \in Seq(C) /\ w \in Seq(C) BY <2>5, CommaText
      <3> HIDE DEF sep, w
      <3>2. /\ Count("LF", Linked(w, sep, y)) = Count("LF", w) + Count("LF", sep) + Count("LF", y)
            /\ Count("LF", w) \in Nat
        BY <1>14, <3>1, LinkedCount
      <3>3. QED BY <3>2 DEF sep, w
    <2> HIDE DEF j
    <2>8. QED BY <2>1, <2>2, <2>3, <2>4, <2>6, <2>7
  <1>11. ASSUME Count(",", value) = 0, NEW k, k # <<>>
         PROVE  DictGet(j, k) = IF k = key THEN Trim(value) ELSE DictGet(text, k)
    <2>1. NoneHas(",", all)
      <3>2. Count(",", y) = 0 BY <1>11, <1>15 DEF PlainKey
      <3> HIDE DEF all, j
      <3>3. QED BY <1>6, <1>7, <1>14, <3>2, NoneSnoc DEF all
    <2>2. PartsOf(j) = all BY <1>8, <2>1, PartsJoined
    <2> HIDE DEF j
    <2>3. DictGet(j, k) = ValueOf(Parsed(all), k) BY <1>9, <1>11, <2>2, DictGetIs DEF PartsOf
    <2>4. /\ Parsed(u) \in Seq(EntryForms)
          /\ Parsed(all) = WithLast(Parsed(u), Entry(y))
      BY <1>6, <1>14, ParsedSnoc
    <2> HIDE DEF all
    <2>5. ValueOf(Parsed(all), k) =
            IF ValueOf(Parsed(u), k) # Absent THEN ValueOf(Parsed(u), k)
            ELSE IF Entry(y).key = k THEN ValueIn(Entry(y)) ELSE Absent
      <3> DEFINE es == Parsed(u)  f == Entry(y)
      <3>1. es \in Seq(EntryForms) /\ f \in EntryForms BY <1>5, <2>4
      <3>2. Parsed(all) = WithLast(es, f) BY <2>4
      <3> HIDE DEF es, f
      <3>3. ValueOf(WithLast(es, f), k) = IF ValueOf(es, k) # Absent THEN ValueOf(es, k)
                                      ELSE IF f.key = k THEN ValueIn(f) ELSE Absent
        BY <3>1, ValueSnoc
      <3>4. QED BY <3>2, <3>3 DEF es, f
    <2>6. DictGet(text, k) = ValueOf(Parsed(p), k) BY <1>11, DictGetIs DEF p, PartsOf
    <2>7. CASE k = key BY <1>5, <1>7, <1>14, <2>3, <2>5, <2>7
    <2>8. CASE k # key
      <3>1. ValueOf(Parsed(u), k) = ValueOf(Parsed(p), k) BY <1>7, <1>11, <2>8
      <3>2. QED BY <1>14, <2>3, <2>5, <2>6, <2>8, <3>1
    <2>9. QED BY <2>7, <2>8
  <1> HIDE DEF j
  <1>12. QED BY <1>1, <1>9, <1>10, <1>11
=============================================================================
