-------------------------------- MODULE Sums --------------------------------
(***************************************************************************)
(* Sums over finite sets, as MapThenSumSet of the community modules         *)
(* computes them (what a sum is does not depend on the order in which its   *)
(* elements are taken, and grows with the set), and least and largest       *)
(* elements.                                                                *)
(*                                                                          *)
(* The induction here is by a least counterexample, which exists in any     *)
(* set of natural numbers and in any set of subsets of a finite set.        *)
(***************************************************************************)
EXTENDS Integers, FiniteSetsExt, FiniteSetTheorems, WellFoundedInduction, TLAPS

(* The sum of d over S.                                                     *)
SumOf(d, S) == MapThenSumSet(LAMBDA x : d[x], S)

Picked(s) == CHOOSE x \in s : TRUE

(* f holds the sums of d over the subsets of S.                             *)
Summing(d, S, f) ==
  f = [s \in SUBSET S |-> IF s = {} THEN 0 ELSE d[Picked(s)] + f[s \ {Picked(s)}]]

-----------------------------------------------------------------------------
(* Least counterexamples.                                                   *)

LEMMA LeastNat ==
  ASSUME NEW T \in SUBSET Nat, T # {}
  PROVE  \E x \in T : \A y \in T : x <= y
PROOF
  <1> DEFINE R == OpToRel(<, Nat)
  <1>1. IsWellFoundedOn(R, Nat) BY NatLessThanWellFounded
  <1> HIDE DEF R
  <1>2. PICK x \in T : \A y \in T : ~(<<y, x>> \in R) BY <1>1, WFMin
  <1>3. \A y \in T : ~(y < x) BY <1>2 DEF R, OpToRel
  <1>4. QED BY <1>3

LEMMA MinIsLeast ==
  ASSUME NEW s \in SUBSET Nat, s # {}
  PROVE  Min(s) \in s /\ \A y \in s : Min(s) <= y
PROOF
  <1>1. \E x \in s : \A y \in s : x <= y BY LeastNat
  <1>2. QED BY <1>1 DEF Min

LEMMA MinIsThat ==
  ASSUME NEW s \in SUBSET Nat, NEW m \in s, \A y \in s : m <= y
  PROVE  Min(s) = m
PROOF
  <1>1. Min(s) \in s /\ Min(s) <= m BY MinIsLeast
  <1>2. Min(s) \in Nat /\ m \in Nat /\ m <= Min(s) BY <1>1
  <1>3. QED BY <1>1, <1>2

LEMMA PlacesFinite ==
  ASSUME NEW n \in Nat
  PROVE  IsFiniteSet(1 .. n)
PROOF
  <1>1. 1 \in Int /\ n \in Int OBVIOUS
  <1>2. QED BY <1>1, FS_Interval

LEMMA ImageFinite ==
  ASSUME NEW S, IsFiniteSet(S), NEW f
  PROVE  IsFiniteSet({f[x] : x \in S})
PROOF
  <1> DEFINE T == {f[x] : x \in S}
             g == [x \in S |-> f[x]]
  <1>1. g \in Surjection(S, T) BY DEF Surjection
  <1> HIDE DEF T, g
  <1>2. IsFiniteSet(T) BY <1>1, FS_Surjection
  <1>3. QED BY <1>2 DEF T

LEMMA LeastSet ==
  ASSUME NEW S, IsFiniteSet(S), NEW T \in SUBSET (SUBSET S), T # {}
  PROVE  \E x \in T : \A y \in T : y \subseteq x => y = x
PROOF
  <1> DEFINE cards == {Cardinality(x) : x \in T}
  <1>1. \A x \in T : IsFiniteSet(x) /\ Cardinality(x) \in Nat BY FS_Subset, FS_CardinalityType
  <1>2. cards \in SUBSET Nat /\ cards # {} BY <1>1
  <1> HIDE DEF cards
  <1>3. PICK n \in cards : \A y \in cards : n <= y BY <1>2, LeastNat
  <1>4. PICK x \in T : n = Cardinality(x) BY <1>3 DEF cards
  <1>5. \A y \in T : y \subseteq x => y = x
    <2> SUFFICES ASSUME NEW y \in T, y \subseteq x PROVE y = x OBVIOUS
    <2>1. Cardinality(y) <= Cardinality(x) /\ (Cardinality(x) = Cardinality(y) => x = y)
      BY <1>1, FS_Subset
    <2>2. Cardinality(x) <= Cardinality(y) BY <1>3, <1>4 DEF cards
    <2>3. QED BY <1>1, <2>1, <2>2
  <1>6. QED BY <1>4, <1>5

Topless(s) == s # {} /\ \A x \in s : \E y \in s : ~(x >= y)

LEMMA LeastTopless ==
  ASSUME NEW S, IsFiniteSet(S), Topless(S)
  PROVE  \E s \in SUBSET S : Topless(s) /\ \A t \in SUBSET s : Topless(t) => t = s
PROOF
  <1> DEFINE T == {s \in SUBSET S : Topless(s)}
  <1>1. T \in SUBSET (SUBSET S) /\ T # {} OBVIOUS
  <1>2. PICK s \in T : \A t \in T : t \subseteq s => t = s
    <2> HIDE DEF T
    <2>1. QED BY <1>1, LeastSet
  <1>3. QED BY <1>2

LEMMA NoneTopless ==
  ASSUME NEW S, S \subseteq Nat, IsFiniteSet(S)
  PROVE  ~Topless(S)
PROOF
  <1> SUFFICES ASSUME Topless(S) PROVE FALSE OBVIOUS
  <1>1. PICK s \in SUBSET S : Topless(s) /\ \A t \in SUBSET s : Topless(t) => t = s
    BY LeastTopless
  <1>2. PICK a : a \in s BY <1>1 DEF Topless
  <1> DEFINE t == s \ {a}
  <1>3. t \in SUBSET s /\ t # s /\ t \subseteq s BY <1>2
  <1>4. t # {}
    <2> SUFFICES ASSUME t = {} PROVE FALSE OBVIOUS
    <2>1. s = {a} BY <1>2
    <2>2. a \in Nat BY <1>2
    <2>3. QED BY <1>1, <2>1, <2>2 DEF Topless
  <1>5. ~Topless(t) BY <1>1, <1>3
  <1>6. PICK x \in t : \A y \in t : x >= y BY <1>3, <1>4, <1>5 DEF Topless
  <1>7. a \in Nat /\ x \in Nat /\ s \subseteq Nat /\ s \subseteq t \cup {a} BY <1>2
  <1>8. Topless(s) BY <1>1
  <1>9. CASE a >= x
    <2>1. \A y \in s : a >= y BY <1>6, <1>7, <1>9
    <2>2. QED BY <1>2, <1>8, <2>1 DEF Topless
  <1>10. CASE ~(a >= x)
    <2>1. \A y \in s : x >= y BY <1>6, <1>7, <1>10
    <2>2. QED BY <1>6, <1>8, <2>1 DEF Topless
  <1>11. QED BY <1>9, <1>10

LEMMA MaxIsLargest ==
  ASSUME NEW S, S \subseteq Nat, IsFiniteSet(S), S # {}
  PROVE  Max(S) \in S /\ \A y \in S : y <= Max(S)
PROOF
  <1>1. \E x \in S : \A y \in S : x >= y BY NoneTopless DEF Topless
  <1>2. Max(S) \in S /\ \A y \in S : Max(S) >= y BY <1>1 DEF Max
  <1>3. QED BY <1>2

-----------------------------------------------------------------------------
(* The recursive function behind a sum exists, and there is only one.       *)

LEMMA PickedIsIn ==
  ASSUME NEW s, s # {}
  PROVE  Picked(s) \in s
PROOF BY DEF Picked

LEMMA SummingAt ==
  ASSUME NEW d, NEW S, NEW f, Summing(d, S, f), NEW s \in SUBSET S
  PROVE  f[s] = IF s = {} THEN 0 ELSE d[Picked(s)] + f[s \ {Picked(s)}]
PROOF BY DEF Summing

LEMMA SummingUnique ==
  ASSUME NEW d, NEW S, IsFiniteSet(S), NEW U \in SUBSET S,
         NEW f, Summing(d, S, f), NEW g, Summing(d, U, g)
  PROVE  \A s \in SUBSET U : f[s] = g[s]
PROOF
  <1> DEFINE T == {s \in SUBSET U : f[s] # g[s]}
  <1> SUFFICES ASSUME T # {} PROVE FALSE OBVIOUS
  <1>1. IsFiniteSet(U) BY FS_Subset
  <1>2. PICK s \in T : \A t \in T : t \subseteq s => t = s
    <2>1. T \in SUBSET (SUBSET U) OBVIOUS
    <2> HIDE DEF T
    <2>2. QED BY <1>1, <2>1, LeastSet
  <1>3. s \in SUBSET U /\ s \in SUBSET S OBVIOUS
  <1>4. s # {} BY <1>2, <1>3, SummingAt
  <1> DEFINE t == s \ {Picked(s)}
  <1>5. Picked(s) \in s BY <1>4, PickedIsIn
  <1>6. t \in SUBSET U /\ t \subseteq s /\ t # s BY <1>5
  <1>7. f[t] = g[t] BY <1>2, <1>6
  <1>8. f[s] = d[Picked(s)] + f[t] /\ g[s] = d[Picked(s)] + g[t] BY <1>3, <1>4, SummingAt
  <1>9. QED BY <1>2, <1>7, <1>8

LEMMA SummingExists ==
  ASSUME NEW d, NEW S, IsFiniteSet(S)
  PROVE  \E f : Summing(d, S, f)
PROOF
  <1> DEFINE T == {s \in SUBSET S : ~ \E f : Summing(d, s, f)}
  <1> SUFFICES ASSUME T # {} PROVE FALSE OBVIOUS
  <1>1. PICK s \in T : \A t \in T : t \subseteq s => t = s
    <2>1. T \in SUBSET (SUBSET S) OBVIOUS
    <2> HIDE DEF T
    <2>2. QED BY <2>1, LeastSet
  <1>2. IsFiniteSet(s) /\ s \in SUBSET S BY FS_Subset
  <1> DEFINE h(t) == CHOOSE f : Summing(d, t, f)
             g(t) == h(t)[t]
             f == [t \in SUBSET s |-> IF t = {} THEN 0
                                      ELSE d[Picked(t)] + g(t \ {Picked(t)})]
  <1>3. ASSUME NEW t \in SUBSET s, t # s PROVE Summing(d, t, h(t))
    <2>1. t \notin T /\ t \in SUBSET S BY <1>1, <1>2, <1>3
    <2>2. \E e : Summing(d, t, e) BY <2>1
    <2>3. QED BY <2>2
  <1>4. ASSUME NEW t \in SUBSET s, t # s PROVE f[t] = g(t)
    <2>1. Summing(d, t, h(t)) BY <1>3, <1>4
    <2> HIDE DEF h
    <2>2. t \in SUBSET t OBVIOUS
    <2>3. h(t)[t] = IF t = {} THEN 0 ELSE d[Picked(t)] + h(t)[t \ {Picked(t)}]
      BY <2>1, <2>2, SummingAt
    <2>4. CASE t = {} BY <2>3, <2>4
    <2>5. CASE t # {}
      <3> DEFINE u == t \ {Picked(t)}
      <3>1. u \in SUBSET t /\ u \in SUBSET s /\ u # s BY <1>4
      <3>2. Summing(d, u, h(u)) BY <1>3, <3>1
      <3>3. IsFiniteSet(t) BY <1>2, FS_Subset
      <3>4. u \in SUBSET u OBVIOUS
      <3>5. h(t)[u] = h(u)[u] BY <2>1, <3>1, <3>2, <3>3, <3>4, SummingUnique
      <3>6. QED BY <2>3, <2>5, <3>5
    <2>6. QED BY <2>4, <2>5
  <1> HIDE DEF h
  <1>5. \A t \in SUBSET s : t # {} => f[t \ {Picked(t)}] = g(t \ {Picked(t)})
    <2> SUFFICES ASSUME NEW t \in SUBSET s, t # {}
                 PROVE  f[t \ {Picked(t)}] = g(t \ {Picked(t)})
      OBVIOUS
    <2>1. Picked(t) \in t BY PickedIsIn
    <2>2. t \ {Picked(t)} \in SUBSET s /\ t \ {Picked(t)} # s BY <2>1
    <2>3. QED BY <1>4, <2>2
  <1>6. f = [t \in SUBSET s |-> IF t = {} THEN 0 ELSE d[Picked(t)] + f[t \ {Picked(t)}]]
    BY <1>5
  <1>7. Summing(d, s, f) BY <1>6 DEF Summing
  <1>8. QED BY <1>1, <1>7

LEMMA SumIs ==
  ASSUME NEW d, NEW S, IsFiniteSet(S), NEW f, Summing(d, S, f)
  PROVE  SumOf(d, S) = f[S]
PROOF
  <1> DEFINE g == CHOOSE g : Summing(d, S, g)
  <1>1. Summing(d, S, g) OBVIOUS
  <1>2. SumOf(d, S) = g[S]
    BY DEF SumOf, MapThenSumSet, MapThenFoldSet, Summing, Picked
  <1> HIDE DEF g
  <1>3. S \in SUBSET S OBVIOUS
  <1>4. f[S] = g[S] BY <1>1, <1>3, SummingUnique
  <1>5. QED BY <1>2, <1>4

LEMMA SumEmpty ==
  ASSUME NEW d
  PROVE  SumOf(d, {}) = 0
PROOF
  <1>1. IsFiniteSet({}) BY FS_EmptySet
  <1>2. PICK f : Summing(d, {}, f) BY <1>1, SummingExists
  <1>3. {} \in SUBSET {} OBVIOUS
  <1>4. f[{}] = 0 BY <1>2, <1>3, SummingAt
  <1>5. QED BY <1>1, <1>2, <1>4, SumIs

LEMMA SumPicked ==
  ASSUME NEW d, NEW S, IsFiniteSet(S), S # {}
  PROVE  SumOf(d, S) = d[Picked(S)] + SumOf(d, S \ {Picked(S)})
PROOF
  <1> DEFINE U == S \ {Picked(S)}
  <1>1. PICK f : Summing(d, S, f) BY SummingExists
  <1>2. U \in SUBSET S /\ S \in SUBSET S OBVIOUS
  <1>3. IsFiniteSet(U) BY <1>2, FS_Subset
  <1>4. PICK g : Summing(d, U, g) BY <1>3, SummingExists
  <1>5. f[S] = d[Picked(S)] + f[U] BY <1>1, <1>2, SummingAt
  <1> HIDE DEF U
  <1>6. \A s \in SUBSET U : f[s] = g[s] BY <1>1, <1>2, <1>4, SummingUnique
  <1>7. f[U] = g[U] BY <1>6
  <1>8. SumOf(d, S) = f[S] /\ SumOf(d, U) = g[U] BY <1>1, <1>3, <1>4, SumIs
  <1>9. QED BY <1>5, <1>7, <1>8 DEF U

-----------------------------------------------------------------------------
(* Laws of sums of natural numbers.                                         *)

LEMMA SumIsNat ==
  ASSUME NEW d, NEW S, IsFiniteSet(S), \A x \in S : d[x] \in Nat
  PROVE  SumOf(d, S) \in Nat
PROOF
  <1> DEFINE T == {s \in SUBSET S : SumOf(d, s) \notin Nat}
  <1> SUFFICES ASSUME T # {} PROVE FALSE OBVIOUS
  <1>1. PICK s \in T : \A t \in T : t \subseteq s => t = s
    <2>1. T \in SUBSET (SUBSET S) OBVIOUS
    <2> HIDE DEF T
    <2>2. QED BY <2>1, LeastSet
  <1>2. IsFiniteSet(s) BY FS_Subset
  <1>3. s # {} BY SumEmpty
  <1>4. Picked(s) \in s BY <1>3, PickedIsIn
  <1>5. SumOf(d, s) = d[Picked(s)] + SumOf(d, s \ {Picked(s)}) BY <1>2, <1>3, SumPicked
  <1>6. SumOf(d, s \ {Picked(s)}) \in Nat BY <1>1, <1>4
  <1>7. QED BY <1>4, <1>5, <1>6

(* Any element may be taken first.                                          *)
LEMMA SumRemove ==
  ASSUME NEW d, NEW S, IsFiniteSet(S), \A x \in S : d[x] \in Nat, NEW x \in S
  PROVE  SumOf(d, S) = d[x] + SumOf(d, S \ {x})
PROOF
  <1> DEFINE T == {s \in SUBSET S : \E y \in s : SumOf(d, s) # d[y] + SumOf(d, s \ {y})}
  <1>1. T = {}
    <2> SUFFICES ASSUME T # {} PROVE FALSE OBVIOUS
    <2>1. PICK s \in T : \A t \in T : t \subseteq s => t = s
      <3>1. T \in SUBSET (SUBSET S) OBVIOUS
      <3> HIDE DEF T
      <3>2. QED BY <3>1, LeastSet
    <2>2. PICK y \in s : SumOf(d, s) # d[y] + SumOf(d, s \ {y}) OBVIOUS
    <2> DEFINE z == Picked(s)
    <2>3. z \in s BY PickedIsIn
    <2>4. SumOf(d, s) = d[z] + SumOf(d, s \ {z})
      <3>1. IsFiniteSet(s) BY FS_Subset
      <3>2. QED BY <2>2, <3>1, SumPicked
    <2> HIDE DEF z
    <2>5. z # y BY <2>2, <2>4
    <2>12. ASSUME NEW v \in s, NEW w \in s, v # w
           PROVE  SumOf(d, s \ {v}) = d[w] + SumOf(d, (s \ {v}) \ {w})
      <3> DEFINE t == s \ {v}
      <3>1. t \in SUBSET S /\ t \subseteq s /\ t # s /\ w \in t BY <2>12
      <3>2. t \notin T BY <2>1, <3>1
      <3>3. QED BY <3>1, <3>2
    <2>6. SumOf(d, s \ {z}) = d[y] + SumOf(d, (s \ {z}) \ {y}) BY <2>3, <2>5, <2>12
    <2>7. SumOf(d, s \ {y}) = d[z] + SumOf(d, (s \ {y}) \ {z}) BY <2>3, <2>5, <2>12
    <2>8. (s \ {z}) \ {y} = (s \ {y}) \ {z} OBVIOUS
    <2>9. SumOf(d, (s \ {z}) \ {y}) \in Nat
      <3>1. IsFiniteSet((s \ {z}) \ {y}) BY FS_Subset
      <3>2. QED BY <3>1, SumIsNat
    <2>10. d[y] \in Nat /\ d[z] \in Nat BY <2>3
    <2>11. QED BY <2>2, <2>4, <2>6, <2>7, <2>8, <2>9, <2>10
  <1>2. QED BY <1>1

LEMMA SumAdd ==
  ASSUME NEW d, NEW S, IsFiniteSet(S), \A y \in S : d[y] \in Nat,
         NEW x, x \notin S, d[x] \in Nat
  PROVE  SumOf(d, S \cup {x}) = SumOf(d, S) + d[x]
PROOF
  <1> DEFINE U == S \cup {x}
  <1>1. IsFiniteSet(U) BY FS_AddElement
  <1>2. U \ {x} = S /\ x \in U OBVIOUS
  <1>3. \A y \in U : d[y] \in Nat OBVIOUS
  <1> HIDE DEF U
  <1>4. SumOf(d, U) = d[x] + SumOf(d, S) BY <1>1, <1>2, <1>3, SumRemove
  <1>5. SumOf(d, S) \in Nat BY SumIsNat
  <1>6. QED BY <1>4, <1>5 DEF U

LEMMA SumDisjoint ==
  ASSUME NEW d, NEW S, IsFiniteSet(S), NEW U, IsFiniteSet(U), S \cap U = {},
         \A y \in S \cup U : d[y] \in Nat
  PROVE  SumOf(d, S \cup U) = SumOf(d, S) + SumOf(d, U)
PROOF
  <1> DEFINE T == {s \in SUBSET U : SumOf(d, S \cup s) # SumOf(d, S) + SumOf(d, s)}
  <1>1. T = {}
    <2> SUFFICES ASSUME T # {} PROVE FALSE OBVIOUS
    <2>1. PICK s \in T : \A t \in T : t \subseteq s => t = s
      <3>1. T \in SUBSET (SUBSET U) OBVIOUS
      <3> HIDE DEF T
      <3>2. QED BY <3>1, LeastSet
    <2>2. IsFiniteSet(s) BY FS_Subset
    <2>3. SumOf(d, S) \in Nat BY SumIsNat
    <2>4. s # {}
      <3> SUFFICES ASSUME s = {} PROVE FALSE OBVIOUS
      <3>1. S \cup s = S /\ SumOf(d, s) = 0 BY SumEmpty
      <3>2. SumOf(d, S \cup s) # SumOf(d, S) + SumOf(d, s) OBVIOUS
      <3>3. QED BY <2>3, <3>1, <3>2
    <2>5. PICK y \in s : TRUE BY <2>4
    <2> DEFINE t == s \ {y}
    <2>6. t \subseteq s /\ t # s /\ t \in SUBSET U /\ IsFiniteSet(t) BY <2>2, FS_Subset
    <2>7. SumOf(d, S \cup t) = SumOf(d, S) + SumOf(d, t) BY <2>1, <2>6
    <2>8. SumOf(d, s) = d[y] + SumOf(d, t)
      <3>1. \A z \in s : d[z] \in Nat OBVIOUS
      <3>2. QED BY <2>2, <3>1, SumRemove
    <2>9. SumOf(d, S \cup s) = d[y] + SumOf(d, S \cup t)
      <3>1. (S \cup s) \ {y} = S \cup t /\ y \in S \cup s OBVIOUS
      <3>2. IsFiniteSet(S \cup s) BY <2>2, FS_Union
      <3>3. \A z \in S \cup s : d[z] \in Nat OBVIOUS
      <3> DEFINE W == S \cup s
      <3> HIDE DEF t
      <3>4. SumOf(d, W) = d[y] + SumOf(d, W \ {y})
        <4>1. IsFiniteSet(W) /\ y \in W /\ \A z \in W : d[z] \in Nat BY <3>1, <3>2, <3>3
        <4> HIDE DEF W
        <4>2. QED BY <4>1, SumRemove
      <3>5. QED BY <3>1, <3>4
    <2>10. d[y] \in Nat /\ SumOf(d, t) \in Nat BY <2>6, SumIsNat
    <2>11. QED BY <2>1, <2>3, <2>7, <2>8, <2>9, <2>10
  <1>2. QED BY <1>1

LEMMA SumMonotone ==
  ASSUME NEW d, NEW U, IsFiniteSet(U), NEW S \in SUBSET U, \A y \in U : d[y] \in Nat
  PROVE  SumOf(d, S) <= SumOf(d, U)
PROOF
  <1> DEFINE R == U \ S
  <1>1. S \cup R = U /\ S \cap R = {} /\ R \in SUBSET U OBVIOUS
  <1>2. IsFiniteSet(S) /\ IsFiniteSet(R) BY <1>1, FS_Subset
  <1>3. \A y \in S \cup R : d[y] \in Nat BY <1>1
  <1> HIDE DEF R
  <1>4. SumOf(d, U) = SumOf(d, S) + SumOf(d, R) BY <1>1, <1>2, <1>3, SumDisjoint
  <1>5. SumOf(d, S) \in Nat /\ SumOf(d, R) \in Nat BY <1>1, <1>2, <1>3, SumIsNat
  <1>6. QED BY <1>4, <1>5

(* Only the values on the set count.                                        *)
LEMMA SumSame ==
  ASSUME NEW d, NEW e, NEW S, IsFiniteSet(S), \A x \in S : d[x] = e[x]
  PROVE  SumOf(d, S) = SumOf(e, S)
PROOF
  <1> DEFINE T == {s \in SUBSET S : SumOf(d, s) # SumOf(e, s)}
  <1> SUFFICES ASSUME T # {} PROVE FALSE OBVIOUS
  <1>1. PICK s \in T : \A t \in T : t \subseteq s => t = s
    <2>1. T \in SUBSET (SUBSET S) OBVIOUS
    <2> HIDE DEF T
    <2>2. QED BY <2>1, LeastSet
  <1>2. IsFiniteSet(s) BY FS_Subset
  <1>3. s # {} BY SumEmpty
  <1>4. Picked(s) \in s BY <1>3, PickedIsIn
  <1>5. /\ SumOf(d, s) = d[Picked(s)] + SumOf(d, s \ {Picked(s)})
        /\ SumOf(e, s) = e[Picked(s)] + SumOf(e, s \ {Picked(s)})
    BY <1>2, <1>3, SumPicked
  <1>6. SumOf(d, s \ {Picked(s)}) = SumOf(e, s \ {Picked(s)}) BY <1>1, <1>4
  <1>7. QED BY <1>4, <1>5, <1>6

(* No value grows, and the sum does not.                                    *)
LEMMA SumFalls ==
  ASSUME NEW d, NEW e, NEW S, IsFiniteSet(S),
         \A x \in S : d[x] \in Nat /\ e[x] \in Nat /\ d[x] <= e[x]
  PROVE  SumOf(d, S) <= SumOf(e, S)
PROOF
  <1> DEFINE T == {s \in SUBSET S : ~(SumOf(d, s) <= SumOf(e, s))}
  <1> SUFFICES ASSUME T # {} PROVE FALSE OBVIOUS
  <1>1. PICK s \in T : \A t \in T : t \subseteq s => t = s
    <2>1. T \in SUBSET (SUBSET S) OBVIOUS
    <2> HIDE DEF T
    <2>2. QED BY <2>1, LeastSet
  <1>2. IsFiniteSet(s) /\ IsFiniteSet(s \ {Picked(s)}) BY FS_Subset
  <1>3. s # {} BY SumEmpty
  <1>4. Picked(s) \in s BY <1>3, PickedIsIn
  <1>5. /\ SumOf(d, s) = d[Picked(s)] + SumOf(d, s \ {Picked(s)})
        /\ SumOf(e, s) = e[Picked(s)] + SumOf(e, s \ {Picked(s)})
    BY <1>2, <1>3, SumPicked
  <1>6. SumOf(d, s \ {Picked(s)}) <= SumOf(e, s \ {Picked(s)}) BY <1>1, <1>4
  <1>7. SumOf(d, s \ {Picked(s)}) \in Nat /\ SumOf(e, s \ {Picked(s)}) \in Nat
    BY <1>2, SumIsNat
  <1>8. d[Picked(s)] \in Nat /\ e[Picked(s)] \in Nat /\ d[Picked(s)] <= e[Picked(s)] BY <1>4
  <1>9. SumOf(d, s) <= SumOf(e, s) BY <1>5, <1>6, <1>7, <1>8
  <1>10. QED BY <1>9

(* One value grows by so much.                                              *)
LEMMA SumMore ==
  ASSUME NEW d, NEW e, NEW S, IsFiniteSet(S), \A y \in S : d[y] \in Nat /\ e[y] \in Nat,
         NEW x \in S, NEW w \in Nat, d[x] <= e[x] + w, \A y \in S \ {x} : d[y] = e[y]
  PROVE  SumOf(d, S) <= SumOf(e, S) + w
PROOF
  <1>1. IsFiniteSet(S \ {x}) BY FS_Subset
  <1>2. SumOf(d, S) = d[x] + SumOf(d, S \ {x}) /\ SumOf(e, S) = e[x] + SumOf(e, S \ {x})
    BY SumRemove
  <1>3. SumOf(d, S \ {x}) = SumOf(e, S \ {x}) BY <1>1, SumSame
  <1>4. SumOf(e, S \ {x}) \in Nat BY <1>1, SumIsNat
  <1>5. d[x] \in Nat /\ e[x] \in Nat OBVIOUS
  <1>6. QED BY <1>2, <1>3, <1>4, <1>5
=============================================================================
