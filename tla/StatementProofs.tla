--------------------------- MODULE StatementProofs ---------------------------
(***************************************************************************)
(* Theorems about three of the components that module MCStatements checks   *)
(* side by side, for every value of their constants.                       *)
(*                                                                         *)
(* Calls: what the limit on inlined calls says of a program before it is   *)
(* loaded, and what a call gives back to its caller when it runs.  The     *)
(* sizes of inlined programs are a recursive function over the rounds of   *)
(* inlining, and an exception unwinds calls by a fold.  Such a function is *)
(* not given but chosen, so each is first shown to exist.                  *)
(*                                                                         *)
(* Access control lists: what loading a list rejects and what matching an  *)
(* address answers.  Networks are compared as the code compares them, byte *)
(* by byte; the runs compare them as numbers.                              *)
(***************************************************************************)
EXTENDS CallTree, Locals, Acl, Sums, SequenceTheorems

-----------------------------------------------------------------------------
(* Inlining: f holds the sizes after each round of a set of rounds.         *)

Round(graph, sizes) ==
  [s \in DOMAIN graph |-> SumOf(Worth(graph, s, sizes), CallsIn(graph, s))]

Nothing(graph) == [s \in DOMAIN graph |-> 0]

Rounds(graph, N, f) ==
  f = [n \in N |-> IF n = 0 THEN Nothing(graph) ELSE Round(graph, f[n - 1])]

LEMMA RoundsUnique ==
  ASSUME NEW graph, NEW k \in Nat, NEW N, 0 .. k \subseteq N,
         NEW f, Rounds(graph, N, f), NEW g, Rounds(graph, 0 .. k, g)
  PROVE  \A n \in 0 .. k : f[n] = g[n]
PROOF
  <1> DEFINE T == {n \in 0 .. k : f[n] # g[n]}
  <1> SUFFICES ASSUME T # {} PROVE FALSE OBVIOUS
  <1>1. T \in SUBSET Nat OBVIOUS
  <1>2. PICK n \in T : \A m \in T : n <= m
    <2> HIDE DEF T
    <2>1. QED BY <1>1, LeastNat
  <1>3. n \in 0 .. k /\ n \in N OBVIOUS
  <1>4. /\ f[n] = IF n = 0 THEN Nothing(graph) ELSE Round(graph, f[n - 1])
        /\ g[n] = IF n = 0 THEN Nothing(graph) ELSE Round(graph, g[n - 1])
    BY <1>3 DEF Rounds
  <1>5. n # 0 BY <1>2, <1>4
  <1>6. n - 1 \in 0 .. k /\ ~(n <= n - 1) BY <1>3, <1>5
  <1>7. f[n - 1] = g[n - 1] BY <1>2, <1>6
  <1>8. QED BY <1>2, <1>4, <1>5, <1>7

LEMMA RoundsExist ==
  ASSUME NEW graph, NEW k \in Nat
  PROVE  \E f : Rounds(graph, 0 .. k, f)
PROOF
  <1> DEFINE T == {n \in Nat : ~ \E f : Rounds(graph, 0 .. n, f)}
  <1> SUFFICES ASSUME T # {} PROVE FALSE OBVIOUS
  <1>1. PICK n \in T : \A m \in T : n <= m
    <2>1. T \in SUBSET Nat OBVIOUS
    <2> HIDE DEF T
    <2>2. QED BY <2>1, LeastNat
  <1>2. n # 0
    <2> SUFFICES ASSUME n = 0 PROVE FALSE OBVIOUS
    <2> DEFINE f == [m \in 0 .. 0 |-> Nothing(graph)]
    <2>1. \A m \in 0 .. 0 : m = 0 OBVIOUS
    <2>2. Rounds(graph, 0 .. 0, f) BY <2>1 DEF Rounds
    <2>3. QED BY <1>1, <2>2
  <1>3. n - 1 \in Nat /\ n - 1 \notin T BY <1>1, <1>2
  <1>4. PICK g : Rounds(graph, 0 .. n - 1, g) BY <1>3
  <1> DEFINE f == [m \in 0 .. n |-> IF m = n THEN Round(graph, g[n - 1]) ELSE g[m]]
  <1>5. \A m \in 0 .. n : m # 0 => f[m - 1] = g[m - 1] BY <1>3
  <1>6. \A m \in 0 .. n : f[m] = IF m = 0 THEN Nothing(graph) ELSE Round(graph, f[m - 1])
    <2> SUFFICES ASSUME NEW m \in 0 .. n
                 PROVE  f[m] = IF m = 0 THEN Nothing(graph) ELSE Round(graph, f[m - 1])
      OBVIOUS
    <2>1. CASE m = n BY <1>2, <1>5, <2>1
    <2>2. CASE m # n
      <3>1. m \in 0 .. n - 1 /\ f[m] = g[m] BY <2>2
      <3>2. g[m] = IF m = 0 THEN Nothing(graph) ELSE Round(graph, g[m - 1]) BY <1>4, <3>1 DEF Rounds
      <3> HIDE DEF f
      <3>3. QED BY <1>5, <3>1, <3>2
    <2>3. QED BY <2>1, <2>2
  <1>7. Rounds(graph, 0 .. n, f)
    <2>1. f = [m \in 0 .. n |-> f[m]] OBVIOUS
    <2> HIDE DEF f
    <2>2. f = [m \in 0 .. n |-> IF m = 0 THEN Nothing(graph) ELSE Round(graph, f[m - 1])]
      BY <1>6, <2>1
    <2>3. QED BY <2>2 DEF Rounds
  <1>8. QED BY <1>1, <1>7

LEMMA InlinedRounds ==
  ASSUME NEW graph
  PROVE  Rounds(graph, Nat, Inlined(graph))
PROOF
  <1> DEFINE h(k) == CHOOSE f : Rounds(graph, 0 .. k, f)
             f == [n \in Nat |-> h(n)[n]]
  <1>1. ASSUME NEW k \in Nat PROVE Rounds(graph, 0 .. k, h(k)) BY RoundsExist
  <1>2. \A n \in Nat : f[n] = IF n = 0 THEN Nothing(graph) ELSE Round(graph, f[n - 1])
    <2> SUFFICES ASSUME NEW n \in Nat
                 PROVE  f[n] = IF n = 0 THEN Nothing(graph) ELSE Round(graph, f[n - 1])
      OBVIOUS
    <2> DEFINE hn == h(n)
               hp == h(n - 1)
    <2>1. Rounds(graph, 0 .. n, hn) BY <1>1
    <2>2. n # 0 => Rounds(graph, 0 .. n - 1, hp) BY <1>1
    <2>3. f[n] = hn[n] /\ (n # 0 => f[n - 1] = hp[n - 1]) OBVIOUS
    <2> HIDE DEF h, hn, hp, f
    <2>4. n # 0 => hn[n - 1] = hp[n - 1]
      <3> SUFFICES ASSUME n # 0 PROVE hn[n - 1] = hp[n - 1] OBVIOUS
      <3> DEFINE p == n - 1
      <3>1. p \in Nat /\ 0 .. p \subseteq 0 .. n /\ p \in 0 .. p OBVIOUS
      <3>2. Rounds(graph, 0 .. p, hp) BY <2>2
      <3> HIDE DEF p
      <3>3. \A m \in 0 .. p : hn[m] = hp[m] BY <2>1, <3>1, <3>2, RoundsUnique
      <3>4. QED BY <3>1, <3>3 DEF p
    <2>5. hn[n] = IF n = 0 THEN Nothing(graph) ELSE Round(graph, hn[n - 1]) BY <2>1 DEF Rounds
    <2>6. QED BY <2>3, <2>4, <2>5
  <1>3. f = [n \in Nat |-> f[n]] OBVIOUS
  <1> HIDE DEF f
  <1>4. f = [n \in Nat |-> IF n = 0 THEN Nothing(graph) ELSE Round(graph, f[n - 1])] BY <1>2, <1>3
  <1>5. Rounds(graph, Nat, f) BY <1>4 DEF Rounds
  <1> DEFINE g == CHOOSE e : e = [n \in Nat |-> [s \in DOMAIN graph |->
                                    IF n = 0 THEN 0
                                    ELSE SumOf(Worth(graph, s, e[n - 1]), CallsIn(graph, s))]]
  <1>6. \A e : Rounds(graph, Nat, e) <=>
                 e = [n \in Nat |-> [s \in DOMAIN graph |->
                        IF n = 0 THEN 0
                        ELSE SumOf(Worth(graph, s, e[n - 1]), CallsIn(graph, s))]]
    <2> SUFFICES ASSUME NEW e
                 PROVE  [n \in Nat |-> IF n = 0 THEN Nothing(graph) ELSE Round(graph, e[n - 1])] =
                          [n \in Nat |-> [s \in DOMAIN graph |->
                             IF n = 0 THEN 0
                             ELSE SumOf(Worth(graph, s, e[n - 1]), CallsIn(graph, s))]]
      BY DEF Rounds
    <2>1. \A n \in Nat : (IF n = 0 THEN Nothing(graph) ELSE Round(graph, e[n - 1])) =
                           [s \in DOMAIN graph |->
                              IF n = 0 THEN 0
                              ELSE SumOf(Worth(graph, s, e[n - 1]), CallsIn(graph, s))]
      BY DEF Nothing, Round
    <2>2. QED BY <2>1
  <1>7. Rounds(graph, Nat, g) BY <1>5, <1>6
  <1>8. Inlined(graph) = g BY DEF Inlined, SumOf
  <1>9. QED BY <1>7, <1>8

(* A subroutine and its calls.                                              *)
CallWorth(graph, sizes) ==
  \A s \in DOMAIN graph : sizes[s] = SumOf(Worth(graph, s, sizes), CallsIn(graph, s))

Finite(graph) ==
  /\ IsFiniteSet(DOMAIN graph)
  /\ \A s \in DOMAIN graph : \E S : graph[s] \in Seq(S)

LEMMA CallsFinite ==
  ASSUME NEW graph, Finite(graph), NEW s \in DOMAIN graph
  PROVE  IsFiniteSet(CallsIn(graph, s))
PROOF
  <1>1. DOMAIN graph[s] = 1 .. Len(graph[s]) /\ Len(graph[s]) \in Nat BY DEF Finite
  <1>2. IsFiniteSet(1 .. Len(graph[s]))
    <2> DEFINE n == Len(graph[s])
    <2>1. n \in Int /\ 1 \in Int BY <1>1
    <2> HIDE DEF n
    <2>2. IsFiniteSet(1 .. n) BY <2>1, FS_Interval
    <2>3. QED BY <2>2 DEF n
  <1>3. CallsIn(graph, s) \in SUBSET DOMAIN graph[s] BY DEF CallsIn
  <1>4. QED BY <1>1, <1>2, <1>3, FS_Subset

LEMMA WorthNat ==
  ASSUME NEW graph, NEW s \in DOMAIN graph, NEW sizes, \A t \in DOMAIN graph : sizes[t] \in Nat
  PROVE  \A i \in CallsIn(graph, s) : Worth(graph, s, sizes)[i] \in Nat
PROOF BY DEF Worth, CallsIn

LEMMA RoundNat ==
  ASSUME NEW graph, Finite(graph), NEW sizes, \A t \in DOMAIN graph : sizes[t] \in Nat
  PROVE  \A s \in DOMAIN graph : Round(graph, sizes)[s] \in Nat
PROOF
  <1> SUFFICES ASSUME NEW s \in DOMAIN graph
               PROVE  SumOf(Worth(graph, s, sizes), CallsIn(graph, s)) \in Nat
    BY DEF Round
  <1>1. IsFiniteSet(CallsIn(graph, s)) BY CallsFinite
  <1>2. \A i \in CallsIn(graph, s) : Worth(graph, s, sizes)[i] \in Nat BY WorthNat
  <1>3. QED BY <1>1, <1>2, SumIsNat

LEMMA InlinedNat ==
  ASSUME NEW graph, Finite(graph), NEW n \in Nat
  PROVE  \A s \in DOMAIN graph : Inlined(graph)[n][s] \in Nat
PROOF
  <1> DEFINE f == Inlined(graph)
             T == {m \in Nat : ~ \A s \in DOMAIN graph : f[m][s] \in Nat}
  <1>1. \A m \in Nat : f[m] = IF m = 0 THEN Nothing(graph) ELSE Round(graph, f[m - 1])
    BY InlinedRounds DEF Rounds
  <1> HIDE DEF f
  <1> SUFFICES ASSUME T # {} PROVE FALSE BY DEF f
  <1>2. PICK k \in T : \A m \in T : k <= m
    <2>1. T \in SUBSET Nat OBVIOUS
    <2> HIDE DEF T
    <2>2. QED BY <2>1, LeastNat
  <1>3. k # 0
    <2>1. k = 0 => f[k] = Nothing(graph) BY <1>1
    <2>2. QED BY <2>1 DEF Nothing
  <1>4. k - 1 \in Nat /\ k - 1 \notin T BY <1>2, <1>3
  <1>5. f[k] = Round(graph, f[k - 1]) BY <1>1, <1>3
  <1>6. \A s \in DOMAIN graph : f[k - 1][s] \in Nat BY <1>4
  <1>7. \A s \in DOMAIN graph : f[k][s] \in Nat
    <2> DEFINE before == f[k - 1]
    <2>1. \A s \in DOMAIN graph : before[s] \in Nat BY <1>6
    <2> HIDE DEF before
    <2>2. \A s \in DOMAIN graph : Round(graph, before)[s] \in Nat BY <2>1, RoundNat
    <2>3. QED BY <1>5, <2>2 DEF before
  <1>8. QED BY <1>2, <1>7

(* What the subroutines of a program come to.                               *)
Size == Inlined(code)[Cardinality(DOMAIN code)]

(* Without recursion a subroutine comes to its calls and what their callees *)
(* come to.                                                                 *)
LEMMA SizeIs ==
  ASSUME Finite(code), Acyclic(code)
  PROVE  /\ \A s \in DOMAIN code : Size[s] \in Nat
         /\ CallWorth(code, Size)
PROOF
  <1> DEFINE n == Cardinality(DOMAIN code)
             f == Inlined(code)
  <1>1. n \in Nat BY FS_CardinalityType DEF Finite
  <1>2. Rounds(code, Nat, f) BY InlinedRounds
  <1>3. f[n + 1] = f[n] /\ Size = f[n] BY DEF Acyclic, Size
  <1> HIDE DEF n, f
  <1>4. f[n + 1] = Round(code, f[n])
    <2>1. n + 1 \in Nat /\ n + 1 # 0 /\ (n + 1) - 1 = n BY <1>1
    <2>2. QED BY <1>2, <2>1 DEF Rounds
  <1>5. Size = Round(code, Size) BY <1>3, <1>4
  <1>6. CallWorth(code, Size)
    <2> DEFINE sizes == Size
    <2>1. sizes = Round(code, sizes) BY <1>5
    <2> HIDE DEF sizes
    <2>2. CallWorth(code, sizes) BY <2>1 DEF CallWorth, Round
    <2>3. QED BY <2>2 DEF sizes
  <1>7. \A s \in DOMAIN code : Size[s] \in Nat BY <1>1, <1>3, InlinedNat DEF f
  <1>8. QED BY <1>6, <1>7

(* A callee comes to less than its caller.                                  *)
LEMMA CalleeSmaller ==
  ASSUME NEW graph, Finite(graph), NEW sizes, \A t \in DOMAIN graph : sizes[t] \in Nat,
         CallWorth(graph, sizes), NEW s \in DOMAIN graph, NEW i \in CallsIn(graph, s),
         graph[s][i].arg \in DOMAIN graph
  PROVE  sizes[graph[s][i].arg] < sizes[s]
PROOF
  <1> DEFINE d == Worth(graph, s, sizes)
             C == CallsIn(graph, s)
  <1>1. IsFiniteSet(C) BY CallsFinite
  <1>2. \A j \in C : d[j] \in Nat BY WorthNat
  <1>3. IsFiniteSet(C \ {i}) /\ \A j \in C \ {i} : d[j] \in Nat
    <2>1. C \ {i} \in SUBSET C OBVIOUS
    <2>2. QED BY <1>1, <1>2, <2>1, FS_Subset
  <1>4. d[i] = 1 + sizes[graph[s][i].arg] BY DEF Worth, CallsIn
  <1>5. sizes[s] = SumOf(d, C) BY DEF CallWorth
  <1>6. i \in C OBVIOUS
  <1> HIDE DEF d, C
  <1>7. SumOf(d, C) = d[i] + SumOf(d, C \ {i}) BY <1>1, <1>2, <1>6, SumRemove
  <1>8. SumOf(d, C \ {i}) \in Nat
    <2> DEFINE B == C \ {i}
    <2>1. IsFiniteSet(B) /\ \A j \in B : d[j] \in Nat BY <1>3
    <2> HIDE DEF B
    <2>2. SumOf(d, B) \in Nat BY <2>1, SumIsNat
    <2>3. QED BY <2>2 DEF B
  <1>9. sizes[graph[s][i].arg] \in Nat OBVIOUS
  <1>10. QED BY <1>4, <1>5, <1>7, <1>8, <1>9

-----------------------------------------------------------------------------
(* The calls of a body in their order: at each rank there is one.           *)

Rank(graph, s, i) == Cardinality({j \in 1 .. i : graph[s][j].kind = "call"})

LEMMA RankStep ==
  ASSUME NEW graph, Finite(graph), NEW s \in DOMAIN graph
  PROVE  /\ Rank(graph, s, 0) = 0
         /\ \A i \in 0 .. Len(graph[s]) : Rank(graph, s, i) \in Nat
         /\ \A i \in DOMAIN graph[s] :
              Rank(graph, s, i) =
                IF i \in CallsIn(graph, s) THEN Rank(graph, s, i - 1) + 1 ELSE Rank(graph, s, i - 1)
         /\ Rank(graph, s, Len(graph[s])) = Cardinality(CallsIn(graph, s))
PROOF
  <1> DEFINE upto(i) == {j \in 1 .. i : graph[s][j].kind = "call"}
  <1>1. DOMAIN graph[s] = 1 .. Len(graph[s]) /\ Len(graph[s]) \in Nat BY DEF Finite
  <1>2. upto(0) = {} /\ upto(Len(graph[s])) = CallsIn(graph, s) BY <1>1 DEF CallsIn
  <1>3. ASSUME NEW i \in 0 .. Len(graph[s])
        PROVE  IsFiniteSet(upto(i)) /\ Rank(graph, s, i) = Cardinality(upto(i))
    <2>1. upto(i) \in SUBSET CallsIn(graph, s) BY <1>1 DEF CallsIn
    <2>2. QED BY <2>1, CallsFinite, FS_Subset DEF Rank
  <1>4. ASSUME NEW i \in DOMAIN graph[s]
        PROVE  upto(i) = IF i \in CallsIn(graph, s) THEN upto(i - 1) \cup {i} ELSE upto(i - 1)
    <2>1. 1 .. i = (1 .. i - 1) \cup {i} BY <1>1
    <2>2. QED BY <1>1, <2>1 DEF CallsIn
  <1>5. ASSUME NEW i \in DOMAIN graph[s] PROVE i \notin upto(i - 1) BY <1>1
  <1> HIDE DEF upto
  <1>6. Rank(graph, s, 0) = 0
    <2>1. 0 \in 0 .. Len(graph[s]) BY <1>1
    <2>2. QED BY <1>2, <1>3, <2>1, FS_EmptySet
  <1>7. \A i \in 0 .. Len(graph[s]) : Rank(graph, s, i) \in Nat BY <1>3, FS_CardinalityType
  <1>8. Rank(graph, s, Len(graph[s])) = Cardinality(CallsIn(graph, s)) BY <1>1, <1>2, <1>3
  <1>9. ASSUME NEW i \in DOMAIN graph[s]
        PROVE  Rank(graph, s, i) =
                 IF i \in CallsIn(graph, s) THEN Rank(graph, s, i - 1) + 1 ELSE Rank(graph, s, i - 1)
    <2> DEFINE before == upto(i - 1)
    <2>1. i - 1 \in 0 .. Len(graph[s]) /\ i \in 0 .. Len(graph[s]) BY <1>1
    <2>2. /\ IsFiniteSet(before) /\ Rank(graph, s, i - 1) = Cardinality(before)
          /\ Rank(graph, s, i) = Cardinality(upto(i))
      BY <1>3, <2>1
    <2>3. i \notin before BY <1>5
    <2> HIDE DEF before
    <2>4. Cardinality(before \cup {i}) = Cardinality(before) + 1 BY <2>2, <2>3, FS_AddElement
    <2>5. QED BY <1>4, <2>2, <2>4 DEF before
  <1>10. QED BY <1>6, <1>7, <1>8, <1>9

LEMMA RankGrows ==
  ASSUME NEW graph, Finite(graph), NEW s \in DOMAIN graph,
         NEW i \in 0 .. Len(graph[s]), NEW j \in 0 .. Len(graph[s]), i <= j
  PROVE  Rank(graph, s, i) <= Rank(graph, s, j)
PROOF
  <1> DEFINE A == {k \in 1 .. i : graph[s][k].kind = "call"}
             B == {k \in 1 .. j : graph[s][k].kind = "call"}
  <1>1. DOMAIN graph[s] = 1 .. Len(graph[s]) /\ Len(graph[s]) \in Nat BY DEF Finite
  <1>2. A \in SUBSET B /\ B \in SUBSET CallsIn(graph, s) BY <1>1 DEF CallsIn
  <1>3. IsFiniteSet(B) BY <1>2, CallsFinite, FS_Subset
  <1> HIDE DEF A, B
  <1>4. Cardinality(A) <= Cardinality(B) BY <1>2, <1>3, FS_Subset
  <1>5. QED BY <1>4 DEF Rank, A, B

(* There is one call at each rank.                                          *)
LEMMA Ranked ==
  ASSUME NEW graph, Finite(graph), NEW s \in DOMAIN graph,
         NEW n \in 1 .. Cardinality(CallsIn(graph, s))
  PROVE  \E i \in CallsIn(graph, s) : Rank(graph, s, i) = n
PROOF
  <1> DEFINE L == Len(graph[s])
             T == {i \in 0 .. L : n <= Rank(graph, s, i)}
  <1>1. DOMAIN graph[s] = 1 .. L /\ L \in Nat BY DEF Finite
  <1>2. /\ Rank(graph, s, 0) = 0
        /\ \A i \in 0 .. L : Rank(graph, s, i) \in Nat
        /\ \A i \in DOMAIN graph[s] :
             Rank(graph, s, i) =
               IF i \in CallsIn(graph, s) THEN Rank(graph, s, i - 1) + 1 ELSE Rank(graph, s, i - 1)
        /\ Rank(graph, s, L) = Cardinality(CallsIn(graph, s))
    BY RankStep
  <1> HIDE DEF L
  <1>3. L \in T
    <2>1. L \in 0 .. L BY <1>1
    <2>2. Cardinality(CallsIn(graph, s)) \in Nat BY <1>2, <2>1
    <2>3. QED BY <1>2, <2>1, <2>2
  <1>4. PICK i \in T : \A j \in T : i <= j
    <2>1. T \in SUBSET Nat BY <1>1
    <2> HIDE DEF T
    <2>2. QED BY <1>3, <2>1, LeastNat
  <1>5. Cardinality(CallsIn(graph, s)) \in Nat /\ n \in Nat /\ n >= 1
    <2>1. L \in 0 .. L BY <1>1
    <2>2. QED BY <1>2, <2>1
  <1>6. i # 0 BY <1>2, <1>4, <1>5
  <1>7. i - 1 \in 0 .. L /\ i \in DOMAIN graph[s] BY <1>1, <1>6
  <1>8. Rank(graph, s, i - 1) < n
    <2>1. i - 1 \notin T BY <1>1, <1>4
    <2>2. Rank(graph, s, i - 1) \in Nat BY <1>2, <1>7
    <2>3. QED BY <1>5, <1>7, <2>1, <2>2
  <1>9. n <= Rank(graph, s, i) BY <1>4
  <1>10. Rank(graph, s, i - 1) \in Nat /\ Rank(graph, s, i) \in Nat BY <1>2, <1>7
  <1>11. i \in CallsIn(graph, s) /\ Rank(graph, s, i) = n
    BY <1>2, <1>5, <1>7, <1>8, <1>9, <1>10
  <1>12. QED BY <1>11

LEMMA RankTellsApart ==
  ASSUME NEW graph, Finite(graph), NEW s \in DOMAIN graph,
         NEW i \in CallsIn(graph, s), NEW j \in CallsIn(graph, s),
         Rank(graph, s, i) = Rank(graph, s, j)
  PROVE  i = j
PROOF
  <1>1. DOMAIN graph[s] = 1 .. Len(graph[s]) /\ Len(graph[s]) \in Nat BY DEF Finite
  <1>2. ASSUME NEW k \in CallsIn(graph, s), NEW l \in CallsIn(graph, s), k < l
        PROVE  Rank(graph, s, k) < Rank(graph, s, l)
    <2>1. l \in DOMAIN graph[s] /\ k \in 0 .. Len(graph[s]) /\ l - 1 \in 0 .. Len(graph[s]) /\ k <= l - 1
      BY <1>1, <1>2 DEF CallsIn
    <2>2. Rank(graph, s, k) <= Rank(graph, s, l - 1)
      <3> DEFINE m == l - 1
      <3>1. m \in 0 .. Len(graph[s]) /\ k <= m BY <2>1
      <3> HIDE DEF m
      <3>2. Rank(graph, s, k) <= Rank(graph, s, m) BY <2>1, <3>1, RankGrows
      <3>3. QED BY <3>2 DEF m
    <2>3. Rank(graph, s, l) = Rank(graph, s, l - 1) + 1 BY <2>1, RankStep
    <2>4. Rank(graph, s, k) \in Nat /\ Rank(graph, s, l - 1) \in Nat BY <2>1, RankStep
    <2>5. QED BY <2>2, <2>3, <2>4
  <1>3. i \in Nat /\ j \in Nat BY <1>1 DEF CallsIn
  <1>4. Rank(graph, s, i) \in Nat
    <2>1. i \in 0 .. Len(graph[s]) BY <1>1 DEF CallsIn
    <2>2. QED BY <2>1, RankStep
  <1>5. ~(i < j) /\ ~(j < i) BY <1>2, <1>4
  <1>6. QED BY <1>3, <1>5

(* Without blocks the calls collected are those of the body, in order.      *)
LEMMA CollectedIs ==
  ASSUME NEW graph, Finite(graph), NEW s \in DOMAIN graph,
         \A i \in DOMAIN graph[s] : graph[s][i].kind # "block"
  PROVE  /\ Len(Collected(graph[s])) = Cardinality(CallsIn(graph, s))
         /\ \A i \in CallsIn(graph, s) :
              /\ Rank(graph, s, i) \in 1 .. Len(Collected(graph[s]))
              /\ Collected(graph[s])[Rank(graph, s, i)] = graph[s][i].arg
PROOF
  <1> DEFINE body == graph[s]
             blocked(i) == \E j \in 1 .. (i - 1) : body[j].kind = "block" /\ i <= EndOf(body, j)
             at(i) == body[i].kind = "call" /\ ~blocked(i)
             C == {i \in DOMAIN body : at(i)}
             pick(n) == CHOOSE i \in DOMAIN body : at(i) /\ Cardinality({j \in 1 .. i : at(j)}) = n
  <1>1. DOMAIN body = 1 .. Len(body) /\ Len(body) \in Nat BY DEF Finite
  <1>2. \A i \in DOMAIN body : at(i) <=> body[i].kind = "call" BY <1>1
  <1>3. C = CallsIn(graph, s) BY <1>2 DEF CallsIn
  <1>4. \A i \in DOMAIN body : Cardinality({j \in 1 .. i : at(j)}) = Rank(graph, s, i)
    <2> SUFFICES ASSUME NEW i \in DOMAIN body
                 PROVE  {j \in 1 .. i : at(j)} = {j \in 1 .. i : graph[s][j].kind = "call"}
      BY DEF Rank
    <2>1. \A j \in 1 .. i : j \in DOMAIN body BY <1>1
    <2> HIDE DEF at
    <2>2. QED BY <1>2, <2>1
  <1>5. Collected(body) = [n \in 1 .. Cardinality(C) |-> body[pick(n)].arg] BY DEF Collected
  <1> HIDE DEF at
  <1>6. Cardinality(C) \in Nat BY <1>3, CallsFinite, FS_CardinalityType
  <1>7. Len(Collected(body)) = Cardinality(C) BY <1>5, <1>6
  <1>8. ASSUME NEW i \in CallsIn(graph, s) PROVE Rank(graph, s, i) \in 1 .. Cardinality(C)
    <2>1. i \in DOMAIN body /\ i \in 0 .. Len(body) /\ i - 1 \in 0 .. Len(body) /\ Len(body) \in 0 .. Len(body)
          /\ i <= Len(body)
      BY <1>1 DEF CallsIn
    <2>2. Rank(graph, s, i) <= Rank(graph, s, Len(body)) BY <2>1, RankGrows
    <2>3. Rank(graph, s, Len(body)) = Cardinality(C) BY <1>3, RankStep
    <2>4. Rank(graph, s, i) = Rank(graph, s, i - 1) + 1 /\ Rank(graph, s, i - 1) \in Nat BY <2>1, RankStep
    <2>5. QED BY <1>6, <2>2, <2>3, <2>4
  <1>9. ASSUME NEW i \in CallsIn(graph, s) PROVE pick(Rank(graph, s, i)) = i
    <2> DEFINE n == Rank(graph, s, i)
    <2>1. i \in DOMAIN body /\ at(i) /\ Cardinality({j \in 1 .. i : at(j)}) = n
      BY <1>2, <1>4 DEF CallsIn
    <2> HIDE DEF n
    <2>2. /\ pick(n) \in DOMAIN body /\ at(pick(n))
          /\ Cardinality({j \in 1 .. pick(n) : at(j)}) = n
      BY <2>1
    <2> HIDE DEF pick
    <2>3. pick(n) \in CallsIn(graph, s) /\ Rank(graph, s, pick(n)) = n BY <1>2, <1>4, <2>2 DEF CallsIn
    <2>4. pick(n) = i
      <3> DEFINE k == pick(n)
      <3>1. k \in CallsIn(graph, s) /\ Rank(graph, s, k) = Rank(graph, s, i) BY <2>3 DEF n
      <3> HIDE DEF k
      <3>2. k = i BY <3>1, RankTellsApart
      <3>3. QED BY <3>2 DEF k
    <2>5. QED BY <2>4 DEF n
  <1> HIDE DEF pick, C, body
  <1>10. ASSUME NEW i \in CallsIn(graph, s) PROVE Collected(body)[Rank(graph, s, i)] = body[i].arg
    BY <1>5, <1>8, <1>9
  <1>11. QED BY <1>3, <1>7, <1>8, <1>10 DEF body

-----------------------------------------------------------------------------
(* Types.                                                                   *)

Activations == [sub : DOMAIN code, at : Nat, total : Nat]

TreeTyped ==
  /\ code \in Graphs
  /\ names \in Seq(DOMAIN code)
  /\ visits \in Seq(Activations)
  /\ costs \in [DOMAIN code -> Nat \cup {NoCost}]
  /\ ruling \in {"walking", "accepted", "rejected"}

(* No subroutine is visited while it is being visited.                      *)
VisitedOnce ==
  \A j, k \in DOMAIN visits : visits[j].sub = visits[k].sub => j = k

LEMMA CodeFinite == TreeTyped => Finite(code)
PROOF BY CallTreeAssumption DEF TreeTyped, Finite, WellFormed

LEMMA InitTreeTyped == TreeInit => TreeTyped /\ VisitedOnce
PROOF
  <1> SUFFICES ASSUME TreeInit PROVE TreeTyped /\ VisitedOnce OBVIOUS
  <1>1. names \in Seq(DOMAIN code)
    <2>1. IsFiniteSet(DOMAIN code) BY CallTreeAssumption DEF TreeInit
    <2>2. Cardinality(DOMAIN code) \in Nat BY <2>1, FS_CardinalityType
    <2>3. names \in [1 .. Cardinality(DOMAIN code) -> DOMAIN code] BY DEF TreeInit, SetToSeqs
    <2>4. QED BY <2>2, <2>3
  <1>2. QED BY <1>1 DEF TreeInit, TreeTyped, VisitedOnce

(* Leaving the top of the stack, or changing it.                            *)
LEMMA TopOf ==
  ASSUME TreeTyped, visits # <<>>
  PROVE  /\ Len(visits) \in Nat \ {0} /\ DOMAIN visits = 1 .. Len(visits)
         /\ Last(visits) = visits[Len(visits)]
         /\ Last(visits) \in Activations
         /\ Front(visits) \in Seq(Activations)
         /\ Len(Front(visits)) = Len(visits) - 1
         /\ \A k \in 1 .. Len(visits) - 1 : Front(visits)[k] = visits[k]
PROOF
  <1> DEFINE n == Len(visits)
  <1>1. visits \in Seq(Activations) BY DEF TreeTyped
  <1> HIDE DEF n
  <1>2. n \in Nat \ {0} /\ DOMAIN visits = 1 .. n BY <1>1 DEF n
  <1>3. Last(visits) = visits[n] BY DEF Last, n
  <1>4. visits[n] \in Activations BY <1>1, <1>2
  <1>5. Front(visits) = SubSeq(visits, 1, n - 1) BY DEF Front, n
  <1>6. \A i \in 1 .. n - 1 : visits[i] \in Activations BY <1>1, <1>2
  <1>7. /\ SubSeq(visits, 1, n - 1) \in Seq(Activations)
        /\ Len(SubSeq(visits, 1, n - 1)) = IF 1 <= n - 1 THEN (n - 1) - 1 + 1 ELSE 0
        /\ \A i \in 1 .. (n - 1) - 1 + 1 : SubSeq(visits, 1, n - 1)[i] = visits[1 + i - 1]
    <2> DEFINE m == n - 1
    <2>1. m \in Int /\ 1 \in Int /\ \A i \in 1 .. m : visits[i] \in Activations BY <1>2, <1>6
    <2> HIDE DEF m
    <2>2. /\ SubSeq(visits, 1, m) \in Seq(Activations)
          /\ Len(SubSeq(visits, 1, m)) = IF 1 <= m THEN m - 1 + 1 ELSE 0
          /\ \A i \in 1 .. m - 1 + 1 : SubSeq(visits, 1, m)[i] = visits[1 + i - 1]
      BY <2>1, SubSeqProperties
    <2>3. QED BY <2>2 DEF m
  <1>8. Len(Front(visits)) = n - 1 BY <1>2, <1>5, <1>7
  <1>9. \A k \in 1 .. n - 1 : Front(visits)[k] = visits[k]
    <2> SUFFICES ASSUME NEW k \in 1 .. n - 1 PROVE SubSeq(visits, 1, n - 1)[k] = visits[k] BY <1>5
    <2>1. k \in 1 .. (n - 1) - 1 + 1 /\ 1 + k - 1 = k BY <1>2
    <2>2. QED BY <1>7, <2>1
  <1>10. QED BY <1>2, <1>3, <1>4, <1>5, <1>7, <1>8, <1>9 DEF n

LEMMA Changed ==
  ASSUME TreeTyped, visits # <<>>, NEW top \in Activations, top.sub = Last(visits).sub,
         visits' = Append(Front(visits), top)
  PROVE  /\ visits' \in Seq(Activations) /\ Len(visits') = Len(visits)
         /\ \A k \in 1 .. Len(visits) - 1 : visits'[k] = visits[k]
         /\ visits'[Len(visits)] = top
         /\ \A k \in DOMAIN visits : visits'[k].sub = visits[k].sub
PROOF
  <1>1. /\ Len(visits) \in Nat \ {0} /\ DOMAIN visits = 1 .. Len(visits)
        /\ Last(visits) = visits[Len(visits)]
        /\ Front(visits) \in Seq(Activations)
        /\ Len(Front(visits)) = Len(visits) - 1
        /\ \A k \in 1 .. Len(visits) - 1 : Front(visits)[k] = visits[k]
    BY TopOf
  <1>2. /\ visits' \in Seq(Activations) /\ Len(visits') = Len(visits)
        /\ \A k \in 1 .. Len(visits) - 1 : visits'[k] = visits[k]
        /\ visits'[Len(visits)] = top
    <2> DEFINE f == Front(visits)
    <2>1. f \in Seq(Activations) /\ Len(f) = Len(visits) - 1 /\ visits' = Append(f, top)
          /\ \A k \in 1 .. Len(f) : f[k] = visits[k]
      BY <1>1
    <2> HIDE DEF f
    <2>2. /\ visits' \in Seq(Activations) /\ Len(visits') = Len(f) + 1
          /\ \A k \in 1 .. Len(f) : visits'[k] = f[k]
          /\ visits'[Len(f) + 1] = top
      BY <2>1, AppendProperties
    <2>3. QED BY <1>1, <2>1, <2>2
  <1>3. QED BY <1>1, <1>2

LEMMA Entered ==
  ASSUME TreeTyped, NEW sub \in DOMAIN code, visits' = Visit(sub)
  PROVE  /\ visits' \in Seq(Activations) /\ Len(visits') = Len(visits) + 1 /\ Len(visits) \in Nat
         /\ \A k \in 1 .. Len(visits) : visits'[k] = visits[k]
         /\ visits'[Len(visits) + 1] = [sub |-> sub, at |-> 1, total |-> 0]
         /\ visits'[Len(visits) + 1].sub = sub
PROOF
  <1> DEFINE v == [sub |-> sub, at |-> 1, total |-> 0]
  <1>1. v \in Activations /\ v.sub = sub BY DEF Activations
  <1>2. visits' = Append(visits, v) BY DEF Visit
  <1> HIDE DEF v
  <1>3. QED BY <1>1, <1>2, AppendProperties DEF v, TreeTyped

LEMMA Resumed ==
  ASSUME TreeTyped, EndVisit, Len(visits) # 1
  PROVE  LET k == Len(visits) - 1
         IN /\ k \in DOMAIN visits
            /\ visits' \in Seq(Activations) /\ Len(visits') = k
            /\ \A j \in 1 .. k - 1 : visits'[j] = visits[j]
            /\ visits'[k] = Passed(visits[k], Last(visits).total)
            /\ visits'[k].sub = visits[k].sub
PROOF
  <1> DEFINE k == Len(visits) - 1
             v == Passed(visits[k], Last(visits).total)
  <1>1. /\ Len(visits) \in Nat \ {0} /\ DOMAIN visits = 1 .. Len(visits)
        /\ Last(visits) \in Activations
        /\ Front(visits) \in Seq(Activations)
        /\ Len(Front(visits)) = k
        /\ \A j \in 1 .. k : Front(visits)[j] = visits[j]
    BY TopOf DEF EndVisit
  <1>2. k \in Nat \ {0} /\ k \in DOMAIN visits BY <1>1
  <1>3. visits[k] \in Activations BY <1>2 DEF TreeTyped
  <1>4. v \in Activations /\ v.sub = visits[k].sub
    <2>1. /\ visits[k].sub \in DOMAIN code /\ visits[k].at \in Nat
          /\ visits[k].total \in Nat /\ Last(visits).total \in Nat
      BY <1>1, <1>3 DEF Activations
    <2>2. v = [sub |-> visits[k].sub, at |-> visits[k].at + 1,
               total |-> visits[k].total + 1 + Last(visits).total]
      BY DEF Passed
    <2>3. QED BY <2>1, <2>2 DEF Activations
  <1>5. visits' = [Front(visits) EXCEPT ![k] = v]
    <2>1. Front(visits)[k] = visits[k] BY <1>1, <1>2
    <2>2. visits' = [Front(visits) EXCEPT ![k] = Passed(Front(visits)[k], Last(visits).total)]
      BY DEF EndVisit
    <2>3. QED BY <2>1, <2>2
  <1> HIDE DEF v, k
  <1>6. visits' \in Seq(Activations) /\ Len(visits') = k /\ visits'[k] = v
        /\ \A j \in 1 .. k - 1 : visits'[j] = visits[j]
    BY <1>1, <1>2, <1>4, <1>5
  <1>7. QED BY <1>2, <1>4, <1>6 DEF v, k

LEMMA NextTreeTyped ==
  TreeTyped /\ VisitedOnce /\ [TreeNext]_treeVars => TreeTyped' /\ VisitedOnce'
PROOF
  <1> SUFFICES ASSUME TreeTyped, VisitedOnce, [TreeNext]_treeVars PROVE TreeTyped' /\ VisitedOnce'
    OBVIOUS
  <1>1. CASE Report
    <2>1. names' \in Seq(DOMAIN code) BY <1>1 DEF Report, TreeTyped
    <2>2. QED BY <1>1, <2>1 DEF Report, TreeTyped, VisitedOnce, Activations
  <1>2. CASE Begin
    <2>1. Head(names) \in DOMAIN code BY <1>2 DEF Begin, TreeTyped
    <2>2. /\ visits' \in Seq(Activations) /\ Len(visits') = Len(visits) + 1 /\ Len(visits) = 0
      BY <1>2, <2>1, Entered DEF Begin
    <2>3. DOMAIN visits' = {1} BY <2>2
    <2>4. QED BY <1>2, <2>2, <2>3 DEF Begin, TreeTyped, VisitedOnce, Activations
  <1>3. CASE FollowCall
    <2> DEFINE top    == Last(visits)
               listed  == Collected(code[top.sub])
               callee == listed[top.at]
               plus(n) == Passed(top, n)
    <2>1. /\ Len(visits) \in Nat \ {0} /\ DOMAIN visits = 1 .. Len(visits)
          /\ top = visits[Len(visits)] /\ top \in Activations
      BY <1>3, TopOf DEF FollowCall
    <2>2. \/ \E n \in Nat : visits' = Append(Front(visits), plus(n))
          \/ callee \in DOMAIN code /\ callee \notin Visiting /\ visits' = Visit(callee)
      <3>1. CASE callee \notin DOMAIN code BY <1>3, <3>1 DEF FollowCall
      <3>2. CASE callee \in DOMAIN code /\ costs[callee] # NoCost
        <4>1. costs[callee] \in Nat BY <3>2 DEF TreeTyped
        <4>2. visits' = Append(Front(visits), plus(costs[callee])) BY <1>3, <3>2 DEF FollowCall
        <4>3. QED BY <4>1, <4>2
      <3>3. CASE callee \in DOMAIN code /\ costs[callee] = NoCost /\ callee \in Visiting
        BY <1>3, <3>3 DEF FollowCall
      <3>4. CASE callee \in DOMAIN code /\ costs[callee] = NoCost /\ callee \notin Visiting
        BY <1>3, <3>4 DEF FollowCall
      <3>5. QED BY <3>1, <3>2, <3>3, <3>4
    <2> HIDE DEF listed, callee
    <2>3. CASE \E n \in Nat : visits' = Append(Front(visits), plus(n))
      <3>1. PICK n \in Nat : visits' = Append(Front(visits), plus(n)) BY <2>3
      <3>2. plus(n) \in Activations /\ plus(n).sub = top.sub BY <2>1 DEF Activations, Passed
      <3>3. /\ visits' \in Seq(Activations) /\ Len(visits') = Len(visits)
            /\ \A k \in DOMAIN visits : visits'[k].sub = visits[k].sub
        <4> DEFINE v == plus(n)
        <4>1. v \in Activations /\ v.sub = Last(visits).sub /\ visits' = Append(Front(visits), v)
          BY <3>1, <3>2
        <4> HIDE DEF v, plus, top
        <4>2. visits # <<>> BY <1>3 DEF FollowCall
        <4>3. QED BY <4>1, <4>2, Changed
      <3>4. DOMAIN visits' = DOMAIN visits BY <2>1, <3>3
      <3>5. VisitedOnce' BY <3>3, <3>4 DEF VisitedOnce
      <3>6. QED BY <1>3, <3>3, <3>5 DEF FollowCall, TreeTyped, Activations
    <2>4. CASE callee \in DOMAIN code /\ callee \notin Visiting /\ visits' = Visit(callee)
      <3>1. /\ visits' \in Seq(Activations) /\ Len(visits') = Len(visits) + 1
            /\ \A k \in 1 .. Len(visits) : visits'[k] = visits[k]
            /\ visits'[Len(visits) + 1].sub = callee
        <4> HIDE DEF top, plus
        <4>1. callee \in DOMAIN code /\ visits' = Visit(callee) BY <2>4
        <4>2. QED BY <4>1, Entered
      <3>2. DOMAIN visits' = DOMAIN visits \cup {Len(visits) + 1} BY <2>1, <3>1
      <3>3. \A k \in DOMAIN visits : visits[k].sub # callee BY <2>4 DEF Visiting
      <3>4. VisitedOnce' BY <2>1, <3>1, <3>2, <3>3 DEF VisitedOnce
      <3>5. QED BY <1>3, <3>1, <3>4 DEF FollowCall, TreeTyped, Activations
    <2>5. QED BY <2>2, <2>3, <2>4
  <1>4. CASE EndVisit
    <2>1. /\ Len(visits) \in Nat \ {0} /\ DOMAIN visits = 1 .. Len(visits)
          /\ Last(visits) \in Activations
      BY <1>4, TopOf DEF EndVisit
    <2>2. costs' \in [DOMAIN code -> Nat \cup {NoCost}]
      <3>1. Last(visits).total \in Nat BY <2>1 DEF Activations
      <3>2. QED BY <1>4, <3>1 DEF EndVisit, TreeTyped
    <2>3. visits' \in Seq(Activations) /\ VisitedOnce'
      <3>1. CASE Len(visits) = 1
        <4>1. visits' = <<>> BY <1>4, <3>1 DEF EndVisit
        <4>2. QED BY <4>1 DEF VisitedOnce
      <3>2. CASE Len(visits) # 1
        <4> DEFINE k == Len(visits) - 1
        <4>1. /\ k \in DOMAIN visits
              /\ visits' \in Seq(Activations) /\ Len(visits') = k
              /\ \A j \in 1 .. k - 1 : visits'[j] = visits[j]
              /\ visits'[k].sub = visits[k].sub
          BY <1>4, <3>2, Resumed
        <4>2. \A j \in DOMAIN visits' : j \in DOMAIN visits /\ visits'[j].sub = visits[j].sub
          BY <2>1, <4>1
        <4>3. QED BY <4>1, <4>2 DEF VisitedOnce
      <3>3. QED BY <3>1, <3>2
    <2>4. QED BY <1>4, <2>2, <2>3 DEF EndVisit, TreeTyped, Activations
  <1>5. CASE Accept BY <1>5 DEF Accept, TreeTyped, VisitedOnce, Activations
  <1>6. CASE UNCHANGED treeVars BY <1>6 DEF treeVars, TreeTyped, VisitedOnce, Activations
  <1>7. QED BY <1>1, <1>2, <1>3, <1>4, <1>5, <1>6 DEF TreeNext

-----------------------------------------------------------------------------
(* What an activation has added up: the calls before the one it is at.      *)

Preceding(graph, s, n) == {i \in CallsIn(graph, s) : Rank(graph, s, i) < n}

Counted(graph, size, v) ==
  /\ v.at \in 1 .. Len(Collected(graph[v.sub])) + 1
  /\ v.total = SumOf(Worth(graph, v.sub, size), Preceding(graph, v.sub, v.at))

(* A program without recursion and without blocks.                          *)
Sized(graph, size) ==
  /\ Finite(graph)
  /\ \A s \in DOMAIN graph : size[s] \in Nat
  /\ CallWorth(graph, size)
  /\ \A s \in DOMAIN graph : \A i \in DOMAIN graph[s] : graph[s][i].kind # "block"

LEMMA CallAt ==
  ASSUME NEW graph, NEW size, Sized(graph, size), NEW s \in DOMAIN graph,
         NEW n \in 1 .. Len(Collected(graph[s]))
  PROVE  \E i \in CallsIn(graph, s) : /\ Rank(graph, s, i) = n
                                      /\ Collected(graph[s])[n] = graph[s][i].arg
PROOF
  <1>1. Finite(graph) /\ \A i \in DOMAIN graph[s] : graph[s][i].kind # "block" BY DEF Sized
  <1>2. /\ Len(Collected(graph[s])) = Cardinality(CallsIn(graph, s))
        /\ \A i \in CallsIn(graph, s) : Collected(graph[s])[Rank(graph, s, i)] = graph[s][i].arg
    BY <1>1, CollectedIs
  <1>3. PICK i \in CallsIn(graph, s) : Rank(graph, s, i) = n BY <1>1, <1>2, Ranked
  <1>4. QED BY <1>2, <1>3

LEMMA CalleeOf ==
  ASSUME NEW graph, NEW size, Sized(graph, size), NEW s \in DOMAIN graph,
         NEW n \in 1 .. Len(Collected(graph[s])), Collected(graph[s])[n] \in DOMAIN graph
  PROVE  size[Collected(graph[s])[n]] < size[s]
PROOF
  <1>1. PICK i \in CallsIn(graph, s) : Collected(graph[s])[n] = graph[s][i].arg BY CallAt
  <1>2. QED BY <1>1, CalleeSmaller DEF Sized

LEMMA CountStart ==
  ASSUME NEW graph, NEW size, Sized(graph, size), NEW v, v.sub \in DOMAIN graph,
         v.at = 1, v.total = 0
  PROVE  Counted(graph, size, v)
PROOF
  <1> DEFINE s == v.sub
  <1>1. Finite(graph) /\ \A i \in DOMAIN graph[s] : graph[s][i].kind # "block" BY DEF Sized
  <1> HIDE DEF s
  <1>2. s \in DOMAIN graph BY DEF s
  <1>3. /\ Len(Collected(graph[s])) = Cardinality(CallsIn(graph, s))
        /\ \A i \in CallsIn(graph, s) : Rank(graph, s, i) \in 1 .. Len(Collected(graph[s]))
    BY <1>1, <1>2, CollectedIs
  <1>4. Len(Collected(graph[s])) \in Nat BY <1>1, <1>2, <1>3, CallsFinite, FS_CardinalityType
  <1>5. Preceding(graph, s, 1) = {} BY <1>3, <1>4 DEF Preceding
  <1>6. SumOf(Worth(graph, s, size), Preceding(graph, s, 1)) = 0 BY <1>5, SumEmpty
  <1>7. QED BY <1>4, <1>6 DEF Counted, s

LEMMA CountNext ==
  ASSUME NEW graph, NEW size, Sized(graph, size), NEW v, v.sub \in DOMAIN graph,
         Counted(graph, size, v), v.at <= Len(Collected(graph[v.sub])),
         NEW n \in Nat,
         n = IF Collected(graph[v.sub])[v.at] \in DOMAIN graph
               THEN size[Collected(graph[v.sub])[v.at]] ELSE 0
  PROVE  Counted(graph, size, Passed(v, n))
PROOF
  <1> DEFINE s == v.sub
             a == v.at
             d == Worth(graph, s, size)
             P == Preceding(graph, s, a)
             L == Len(Collected(graph[s]))
  <1>1. /\ Finite(graph)
        /\ \A t \in DOMAIN graph : size[t] \in Nat
        /\ \A i \in DOMAIN graph[s] : graph[s][i].kind # "block"
    BY DEF Sized
  <1>2. s \in DOMAIN graph /\ a <= L /\ v.total = SumOf(d, P) /\ a \in 1 .. L + 1 BY DEF Counted
  <1>3. n = IF Collected(graph[s])[a] \in DOMAIN graph THEN size[Collected(graph[s])[a]] ELSE 0
    OBVIOUS
  <1> HIDE DEF s, a
  <1>4. IsFiniteSet(CallsIn(graph, s)) BY <1>1, <1>2, CallsFinite
  <1>5. L \in Nat
    <2>1. L = Cardinality(CallsIn(graph, s)) BY <1>1, <1>2, CollectedIs
    <2>2. QED BY <1>4, <2>1, FS_CardinalityType
  <1>6. PICK i \in CallsIn(graph, s) : Rank(graph, s, i) = a /\ Collected(graph[s])[a] = graph[s][i].arg
    <2>1. a \in 1 .. Len(Collected(graph[s])) BY <1>2, <1>5
    <2>2. QED BY <1>2, <2>1, CallAt
  <1>7. \A j \in CallsIn(graph, s) : Rank(graph, s, j) \in Nat
    <2>1. \A j \in CallsIn(graph, s) : Rank(graph, s, j) \in 1 .. Len(Collected(graph[s]))
      BY <1>1, <1>2, CollectedIs
    <2>2. QED BY <1>5, <2>1
  <1>8. Preceding(graph, s, a + 1) = P \cup {i} /\ i \notin P
    <2>1. \A j \in CallsIn(graph, s) : Rank(graph, s, j) = a => j = i
      BY <1>1, <1>2, <1>6, RankTellsApart
    <2>2. a \in Nat BY <1>2, <1>5
    <2>3. \A j \in CallsIn(graph, s) : Rank(graph, s, j) < a + 1 <=> (Rank(graph, s, j) < a \/ j = i)
      BY <1>6, <1>7, <2>1, <2>2
    <2>4. QED BY <1>6, <2>2, <2>3 DEF Preceding
  <1>9. \A j \in CallsIn(graph, s) : d[j] \in Nat BY <1>1, <1>2, WorthNat
  <1>10. P \in SUBSET CallsIn(graph, s) BY DEF Preceding
  <1>11. IsFiniteSet(P) /\ \A j \in P : d[j] \in Nat BY <1>4, <1>9, <1>10, FS_Subset
  <1>12. d[i] = 1 + n BY <1>3, <1>6 DEF Worth, CallsIn
  <1>13. SumOf(d, P \cup {i}) = SumOf(d, P) + d[i] /\ SumOf(d, P) \in Nat
    <2>1. d[i] \in Nat BY <1>9
    <2> HIDE DEF d, P
    <2>2. QED BY <1>8, <1>11, <2>1, SumAdd, SumIsNat
  <1>14. v.total + 1 + n = SumOf(d, Preceding(graph, s, a + 1))
    <2> HIDE DEF d, P
    <2>1. SumOf(d, Preceding(graph, s, a + 1)) = SumOf(d, P \cup {i}) BY <1>8
    <2>2. SumOf(d, P \cup {i}) = v.total + (1 + n) /\ v.total \in Nat BY <1>2, <1>12, <1>13
    <2>3. v.total + 1 + n = v.total + (1 + n) BY <2>2
    <2>4. QED BY <2>1, <2>2, <2>3
  <1>15. a + 1 \in 1 .. L + 1 BY <1>2, <1>5
  <1>16. /\ Passed(v, n).sub = s /\ Passed(v, n).at = a + 1
         /\ Passed(v, n).total = v.total + 1 + n
    BY DEF Passed, s, a
  <1>17. QED BY <1>14, <1>15, <1>16 DEF Counted

LEMMA CountDone ==
  ASSUME NEW graph, NEW size, Sized(graph, size), NEW v, v.sub \in DOMAIN graph,
         Counted(graph, size, v), v.at > Len(Collected(graph[v.sub]))
  PROVE  v.total = size[v.sub]
PROOF
  <1> DEFINE s == v.sub
             a == v.at
             L == Len(Collected(graph[s]))
  <1>1. Finite(graph) /\ \A i \in DOMAIN graph[s] : graph[s][i].kind # "block" BY DEF Sized
  <1>2. s \in DOMAIN graph /\ a > L /\ a \in 1 .. L + 1
        /\ v.total = SumOf(Worth(graph, s, size), Preceding(graph, s, a))
    BY DEF Counted
  <1> HIDE DEF s, a
  <1>3. /\ L = Cardinality(CallsIn(graph, s))
        /\ \A i \in CallsIn(graph, s) : Rank(graph, s, i) \in 1 .. L
    BY <1>1, <1>2, CollectedIs
  <1>4. L \in Nat BY <1>1, <1>2, <1>3, CallsFinite, FS_CardinalityType
  <1>5. Preceding(graph, s, a) = CallsIn(graph, s) BY <1>2, <1>3, <1>4 DEF Preceding
  <1>6. v.total = size[s] BY <1>2, <1>5 DEF Sized, CallWorth
  <1>7. QED BY <1>6 DEF s

-----------------------------------------------------------------------------
(* The walk over a program without recursion.                               *)

(* Each activation is at the call that the next one is the visit of.        *)
Chained ==
  \A k \in 1 .. Len(visits) - 1 :
    /\ visits[k].at \in 1 .. Len(Collected(code[visits[k].sub]))
    /\ Collected(code[visits[k].sub])[visits[k].at] = visits[k + 1].sub

(* Sizes fall from the bottom of the stack to its top: no callee is being   *)
(* visited.                                                                 *)
Falling(size) ==
  \A j, k \in DOMAIN visits : j < k => size[visits[k].sub] < size[visits[j].sub]

Ruled(size) ==
  /\ \A s \in DOMAIN code : costs[s] \in {NoCost, size[s]}
  /\ ruling # "rejected" =>
       \A s \in DOMAIN code : size[s] <= MaxTree \/ \E n \in DOMAIN names : names[n] = s
  /\ ruling = "accepted" => names = <<>>
  /\ ruling = "rejected" => \E s \in DOMAIN code : size[s] > MaxTree

Walk(size) ==
  /\ \A k \in DOMAIN visits : Counted(code, size, visits[k])
  /\ Chained
  /\ Falling(size)
  /\ Ruled(size)

LEMMA StartWalk ==
  ASSUME NEW size, \A s \in DOMAIN code : size[s] \in Nat, TreeInit
  PROVE  Walk(size)
PROOF
  <1>1. visits = <<>> /\ ruling = "walking" BY DEF TreeInit
  <1>2. \A s \in DOMAIN code : \E n \in DOMAIN names : names[n] = s
    <2>1. IsFiniteSet(DOMAIN code) BY CallTreeAssumption DEF TreeInit
    <2> DEFINE D == 1 .. Cardinality(DOMAIN code)
               S == DOMAIN code
    <2>2. names \in [D -> S] /\ \A i, j \in D : i # j => names[i] # names[j] BY DEF TreeInit, SetToSeqs
    <2>3. Cardinality(S) \in Nat BY <2>1, FS_CardinalityType
    <2>4. IsFiniteSet(D) /\ Cardinality(D) = Cardinality(S)
      <3> DEFINE n == Cardinality(S)
      <3>1. n \in Nat /\ n \in Int /\ 1 \in Int BY <2>3
      <3> HIDE DEF n
      <3>2. IsFiniteSet(1 .. n) /\ Cardinality(1 .. n) = n BY <3>1, FS_Interval
      <3>3. QED BY <3>2 DEF n
    <2>5. names \in Injection(D, S) BY <2>2 DEF Injection, IsInjective
    <2> HIDE DEF D, S
    <2>6. names \in Surjection(D, S) BY <2>1, <2>4, <2>5, FS_Injection DEF S
    <2>7. QED BY <2>6 DEF Surjection, D, S
  <1>3. QED BY <1>1, <1>2 DEF Walk, Chained, Falling, Ruled, TreeInit

LEMMA ReportWalk ==
  ASSUME TreeTyped, NEW size, Sized(code, size), Walk(size), Report
  PROVE  Walk(size)'
PROOF
  <1> DEFINE h == Head(names)
  <1>1. /\ ruling = "walking" /\ names # <<>> /\ costs[h] # NoCost /\ names' = Tail(names)
        /\ ruling' = IF costs[h] > MaxTree THEN "rejected" ELSE "walking"
        /\ UNCHANGED <<code, visits, costs>>
    BY DEF Report
  <1>2. /\ names \in Seq(DOMAIN code) /\ h \in DOMAIN code /\ h = names[1]
        /\ \A n \in DOMAIN names : n # 1 => n - 1 \in DOMAIN names' /\ names'[n - 1] = names[n]
    BY <1>1 DEF TreeTyped
  <1>3. costs[h] = size[h] /\ size[h] \in Nat BY <1>1, <1>2 DEF Walk, Ruled, Sized
  <1> HIDE DEF h
  <1>4. \A s \in DOMAIN code : costs'[s] \in {NoCost, size[s]} BY <1>1 DEF Walk, Ruled
  <1>5. CASE costs[h] > MaxTree
    <2>1. ruling' = "rejected" /\ size[h] > MaxTree BY <1>1, <1>3, <1>5
    <2>2. Ruled(size)' BY <1>1, <1>2, <1>4, <2>1 DEF Ruled
    <2>3. QED BY <1>1, <2>2 DEF Walk, Chained, Falling
  <1>6. CASE ~(costs[h] > MaxTree)
    <2>1. ruling' = "walking" /\ size[h] <= MaxTree BY <1>1, <1>3, <1>6, CallTreeAssumption
    <2>2. ASSUME NEW s \in DOMAIN code
          PROVE  size[s] <= MaxTree \/ \E n \in DOMAIN names' : names'[n] = s
      <3>1. size[s] <= MaxTree \/ \E n \in DOMAIN names : names[n] = s BY <1>1 DEF Walk, Ruled
      <3>2. CASE size[s] <= MaxTree BY <3>2
      <3>3. CASE \E n \in DOMAIN names : names[n] = s
        <4>1. PICK n \in DOMAIN names : names[n] = s BY <3>3
        <4>2. CASE n = 1 BY <1>2, <2>1, <4>1, <4>2
        <4>3. CASE n # 1 BY <1>2, <4>1, <4>3
        <4>4. QED BY <4>2, <4>3
      <3>4. QED BY <3>1, <3>2, <3>3
    <2>3. Ruled(size)' BY <1>1, <1>4, <2>1, <2>2 DEF Ruled
    <2>4. QED BY <1>1, <2>3 DEF Walk, Chained, Falling
  <1>7. QED BY <1>5, <1>6

LEMMA BeginWalk ==
  ASSUME TreeTyped, NEW size, Sized(code, size), Walk(size), Begin
  PROVE  Walk(size)'
PROOF
  <1>1. /\ visits = <<>> /\ names # <<>> /\ visits' = Visit(Head(names))
        /\ UNCHANGED <<code, names, costs, ruling>>
    BY DEF Begin
  <1>2. Head(names) \in DOMAIN code BY <1>1 DEF TreeTyped
  <1>3. /\ Len(visits') = 1 /\ visits' \in Seq(Activations)
        /\ visits'[1] = [sub |-> Head(names), at |-> 1, total |-> 0]
    BY <1>1, <1>2, Entered
  <1> DEFINE v == visits'[1]
  <1>4. v.sub \in DOMAIN code /\ v.at = 1 /\ v.total = 0 BY <1>2, <1>3
  <1> HIDE DEF v
  <1>5. Counted(code, size, v) BY <1>4, CountStart
  <1>6. DOMAIN visits' = {1} BY <1>3
  <1>7. \A k \in DOMAIN visits' : Counted(code, size, visits'[k]) BY <1>5, <1>6 DEF v
  <1>8. Chained' BY <1>3 DEF Chained
  <1>9. Falling(size)' BY <1>6 DEF Falling
  <1>10. Ruled(size)' BY <1>1 DEF Walk, Ruled
  <1>11. QED BY <1>1, <1>7, <1>8, <1>9, <1>10 DEF Walk

LEMMA FollowWalk ==
  ASSUME TreeTyped, NEW size, Sized(code, size), Walk(size), FollowCall
  PROVE  Walk(size)'
PROOF
  <1> DEFINE n      == Len(visits)
             top    == Last(visits)
             listed  == Collected(code[top.sub])
             callee == listed[top.at]
  <1>1. /\ visits # <<>> /\ top.at <= Len(listed)
        /\ visits' = IF callee \notin DOMAIN code THEN Append(Front(visits), Passed(top, 0))
                     ELSE IF costs[callee] # NoCost
                            THEN Append(Front(visits), Passed(top, costs[callee]))
                     ELSE IF callee \in Visiting THEN Append(Front(visits), Passed(top, 0))
                     ELSE Visit(callee)
        /\ UNCHANGED <<code, names, costs, ruling>>
    BY DEF FollowCall
  <1>2. /\ n \in Nat \ {0} /\ DOMAIN visits = 1 .. n
        /\ top = visits[n] /\ top \in Activations
    BY <1>1, TopOf
  <1>3. top.sub \in DOMAIN code /\ Counted(code, size, top)
    BY <1>2 DEF Activations, Walk
  <1> HIDE DEF top
  <1>4. Len(listed) \in Nat
    <2>1. Finite(code) /\ \A i \in DOMAIN code[top.sub] : code[top.sub][i].kind # "block"
      BY <1>3 DEF Sized
    <2>2. Len(listed) = Cardinality(CallsIn(code, top.sub)) BY <1>3, <2>1, CollectedIs
    <2>3. QED BY <1>3, <2>1, <2>2, CallsFinite, FS_CardinalityType
  <1>5. top.at \in 1 .. Len(listed) BY <1>1, <1>3, <1>4 DEF Counted
  <1>6. callee \in DOMAIN code => size[callee] < size[top.sub] BY <1>3, <1>5, CalleeOf
  <1> HIDE DEF listed, callee, n
  <1>7. \A s \in DOMAIN code : size[s] \in Nat BY DEF Sized
  <1>8. callee \in DOMAIN code => callee \notin Visiting
    <2> SUFFICES ASSUME callee \in DOMAIN code, NEW j \in DOMAIN visits, visits[j].sub = callee
                 PROVE  FALSE
      BY DEF Visiting
    <2>1. j = n \/ j < n BY <1>2
    <2>2. size[callee] = size[top.sub] \/ size[top.sub] < size[callee] BY <1>2, <2>1 DEF Walk, Falling
    <2>3. QED BY <1>3, <1>6, <1>7, <2>2
  <1>9. Ruled(size)' BY <1>1 DEF Walk, Ruled
  <1> DEFINE cost == IF callee \in DOMAIN code THEN size[callee] ELSE 0
  <1>10. cost \in Nat BY <1>7
  <1>11. \/ visits' = Append(Front(visits), Passed(top, cost))
         \/ callee \in DOMAIN code /\ visits' = Visit(callee)
    <2>1. CASE callee \notin DOMAIN code BY <1>1, <2>1
    <2>2. CASE callee \in DOMAIN code /\ costs[callee] # NoCost
      <3>1. costs[callee] = size[callee] BY <2>2 DEF Walk, Ruled
      <3>2. QED BY <1>1, <2>2, <3>1
    <2>3. CASE callee \in DOMAIN code /\ costs[callee] = NoCost BY <1>1, <1>8, <2>3
    <2>4. QED BY <2>1, <2>2, <2>3
  <1>12. CASE visits' = Append(Front(visits), Passed(top, cost))
    <2> DEFINE w == Passed(top, cost)
    <2>1. w \in Activations /\ w.sub = top.sub BY <1>2, <1>10 DEF Activations, Passed
    <2>2. Counted(code, size, w)
      <3>1. cost = IF Collected(code[top.sub])[top.at] \in DOMAIN code
                     THEN size[Collected(code[top.sub])[top.at]] ELSE 0
        BY DEF callee, listed
      <3>2. top.at <= Len(Collected(code[top.sub])) BY <1>1 DEF listed
      <3> HIDE DEF cost
      <3>3. QED BY <1>3, <1>10, <3>1, <3>2, CountNext
    <2> HIDE DEF w
    <2>3. visits' = Append(Front(visits), w) BY <1>12 DEF w
    <2>4. /\ visits' \in Seq(Activations) /\ Len(visits') = n
          /\ \A k \in 1 .. n - 1 : visits'[k] = visits[k]
          /\ visits'[n] = w
          /\ \A k \in DOMAIN visits : visits'[k].sub = visits[k].sub
      BY <1>1, <2>1, <2>3, Changed DEF n, top
    <2>5. DOMAIN visits' = DOMAIN visits BY <1>2, <2>4
    <2>6. \A k \in DOMAIN visits' : Counted(code, size, visits'[k])
      BY <1>2, <2>2, <2>4, <2>5 DEF Walk
    <2>7. Chained'
      <3> SUFFICES ASSUME NEW k \in 1 .. n - 1
                   PROVE  /\ visits'[k].at \in 1 .. Len(Collected(code[visits'[k].sub]))
                          /\ Collected(code[visits'[k].sub])[visits'[k].at] = visits'[k + 1].sub
        BY <1>1, <2>4 DEF Chained
      <3>1. visits'[k] = visits[k] /\ k + 1 \in DOMAIN visits BY <1>2, <2>4
      <3>2. visits'[k + 1].sub = visits[k + 1].sub BY <2>4, <3>1
      <3>3. QED BY <3>1, <3>2 DEF Walk, Chained, n
    <2>8. Falling(size)' BY <2>4, <2>5 DEF Walk, Falling
    <2>9. QED BY <1>1, <1>9, <2>6, <2>7, <2>8 DEF Walk
  <1>13. CASE callee \in DOMAIN code /\ visits' = Visit(callee)
    <2>1. /\ visits' \in Seq(Activations) /\ Len(visits') = n + 1
          /\ \A k \in 1 .. n : visits'[k] = visits[k]
          /\ visits'[n + 1] = [sub |-> callee, at |-> 1, total |-> 0]
      BY <1>13, Entered DEF n
    <2> DEFINE w == visits'[n + 1]
    <2>2. w.sub = callee /\ w.at = 1 /\ w.total = 0 BY <2>1
    <2> HIDE DEF w
    <2>3. Counted(code, size, w) BY <1>13, <2>2, CountStart
    <2>4. DOMAIN visits' = 1 .. n + 1 BY <2>1
    <2>5. \A k \in DOMAIN visits' : Counted(code, size, visits'[k])
      BY <1>2, <2>1, <2>3, <2>4 DEF Walk, w
    <2>6. Chained'
      <3>5. Len(visits') - 1 = n BY <1>2, <2>1
      <3> SUFFICES ASSUME NEW k \in 1 .. n
                   PROVE  /\ visits'[k].at \in 1 .. Len(Collected(code[visits'[k].sub]))
                          /\ Collected(code[visits'[k].sub])[visits'[k].at] = visits'[k + 1].sub
        BY <1>1, <3>5 DEF Chained
      <3>1. visits'[k] = visits[k] BY <2>1
      <3>2. CASE k = n BY <1>2, <1>5, <2>2, <3>1, <3>2 DEF listed, callee, w
      <3>3. CASE k # n
        <4>1. k \in 1 .. n - 1 /\ k + 1 \in 1 .. n BY <1>2, <3>3
        <4>2. visits'[k + 1] = visits[k + 1] BY <2>1, <4>1
        <4>3. QED BY <3>1, <4>1, <4>2 DEF Walk, Chained, n
      <3>4. QED BY <3>2, <3>3
    <2>7. Falling(size)'
      <3> SUFFICES ASSUME NEW j \in 1 .. n + 1, NEW k \in 1 .. n + 1, j < k
                   PROVE  size[visits'[k].sub] < size[visits'[j].sub]
        BY <2>4 DEF Falling
      <3>1. j \in 1 .. n /\ visits'[j] = visits[j] BY <1>2, <2>1
      <3>2. CASE k \in 1 .. n BY <1>2, <2>1, <3>1, <3>2 DEF Walk, Falling
      <3>3. CASE k = n + 1
        <4>1. visits'[k].sub = callee BY <2>2, <3>3 DEF w
        <4>2. visits[j].sub \in DOMAIN code
          <5>1. visits[j] \in Activations BY <1>2, <3>1 DEF TreeTyped
          <5>2. QED BY <5>1 DEF Activations
        <4>3. j = n \/ j < n BY <1>2, <3>1
        <4>4. size[top.sub] <= size[visits[j].sub]
          BY <1>2, <1>3, <1>7, <3>1, <4>2, <4>3 DEF Walk, Falling
        <4>5. QED BY <1>3, <1>6, <1>7, <1>13, <3>1, <4>1, <4>2, <4>4
      <3>4. QED BY <1>2, <3>2, <3>3
    <2>8. QED BY <1>1, <1>9, <2>5, <2>6, <2>7 DEF Walk
  <1>14. QED BY <1>11, <1>12, <1>13

LEMMA EndWalk ==
  ASSUME TreeTyped, NEW size, Sized(code, size), Walk(size), EndVisit
  PROVE  Walk(size)'
PROOF
  <1> DEFINE n   == Len(visits)
             top == Last(visits)
  <1>1. /\ visits # <<>> /\ top.at > Len(Collected(code[top.sub]))
        /\ costs' = [costs EXCEPT ![top.sub] = top.total]
        /\ UNCHANGED <<code, names, ruling>>
    BY DEF EndVisit
  <1>2. n \in Nat \ {0} /\ DOMAIN visits = 1 .. n /\ top = visits[n] /\ top \in Activations
    BY <1>1, TopOf
  <1>3. top.sub \in DOMAIN code /\ Counted(code, size, top) BY <1>2 DEF Activations, Walk
  <1> HIDE DEF top
  <1>4. top.total = size[top.sub] BY <1>1, <1>3, CountDone
  <1>5. \A s \in DOMAIN code : costs'[s] \in {NoCost, size[s]}
    BY <1>1, <1>3, <1>4 DEF TreeTyped, Walk, Ruled
  <1>6. Ruled(size)' BY <1>1, <1>5 DEF Walk, Ruled
  <1>7. CASE n = 1
    <2>1. visits' = <<>> BY <1>7 DEF EndVisit, n
    <2>2. QED BY <1>1, <1>6, <2>1 DEF Walk, Chained, Falling
  <1>8. CASE n # 1
    <2> DEFINE k == n - 1
               w == Passed(visits[k], top.total)
    <2>1. /\ k \in DOMAIN visits
          /\ visits' \in Seq(Activations) /\ Len(visits') = k
          /\ \A j \in 1 .. k - 1 : visits'[j] = visits[j]
          /\ visits'[k] = w
          /\ visits'[k].sub = visits[k].sub
      BY <1>8, Resumed DEF n, top
    <2>2. k \in 1 .. n - 1 /\ k + 1 = n BY <1>2, <2>1
    <2>3. /\ visits[k].at \in 1 .. Len(Collected(code[visits[k].sub]))
          /\ Collected(code[visits[k].sub])[visits[k].at] = top.sub
      BY <1>2, <2>2 DEF Walk, Chained, n
    <2> DEFINE v == visits[k]
    <2>4. v.sub \in DOMAIN code /\ Counted(code, size, v)
      <3>1. visits[k] \in Activations BY <2>1 DEF TreeTyped
      <3>2. v.sub \in DOMAIN code BY <3>1 DEF Activations
      <3>3. QED BY <2>1, <3>2 DEF Walk
    <2>5. /\ v.at <= Len(Collected(code[v.sub]))
          /\ top.total = IF Collected(code[v.sub])[v.at] \in DOMAIN code
                           THEN size[Collected(code[v.sub])[v.at]] ELSE 0
          /\ top.total \in Nat
      <3>1. top.total \in Nat BY <1>2 DEF Activations
      <3>2. v.at <= Len(Collected(code[v.sub])) BY <2>3
      <3>3. QED BY <1>3, <1>4, <2>3, <3>1, <3>2
    <2>6. w = Passed(v, top.total) OBVIOUS
    <2> HIDE DEF v, w, k
    <2>7. Counted(code, size, w) BY <2>4, <2>5, <2>6, CountNext
    <2>8. DOMAIN visits' = 1 .. k BY <2>1
    <2>9. \A j \in DOMAIN visits' : Counted(code, size, visits'[j])
      BY <1>2, <2>1, <2>2, <2>7, <2>8 DEF Walk
    <2>10. \A j \in 1 .. k : visits'[j].sub = visits[j].sub BY <2>1, <2>2
    <2>11. Chained'
      <3> SUFFICES ASSUME NEW j \in 1 .. k - 1
                   PROVE  /\ visits'[j].at \in 1 .. Len(Collected(code[visits'[j].sub]))
                          /\ Collected(code[visits'[j].sub])[visits'[j].at] = visits'[j + 1].sub
        BY <1>1, <2>1 DEF Chained
      <3>1. visits'[j] = visits[j] /\ j + 1 \in 1 .. k /\ j \in 1 .. n - 1 BY <1>2, <2>1, <2>2
      <3>2. visits'[j + 1].sub = visits[j + 1].sub BY <2>10, <3>1
      <3>3. QED BY <3>1, <3>2 DEF Walk, Chained, n
    <2>12. Falling(size)'
      <3>1. \A j \in 1 .. k : j \in DOMAIN visits BY <1>2, <2>2
      <3>2. QED BY <2>8, <2>10, <3>1 DEF Walk, Falling
    <2>13. QED BY <1>1, <1>6, <2>9, <2>11, <2>12 DEF Walk
  <1>9. QED BY <1>7, <1>8

LEMMA AcceptWalk ==
  ASSUME TreeTyped, NEW size, Walk(size), Accept
  PROVE  Walk(size)'
PROOF BY DEF Accept, Walk, Chained, Falling, Ruled

-----------------------------------------------------------------------------
(* The inductive invariant.                                                 *)

Exact == Acyclic(code) => \A size : size = Size => Walk(size)

LEMMA SizedCode ==
  ASSUME TreeTyped, Acyclic(code), NEW size, size = Size
  PROVE  Sized(code, size)
PROOF
  <1>1. Finite(code) BY CodeFinite
  <1>2. (\A s \in DOMAIN code : Size[s] \in Nat) /\ CallWorth(code, Size) BY <1>1, SizeIs
  <1>3. \A s \in DOMAIN code : \A i \in DOMAIN code[s] : code[s][i].kind # "block" BY DEF Acyclic
  <1>4. QED BY <1>1, <1>2, <1>3 DEF Sized

LEMMA InitExact == TreeInit => Exact
PROOF
  <1> SUFFICES ASSUME TreeInit, Acyclic(code), NEW size, size = Size PROVE Walk(size) BY DEF Exact
  <1>1. Sized(code, size) BY InitTreeTyped, SizedCode
  <1>2. QED BY <1>1, StartWalk DEF Sized

LEMMA NextExact == TreeTyped /\ Exact /\ [TreeNext]_treeVars => Exact'
PROOF
  <1> SUFFICES ASSUME TreeTyped, Exact, [TreeNext]_treeVars PROVE Exact' OBVIOUS
  <1>1. code' = code
    BY DEF TreeNext, Report, Begin, FollowCall, EndVisit, Accept, treeVars
  <1>2. Acyclic(code)' <=> Acyclic(code) BY <1>1
  <1>3. Size' = Size BY <1>1 DEF Size
  <1> SUFFICES ASSUME Acyclic(code), NEW size, size = Size PROVE Walk(size)'
    BY <1>2, <1>3 DEF Exact
  <1>4. Walk(size) /\ Sized(code, size) BY SizedCode DEF Exact
  <1>5. CASE Report BY <1>4, <1>5, ReportWalk
  <1>6. CASE Begin BY <1>4, <1>6, BeginWalk
  <1>7. CASE FollowCall BY <1>4, <1>7, FollowWalk
  <1>8. CASE EndVisit BY <1>4, <1>8, EndWalk
  <1>9. CASE Accept BY <1>4, <1>9, AcceptWalk
  <1>10. CASE UNCHANGED treeVars BY <1>4, <1>10 DEF treeVars, Walk, Chained, Falling, Ruled
  <1>11. QED BY <1>5, <1>6, <1>7, <1>8, <1>9, <1>10 DEF TreeNext

(* Whatever calls what, no subroutine is visited twice at once, and the     *)
(* memo holds numbers (checkCallTreeLimit).                                 *)
THEOREM WalksTyped == TreeSpec => []TreeTypeOK
PROOF
<1>1. TreeInit => TreeTyped /\ VisitedOnce BY InitTreeTyped
<1>2. TreeTyped /\ VisitedOnce /\ [TreeNext]_treeVars => TreeTyped' /\ VisitedOnce' BY NextTreeTyped
<1>3. TreeTyped /\ VisitedOnce => TreeTypeOK BY DEF TreeTyped, VisitedOnce, TreeTypeOK, IsInjective
<1>4. QED BY <1>1, <1>2, <1>3, PTL DEF TreeSpec

(* For any program without recursion, any limit and any order of its names, *)
(* the memo holds what each subroutine comes to when all its calls are      *)
(* inlined, and the program is accepted exactly when none comes to more     *)
(* than the limit (checkCallTreeLimit).                                     *)
THEOREM VerdictsAreExact == TreeSpec => []VerdictExact
PROOF
<1>1. TreeInit => TreeTyped /\ VisitedOnce /\ Exact BY InitTreeTyped, InitExact
<1>2. TreeTyped /\ VisitedOnce /\ [TreeNext]_treeVars => TreeTyped' /\ VisitedOnce' BY NextTreeTyped
<1>3. TreeTyped /\ Exact /\ [TreeNext]_treeVars => Exact' BY NextExact
<1>4. Exact => VerdictExact
  <2> SUFFICES ASSUME Acyclic(code), Exact
               PROVE  LET size == Inlined(code)[Cardinality(DOMAIN code)]
                      IN /\ \A s \in DOMAIN code : costs[s] \in {NoCost, size[s]}
                         /\ ruling = "accepted" => \A s \in DOMAIN code : size[s] <= MaxTree
                         /\ ruling = "rejected" => \E s \in DOMAIN code : size[s] > MaxTree
    BY DEF VerdictExact
  <2>1. Ruled(Size) BY DEF Exact, Walk
  <2>2. ruling = "accepted" => DOMAIN names = {} BY <2>1 DEF Ruled
  <2>3. QED BY <2>1, <2>2 DEF Ruled, Size
<1>5. QED BY <1>1, <1>2, <1>3, <1>4, PTL DEF TreeSpec

-----------------------------------------------------------------------------
(* Unwinding: f holds the tables that are left when the calls of a set have *)
(* given back what they shadowed.                                           *)

Unwinding(table, left, f) ==
  f = [s \in SUBSET DOMAIN left |->
         IF s = {} THEN table ELSE Restored(f[s \ {Min(s)}], left[Min(s)])]

(* The calls of a set that give back a name.                                   *)
Shadowers(left, s, x) == {i \in s : x \in GivenBack(left[i])}

(* The outermost of them has the last word.                                 *)
LeftOver(table, left, s) ==
  [x \in LocalNames |-> IF Shadowers(left, s, x) = {} THEN table[x]
                        ELSE left[Min(Shadowers(left, s, x))].saved[x]]

LEMMA LeftOverUnwinds ==
  ASSUME NEW table, table = [x \in LocalNames |-> table[x]],
         NEW left, DOMAIN left \in SUBSET Nat
  PROVE  Unwinding(table, left, [s \in SUBSET DOMAIN left |-> LeftOver(table, left, s)])
PROOF
  <1> DEFINE h == [s \in SUBSET DOMAIN left |-> LeftOver(table, left, s)]
  <1>1. LeftOver(table, left, {}) = table BY DEF LeftOver, Shadowers
  <1>2. ASSUME NEW s \in SUBSET DOMAIN left, s # {}
        PROVE  LeftOver(table, left, s) = Restored(h[s \ {Min(s)}], left[Min(s)])
    <2> DEFINE m == Min(s)
               t == s \ {m}
    <2>1. s \in SUBSET Nat OBVIOUS
    <2>2. m \in s /\ \A y \in s : m <= y BY <1>2, <2>1, MinIsLeast
    <2>3. h[t] = LeftOver(table, left, t) OBVIOUS
    <2> HIDE DEF m, h
    <2>4. ASSUME NEW x \in LocalNames
          PROVE  LeftOver(table, left, s)[x] =
                   IF x \in GivenBack(left[m]) THEN left[m].saved[x] ELSE LeftOver(table, left, t)[x]
      <3>1. CASE x \in GivenBack(left[m])
        <4>1. m \in Shadowers(left, s, x) BY <2>2, <3>1 DEF Shadowers
        <4>2. Shadowers(left, s, x) \in SUBSET Nat /\ \A y \in Shadowers(left, s, x) : m <= y
          BY <2>1, <2>2 DEF Shadowers
        <4>3. Min(Shadowers(left, s, x)) = m BY <4>1, <4>2, MinIsThat
        <4>4. QED BY <3>1, <4>1, <4>3 DEF LeftOver
      <3>2. CASE x \notin GivenBack(left[m])
        <4>1. Shadowers(left, s, x) = Shadowers(left, t, x) BY <3>2 DEF Shadowers
        <4>2. QED BY <3>2, <4>1 DEF LeftOver
      <3>3. QED BY <3>1, <3>2
    <2>5. LeftOver(table, left, s) = [x \in LocalNames |-> LeftOver(table, left, s)[x]] BY DEF LeftOver
    <2> DEFINE l == LeftOver(table, left, s)
               k == LeftOver(table, left, t)
    <2> HIDE DEF l, k, t
    <2>6. l = [x \in LocalNames |-> IF x \in GivenBack(left[m]) THEN left[m].saved[x] ELSE k[x]]
      BY <2>4, <2>5 DEF l, k
    <2>7. l = Restored(k, left[m]) BY <2>6 DEF Restored
    <2>8. QED BY <2>3, <2>7 DEF l, k, t, m
  <1>3. \A s \in SUBSET DOMAIN left :
          LeftOver(table, left, s) =
            IF s = {} THEN table ELSE Restored(h[s \ {Min(s)}], left[Min(s)])
    <2> HIDE DEF h
    <2>1. QED BY <1>1, <1>2
  <1>4. h = [s \in SUBSET DOMAIN left |->
               IF s = {} THEN table ELSE Restored(h[s \ {Min(s)}], left[Min(s)])]
    <2> DEFINE g(s) == IF s = {} THEN table ELSE Restored(h[s \ {Min(s)}], left[Min(s)])
    <2>1. \A s \in SUBSET DOMAIN left : LeftOver(table, left, s) = g(s) BY <1>3
    <2> HIDE DEF g
    <2>2. h = [s \in SUBSET DOMAIN left |-> g(s)] BY <2>1
    <2>3. QED BY <2>2 DEF g
  <1>5. QED BY <1>4 DEF Unwinding

LEMMA UnwindingUnique ==
  ASSUME NEW table, NEW left, IsFiniteSet(DOMAIN left),
         \A s \in SUBSET DOMAIN left : s # {} => Min(s) \in s,
         NEW f, Unwinding(table, left, f), NEW g, Unwinding(table, left, g)
  PROVE  \A s \in SUBSET DOMAIN left : f[s] = g[s]
PROOF
  <1> DEFINE D == DOMAIN left
             T == {s \in SUBSET D : f[s] # g[s]}
  <1> SUFFICES ASSUME T # {} PROVE FALSE OBVIOUS
  <1>1. IsFiniteSet(D) OBVIOUS
  <1>2. PICK s \in T : \A t \in T : t \subseteq s => t = s
    <2>1. T \in SUBSET (SUBSET D) OBVIOUS
    <2> HIDE DEF T, D
    <2>2. QED BY <1>1, <2>1, LeastSet
  <1>3. /\ f[s] = IF s = {} THEN table ELSE Restored(f[s \ {Min(s)}], left[Min(s)])
        /\ g[s] = IF s = {} THEN table ELSE Restored(g[s \ {Min(s)}], left[Min(s)])
    BY DEF Unwinding
  <1>4. s # {} BY <1>2, <1>3
  <1>5. Min(s) \in s BY <1>4
  <1> DEFINE t == s \ {Min(s)}
  <1>6. t \in SUBSET D /\ t \subseteq s /\ t # s BY <1>5
  <1>7. f[t] = g[t] BY <1>2, <1>6
  <1>8. QED BY <1>2, <1>3, <1>4, <1>7

(* An exception leaves to each name what the outermost call that gives it   *)
(* back saved.                                                              *)
LEMMA UnwoundIs ==
  ASSUME NEW table, table = [x \in LocalNames |-> table[x]], NEW left, \E S : left \in Seq(S)
  PROVE  Unwound(table, left) = LeftOver(table, left, DOMAIN left)
PROOF
  <1> DEFINE D == DOMAIN left
             f == CHOOSE f : Unwinding(table, left, f)
             h == [s \in SUBSET D |-> LeftOver(table, left, s)]
  <1>1. D \in SUBSET Nat /\ IsFiniteSet(D)
    <2>1. D = 1 .. Len(left) /\ Len(left) \in Nat OBVIOUS
    <2>2. IsFiniteSet(1 .. Len(left)) BY <2>1, PlacesFinite
    <2>3. QED BY <2>1, <2>2
  <1>2. Unwinding(table, left, h) BY <1>1, LeftOverUnwinds
  <1> HIDE DEF h
  <1>3. Unwinding(table, left, f) BY <1>2
  <1>4. Unwound(table, left) = f[D]
    BY DEF Unwound, FoldRight, MapThenFoldSet, Unwinding
  <1> HIDE DEF f, D
  <1>5. D = DOMAIN left BY DEF D
  <1>6. D \in SUBSET DOMAIN left BY <1>5
  <1>7. \A s \in SUBSET D : s # {} => Min(s) \in s
    <2> SUFFICES ASSUME NEW s \in SUBSET D, s # {} PROVE Min(s) \in s OBVIOUS
    <2>1. s \in SUBSET Nat BY <1>1
    <2>2. QED BY <2>1, MinIsLeast
  <1>8. f[D] = h[D] BY <1>1, <1>2, <1>3, <1>5, <1>6, <1>7, UnwindingUnique
  <1>9. QED BY <1>4, <1>8 DEF h, D

-----------------------------------------------------------------------------
(* The inductive invariant: each call under way has saved what the first of *)
(* its parameters were; a typed one is a parameter ahead of its bindings.   *)

Tabled == locals = [x \in LocalNames |-> locals[x]]

Sequenced == \E S : calls \in Seq(S)

Saved(call, k) ==
  /\ call = [names |-> call.names, given |-> call.given, typed |-> call.typed,
             bound |-> call.bound, saved |-> call.saved, before |-> call.before]
  /\ call.names \in Seq(LocalNames)
  /\ call.typed \in BOOLEAN
  /\ call.bound \in 0 .. Len(call.names)
  /\ DOMAIN call.saved = {call.names[i] : i \in 1 .. k} /\ DOMAIN call.before = DOMAIN call.saved
  /\ \A x \in DOMAIN call.saved : call.saved[x] = call.before[x]

Turns(call) == IF call.typed /\ ~InBody(call) THEN call.bound + 1 ELSE call.bound

Remembers(call) == Saved(call, Turns(call))

LInv ==
  /\ Tabled
  /\ Sequenced
  /\ \A n \in DOMAIN calls : Remembers(calls[n])

(* What a step must give back to the callers it returns to.                 *)
Held(call) == IF InBody(call) THEN ToSet(call.names) ELSE {}

GivesBack == MeanAsBefore([n \in DOMAIN calls |-> Held(calls[n])])

(* A call whose body has begun gives back all its parameters' names, and to *)
(* each what it meant.                                                      *)
LEMMA BodyGivesBackAll ==
  ASSUME NEW call, Remembers(call)
  PROVE  /\ GivenBack(call) = Held(call)
         /\ Held(call) \in SUBSET LocalNames
         /\ \A x \in Held(call) : call.saved[x] = call.before[x]
PROOF
  <1>1. CASE InBody(call)
    <2>1. Turns(call) = Len(call.names) BY <1>1 DEF Turns, InBody
    <2>2. /\ DOMAIN call.saved = {call.names[i] : i \in 1 .. Len(call.names)}
          /\ call.names \in Seq(LocalNames)
          /\ \A x \in DOMAIN call.saved : call.saved[x] = call.before[x]
      BY <2>1 DEF Remembers, Saved
    <2>3. Held(call) = {call.names[i] : i \in 1 .. Len(call.names)}
      BY <1>1, <2>2 DEF Held, ToSet
    <2>4. GivenBack(call) = DOMAIN call.saved BY <1>1 DEF GivenBack
    <2>5. QED BY <2>2, <2>3, <2>4
  <1>2. CASE ~InBody(call) BY <1>2 DEF GivenBack, Held
  <1>3. QED BY <1>1, <1>2

LEMMA SaveSaves ==
  ASSUME NEW call, NEW table, Saved(call, call.bound), ~InBody(call)
  PROVE  /\ Saved(Save(call, table), call.bound + 1)
         /\ Save(call, table).names = call.names
         /\ Save(call, table).typed = call.typed
         /\ Save(call, table).bound = call.bound
PROOF
  <1> DEFINE k == call.bound
             x == call.names[k + 1]
             s == Put(call.saved, x, table[x])
             b == Put(call.before, x, table[x])
             saver == Save(call, table)
  <1>1. /\ call = [names |-> call.names, given |-> call.given, typed |-> call.typed,
                   bound |-> call.bound, saved |-> call.saved, before |-> call.before]
        /\ k \in Nat /\ k + 1 \in 1 .. Len(call.names)
    BY DEF Saved, InBody
  <1>2. saver = [names |-> call.names, given |-> call.given, typed |-> call.typed,
                 bound |-> call.bound, saved |-> s, before |-> b]
    <2> HIDE DEF s, b, x, k
    <2>1. saver = [call EXCEPT !.saved = s, !.before = b] BY DEF Save, s, b, x, k
    <2>2. QED BY <1>1, <2>1
  <1>3. DOMAIN s = {call.names[i] : i \in 1 .. k + 1}
    <2>1. 1 .. k + 1 = (1 .. k) \cup {k + 1} BY <1>1
    <2>2. DOMAIN call.saved = {call.names[i] : i \in 1 .. k} BY DEF Saved
    <2>3. QED BY <2>1, <2>2 DEF Put
  <1>4. \A y \in DOMAIN s : s[y] = b[y]
    <2> SUFFICES ASSUME NEW y \in DOMAIN s PROVE s[y] = b[y] OBVIOUS
    <2>1. s[y] = (IF y = x THEN table[x] ELSE call.saved[y]) BY DEF Put
    <2>2. y \in DOMAIN call.saved \cup {x} BY DEF Put
    <2>3. DOMAIN call.before = DOMAIN call.saved BY DEF Saved
    <2>4. b[y] = (IF y = x THEN table[x] ELSE call.before[y]) BY <2>2, <2>3 DEF Put
    <2>5. QED BY <2>1, <2>2, <2>4 DEF Saved
  <1>5. DOMAIN b = DOMAIN s BY DEF Put, Saved
  <1> HIDE DEF s, b, x, saver
  <1>6. QED BY <1>1, <1>2, <1>3, <1>4, <1>5 DEF Saved, saver

LEMMA TurnRemembers ==
  ASSUME NEW call, NEW table, Saved(call, call.bound)
  PROVE  Remembers(Turn(call, table))
PROOF
  <1>1. CASE call.typed /\ ~InBody(call)
    <2>1. Turn(call, table) = Save(call, table) BY <1>1 DEF Turn
    <2>2. Turns(Save(call, table)) = call.bound + 1 BY <1>1, SaveSaves DEF Turns, InBody
    <2>3. QED BY <1>1, <2>1, <2>2, SaveSaves DEF Remembers
  <1>2. CASE ~(call.typed /\ ~InBody(call))
    <2>1. Turn(call, table) = call /\ Turns(call) = call.bound BY <1>2 DEF Turn, Turns
    <2>2. QED BY <2>1 DEF Remembers
  <1>3. QED BY <1>1, <1>2

LEMMA InitLInv == LocalsInit => LInv
PROOF
  <1> SUFFICES ASSUME LocalsInit PROVE LInv OBVIOUS
  <1>1. Tabled BY DEF LocalsInit, Tabled
  <1>2. calls \in Seq({}) BY DEF LocalsInit
  <1>3. Sequenced BY <1>2 DEF Sequenced
  <1>4. DOMAIN calls = {} BY DEF LocalsInit
  <1>5. QED BY <1>1, <1>3, <1>4 DEF LInv

(* A step that neither enters nor leaves a call gives nothing back.         *)
LEMMA StaysInside ==
  ASSUME LInv, UNCHANGED calls, Tabled'
  PROVE  LInv' /\ GivesBack
PROOF
  <1>1. Len(calls) \in Nat BY DEF LInv, Sequenced
  <1>2. GivesBack BY <1>1 DEF GivesBack, MeanAsBefore
  <1>3. LInv' BY DEF LInv, Sequenced
  <1>4. QED BY <1>2, <1>3

LEMMA FailsLInv ==
  ASSUME LInv, Fails
  PROVE  LInv' /\ GivesBack
PROOF
  <1>1. locals' = LeftOver(locals, calls, DOMAIN calls) /\ calls' = <<>>
    BY UnwoundIs DEF LInv, Tabled, Sequenced, Fails
  <1>2. Tabled' BY <1>1 DEF Tabled, LeftOver
  <1>3. calls' \in Seq({}) /\ DOMAIN calls' = {} BY <1>1
  <1>4. Sequenced' BY <1>3 DEF Sequenced
  <1>5. LInv' BY <1>2, <1>3, <1>4 DEF LInv
  <1>6. GivesBack
    <2>1. DOMAIN calls = 1 .. Len(calls) /\ Len(calls) \in Nat /\ Len(calls') = 0
      BY <1>1 DEF LInv, Sequenced
    <2> DEFINE held == [n \in DOMAIN calls |-> Held(calls[n])]
    <2>9. \A n \in 1 .. Len(calls) : held[n] = Held(calls[n]) BY <2>1
    <2> HIDE DEF held
    <2> SUFFICES ASSUME NEW n \in 1 .. Len(calls), NEW x \in Held(calls[n]),
                        \A m \in 1 .. n - 1 : x \notin Held(calls[m])
                 PROVE  locals'[x] = calls[n].before[x]
      <3>1. \A n \in 1 .. Len(calls) : \A m \in 1 .. n - 1 : m \in 1 .. Len(calls) BY <2>1
      <3>2. MeanAsBefore(held) BY <2>1, <2>9, <3>1 DEF MeanAsBefore
      <3>3. QED BY <3>2 DEF GivesBack, held
    <2> DEFINE s == Shadowers(calls, DOMAIN calls, x)
    <2>2. \A m \in 1 .. Len(calls) : Remembers(calls[m]) /\ GivenBack(calls[m]) = Held(calls[m])
      BY <2>1, BodyGivesBackAll DEF LInv
    <2>3. x \in LocalNames /\ calls[n].saved[x] = calls[n].before[x] BY <2>2, BodyGivesBackAll
    <2>4. s \in SUBSET Nat /\ n \in s BY <2>1, <2>2 DEF Shadowers
    <2>5. \A m \in s : n <= m
      <3> SUFFICES ASSUME NEW m \in s, ~(n <= m) PROVE FALSE OBVIOUS
      <3>1. m \in 1 .. n - 1 /\ x \in Held(calls[m]) BY <2>1, <2>2 DEF Shadowers
      <3>2. QED BY <3>1
    <2> HIDE DEF s
    <2>6. Min(s) = n BY <2>4, <2>5, MinIsThat
    <2>7. locals'[x] = calls[Min(s)].saved[x] BY <1>1, <2>3, <2>4 DEF LeftOver, s
    <2>8. QED BY <2>3, <2>6, <2>7
  <1>7. QED BY <1>5, <1>6

LEMMA LeaveLInv ==
  ASSUME LInv, Leave
  PROVE  LInv' /\ GivesBack
PROOF
  <1> DEFINE k == Len(calls)
  <1>1. PICK S : calls \in Seq(S) BY DEF LInv, Sequenced
  <1>2. calls # <<>> /\ calls' = Front(calls) /\ locals' = Restored(locals, Last(calls)) BY DEF Leave
  <1>3. k \in Nat \ {0} /\ DOMAIN calls = 1 .. k BY <1>1, <1>2
  <1>4. Last(calls) = calls[k] BY DEF Last
  <1>5. /\ calls' \in Seq(S) /\ Len(calls') = k - 1
        /\ \A n \in 1 .. k - 1 : calls'[n] = calls[n]
    BY <1>1, <1>2, <1>3 DEF Front
  <1>6. Tabled' BY <1>2 DEF Tabled, Restored
  <1>7. Sequenced' BY <1>5 DEF Sequenced
  <1>8. \A n \in DOMAIN calls' : n \in DOMAIN calls /\ calls'[n] = calls[n] BY <1>3, <1>5
  <1>9. LInv' BY <1>6, <1>7, <1>8 DEF LInv
  <1>10. GivesBack
    <2> SUFFICES ASSUME NEW x \in Held(calls[k]) PROVE locals'[x] = calls[k].before[x]
      BY <1>3, <1>5 DEF GivesBack, MeanAsBefore
    <2>1. Remembers(calls[k]) BY <1>3 DEF LInv
    <2>2. x \in LocalNames /\ x \in GivenBack(calls[k]) /\ calls[k].saved[x] = calls[k].before[x]
      BY <2>1, BodyGivesBackAll
    <2>3. QED BY <1>2, <1>4, <2>2 DEF Restored
  <1>11. QED BY <1>9, <1>10

LEMMA EnterLInv ==
  ASSUME LInv, NEW sub \in DOMAIN Params, NEW typed \in BOOLEAN,
         NEW given \in 0 .. Len(Params[sub]), EnterSub(sub, given, typed)
  PROVE  LInv' /\ GivesBack
PROOF
  <1> DEFINE new  == NewCall(sub, given, typed)
             call == Turn(new, locals)
  <1>1. PICK S : calls \in Seq(S) BY DEF LInv, Sequenced
  <1>2. locals' = locals /\ calls' = Append(calls, call) BY DEF EnterSub
  <1>3. Params[sub] \in Seq(LocalNames) BY LocalsAssumption
  <1>4. Saved(new, new.bound) BY <1>3 DEF NewCall, Saved
  <1> HIDE DEF new
  <1>5. Remembers(call) BY <1>4, TurnRemembers
  <1> HIDE DEF call
  <1>6. Tabled' BY <1>2 DEF LInv, Tabled
  <1>7. /\ calls' \in Seq(S \cup {call}) /\ Len(calls') = Len(calls) + 1 /\ Len(calls) \in Nat
        /\ \A n \in 1 .. Len(calls) : n \in DOMAIN calls /\ calls'[n] = calls[n]
        /\ calls'[Len(calls) + 1] = call
        /\ DOMAIN calls' = 1 .. Len(calls) + 1
    <2>1. calls \in Seq(S \cup {call}) BY <1>1
    <2>2. QED BY <1>2, <2>1, AppendProperties
  <1>8. Sequenced' BY <1>7 DEF Sequenced
  <1>9. \A n \in DOMAIN calls' : Remembers(calls'[n]) BY <1>5, <1>7 DEF LInv
  <1>10. LInv' BY <1>6, <1>8, <1>9 DEF LInv
  <1>11. GivesBack BY <1>7 DEF GivesBack, MeanAsBefore
  <1>12. QED BY <1>10, <1>11

LEMMA LastReplaced ==
  ASSUME NEW S, NEW s \in Seq(S), s # <<>>, NEW e, NEW t, t = [s EXCEPT ![Len(s)] = e]
  PROVE  /\ Len(s) \in Nat \ {0} /\ DOMAIN s = 1 .. Len(s)
         /\ t \in Seq(S \cup {e}) /\ Len(t) = Len(s) /\ DOMAIN t = DOMAIN s
         /\ \A n \in DOMAIN s : t[n] = IF n = Len(s) THEN e ELSE s[n]
PROOF
  <1>1. Len(s) \in Nat \ {0} /\ DOMAIN s = 1 .. Len(s) OBVIOUS
  <1>2. s \in Seq(S \cup {e}) OBVIOUS
  <1>3. QED BY <1>1, <1>2

LEMMA BindLInv ==
  ASSUME LInv, NEW v, BindNext(v)
  PROVE  LInv' /\ GivesBack
PROOF
  <1> DEFINE k     == Len(calls)
             call  == Last(calls)
             saver == IF call.typed THEN call ELSE Save(call, locals)
             table == [locals EXCEPT ![call.names[call.bound + 1]] = v]
             next  == [saver EXCEPT !.bound = @ + 1]
             turn  == Turn(next, table)
  <1>1. PICK S : calls \in Seq(S) BY DEF LInv, Sequenced
  <1>2. calls # <<>> /\ ~InBody(call) BY DEF BindNext, Runs
  <1>3. k \in Nat \ {0} /\ DOMAIN calls = 1 .. k BY <1>1, <1>2
  <1>4. call = calls[k] BY DEF Last
  <1>5. Remembers(call) BY <1>3, <1>4 DEF LInv
  <1>6. locals' = table /\ calls' = [calls EXCEPT ![k] = turn] BY DEF BindNext
  <1> HIDE DEF call
  <1>7. call.bound \in Nat /\ call.bound + 1 <= Len(call.names) /\ call.typed \in BOOLEAN
    BY <1>2, <1>5 DEF Remembers, Saved, InBody
  <1>8. /\ Saved(saver, call.bound + 1)
        /\ saver.names = call.names /\ saver.bound = call.bound
    <2>1. CASE call.typed BY <1>2, <1>5, <2>1 DEF Remembers, Turns
    <2>2. CASE ~call.typed
      <3>1. Saved(call, call.bound) BY <1>5, <2>2 DEF Remembers, Turns
      <3>2. QED BY <1>2, <2>2, <3>1, SaveSaves
    <2>3. QED BY <1>7, <2>1, <2>2
  <1> HIDE DEF saver, table
  <1>9. Saved(next, next.bound)
    <2>1. saver = [names |-> saver.names, given |-> saver.given, typed |-> saver.typed,
                   bound |-> saver.bound, saved |-> saver.saved, before |-> saver.before]
      BY <1>8 DEF Saved
    <2>2. next = [names |-> saver.names, given |-> saver.given, typed |-> saver.typed,
                  bound |-> saver.bound + 1, saved |-> saver.saved, before |-> saver.before]
      BY <2>1
    <2>3. /\ next.names = saver.names /\ next.given = saver.given /\ next.typed = saver.typed
          /\ next.bound = saver.bound + 1 /\ next.saved = saver.saved /\ next.before = saver.before
      BY <2>2
    <2> HIDE DEF next
    <2>4. next.bound = call.bound + 1 /\ next.bound \in 0 .. Len(next.names) BY <1>7, <1>8, <2>3
    <2>5. QED BY <1>8, <2>2, <2>3, <2>4 DEF Saved
  <1> HIDE DEF next
  <1>10. Remembers(turn) BY <1>9, TurnRemembers
  <1> HIDE DEF turn
  <1>11. Tabled' BY <1>6 DEF LInv, Tabled, table
  <1>12. /\ calls' \in Seq(S \cup {turn}) /\ Len(calls') = Len(calls) /\ Len(calls) \in Nat
         /\ DOMAIN calls' = DOMAIN calls
         /\ \A n \in DOMAIN calls : calls'[n] = IF n = Len(calls) THEN turn ELSE calls[n]
    BY <1>1, <1>2, <1>6, LastReplaced
  <1>13. Sequenced' BY <1>12 DEF Sequenced
  <1>14. \A n \in DOMAIN calls' : Remembers(calls'[n])
    <2> HIDE DEF k
    <2>1. QED BY <1>10, <1>12 DEF LInv
  <1>15. LInv' BY <1>11, <1>13, <1>14 DEF LInv
  <1>16. GivesBack
    <2> HIDE DEF k
    <2>1. QED BY <1>12 DEF GivesBack, MeanAsBefore
  <1>17. QED BY <1>15, <1>16

LEMMA StepLInv == LInv /\ [LocalsNext]_localVars => LInv' /\ GivesBack
PROOF
  <1> SUFFICES ASSUME LInv, [LocalsNext]_localVars PROVE LInv' /\ GivesBack OBVIOUS
  <1>1. ASSUME NEW x \in LocalNames, NEW type \in Types, Declare(x, type) PROVE LInv' /\ GivesBack
    <2>1. Tabled' /\ UNCHANGED calls BY <1>1 DEF Declare, LInv, Tabled
    <2>2. QED BY <2>1, StaysInside
  <1>2. ASSUME NEW x \in LocalNames, NEW op \in Operators, NEW operand \in RightHandSides,
               SetLocal(x, op, operand)
        PROVE  LInv' /\ GivesBack
    <2>1. Fails \/ (UNCHANGED calls /\ \E v : locals' = [locals EXCEPT ![x] = v])
      BY <1>2 DEF SetLocal
    <2>2. CASE Fails BY <2>2, FailsLInv
    <2>3. CASE UNCHANGED calls /\ \E v : locals' = [locals EXCEPT ![x] = v]
      <3>1. Tabled' BY <2>3 DEF LInv, Tabled
      <3>2. QED BY <2>3, <3>1, StaysInside
    <2>4. QED BY <2>1, <2>2, <2>3
  <1>3. ASSUME NEW x \in LocalNames, UnsetLocal(x) PROVE LInv' /\ GivesBack
    <2>1. Tabled' /\ UNCHANGED calls BY <1>3 DEF UnsetLocal, LInv, Tabled
    <2>2. QED BY <2>1, StaysInside
  <1>4. ASSUME NEW sub \in DOMAIN Params, NEW typed \in BOOLEAN,
               NEW given \in 0 .. Len(Params[sub]), EnterSub(sub, given, typed)
        PROVE  LInv' /\ GivesBack
    BY <1>4, EnterLInv
  <1>5. ASSUME NEW v, BindNext(v) PROVE LInv' /\ GivesBack BY <1>5, BindLInv
  <1>6. CASE Leave BY <1>6, LeaveLInv
  <1>7. CASE ThrowOut BY <1>7, FailsLInv DEF ThrowOut
  <1>8. CASE UNCHANGED localVars
    <2>1. Tabled' /\ UNCHANGED calls BY <1>8 DEF localVars, LInv, Tabled
    <2>2. QED BY <2>1, StaysInside
  <1>9. QED BY <1>1, <1>2, <1>3, <1>4, <1>5, <1>6, <1>7, <1>8 DEF LocalsNext

(* However a call ends whose body has begun (at the end of the body, by a   *)
(* return, by an exception in it, in what it calls or in the arguments of   *)
(* a further call), the names of its parameters mean to the caller what     *)
(* they meant before they were bound (executeCallStatement,                 *)
(* executeFunctionalSub).  A call whose own arguments are still evaluated   *)
(* when the exception passes keeps no such promise: see ParametersLocal.    *)
THEOREM CallersGetTheirLocalsBack == LocalsSpec => ParametersRestored
PROOF
<1>1. LocalsInit => LInv BY InitLInv
<1>2. LInv /\ [LocalsNext]_localVars => LInv' BY StepLInv
<1>3. LInv /\ [LocalsNext]_localVars => [GivesBack]_localVars BY StepLInv
<1>4. QED BY <1>1, <1>2, <1>3, PTL DEF LocalsSpec, ParametersRestored, GivesBack, Held

-----------------------------------------------------------------------------
(* Access control lists.                                                   *)

(* No network of the list is both as-is and an exclusion.                   *)
Consistent ==
  \A m, n \in Networks : NetworkKey(m) = NetworkKey(n) => m.negated = n.negated

(* A list that loads and is not edited is consistent, and a rejected one is *)
(* not.                                                                     *)
RejectedForCause ==
  /\ pc = "loaded" /\ edits = 0 => Consistent
  /\ pc = "rejected" => ~Consistent

(* The most specific network that holds the address decides.                *)
MostSpecificDecides ==
  pc = "answered" =>
    /\ query \notin Addresses => ~Matched
    /\ query \in Addresses /\ Consistent =>
         (Matched <=> \E n \in Networks :
                        /\ Holds(n, query) /\ ~n.negated
                        /\ \A m \in Networks : Holds(m, query) => m.mask <= n.mask)

-----------------------------------------------------------------------------
(* The inductive invariant: what the loops know of the entries before them. *)

Before(n, m) ==
  /\ n \in DOMAIN list /\ m \in DOMAIN Resolve(list[n])
  /\ n < row \/ (n = row /\ m < part)

AclTyped ==
  /\ list \in Seq(AclEntries)
  /\ pc \in {"validating", "rejected", "loaded", "matching", "answered"}
  /\ row \in Nat \ {0} /\ part \in Nat \ {0}
  /\ edits \in Nat

KeyOf(e) == [key |-> NetworkKey(e), negated |-> e.negated]

SeenKnows ==
  pc \in {"validating", "loaded"} /\ edits = 0 =>
    /\ \A n, m : Before(n, m) => KeyOf(Resolve(list[n])[m]) \in seen
    /\ \A s \in seen : \E n, m : Before(n, m) /\ s = KeyOf(Resolve(list[n])[m])
    /\ \A s, t \in seen : s.key = t.key => s = t
    /\ pc = "loaded" => row > Len(list)

BestKnows ==
  pc \in {"matching", "answered"} =>
    /\ query \notin Addresses => pc = "answered" /\ best = NoEntry
    /\ query \in Addresses =>
         /\ best = NoEntry => \A n, m : Before(n, m) => ~Holds(Resolve(list[n])[m], query)
         /\ best # NoEntry =>
              /\ best \in Networks /\ Holds(best, query)
              /\ \A n, m : Before(n, m) /\ Holds(Resolve(list[n])[m], query) =>
                             Resolve(list[n])[m].mask <= best.mask
         /\ pc = "answered" => row > Len(list)

AclInv ==
  /\ AclTyped
  /\ pc = "validating" => edits = 0
  /\ SeenKnows
  /\ BestKnows
  /\ pc = "rejected" => ~Consistent

-----------------------------------------------------------------------------

LEMMA ResolveType ==
  ASSUME NEW entry \in AclEntries
  PROVE  Resolve(entry) \in Seq(ResolvedEntries)
PROOF
<1>1. ASSUME NEW a \in Addresses
      PROVE  /\ Full(a) \in Nat
             /\ \A mask \in Nat : Resolved(a, mask, entry.negated) \in ResolvedEntries
  <2>1. a.family \in Families /\ a.bytes \in {b.bytes : b \in Addresses}
    BY DEF Addresses
  <2>2. Bytes[a.family] \in Nat /\ ByteBits \in Nat
    BY <2>1, AclAssumption DEF Families
  <2>3. QED BY <2>1, <2>2 DEF Full, Resolved, ResolvedEntries, AclEntries
<1>2. CASE entry.ip = Localhost
  <2>1. Loopbacks \in Seq(Addresses) BY AclAssumption
  <2>2. \A n \in 1 .. Len(Loopbacks) : Loopbacks[n] \in Addresses BY <2>1
  <2>3. \A n \in 1 .. Len(Loopbacks) :
          Resolved(Loopbacks[n], Full(Loopbacks[n]), entry.negated) \in ResolvedEntries
    BY <2>2, <1>1
  <2>4. QED BY <1>2, <2>1, <2>3 DEF Resolve
<1>3. CASE entry.ip # Localhost /\ entry.ip \in Addresses
  BY <1>1, <1>3 DEF Resolve, AclEntries
<1>4. CASE entry.ip # Localhost /\ entry.ip \notin Addresses
  BY <1>4 DEF Resolve
<1>5. QED BY <1>2, <1>3, <1>4

(* What an entry of the list resolves to is a network.                      *)
LEMMA HereIsNetwork ==
  ASSUME AclTyped, NEW n \in DOMAIN list, NEW m \in DOMAIN Resolve(list[n])
  PROVE  /\ Resolve(list[n])[m] \in Networks
         /\ Resolve(list[n])[m] \in ResolvedEntries
         /\ m \in Nat \ {0} /\ n \in 1 .. Len(list)
PROOF
<1>1. list[n] \in AclEntries BY DEF AclTyped
<1>2. Resolve(list[n]) \in Seq(ResolvedEntries) BY <1>1, ResolveType
<1>3. QED BY <1>2 DEF Networks, AclTyped

LEMMA NetworkIsResolved ==
  ASSUME AclTyped, NEW e \in Networks
  PROVE  /\ e \in ResolvedEntries
         /\ \E n \in DOMAIN list : \E m \in DOMAIN Resolve(list[n]) : e = Resolve(list[n])[m]
PROOF
<1>1. PICK n \in DOMAIN list : \E m \in DOMAIN Resolve(list[n]) : e = Resolve(list[n])[m]
  BY DEF Networks
<1>2. QED BY <1>1, HereIsNetwork

(* A loop that is over has seen all networks.                               *)
LEMMA LoopIsOver ==
  ASSUME AclTyped, row > Len(list), NEW e \in Networks
  PROVE  \E n, m : Before(n, m) /\ e = Resolve(list[n])[m]
PROOF
<1>1. PICK n \in DOMAIN list : \E m \in DOMAIN Resolve(list[n]) : e = Resolve(list[n])[m]
  BY NetworkIsResolved
<1>2. PICK m \in DOMAIN Resolve(list[n]) : e = Resolve(list[n])[m] BY <1>1
<1>3. n < row BY DEF AclTyped
<1>4. QED BY <1>2, <1>3 DEF Before

(* Two networks of one size that hold an address are one network.           *)
LEMMA OneNetworkPerSize ==
  ASSUME NEW a \in ResolvedEntries, NEW b \in ResolvedEntries, a.mask = b.mask,
         NEW q, Holds(a, q), Holds(b, q)
  PROVE  NetworkKey(a) = NetworkKey(b)
PROOF
<1> DEFINE full == a.mask \div ByteBits
           rest == a.mask % ByteBits
<1>1. a.family = b.family BY DEF Holds
<1>2. \A n \in 1 .. full : a.bytes[n] = b.bytes[n] BY DEF Holds, PrefixMatches
<1>3. [n \in 1 .. full |-> a.bytes[n]] = [n \in 1 .. full |-> b.bytes[n]] BY <1>2
<1>4. rest = 0 \/ High(a.bytes[full + 1], rest) = High(b.bytes[full + 1], rest)
  BY DEF Holds, PrefixMatches
<1>5. QED BY <1>1, <1>3, <1>4 DEF NetworkKey

-----------------------------------------------------------------------------

LEMMA InitAclInv == AclInit => AclInv
PROOF
<1> SUFFICES ASSUME AclInit PROVE AclInv OBVIOUS
<1>1. AclTyped
  BY AclAssumption DEF AclInit, AclTyped
<1>2. \A n, m : ~Before(n, m)
  <2> SUFFICES ASSUME NEW n, NEW m, Before(n, m) PROVE FALSE OBVIOUS
  <2>1. m \in Nat \ {0} /\ n \in 1 .. Len(list) BY <1>1, HereIsNetwork DEF Before
  <2>2. QED BY <2>1 DEF Before, AclInit
<1>3. QED BY <1>1, <1>2 DEF AclInit, AclInv, SeenKnows, BestKnows

(* An action that neither edits the list nor moves the loops.               *)
LEMMA SameBefore ==
  ASSUME UNCHANGED <<list, row, part>>
  PROVE  /\ Networks' = Networks
         /\ \A n, m : Before(n, m)' = Before(n, m)
PROOF
BY DEF Networks, Before

(* Going on to the next entry adds nothing to what has been seen.           *)
LEMMA NextEntryBefore ==
  ASSUME AclTyped, NextEntry
  PROVE  /\ Networks' = Networks
         /\ \A n, m : Before(n, m)' <=> Before(n, m)
PROOF
<1>1. list' = list BY DEF NextEntry
<1>2. Networks' = Networks BY <1>1 DEF Networks
<1>3. ASSUME NEW n, NEW m PROVE Before(n, m)' <=> Before(n, m)
  <2>1. CASE n \in DOMAIN list /\ m \in DOMAIN Resolve(list[n])
    <3>1. m \in Nat \ {0} /\ n \in 1 .. Len(list) BY <2>1, HereIsNetwork
    <3>2. list[n] \in AclEntries BY <3>1 DEF AclTyped
    <3>3. m <= Len(Resolve(list[n])) BY <2>1, <3>2, ResolveType
    <3>4. Len(Resolve(list[n])) \in Nat BY <3>2, ResolveType
    <3>5. row' = row + 1 /\ part' = 1 /\ part > Len(Resolve(list[row])) BY DEF NextEntry
    <3>6. n = row => m < part BY <3>1, <3>3, <3>4, <3>5 DEF AclTyped
    <3>7. QED BY <1>1, <2>1, <3>1, <3>5, <3>6 DEF Before, AclTyped
  <2>2. CASE ~(n \in DOMAIN list /\ m \in DOMAIN Resolve(list[n]))
    BY <1>1, <2>2 DEF Before
  <2>3. QED BY <2>1, <2>2
<1>4. QED BY <1>2, <1>3

(* Going on within an entry adds what the loops are at.                     *)
LEMMA NextPartBefore ==
  ASSUME AclTyped, InEntry, list' = list, row' = row, part' = part + 1
  PROVE  /\ Networks' = Networks
         /\ EntryHere \in Networks
         /\ EntryHere \in ResolvedEntries
         /\ \A n, m : Before(n, m)' <=> Before(n, m) \/ (n = row /\ m = part)
PROOF
<1>1. Networks' = Networks BY DEF Networks
<1>2. row \in DOMAIN list /\ list[row] \in AclEntries BY DEF InEntry, AclTyped
<1>3. part \in DOMAIN Resolve(list[row])
  BY <1>2, ResolveType DEF InEntry, AclTyped
<1>4. EntryHere \in Networks /\ EntryHere \in ResolvedEntries
  BY <1>2, <1>3, HereIsNetwork DEF EntryHere
<1>5. ASSUME NEW n, NEW m PROVE Before(n, m)' <=> Before(n, m) \/ (n = row /\ m = part)
  <2>1. CASE n \in DOMAIN list /\ m \in DOMAIN Resolve(list[n])
    <3>1. m \in Nat \ {0} /\ n \in 1 .. Len(list) BY <2>1, HereIsNetwork
    <3>2. QED BY <2>1, <3>1 DEF Before, AclTyped
  <2>2. CASE ~(n \in DOMAIN list /\ m \in DOMAIN Resolve(list[n]))
    BY <1>2, <1>3, <2>2 DEF Before
  <2>3. QED BY <2>1, <2>2
<1>6. QED BY <1>1, <1>4, <1>5

LEMMA ValidateAclInv == AclInv /\ Validate => AclInv'
PROOF
<1> SUFFICES ASSUME AclInv, Validate PROVE AclInv' OBVIOUS
<1> USE DEF AclInv
<1>1. /\ pc = "validating" /\ InEntry /\ edits = 0
      /\ part' = part + 1
      /\ UNCHANGED <<list, query, row, best, edits>>
  BY DEF Validate
<1>2. pc' \in {"validating", "rejected"} BY <1>1 DEF Validate
<1>3. AclTyped' BY <1>1, <1>2 DEF AclTyped
<1>4. /\ Networks' = Networks /\ EntryHere \in Networks
      /\ \A n, m : Before(n, m)' <=> Before(n, m) \/ (n = row /\ m = part)
  BY <1>1, NextPartBefore
<1> DEFINE met == {s \in seen : s.key = NetworkKey(EntryHere)}
<1>5. /\ pc' = IF \E s \in met : s.negated # EntryHere.negated THEN "rejected" ELSE pc
      /\ seen' = IF met = {} THEN seen \cup {KeyOf(EntryHere)} ELSE seen
  BY DEF Validate, KeyOf
<1>6. /\ \A n, m : Before(n, m) => KeyOf(Resolve(list[n])[m]) \in seen
      /\ \A s \in seen : \E n, m : Before(n, m) /\ s = KeyOf(Resolve(list[n])[m])
      /\ \A s, t \in seen : s.key = t.key => s = t
  BY <1>1 DEF SeenKnows
<1>7. CASE \E s \in met : s.negated # EntryHere.negated
  <2>1. PICK s \in met : s.negated # EntryHere.negated BY <1>7
  <2>2. PICK n, m : Before(n, m) /\ s = KeyOf(Resolve(list[n])[m]) BY <1>6, <2>1
  <2>3. Resolve(list[n])[m] \in Networks BY <2>2, HereIsNetwork DEF Before
  <2>4. NetworkKey(Resolve(list[n])[m]) = NetworkKey(EntryHere)
        /\ Resolve(list[n])[m].negated # EntryHere.negated
    BY <2>1, <2>2 DEF KeyOf
  <2>5. ~Consistent BY <1>4, <2>3, <2>4 DEF Consistent
  <2>6. ~Consistent' BY <1>4, <2>5 DEF Consistent
  <2>7. pc' = "rejected" BY <1>5, <1>7
  <2>8. QED BY <1>3, <2>6, <2>7 DEF SeenKnows, BestKnows
<1>8. CASE ~\E s \in met : s.negated # EntryHere.negated
  <2>1. pc' = "validating" BY <1>1, <1>5, <1>8
  <2>2. KeyOf(EntryHere) \in seen'
    <3>1. CASE met = {} BY <3>1, <1>5
    <3>2. CASE met # {}
      <4>1. PICK s \in met : TRUE BY <3>2
      <4>2. s.negated = EntryHere.negated /\ s.key = NetworkKey(EntryHere) BY <1>8, <4>1
      <4>3. s = KeyOf(EntryHere) BY <1>6, <4>1, <4>2 DEF KeyOf
      <4>4. QED BY <4>1, <4>3, <1>5
    <3>3. QED BY <3>1, <3>2
  <2>3. seen \subseteq seen' /\ seen' \subseteq seen \cup {KeyOf(EntryHere)} BY <1>5
  <2>4. ASSUME NEW n, NEW m, Before(n, m)'
        PROVE  KeyOf(Resolve(list'[n])[m]) \in seen'
    BY <1>1, <1>4, <1>6, <2>2, <2>3, <2>4 DEF EntryHere
  <2>5. ASSUME NEW s \in seen'
        PROVE  \E n, m : Before(n, m)' /\ s = KeyOf(Resolve(list'[n])[m])
    <3>1. CASE s \in seen BY <1>1, <1>4, <1>6, <3>1
    <3>2. CASE s = KeyOf(EntryHere) BY <1>1, <1>4, <3>2 DEF EntryHere
    <3>3. QED BY <2>3, <3>1, <3>2
  <2>6. \A s, t \in seen' : s.key = t.key => s = t
    <3>1. CASE met = {}
      <4>1. \A s \in seen : s.key # KeyOf(EntryHere).key BY <3>1 DEF KeyOf
      <4>2. QED BY <1>5, <1>6, <3>1, <4>1
    <3>2. CASE met # {} BY <1>5, <1>6, <3>2
    <3>3. QED BY <3>1, <3>2
  <2>7. SeenKnows' BY <2>1, <2>4, <2>5, <2>6 DEF SeenKnows
  <2>8. QED BY <1>1, <1>3, <2>1, <2>7 DEF BestKnows
<1>9. QED BY <1>7, <1>8

LEMMA WeighAclInv == AclInv /\ Weigh => AclInv'
PROOF
<1> SUFFICES ASSUME AclInv, Weigh PROVE AclInv' OBVIOUS
<1> USE DEF AclInv
<1>1. /\ pc = "matching" /\ InEntry
      /\ part' = part + 1
      /\ UNCHANGED <<list, query, pc, row, seen, edits>>
  BY DEF Weigh
<1>2. AclTyped' BY <1>1 DEF AclTyped
<1>3. /\ Networks' = Networks /\ EntryHere \in Networks /\ EntryHere \in ResolvedEntries
      /\ \A n, m : Before(n, m)' <=> Before(n, m) \/ (n = row /\ m = part)
  BY <1>1, NextPartBefore
<1>4. best' = IF Holds(EntryHere, query) /\ (best = NoEntry \/ EntryHere.mask > best.mask)
                THEN EntryHere ELSE best
  BY DEF Weigh, Better
<1>5. EntryHere # NoEntry BY <1>3, AclAssumption
<1>6. query \in Addresses BY <1>1 DEF BestKnows
<1>7. CASE ~Holds(EntryHere, query)
  <2>1. best' = best BY <1>4, <1>7
  <2>2. \A n, m : Before(n, m)' /\ Holds(Resolve(list[n])[m], query) => Before(n, m)
    BY <1>3, <1>7 DEF EntryHere
  <2>3. BestKnows' BY <1>1, <1>3, <1>6, <2>1, <2>2 DEF BestKnows
  <2>4. QED BY <1>1, <1>2, <2>3 DEF SeenKnows
<1>8. CASE Holds(EntryHere, query)
  <2>1. best # NoEntry => best \in ResolvedEntries
    BY <1>1, <1>6, NetworkIsResolved DEF BestKnows
  <2>2. best' # NoEntry /\ best' \in Networks' /\ Holds(best', query)
    BY <1>1, <1>3, <1>4, <1>5, <1>6, <1>8 DEF BestKnows
  <2>3. EntryHere.mask <= best'.mask /\ (best # NoEntry => best.mask <= best'.mask)
    BY <1>3, <1>4, <1>8, <2>1 DEF ResolvedEntries
  <2>4. ASSUME NEW n, NEW m, Before(n, m)', Holds(Resolve(list[n])[m], query)
        PROVE  Resolve(list[n])[m].mask <= best'.mask
    <3>1. CASE n = row /\ m = part BY <2>3, <3>1 DEF EntryHere
    <3>2. CASE Before(n, m)
      <4>1. best # NoEntry /\ Resolve(list[n])[m].mask <= best.mask
        BY <1>1, <1>6, <2>4, <3>2 DEF BestKnows
      <4>2. Resolve(list[n])[m] \in ResolvedEntries
        BY <3>2, HereIsNetwork DEF Before
      <4>3. best' \in ResolvedEntries BY <1>3, <1>4, <2>1, <4>1
      <4>4. QED BY <2>1, <2>3, <4>1, <4>2, <4>3 DEF ResolvedEntries
    <3>3. QED BY <1>3, <2>4, <3>1, <3>2
  <2>5. BestKnows' BY <1>1, <1>6, <2>2, <2>4 DEF BestKnows
  <2>6. QED BY <1>1, <1>2, <2>5 DEF SeenKnows
<1>9. QED BY <1>7, <1>8

LEMMA NextEntryAclInv == AclInv /\ NextEntry => AclInv'
PROOF
<1> SUFFICES ASSUME AclInv, NextEntry PROVE AclInv' OBVIOUS
<1> USE DEF AclInv
<1>1. /\ pc \in {"validating", "matching"}
      /\ row' = row + 1 /\ part' = 1
      /\ UNCHANGED <<list, query, pc, seen, best, edits>>
  BY DEF NextEntry
<1>2. AclTyped' BY <1>1 DEF AclTyped
<1>3. Networks' = Networks /\ \A n, m : Before(n, m)' <=> Before(n, m)
  BY NextEntryBefore
<1>4. SeenKnows' BY <1>1, <1>3 DEF SeenKnows
<1>5. BestKnows' BY <1>1, <1>3 DEF BestKnows
<1>6. QED BY <1>1, <1>2, <1>4, <1>5

(* An edit ends what validation has established; none happens while the     *)
(* loops run.                                                               *)
LEMMA EditAclInv ==
  AclInv /\ (\E entry \in Added : AddEntry(entry) \/ RemoveEntry(entry.ip, entry.subnet)) => AclInv'
PROOF
<1> SUFFICES ASSUME AclInv, NEW entry \in Added,
                    AddEntry(entry) \/ RemoveEntry(entry.ip, entry.subnet)
             PROVE  AclInv'
  OBVIOUS
<1> USE DEF AclInv
<1>1. /\ pc = "loaded" /\ edits' = edits + 1
      /\ UNCHANGED <<query, pc, row, part, seen, best>>
  BY DEF AddEntry, RemoveEntry
<1>2. list' \in Seq(AclEntries)
  <2>1. CASE AddEntry(entry) BY <2>1, AclAssumption DEF AddEntry, AclTyped
  <2>2. CASE RemoveEntry(entry.ip, entry.subnet)
    <3>1. PICK n \in DOMAIN list :
            list' = [m \in 1 .. Len(list) - 1 |-> list[IF m < n THEN m ELSE m + 1]]
      BY <2>2 DEF RemoveEntry
    <3>2. n \in 1 .. Len(list) /\ Len(list) - 1 \in Nat BY <3>1 DEF AclTyped
    <3>3. \A m \in 1 .. Len(list) - 1 : list[IF m < n THEN m ELSE m + 1] \in AclEntries
      BY <3>2 DEF AclTyped
    <3>4. QED BY <3>1, <3>2, <3>3
  <2>3. QED BY <2>1, <2>2
<1>3. AclTyped' BY <1>1, <1>2 DEF AclTyped
<1>4. QED BY <1>1, <1>3 DEF AclTyped, SeenKnows, BestKnows

LEMMA NextAclInv == AclInv /\ [AclNext]_aclVars => AclInv'
PROOF
<1> SUFFICES ASSUME AclInv, [AclNext]_aclVars PROVE AclInv' OBVIOUS
<1>1. CASE NextEntry BY <1>1, NextEntryAclInv
<1>2. CASE Validate BY <1>2, ValidateAclInv
<1>3. CASE Load
  <2>1. /\ pc = "validating" /\ pc' = "loaded" /\ row > Len(list)
        /\ UNCHANGED <<list, query, row, part, seen, best, edits>>
    BY <1>3 DEF Load
  <2>2. \A n, m : Before(n, m)' = Before(n, m) BY <2>1, SameBefore
  <2>3. QED BY <2>1, <2>2 DEF AclInv, AclTyped, SeenKnows, BestKnows
<1>4. CASE Match
  <2>1. /\ pc = "loaded" /\ row' = 1 /\ part' = 1 /\ best' = NoEntry
        /\ pc' = IF query \in Addresses THEN "matching" ELSE "answered"
        /\ UNCHANGED <<list, query, seen, edits>>
    BY <1>4 DEF Match
  <2>2. AclTyped' BY <2>1 DEF AclInv, AclTyped
  <2>3. ASSUME NEW n, NEW m PROVE ~Before(n, m)'
    <3>1. CASE n \in DOMAIN list /\ m \in DOMAIN Resolve(list[n])
      <4>1. m \in Nat \ {0} /\ n \in 1 .. Len(list) BY <3>1, HereIsNetwork DEF AclInv
      <4>2. QED BY <2>1, <4>1 DEF Before
    <3>2. CASE ~(n \in DOMAIN list /\ m \in DOMAIN Resolve(list[n]))
      BY <2>1, <3>2 DEF Before
    <3>3. QED BY <3>1, <3>2
  <2>4. QED BY <2>1, <2>2, <2>3 DEF AclInv, SeenKnows, BestKnows
<1>5. CASE Weigh BY <1>5, WeighAclInv
<1>6. CASE Answer
  <2>1. /\ pc = "matching" /\ pc' = "answered" /\ row > Len(list)
        /\ UNCHANGED <<list, query, row, part, seen, best, edits>>
    BY <1>6 DEF Answer
  <2>2. Networks' = Networks /\ \A n, m : Before(n, m)' = Before(n, m)
    BY <2>1, SameBefore
  <2>3. QED BY <2>1, <2>2 DEF AclInv, AclTyped, SeenKnows, BestKnows
<1>7. CASE \E entry \in Added : AddEntry(entry) \/ RemoveEntry(entry.ip, entry.subnet)
  BY <1>7, EditAclInv
<1>8. CASE UNCHANGED aclVars
  <2>1. /\ UNCHANGED <<list, query, pc, row, part, seen, best, edits>>
    BY <1>8 DEF aclVars
  <2>2. Networks' = Networks /\ \A n, m : Before(n, m)' = Before(n, m)
    BY <2>1, SameBefore
  <2>3. QED BY <2>1, <2>2 DEF AclInv, AclTyped, SeenKnows, BestKnows, Consistent
<1>9. QED BY <1>1, <1>2, <1>3, <1>4, <1>5, <1>6, <1>7, <1>8 DEF AclNext

(* The invariant of the loops holds throughout.                             *)
THEOREM AclInvariant == AclSpec => []AclInv
PROOF
<1>1. AclInit => AclInv BY InitAclInv
<1>2. AclInv /\ [AclNext]_aclVars => AclInv' BY NextAclInv
<1>3. QED BY <1>1, <1>2, PTL DEF AclSpec

-----------------------------------------------------------------------------

(* Loading accepts the lists in which no network is both as-is and an       *)
(* exclusion, and only those (validateAclEntries).                          *)
THEOREM AclLoadsConsistentLists == AclSpec => []RejectedForCause
PROOF
<1>1. AclInv => RejectedForCause
  <2> SUFFICES ASSUME AclInv, pc = "loaded", edits = 0, NEW a \in Networks, NEW b \in Networks,
                      NetworkKey(a) = NetworkKey(b)
               PROVE  a.negated = b.negated
    BY DEF RejectedForCause, AclInv, Consistent
  <2>1. AclTyped /\ row > Len(list) BY DEF AclInv, SeenKnows
  <2>2. KeyOf(a) \in seen /\ KeyOf(b) \in seen
    BY <2>1, LoopIsOver DEF AclInv, SeenKnows
  <2>3. KeyOf(a) = KeyOf(b) BY <2>2 DEF AclInv, SeenKnows, KeyOf
  <2>4. QED BY <2>3 DEF KeyOf
<1>2. QED BY <1>1, AclInvariant, PTL

(* Whatever the order of the entries, the most specific network that holds  *)
(* the address decides whether it matches (aclMatch).                       *)
THEOREM AclMostSpecificDecides == AclSpec => []MostSpecificDecides
PROOF
<1>1. AclInv => MostSpecificDecides
  <2> SUFFICES ASSUME AclInv, pc = "answered" PROVE MostSpecificDecides
    BY DEF MostSpecificDecides
  <2> DEFINE Decides(n) == /\ Holds(n, query) /\ ~n.negated
                           /\ \A m \in Networks : Holds(m, query) => m.mask <= n.mask
  <2>1. CASE query \notin Addresses
    BY <2>1 DEF AclInv, BestKnows, Matched, MostSpecificDecides
  <2>2. CASE query \in Addresses
    <3>1. AclTyped /\ row > Len(list) BY <2>2 DEF AclInv, BestKnows
    <3>2. \A m \in Networks : Holds(m, query) => best # NoEntry /\ m.mask <= best.mask
      BY <2>2, <3>1, LoopIsOver DEF AclInv, BestKnows
    <3>3. best # NoEntry => best \in Networks /\ Holds(best, query)
      BY <2>2 DEF AclInv, BestKnows
    <3>4. Matched => \E n \in Networks : Decides(n)
      BY <3>2, <3>3 DEF Matched
    <3>5. ASSUME Consistent, NEW n \in Networks, Decides(n) PROVE Matched
      <4>1. best # NoEntry /\ n.mask <= best.mask /\ best.mask <= n.mask
        BY <3>2, <3>3, <3>5
      <4>2. n \in ResolvedEntries /\ best \in ResolvedEntries
        BY <3>1, <3>3, <4>1, NetworkIsResolved
      <4>3. n.mask = best.mask BY <4>1, <4>2 DEF ResolvedEntries
      <4>4. NetworkKey(n) = NetworkKey(best)
        BY <3>3, <3>5, <4>1, <4>2, <4>3, OneNetworkPerSize
      <4>5. QED BY <3>3, <3>5, <4>1, <4>4 DEF Consistent, Matched
    <3>6. QED BY <2>2, <3>4, <3>5 DEF MostSpecificDecides
  <2>3. QED BY <2>1, <2>2
<1>2. QED BY <1>1, AclInvariant, PTL
=============================================================================
