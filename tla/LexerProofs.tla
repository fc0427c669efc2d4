----------------------------- MODULE LexerProofs -----------------------------
(***************************************************************************)
(* The lexer on any texts: it stays in the text, its tokens are stretches  *)
(* of it in their order, literals close where they should, and a number    *)
(* is as long as a number can be.                                          *)
(***************************************************************************)
EXTENDS Lexer, Sums, SequenceTheorems

Text == input \in Seq(STRING)

Places == 1..Len(input) + 1

-----------------------------------------------------------------------------
(* Looking for characters and patterns.                                     *)

LEMMA Inside ==
  ASSUME Text, NEW i, At(i) # "end"
  PROVE  i \in 1..Len(input)
PROOF BY DEF At

LEMMA AfterIs ==
  ASSUME Text, NEW S, "end" \notin S, NEW i \in Places
  PROVE  /\ After(S, i) \in i..Len(input) + 1
         /\ At(After(S, i)) \notin S
         /\ \A k \in i..After(S, i) - 1 : At(k) \in S
PROOF
  <1> DEFINE T == {j \in i..Len(input) + 1 : At(j) \notin S}
  <1>1. Len(input) \in Nat /\ i \in Nat BY DEF Text, Places
  <1>2. Len(input) + 1 \in T BY <1>1 DEF At, Places
  <1>3. T \in SUBSET Nat /\ T # {} BY <1>1, <1>2
  <1>4. Min(T) \in T /\ \A y \in T : Min(T) <= y
    <2> HIDE DEF T
    <2>1. QED BY <1>3, MinIsLeast
  <1>5. After(S, i) = Min(T) BY DEF After
  <1> DEFINE e == After(S, i)
  <1>6. e \in i..Len(input) + 1 /\ At(e) \notin S /\ \A y \in T : e <= y BY <1>4, <1>5
  <1> HIDE DEF e
  <1>7. \A k \in i..e - 1 : At(k) \in S
    <2> SUFFICES ASSUME NEW k \in i..e - 1, At(k) \notin S PROVE FALSE OBVIOUS
    <2>1. k \in T BY <1>1, <1>6
    <2>2. e <= k BY <1>6, <2>1
    <2>3. QED BY <1>1, <1>6, <2>2
  <1>8. QED BY <1>6, <1>7 DEF e

LEMMA AfterThat ==
  ASSUME Text, NEW S, "end" \notin S, NEW i \in Places, NEW e \in i..Len(input) + 1,
         At(e) \notin S, \A k \in i..e - 1 : At(k) \in S
  PROVE  After(S, i) = e
PROOF
  <1> DEFINE f == After(S, i)
  <1>1. f \in i..Len(input) + 1 /\ At(f) \notin S /\ \A k \in i..f - 1 : At(k) \in S BY AfterIs
  <1>2. Len(input) \in Nat /\ i \in Nat BY DEF Text, Places
  <1> HIDE DEF f
  <1>3. ~(e < f)
    <2> SUFFICES ASSUME e < f PROVE FALSE OBVIOUS
    <2>1. e \in i..f - 1 BY <1>1, <1>2
    <2>2. QED BY <1>1, <2>1
  <1>4. ~(f < e)
    <2> SUFFICES ASSUME f < e PROVE FALSE OBVIOUS
    <2>1. f \in i..e - 1 BY <1>1, <1>2
    <2>2. QED BY <1>1, <2>1
  <1>5. f = e BY <1>1, <1>2, <1>3, <1>4
  <1>6. QED BY <1>5 DEF f

LEMMA PairFinite ==
  ASSUME NEW a, NEW b
  PROVE  IsFiniteSet({a, b})
PROOF
  <1>1. IsFiniteSet({a}) BY FS_Singleton
  <1>2. IsFiniteSet({a} \cup {b}) BY <1>1, FS_AddElement
  <1>3. {a, b} = {a} \cup {b} OBVIOUS
  <1>4. QED BY <1>2, <1>3

LEMMA MinOfTwo ==
  ASSUME NEW a \in Nat, NEW b \in Nat
  PROVE  Min({a, b}) = IF a <= b THEN a ELSE b
PROOF
  <1>1. {a, b} \in SUBSET Nat /\ {a, b} # {} OBVIOUS
  <1>2. Min({a, b}) \in {a, b} /\ \A y \in {a, b} : Min({a, b}) <= y BY <1>1, MinIsLeast
  <1>3. QED BY <1>2

LEMMA SliceIs ==
  ASSUME Text, NEW i \in Places, NEW j \in Nat, i <= j
  PROVE  /\ Slice(i, j) \in Seq(STRING)
         /\ Len(Slice(i, j)) = (IF j <= Len(input) + 1 THEN j ELSE Len(input) + 1) - i
         /\ \A k \in 1..Len(Slice(i, j)) : Slice(i, j)[k] = At(i + k - 1)
PROOF
  <1> DEFINE h == IF j - 1 <= Len(input) THEN j - 1 ELSE Len(input)
  <1>1. Len(input) \in Nat /\ i \in Nat /\ j - 1 \in Nat BY DEF Text, Places
  <1>2. Min({j - 1, Len(input)}) = h BY <1>1, MinOfTwo
  <1>3. Slice(i, j) = SubSeq(input, i, h) BY <1>2 DEF Slice
  <1>4. i >= 1 /\ h <= Len(input) /\ h >= i - 1 /\ h \in Nat BY <1>1 DEF Places
  <1>5. h = (IF j <= Len(input) + 1 THEN j ELSE Len(input) + 1) - 1 BY <1>1
  <1> HIDE DEF h
  <1>6. /\ SubSeq(input, i, h) \in Seq(STRING)
        /\ Len(SubSeq(input, i, h)) = h - i + 1
        /\ \A k \in 1..h - i + 1 : SubSeq(input, i, h)[k] = input[i + k - 1]
    BY <1>1, <1>4 DEF Text
  <1>7. \A k \in 1..h - i + 1 : At(i + k - 1) = input[i + k - 1] BY <1>1, <1>4 DEF At
  <1> DEFINE s == Slice(i, j)
  <1>8. s \in Seq(STRING) /\ Len(s) = h - i + 1 /\ \A k \in 1..h - i + 1 : s[k] = At(i + k - 1)
    BY <1>3, <1>6, <1>7
  <1> HIDE DEF s
  <1>9. Len(s) = (IF j <= Len(input) + 1 THEN j ELSE Len(input) + 1) - i BY <1>1, <1>5, <1>8
  <1>10. \A k \in 1..Len(s) : s[k] = At(i + k - 1) BY <1>8
  <1>11. QED BY <1>8, <1>9, <1>10 DEF s

LEMMA FindIs ==
  ASSUME Text, NEW pattern, Len(pattern) \in Nat \ {0}, NEW i \in Places
  PROVE  LET f == Find(pattern, i)
             m == Len(pattern)
         IN /\ f \in i..Len(input) + 1
            /\ f # Len(input) + 1 =>
                 f + m <= Len(input) + 1 /\ Slice(f, f + m) = pattern
            /\ \A j \in i..f - 1 : j + m <= Len(input) + 1 => Slice(j, j + m) # pattern
PROOF
  <1> DEFINE m == Len(pattern)
             T == {j \in i..Len(input) - m + 1 : Slice(j, j + m) = pattern} \cup {Len(input) + 1}
             f == Min(T)
  <1>1. Len(input) \in Nat /\ i \in Nat /\ i <= Len(input) + 1 /\ m \in Nat \ {0}
    BY DEF Text, Places
  <1>2. T \in SUBSET Nat /\ T # {} BY <1>1
  <1>3. f \in T /\ \A y \in T : f <= y
    <2> HIDE DEF T
    <2>1. QED BY <1>2, MinIsLeast
  <1>4. Find(pattern, i) = f BY DEF Find
  <1>5. \A j \in i..f - 1 : j + m <= Len(input) + 1 => Slice(j, j + m) # pattern
    <2> SUFFICES ASSUME NEW j \in i..f - 1, j + m <= Len(input) + 1, Slice(j, j + m) = pattern
                 PROVE FALSE
      OBVIOUS
    <2>1. f \in Nat BY <1>2, <1>3
    <2>2. j \in i..Len(input) - m + 1 BY <1>1, <2>1
    <2>3. j \in T BY <2>2
    <2>4. f <= j BY <1>3, <2>3
    <2> HIDE DEF f
    <2>5. QED BY <1>1, <2>1, <2>4
  <1>6. f \in i..Len(input) + 1 BY <1>1, <1>3
  <1>7. f # Len(input) + 1 => f + m <= Len(input) + 1 /\ Slice(f, f + m) = pattern
    <2>1. f # Len(input) + 1 => f \in i..Len(input) - m + 1 /\ Slice(f, f + m) = pattern BY <1>3
    <2> HIDE DEF f, m
    <2>2. QED BY <1>1, <2>1
  <1> HIDE DEF f
  <1>8. QED BY <1>4, <1>5, <1>6, <1>7

LEMMA PastIs ==
  ASSUME Text, NEW pattern, Len(pattern) \in Nat \ {0}, NEW i \in Places
  PROVE  /\ Past(pattern, i) \in i..Len(input) + 1
         /\ LET f == Find(pattern, i)
            IN IF f <= Len(input) THEN Past(pattern, i) = f + Len(pattern)
                                  ELSE Past(pattern, i) = Len(input) + 1
PROOF
  <1> DEFINE f == Find(pattern, i)
             m == Len(pattern)
  <1>1. Len(input) \in Nat /\ i \in Nat /\ i <= Len(input) + 1 /\ m \in Nat
    BY DEF Text, Places
  <1>2. f \in i..Len(input) + 1 /\ (f # Len(input) + 1 => f + m <= Len(input) + 1) BY FindIs
  <1>3. Past(pattern, i) = IF f > Len(input) THEN Len(input) + 1 ELSE f + m BY DEF Past
  <1> HIDE DEF f, m
  <1>4. Past(pattern, i) \in i..Len(input) + 1 BY <1>1, <1>2, <1>3
  <1>5. IF f <= Len(input) THEN Past(pattern, i) = f + m ELSE Past(pattern, i) = Len(input) + 1
    BY <1>1, <1>2, <1>3
  <1>6. QED BY <1>4, <1>5 DEF f, m

-----------------------------------------------------------------------------
(* Where tokens end.                                                        *)

Here(p) == p \in 1..Len(input)

(* A token that begins at p may end at i.                                   *)
Ends(p, i) == i \in p + 1..Len(input) + 1

LEMMA OneChar ==
  ASSUME Text, NEW p, Here(p), NEW c
  PROVE  Slice(p, p + 1) = <<c>> <=> At(p) = c
PROOF
  <1>1. Len(input) \in Nat /\ p \in Places /\ p \in Nat /\ p <= Len(input)
    BY DEF Text, Here, Places
  <1> DEFINE q == p + 1
             s == Slice(p, q)
  <1>2. q \in Nat /\ p <= q /\ q <= Len(input) + 1 /\ q - p = 1 BY <1>1
  <1> HIDE DEF q
  <1>3. s \in Seq(STRING) /\ Len(s) = q - p /\ \A k \in 1..Len(s) : s[k] = At(p + k - 1)
    BY <1>1, <1>2, SliceIs
  <1> HIDE DEF s
  <1>4. Len(s) = 1 /\ s[1] = At(p)
    <2>1. Len(s) = 1 BY <1>2, <1>3
    <2>2. s[1] = At(p + 1 - 1) BY <1>3, <2>1
    <2>3. p + 1 - 1 = p BY <1>1
    <2>4. QED BY <2>1, <2>2, <2>3
  <1>5. s[1] = c => s = <<c>>
    <2>1. DOMAIN s = {1} /\ s = [k \in DOMAIN s |-> s[k]] BY <1>3, <1>4
    <2>2. s = <<s[1]>> BY <2>1, <1>3, <1>4
    <2>3. QED BY <2>2
  <1>6. s = <<c>> => s[1] = c OBVIOUS
  <1>7. QED BY <1>4, <1>5, <1>6 DEF s, q

LEMMA Next1 ==
  ASSUME Text, NEW p, Here(p)
  PROVE  /\ p \in Places /\ p + 1 \in Places /\ p \in Nat
         /\ Len(input) \in Nat
         /\ p <= Len(input)
PROOF BY DEF Text, Here, Places

LEMMA LineCommentEnds ==
  ASSUME Text, NEW p, Here(p), At(p) # "nl"
  PROVE  Ends(p, LineCommentEnd(p)) /\ LineCommentEnd(p) = Find(<<"nl">>, p)
PROOF
  <1> DEFINE f == Find(<<"nl">>, p + 1)
             T == {j \in p + 1..Len(input) - 1 + 1 : Slice(j, j + 1) = <<"nl">>}
             S == {j \in p..Len(input) - 1 + 1 : Slice(j, j + 1) = <<"nl">>}
  <1>1. p + 1 \in Places /\ p \in Nat /\ Len(input) \in Nat BY Next1
  <1>2. Len(<<"nl">>) = 1 OBVIOUS
  <1>3. f \in p + 1..Len(input) + 1
    <2> DEFINE q       == p + 1
               pattern == <<"nl">>
    <2>1. q \in Places /\ Len(pattern) \in Nat \ {0} BY <1>1, <1>2
    <2> HIDE DEF q, pattern
    <2>2. Find(pattern, q) \in q..Len(input) + 1 BY <2>1, FindIs
    <2>3. QED BY <2>2 DEF q, pattern
  <1>4. f = Min(T \cup {Len(input) + 1}) BY <1>2 DEF Find
  <1>5. Find(<<"nl">>, p) = Min(S \cup {Len(input) + 1}) BY <1>2 DEF Find
  <1>6. S = T
    <2>1. p \notin S BY OneChar
    <2>2. S = {j \in p..Len(input) - 1 + 1 : j # p /\ Slice(j, j + 1) = <<"nl">>} BY <2>1
    <2>3. QED BY <1>1, <2>2
  <1>7. QED BY <1>3, <1>4, <1>5, <1>6 DEF LineCommentEnd, Ends

(* A text of two characters.                                                *)
LEMMA TwoChars ==
  ASSUME Text, NEW p, Here(p), NEW c, NEW d
  PROVE  /\ At(p) = c /\ At(p + 1) = d /\ d # "end" => Slice(p, p + 2) = <<c, d>>
         /\ Slice(p, p + 2) = <<c, d>> => At(p) = c /\ At(p + 1) = d
PROOF
  <1>1. Len(input) \in Nat /\ p \in Places /\ p \in Nat /\ p <= Len(input) BY Next1
  <1> DEFINE q == p + 2
             s == Slice(p, q)
  <1>2. q \in Nat /\ p <= q /\ q = p + 2 BY <1>1
  <1> HIDE DEF q
  <1>3. /\ s \in Seq(STRING) /\ Len(s) = (IF q <= Len(input) + 1 THEN q ELSE Len(input) + 1) - p
        /\ \A k \in 1..Len(s) : s[k] = At(p + k - 1)
    BY <1>1, <1>2, SliceIs
  <1> HIDE DEF s
  <1>4. Len(s) = 2 => s[1] = At(p) /\ s[2] = At(p + 1)
    <2>1. p + 1 - 1 = p /\ p + 2 - 1 = p + 1 BY <1>1
    <2>2. Len(s) = 2 => s[1] = At(p + 1 - 1) /\ s[2] = At(p + 2 - 1) BY <1>3
    <2>3. QED BY <2>1, <2>2
  <1>5. ASSUME At(p) = c, At(p + 1) = d, d # "end" PROVE s = <<c, d>>
    <2>1. p + 1 \in 1..Len(input) BY <1>5, Inside
    <2>2. Len(s) = 2 BY <1>1, <1>2, <1>3, <2>1
    <2>3. QED BY <1>3, <1>4, <1>5, <2>2
  <1>6. ASSUME s = <<c, d>> PROVE At(p) = c /\ At(p + 1) = d
    <2>1. Len(s) = 2 /\ s[1] = c /\ s[2] = d BY <1>6
    <2>2. QED BY <1>4, <2>1
  <1>7. QED BY <1>5, <1>6 DEF s, q

(* Behind a closing pattern that is looked for inside the token.            *)
LEMMA PastEnds ==
  ASSUME Text, NEW p, Here(p), NEW i \in p + 1..Len(input) + 1,
         NEW pattern, Len(pattern) \in Nat \ {0}
  PROVE  /\ Ends(p, Past(pattern, i))
         /\ Find(pattern, i) \in Places
         /\ IF Find(pattern, i) <= Len(input)
              THEN Past(pattern, i) = Find(pattern, i) + Len(pattern)
              ELSE Past(pattern, i) = Len(input) + 1
PROOF
  <1>1. p \in Nat /\ Len(input) \in Nat BY Next1
  <1>2. i \in Places /\ i \in Nat BY <1>1 DEF Places
  <1> DEFINE f == Find(pattern, i)
             e == Past(pattern, i)
  <1>3. f \in i..Len(input) + 1 BY <1>2, FindIs
  <1>4. /\ e \in i..Len(input) + 1
        /\ IF f <= Len(input) THEN e = f + Len(pattern) ELSE e = Len(input) + 1
    BY <1>2, PastIs
  <1> HIDE DEF f, e
  <1>5. Ends(p, e) /\ f \in Places BY <1>1, <1>2, <1>3, <1>4 DEF Ends, Places
  <1>6. QED BY <1>4, <1>5 DEF f, e

LEMMA BlockCommentEnds ==
  ASSUME Text, NEW p, Here(p), At(p) = "/", At(p + 1) = "*"
  PROVE  /\ Ends(p, BlockCommentEnd(p))
         /\ Slice(p, p + 2) = <<"/", "*">>
         /\ p + 2 <= Len(input) + 1
         /\ IF Find(<<"*", "/">>, p + 2) <= Len(input)
              THEN BlockCommentEnd(p) = Find(<<"*", "/">>, p + 2) + 2
              ELSE BlockCommentEnd(p) >= Len(input)
PROOF
  <1> DEFINE i       == p + 2
             pattern == <<"*", "/">>
             f       == Find(pattern, i)
             e       == Past(pattern, i)
  <1>1. p \in Nat /\ Len(input) \in Nat /\ p + 1 \in 1..Len(input) BY Next1, Inside
  <1>2. i \in p + 1..Len(input) + 1 /\ i \in Places /\ i = p + 2 BY <1>1 DEF Places
  <1>3. Len(pattern) = 2 /\ Len(pattern) \in Nat \ {0} OBVIOUS
  <1>4. Slice(p, p + 2) = <<"/", "*">> BY TwoChars
  <1>5. BlockCommentEnd(p) = IF f < Len(input) THEN e ELSE Max({i, Len(input)})
    BY DEF BlockCommentEnd
  <1> HIDE DEF i, pattern
  <1>6. /\ Ends(p, e)
        /\ IF f <= Len(input) THEN e = f + Len(pattern) ELSE e = Len(input) + 1
    BY <1>2, <1>3, PastEnds
  <1>7. f \in i..Len(input) + 1 /\ (f # Len(input) + 1 => f + Len(pattern) <= Len(input) + 1)
    BY <1>2, <1>3, FindIs
  <1> HIDE DEF f, e
  <1>8. f <= Len(input) <=> f < Len(input) BY <1>1, <1>2, <1>3, <1>7
  <1>9. Max({i, Len(input)}) = IF i >= Len(input) THEN i ELSE Len(input)
    <2>1. i \in Nat /\ Len(input) \in Nat BY <1>1, <1>2
    <2>2. {i, Len(input)} \subseteq Nat /\ IsFiniteSet({i, Len(input)}) /\ {i, Len(input)} # {}
      BY <2>1, PairFinite
    <2>3. /\ Max({i, Len(input)}) \in {i, Len(input)}
          /\ \A y \in {i, Len(input)} : y <= Max({i, Len(input)})
      BY <2>2, MaxIsLargest
    <2>4. QED BY <2>1, <2>3
  <1>10. CASE f < Len(input)
    <2>1. BlockCommentEnd(p) = e /\ e = f + 2 BY <1>3, <1>5, <1>6, <1>8, <1>10
    <2>2. QED BY <1>1, <1>2, <1>4, <1>6, <1>8, <1>10, <2>1 DEF f, i, pattern
  <1>11. CASE ~(f < Len(input))
    <2>1. BlockCommentEnd(p) >= Len(input) /\ Ends(p, BlockCommentEnd(p))
      BY <1>1, <1>2, <1>5, <1>9, <1>11 DEF Ends
    <2>2. ~(f <= Len(input)) BY <1>8, <1>11
    <2>3. QED BY <1>1, <1>2, <1>4, <2>1, <2>2 DEF f, i, pattern
  <1>12. QED BY <1>10, <1>11

LEMMA SameText ==
  ASSUME NEW S, NEW T, NEW s \in Seq(S), NEW u \in Seq(T), Len(s) = Len(u),
         \A k \in 1..Len(s) : s[k] = u[k]
  PROVE  s = u
PROOF
  <1>1. s = [k \in 1..Len(s) |-> s[k]] /\ u = [k \in 1..Len(u) |-> u[k]] OBVIOUS
  <1>2. QED BY <1>1

LEMMA TripleStringEnds ==
  ASSUME Text, NEW p, Here(p), OpensTriple(p)
  PROVE  LET q == <<At(p), At(p), At(p)>>
             e == TripleStringEnd(p)
         IN /\ Ends(p, e)
            /\ Slice(p, p + 3) = q
            /\ p + 3 <= Len(input) + 1
            /\ IF Find(q, p + 3) <= Len(input) THEN e = Find(q, p + 3) + 3 ELSE e >= Len(input)
PROOF
  <1> DEFINE i == p + 3
             q == <<At(p), At(p), At(p)>>
             s == Slice(p, i)
             e == TripleStringEnd(p)
  <1>1. p \in Nat /\ p \in Places /\ Len(input) \in Nat BY Next1
  <1>2. /\ i \in p + 1..Len(input) + 1 /\ i \in Nat /\ p <= i /\ i <= Len(input) + 1
        /\ i = p + 3
    BY <1>1 DEF OpensTriple
  <1>3. /\ Len(q) = 3 /\ Len(q) \in Nat \ {0} /\ q \in Seq({At(p)})
        /\ q[1] = At(p) /\ q[2] = At(p) /\ q[3] = At(p)
    OBVIOUS
  <1>4. e = Past(q, i) BY DEF TripleStringEnd
  <1> HIDE DEF i, q, e
  <1>5. /\ Ends(p, e)
        /\ IF Find(q, i) <= Len(input) THEN e = Find(q, i) + Len(q) ELSE e = Len(input) + 1
    BY <1>2, <1>3, <1>4, PastEnds
  <1>6. s = q
    <2>1. s \in Seq(STRING) /\ Len(s) = i - p /\ \A k \in 1..Len(s) : s[k] = At(p + k - 1)
      BY <1>1, <1>2, SliceIs
    <2> HIDE DEF s
    <2>2. Len(s) = 3 BY <1>1, <1>2, <2>1
    <2>3. s[1] = At(p + 1 - 1) /\ s[2] = At(p + 2 - 1) /\ s[3] = At(p + 3 - 1) BY <2>1, <2>2
    <2>4. p + 1 - 1 = p /\ p + 2 - 1 = p + 1 /\ p + 3 - 1 = p + 2 BY <1>1
    <2>5. At(p + 1) = At(p) /\ At(p + 2) = At(p) BY DEF OpensTriple
    <2>6. \A k \in 1..Len(s) : s[k] = q[k] BY <1>3, <2>2, <2>3, <2>4, <2>5
    <2>7. QED BY <1>3, <2>1, <2>2, <2>6, SameText
  <1>7. (Len(input) + 1 >= Len(input)) /\ Len(q) = 3 BY <1>1, <1>3
  <1>8. QED BY <1>2, <1>5, <1>6, <1>7 DEF i, q, e, s

LEMMA Classes ==
  /\ \A S \in {Blanks, Digits, HexDigits, Lower, Letters, WordChars, OperatorChars, Marks,
                Quotes, {" "}} :
       "end" \notin S
  /\ "\"" \notin WordChars /\ "{" \notin WordChars
PROOF
  BY DEF Blanks, Digits, HexDigits, Lower, Letters, WordChars, OperatorChars, Marks, Quotes

LEMMA DelimiterEnds ==
  ASSUME Text, NEW p, Here(p)
  PROVE  DelimiterEnd(p) \in p + 1..Len(input) + 1
PROOF
  <1> DEFINE i == p + 1
  <1>1. i \in Places BY Next1
  <1>2. "end" \notin WordChars BY Classes
  <1> HIDE DEF i
  <1>3. After(WordChars, i) \in i..Len(input) + 1 BY <1>1, <1>2, AfterIs
  <1>4. QED BY <1>3 DEF i, DelimiterEnd

(* The delimiters of a long string.                                         *)
Between(a, d, b) == <<a>> \o d \o <<b>>

Opening(p) == Between("{", Slice(p + 1, DelimiterEnd(p)), "\"")
Closing(p) == Between("\"", Slice(p + 1, DelimiterEnd(p)), "}")

LEMMA Around ==
  ASSUME NEW S, NEW d \in Seq(S), NEW a, NEW b
  PROVE  /\ Between(a, d, b) \in Seq(S \cup {a, b})
         /\ Len(Between(a, d, b)) = Len(d) + 2
         /\ Between(a, d, b)[1] = a
         /\ \A k \in 1..Len(d) : Between(a, d, b)[k + 1] = d[k]
         /\ Between(a, d, b)[Len(d) + 2] = b
PROOF
  <1> DEFINE T == S \cup {a, b}
             s == <<a>> \o d
  <1>1. <<a>> \in Seq(T) /\ <<b>> \in Seq(T) /\ d \in Seq(T) /\ Len(d) \in Nat OBVIOUS
  <1>2. Len(<<a>>) = 1 /\ Len(<<b>>) = 1 /\ <<a>>[1] = a /\ <<b>>[1] = b OBVIOUS
  <1> DEFINE one == <<a>>
             last == <<b>>
  <1> HIDE DEF T, one, last
  <1>3. /\ s \in Seq(T) /\ Len(s) = 1 + Len(d) /\ s[1] = a
        /\ \A k \in 1..Len(d) : s[k + 1] = d[k]
    <2>1. /\ one \o d \in Seq(T) /\ Len(one \o d) = Len(one) + Len(d)
          /\ \A k \in 1..Len(one) + Len(d) :
               (one \o d)[k] = IF k <= Len(one) THEN one[k] ELSE d[k - Len(one)]
      BY <1>1 DEF one
    <2>2. Len(one) = 1 /\ one[1] = a BY <1>2 DEF one
    <2> HIDE DEF s
    <2>3. s = one \o d BY DEF s, one
    <2>4. s \in Seq(T) /\ Len(s) = 1 + Len(d) /\ s[1] = a BY <1>1, <2>1, <2>2, <2>3
    <2>5. ASSUME NEW k \in 1..Len(d) PROVE s[k + 1] = d[k]
      <3>1. k + 1 \in 1..Len(one) + Len(d) /\ ~(k + 1 <= Len(one)) /\ k + 1 - Len(one) = k
        BY <1>1, <2>2
      <3>2. QED BY <2>1, <2>3, <3>1
    <2>6. QED BY <2>4, <2>5
  <1> HIDE DEF s
  <1>4. /\ s \o last \in Seq(T) /\ Len(s \o last) = Len(d) + 2
        /\ \A k \in 1..Len(d) + 1 : (s \o last)[k] = s[k]
        /\ (s \o last)[Len(d) + 2] = b
    <2>1. last \in Seq(T) /\ Len(last) = 1 /\ last[1] = b BY <1>1, <1>2 DEF last
    <2>2. /\ s \o last \in Seq(T) /\ Len(s \o last) = Len(s) + Len(last)
          /\ \A k \in 1..Len(s) + Len(last) :
               (s \o last)[k] = IF k <= Len(s) THEN s[k] ELSE last[k - Len(s)]
      BY <1>3, <2>1, ConcatProperties
    <2> DEFINE w == s \o last
               n == Len(d)
    <2>3. n \in Nat /\ Len(s) = 1 + n BY <1>1, <1>3
    <2>4. w \in Seq(T) /\ Len(w) = n + 2 BY <2>1, <2>2, <2>3
    <2>5. \A k \in 1..n + 2 : w[k] = IF k <= 1 + n THEN s[k] ELSE last[k - (1 + n)]
      BY <2>1, <2>2, <2>3
    <2> HIDE DEF w, n
    <2>6. \A k \in 1..n + 1 : w[k] = s[k] BY <2>3, <2>5
    <2>7. w[n + 2] = b
      <3> DEFINE k == n + 2
      <3>1. k \in 1..n + 2 /\ ~(k <= 1 + n) /\ k - (1 + n) = 1 BY <2>3
      <3> HIDE DEF k
      <3>2. w[k] = last[k - (1 + n)] BY <2>5, <3>1
      <3>3. w[k] = b BY <2>1, <3>1, <3>2
      <3>4. QED BY <3>3 DEF k
    <2>8. QED BY <2>4, <2>6, <2>7 DEF w, n
  <1>5. Between(a, d, b) = s \o last BY DEF Between, s, last
  <1>6. (s \o last)[1] = a BY <1>1, <1>3, <1>4
  <1>7. \A k \in 1..Len(d) : (s \o last)[k + 1] = d[k]
    <2>1. \A k \in 1..Len(d) : k + 1 \in 1..Len(d) + 1 BY <1>1
    <2>2. QED BY <1>3, <1>4, <2>1
  <1>8. QED BY <1>4, <1>5, <1>6, <1>7 DEF T

LEMMA LongStringEnds ==
  ASSUME Text, NEW p, Here(p), OpensLong(p)
  PROVE  LET open  == Opening(p)
             close == Closing(p)
             i     == p + Len(open)
             e     == LongStringEnd(p)
         IN /\ Ends(p, e)
            /\ i <= Len(input) + 1
            /\ Slice(p, i) = open
            /\ IF Find(close, i) <= Len(input) THEN e = Find(close, i) + Len(close)
                                               ELSE e >= Len(input)
PROOF
  <1> DEFINE j     == DelimiterEnd(p)
             d     == Slice(p + 1, j)
             open  == Opening(p)
             close == Closing(p)
             i     == j + 1
             s     == Slice(p, i)
             e     == LongStringEnd(p)
  <1>1. p \in Nat /\ p \in Places /\ Len(input) \in Nat BY Next1
  <1>2. j \in p + 1..Len(input) + 1 BY DelimiterEnds
  <1>3. At(p) = "{" /\ At(j) = "\"" BY DEF OpensLong
  <1>4. j \in 1..Len(input) BY <1>3, Inside
  <1>5. d \in Seq(STRING) /\ Len(d) = j - (p + 1) /\ \A k \in 1..Len(d) : d[k] = At(p + k)
    <2> DEFINE q == p + 1
    <2>1. q \in Places /\ j \in Nat /\ q <= j /\ j <= Len(input) + 1 /\ q \in Nat /\ q = p + 1
      BY <1>1, <1>2, Next1
    <2> HIDE DEF q, j
    <2>2. /\ Slice(q, j) \in Seq(STRING) /\ Len(Slice(q, j)) = j - q
          /\ \A k \in 1..Len(Slice(q, j)) : Slice(q, j)[k] = At(q + k - 1)
      BY <2>1, SliceIs
    <2>3. \A k \in 1..Len(Slice(q, j)) : q + k - 1 = p + k BY <1>1, <2>1
    <2>4. QED BY <2>2, <2>3 DEF q
  <1>6. open = Between("{", d, "\"") /\ close = Between("\"", d, "}") BY DEF Opening, Closing
  <1>7. e = Past(close, i) BY DEF LongStringEnd, Closing, Between
  <1> HIDE DEF d, j, open, close, e
  <1>8. /\ open \in Seq(STRING \cup {"{", "\""}) /\ Len(open) = Len(d) + 2
        /\ open[1] = "{" /\ open[Len(d) + 2] = "\""
        /\ \A k \in 1..Len(d) : open[k + 1] = d[k]
    <2> DEFINE a == "{"
               b == "\""
               S == STRING
    <2>1. open = Between(a, d, b) /\ d \in Seq(S) BY <1>5, <1>6
    <2> HIDE DEF a, b, S
    <2>2. /\ Between(a, d, b) \in Seq(S \cup {a, b})
          /\ Len(Between(a, d, b)) = Len(d) + 2
          /\ Between(a, d, b)[1] = a /\ Between(a, d, b)[Len(d) + 2] = b
          /\ \A k \in 1..Len(d) : Between(a, d, b)[k + 1] = d[k]
      BY <2>1, Around
    <2>3. QED BY <2>1, <2>2 DEF a, b, S
  <1>9. Len(close) = Len(d) + 2
    <2> DEFINE a == "\""
               b == "}"
               S == STRING
    <2>1. close = Between(a, d, b) /\ d \in Seq(S) BY <1>5, <1>6
    <2> HIDE DEF a, b, S
    <2>2. Len(Between(a, d, b)) = Len(d) + 2 BY <2>1, Around
    <2>3. QED BY <2>1, <2>2
  <1>10. /\ i \in p + 1..Len(input) + 1 /\ i \in Nat /\ p <= i /\ i <= Len(input) + 1
         /\ i = p + Len(open) /\ Len(open) = i - p /\ Len(d) = i - p - 2 /\ Len(d) \in Nat
         /\ Len(close) \in Nat \ {0}
    <2> DEFINE n == Len(d)
               L == Len(input)
    <2>1. /\ n = j - (p + 1) /\ Len(open) = n + 2 /\ Len(close) = n + 2 /\ i = j + 1
          /\ j \in 1..L /\ j \in p + 1..L + 1 /\ p \in Nat /\ L \in Nat
      BY <1>1, <1>2, <1>4, <1>5, <1>8, <1>9
    <2> HIDE DEF n, L, i
    <2>2. QED BY <2>1 DEF n, L
  <1>11. At(i - 1) = "\""
    <2>1. i - 1 = j BY <1>4
    <2>2. QED BY <1>3, <2>1
  <1> HIDE DEF i
  <1>12. /\ Ends(p, e)
         /\ IF Find(close, i) <= Len(input) THEN e = Find(close, i) + Len(close)
                                            ELSE e = Len(input) + 1
    BY <1>7, <1>10, PastEnds
  <1>13. s = open
    <2>1. s \in Seq(STRING) /\ Len(s) = i - p /\ \A k \in 1..Len(s) : s[k] = At(p + k - 1)
      BY <1>1, <1>10, SliceIs
    <2> HIDE DEF s
    <2>2. ASSUME NEW k \in 1..Len(s) PROVE s[k] = open[k]
      <3>1. CASE k = 1
        <4>1. p + k - 1 = p BY <1>1, <3>1
        <4>2. QED BY <1>3, <1>8, <2>1, <3>1, <4>1
      <3>2. CASE k = Len(s)
        <4>1. p + k - 1 = i - 1 /\ k = Len(d) + 2 BY <1>1, <1>10, <2>1, <3>2
        <4>2. QED BY <1>8, <1>11, <2>1, <4>1
      <3>3. CASE k # 1 /\ k # Len(s)
        <4> DEFINE m == k - 1
        <4> DEFINE n == Len(s)
        <4>1. k \in 1..n /\ n = i - p /\ k # 1 /\ k # n /\ i \in Nat /\ p \in Nat /\ p <= i
          BY <1>1, <1>10, <2>1, <3>3
        <4> HIDE DEF n
        <4>2. k \in 2..i - p - 1 BY <4>1
        <4>3. m \in 1..Len(d) /\ k = m + 1 /\ p + k - 1 = p + m BY <1>1, <1>10, <4>2
        <4> HIDE DEF m
        <4>4. open[m + 1] = d[m] /\ d[m] = At(p + m) BY <1>5, <1>8, <4>3
        <4>5. QED BY <2>1, <4>3, <4>4
      <3>4. QED BY <3>1, <3>2, <3>3
    <2>3. Len(s) = Len(open) BY <1>10, <2>1
    <2> DEFINE T == STRING \cup {"{", "\""}
    <2>4. open \in Seq(T) BY <1>8
    <2> HIDE DEF T
    <2>5. QED BY <2>1, <2>2, <2>3, <2>4, SameText
  <1>14. Len(input) + 1 >= Len(input) BY <1>1
  <1>15. QED BY <1>10, <1>12, <1>13, <1>14 DEF s, open, close, e

LEMMA CodePointsFit ==
  ASSUME NEW p \in Nat, NEW i \in Nat, NEW j \in Nat, p <= i, i <= j
  PROVE  /\ CodePoints(p, i) \in Nat /\ CodePoints(p, j) \in Nat
         /\ CodePoints(p, i) <= i - p
         /\ CodePoints(p, i) <= CodePoints(p, j)
         /\ (\A k \in p..i - 1 : At(k) # "hi") => CodePoints(p, i) = i - p
PROOF
  <1> DEFINE A == {k \in p..i - 1 : At(k) # "hi"}
             B == {k \in p..j - 1 : At(k) # "hi"}
             I == p..i - 1
             J == p..j - 1
  <1>1. IsFiniteSet(I) /\ Cardinality(I) = i - p
    <2> DEFINE h == i - 1
    <2>1. h \in Int /\ p \in Int /\ (p > h => i - p = 0) /\ h - p + 1 = i - p OBVIOUS
    <2> HIDE DEF h
    <2>2. IsFiniteSet(p..h) /\ Cardinality(p..h) = IF p > h THEN 0 ELSE h - p + 1
      BY <2>1, FS_Interval
    <2>3. Cardinality(p..h) = i - p BY <2>1, <2>2
    <2>4. QED BY <2>2, <2>3 DEF h
  <1>2. IsFiniteSet(J)
    <2> DEFINE h == j - 1
    <2>1. h \in Int /\ p \in Int OBVIOUS
    <2> HIDE DEF h
    <2>2. IsFiniteSet(p..h) BY <2>1, FS_Interval
    <2>3. QED BY <2>2 DEF h
  <1>3. A \in SUBSET I /\ B \in SUBSET J OBVIOUS
  <1>4. A \in SUBSET B
    <2>1. \A k \in p..i - 1 : k \in p..j - 1 OBVIOUS
    <2>2. QED BY <2>1
  <1>5. (\A k \in p..i - 1 : At(k) # "hi") => A = I OBVIOUS
  <1>6. CodePoints(p, i) = Cardinality(A) /\ CodePoints(p, j) = Cardinality(B) BY DEF CodePoints
  <1> HIDE DEF A, B, I, J
  <1>7. IsFiniteSet(A) /\ Cardinality(A) <= Cardinality(I) BY <1>1, <1>3, FS_Subset
  <1>8. IsFiniteSet(B) BY <1>2, <1>3, FS_Subset
  <1>9. Cardinality(A) <= Cardinality(B) BY <1>4, <1>8, FS_Subset
  <1>10. Cardinality(A) \in Nat /\ Cardinality(B) \in Nat BY <1>7, <1>8, FS_CardinalityType
  <1>11. QED BY <1>1, <1>5, <1>6, <1>7, <1>9, <1>10

LEMMA AdvancesFit ==
  ASSUME NEW p \in Nat, NEW i \in Nat, NEW j \in Nat, p <= i, i <= j
  PROVE  /\ Advances(p, i) \in Nat /\ Advances(p, j) \in Nat
         /\ Advances(p, i) <= i - p
         /\ Advances(p, i) <= Advances(p, j)
         /\ HasEscape(p) \/ (\A k \in p..i - 1 : At(k) # "hi") => Advances(p, i) = i - p
PROOF
  <1>1. CASE HasEscape(p)
    <2>1. Advances(p, i) = i - p /\ Advances(p, j) = j - p BY <1>1 DEF Advances
    <2>2. QED BY <2>1
  <1>2. CASE ~HasEscape(p)
    <2>1. Advances(p, i) = CodePoints(p, i) /\ Advances(p, j) = CodePoints(p, j)
      BY <1>2 DEF Advances
    <2>2. QED BY <1>2, <2>1, CodePointsFit
  <1>3. QED BY <1>1, <1>2

(* Where a short string that begins at p is closed.                         *)
Quote(p) == Find(<<At(p)>>, p + 1)

LEMMA ShortStringEnds ==
  ASSUME Text, NEW p, Here(p)
  PROVE  LET e == ShortStringEnd(p)
         IN /\ Ends(p, e)
            /\ Quote(p) \in p + 1..Len(input) + 1
            /\ \A i \in p..Len(input) : i <= Quote(p) =>
                 Advances(p, i) \in Nat /\ Advances(p, i) < e - p
            /\ HasEscape(p) \/ (\A k \in p..Quote(p) - 1 : At(k) # "hi") =>
                 IF Quote(p) <= Len(input) THEN e = Quote(p) + 1 ELSE e >= Len(input)
PROOF
  <1> DEFINE f == Quote(p)
             e == ShortStringEnd(p)
             a == p + Advances(p, f) + 1
             b == Len(input) + 1
  <1>1. p \in Nat /\ p + 1 \in Places /\ Len(input) \in Nat /\ p <= Len(input) BY Next1
  <1>2. f \in p + 1..Len(input) + 1
    <2> DEFINE i       == p + 1
               pattern == <<At(p)>>
    <2>1. i \in Places /\ Len(pattern) \in Nat \ {0} BY <1>1
    <2>2. f = Find(pattern, i) BY DEF Quote
    <2> HIDE DEF i, pattern, f
    <2>3. f \in i..Len(input) + 1 BY <2>1, <2>2, FindIs
    <2>4. QED BY <2>3 DEF i
  <1>3. e = Min({a, b}) BY DEF ShortStringEnd, Quote
  <1> HIDE DEF f, e
  <1>4. f \in Nat /\ p <= f BY <1>1, <1>2
  <1>5. Advances(p, f) \in Nat
    <2>1. p <= p BY <1>1
    <2>2. QED BY <1>1, <1>4, <2>1, AdvancesFit
  <1>6. a \in Nat /\ b \in Nat BY <1>1, <1>5
  <1>7. e = IF a <= b THEN a ELSE b BY <1>3, <1>6, MinOfTwo
  <1>8. Ends(p, e) BY <1>1, <1>5, <1>7 DEF Ends
  <1>9. ASSUME NEW i \in p..Len(input), i <= f
        PROVE  Advances(p, i) \in Nat /\ Advances(p, i) < e - p
    <2>1. i \in Nat /\ p <= i BY <1>1
    <2>2. /\ Advances(p, i) \in Nat /\ Advances(p, i) <= i - p
          /\ Advances(p, i) <= Advances(p, f)
      BY <1>1, <1>4, <1>9, <2>1, AdvancesFit
    <2>3. QED BY <1>1, <1>5, <1>7, <2>1, <2>2
  <1>10. ASSUME HasEscape(p) \/ \A k \in p..f - 1 : At(k) # "hi"
         PROVE  IF f <= Len(input) THEN e = f + 1 ELSE e >= Len(input)
    <2>1. Advances(p, f) = f - p BY <1>1, <1>4, <1>10, AdvancesFit
    <2>2. QED BY <1>1, <1>2, <1>4, <1>7, <2>1
  <1>11. QED BY <1>2, <1>8, <1>9, <1>10 DEF f, e

LEMMA BlockEnds ==
  ASSUME Text, NEW p, Here(p)
  PROVE  Ends(p, BlockEnd(p))
PROOF
  <1> DEFINE K == {k \in p + 1..Len(input) : Count("{", p, k) = Count("}", p, k)}
             T == {j + 1 : j \in K} \cup {Len(input) + 1}
  <1>1. p \in Nat /\ Len(input) \in Nat /\ p <= Len(input) BY Next1
  <1>2. \A j \in K : j + 1 \in p + 1..Len(input) + 1
    <2>1. K \in SUBSET (p + 1..Len(input)) OBVIOUS
    <2> HIDE DEF K
    <2>2. QED BY <1>1, <2>1
  <1> HIDE DEF K
  <1>3. T \in SUBSET (p + 1..Len(input) + 1) /\ T # {} BY <1>1, <1>2
  <1>4. BlockEnd(p) = Min(T) BY DEF BlockEnd, K
  <1> HIDE DEF T
  <1>5. T \in SUBSET Nat BY <1>1, <1>3
  <1>6. Min(T) \in T BY <1>3, <1>5, MinIsLeast
  <1>7. QED BY <1>3, <1>4, <1>6 DEF Ends

LEMMA IdentifierEnds ==
  ASSUME Text, NEW p, Here(p)
  PROVE  Ends(p, IdentifierEnd(p))
PROOF
  <1> DEFINE T == {i \in p + 1..Len(input) + 1 : ~GoesOn(i)}
  <1>1. p \in Nat /\ Len(input) \in Nat /\ p <= Len(input) BY Next1
  <1>2. At(Len(input) + 1) = "end" BY <1>1 DEF At
  <1>3. ~GoesOn(Len(input) + 1) BY <1>2, Classes DEF GoesOn
  <1>4. Len(input) + 1 \in T BY <1>1, <1>3
  <1>5. T \in SUBSET Nat /\ T # {} /\ T \in SUBSET (p + 1..Len(input) + 1) BY <1>1, <1>4
  <1>6. IdentifierEnd(p) = Min(T) BY DEF IdentifierEnd
  <1> HIDE DEF T
  <1>7. Min(T) \in T BY <1>5, MinIsLeast
  <1>8. QED BY <1>5, <1>6, <1>7 DEF Ends

(* Behind a run of characters of a class that the token begins with.        *)
LEMMA RunEnds ==
  ASSUME Text, NEW p, Here(p), NEW S, "end" \notin S, At(p) \in S
  PROVE  Ends(p, After(S, p))
PROOF
  <1>1. p \in Places /\ p \in Nat /\ Len(input) \in Nat BY Next1
  <1> DEFINE e == After(S, p)
  <1>2. e \in p..Len(input) + 1 /\ At(e) \notin S BY <1>1, AfterIs
  <1> HIDE DEF e
  <1>3. e # p BY <1>2
  <1>4. e \in p + 1..Len(input) + 1 BY <1>1, <1>2, <1>3
  <1>5. QED BY <1>4 DEF e, Ends

-----------------------------------------------------------------------------
(* Numbers.                                                                 *)

(* Where a numeral over digits S with a marker of its exponent ends.        *)
MantissaTo(i, S)        == Fraction(S, After(S, i))
NumeralTo(i, S, marker) == Exponent(marker, MantissaTo(i, S))

LEMMA MantissaIs ==
  ASSUME Text, NEW i \in Places, NEW S, "end" \notin S
  PROVE  LET w == After(S, i)
             m == MantissaTo(i, S)
         IN /\ w \in i..Len(input) + 1 /\ m \in w..Len(input) + 1
            /\ AllIn(S, i, w) /\ At(w) \notin S
            /\ w = m => At(w) # "."
            /\ w # m => At(w) = "." /\ m = After(S, w + 1) /\ w + 1 \in Places
                        /\ w + 1 <= m /\ AllIn(S, w + 1, m) /\ At(m) \notin S
PROOF
  <1> DEFINE w == After(S, i)
             m == MantissaTo(i, S)
  <1>1. Len(input) \in Nat /\ i \in Nat BY DEF Text, Places
  <1>2. w \in i..Len(input) + 1 /\ At(w) \notin S /\ AllIn(S, i, w) BY AfterIs DEF AllIn
  <1>3. m = IF At(w) = "." THEN After(S, w + 1) ELSE w BY DEF MantissaTo, Fraction
  <1> HIDE DEF w, m
  <1>4. CASE At(w) # "."
    <2>1. m = w BY <1>3, <1>4
    <2>2. QED BY <1>1, <1>2, <1>4, <2>1 DEF w, m
  <1>5. CASE At(w) = "."
    <2> DEFINE v == w + 1
    <2>1. w \in 1..Len(input) BY <1>5, Inside
    <2>2. v \in Places /\ v = w + 1 BY <1>1, <2>1 DEF Places
    <2>3. m = After(S, v) BY <1>3, <1>5
    <2> HIDE DEF v
    <2>4. m \in v..Len(input) + 1 /\ At(m) \notin S /\ AllIn(S, v, m) BY <2>2, <2>3, AfterIs DEF AllIn
    <2>5. m \in w..Len(input) + 1 /\ w + 1 <= m /\ w # m BY <1>1, <2>1, <2>2, <2>4
    <2>6. QED BY <1>2, <1>5, <2>2, <2>3, <2>4, <2>5 DEF w, m, v
  <1>6. QED BY <1>4, <1>5

Signed(i, digits) ==
  digits = i + 1 \/ (digits = i + 2 /\ At(i + 1) \in {"+", "-"})

LEMMA ExponentIs ==
  ASSUME Text, NEW i \in Places, NEW marker, marker # "end"
  PROVE  LET x == Exponent(marker, i)
         IN /\ x \in i..Len(input) + 1
            /\ x = i \/ (/\ At(i) = marker
                         /\ \E digits \in i + 1..x - 1 : Signed(i, digits) /\ AllIn(Digits, digits, x))
            /\ \A j \in Places : At(i) = marker =>
                 \A digits \in i + 1..j - 1 : Signed(i, digits) /\ AllIn(Digits, digits, j) => j <= x
PROOF
  <1> DEFINE d == IF At(i + 1) \in {"+", "-"} THEN i + 2 ELSE i + 1
             x == Exponent(marker, i)
  <1>1. Len(input) \in Nat /\ i \in Nat BY DEF Text, Places
  <1>2. x = IF At(i) = marker /\ At(d) \in Digits THEN After(Digits, d) ELSE i BY DEF Exponent
  <1>3. Signed(i, d) /\ d \in i + 1..i + 2 BY <1>1 DEF Signed
  <1>4. "end" \notin Digits /\ "+" \notin Digits /\ "-" \notin Digits BY DEF Digits
  <1>5. \A digits : Signed(i, digits) /\ At(digits) \in Digits => digits = d BY <1>4 DEF Signed
  <1> HIDE DEF d, x
  <1>6. ASSUME NEW j \in Places, At(i) = marker, NEW digits \in i + 1..j - 1,
               Signed(i, digits), AllIn(Digits, digits, j)
        PROVE  At(d) \in Digits /\ digits = d
    <2>1. j \in Nat BY <1>1 DEF Places
    <2>2. digits \in digits..j - 1 BY <1>1, <2>1, <1>6
    <2>3. At(digits) \in Digits BY <1>6, <2>2 DEF AllIn
    <2>4. QED BY <1>5, <1>6, <2>3
  <1>7. CASE At(i) = marker /\ At(d) \in Digits
    <2>1. d \in 1..Len(input) BY <1>4, <1>7, Inside
    <2>2. d \in Places /\ d \in Nat BY <1>1, <2>1 DEF Places
    <2>3. x = After(Digits, d) BY <1>2, <1>7
    <2>4. x \in d..Len(input) + 1 /\ At(x) \notin Digits /\ AllIn(Digits, d, x)
      BY <1>4, <2>2, <2>3, AfterIs DEF AllIn
    <2>5. x # d BY <1>7, <2>4
    <2>6. x \in i..Len(input) + 1 /\ d \in i + 1..x - 1 BY <1>1, <1>3, <2>2, <2>4, <2>5
    <2>7. ASSUME NEW j \in Places, NEW digits \in i + 1..j - 1,
                 Signed(i, digits), AllIn(Digits, digits, j)
          PROVE  j <= x
      <3>1. digits = d BY <1>6, <1>7, <2>7
      <3>2. j \in Nat BY <1>1 DEF Places
      <3>3. ~(x < j)
        <4> SUFFICES ASSUME x < j PROVE FALSE OBVIOUS
        <4>1. x \in d..j - 1 BY <1>1, <2>2, <2>4, <3>2
        <4>2. QED BY <2>4, <2>7, <3>1, <4>1 DEF AllIn
      <3>4. QED BY <1>1, <2>6, <3>2, <3>3
    <2>8. QED BY <1>3, <1>7, <2>4, <2>6, <2>7 DEF x
  <1>8. CASE ~(At(i) = marker /\ At(d) \in Digits)
    <2>1. x = i BY <1>2, <1>8
    <2>2. i \in i..Len(input) + 1 BY <1>1 DEF Places
    <2>3. ASSUME NEW j \in Places, At(i) = marker, NEW digits \in i + 1..j - 1,
                 Signed(i, digits), AllIn(Digits, digits, j)
          PROVE  FALSE
      BY <1>6, <1>8, <2>3
    <2>4. QED BY <2>1, <2>2, <2>3 DEF x
  <1>9. QED BY <1>7, <1>8

LEMMA NumeralHolds ==
  ASSUME Text, NEW i \in Places, NEW S, "end" \notin S, NEW marker, marker # "end",
         ~AllIn({"."}, i, MantissaTo(i, S))
  PROVE  /\ NumeralTo(i, S, marker) \in i..Len(input) + 1
         /\ IsNumeral(i, NumeralTo(i, S, marker), S, marker)
PROOF
  <1> DEFINE w == After(S, i)
             m == MantissaTo(i, S)
             x == NumeralTo(i, S, marker)
  <1>1. Len(input) \in Nat /\ i \in Nat BY DEF Text, Places
  <1>2. /\ w \in i..Len(input) + 1 /\ m \in w..Len(input) + 1 /\ AllIn(S, i, w)
        /\ w = m \/ (At(w) = "." /\ AllIn(S, w + 1, m))
    BY MantissaIs
  <1>3. x = Exponent(marker, m) BY DEF NumeralTo
  <1> HIDE DEF w, m, x
  <1>4. m \in Places /\ m \in Nat /\ w \in Nat BY <1>1, <1>2 DEF Places
  <1>5. /\ x \in m..Len(input) + 1
        /\ x = m \/ (/\ At(m) = marker
                     /\ \E digits \in m + 1..x - 1 : Signed(m, digits) /\ AllIn(Digits, digits, x))
    BY <1>3, <1>4, ExponentIs
  <1>6. w \in i..x /\ m \in i..x /\ w <= m /\ x \in i..Len(input) + 1 BY <1>1, <1>2, <1>4, <1>5
  <1>7. ~AllIn({"."}, i, m) BY DEF m
  <1>8. IsNumeral(i, x, S, marker) BY <1>2, <1>5, <1>6, <1>7 DEF IsNumeral, Signed
  <1>9. QED BY <1>6, <1>8 DEF x

LEMMA NumeralLongest ==
  ASSUME Text, NEW i \in Places, NEW S, "end" \notin S, "." \notin S,
         NEW marker, marker # "end", marker # ".", marker \notin S,
         NEW j \in Places, IsNumeral(i, j, S, marker)
  PROVE  j <= NumeralTo(i, S, marker)
PROOF
  <1> DEFINE w == After(S, i)
             m == MantissaTo(i, S)
             x == NumeralTo(i, S, marker)
  <1>1. Len(input) \in Nat /\ i \in Nat /\ j \in Nat BY DEF Text, Places
  <1>2. /\ w \in i..Len(input) + 1 /\ m \in w..Len(input) + 1
        /\ AllIn(S, i, w) /\ At(w) \notin S
        /\ w = m => At(w) # "."
        /\ w # m => At(w) = "." /\ w + 1 <= m /\ AllIn(S, w + 1, m) /\ At(m) \notin S
    BY MantissaIs
  <1>3. x = Exponent(marker, m) BY DEF NumeralTo
  <1> HIDE DEF w, m, x
  <1>4. m \in Places /\ m \in Nat /\ w \in Nat BY <1>1, <1>2 DEF Places
  <1>5. /\ x \in m..Len(input) + 1
        /\ At(m) = marker =>
             \A digits \in m + 1..j - 1 : Signed(m, digits) /\ AllIn(Digits, digits, j) => j <= x
    BY <1>3, <1>4, ExponentIs
  <1>6. PICK whole \in i..j, mantissa \in i..j :
          /\ whole <= mantissa
          /\ AllIn(S, i, whole)
          /\ whole = mantissa \/ (At(whole) = "." /\ AllIn(S, whole + 1, mantissa))
          /\ \/ mantissa = j
             \/ /\ At(mantissa) = marker
                /\ \E digits \in mantissa + 1..j - 1 :
                     Signed(mantissa, digits) /\ AllIn(Digits, digits, j)
    BY DEF IsNumeral, Signed
  <1>7. whole \in Nat /\ mantissa \in Nat /\ i <= whole /\ i <= w BY <1>1, <1>2, <1>6
  <1>8. whole <= w
    <2> SUFFICES ASSUME w < whole PROVE FALSE BY <1>4, <1>7
    <2>1. w \in i..whole - 1 BY <1>4, <1>7
    <2>2. QED BY <1>2, <1>6, <2>1 DEF AllIn
  <1>9. ASSUME whole # mantissa PROVE whole = w /\ w # m
    <2>1. At(whole) = "." BY <1>6, <1>9
    <2>2. ~(whole < w)
      <3> SUFFICES ASSUME whole < w PROVE FALSE OBVIOUS
      <3>1. whole \in i..w - 1 BY <1>4, <1>7
      <3>2. QED BY <1>2, <2>1, <3>1 DEF AllIn
    <2>3. whole = w BY <1>4, <1>7, <1>8, <2>2
    <2>4. QED BY <1>2, <2>1, <2>3
  <1>10. mantissa <= m
    <2>1. CASE whole = mantissa
      <3>1. w <= m BY <1>2, <1>4
      <3>2. QED BY <1>4, <1>7, <1>8, <2>1, <3>1
    <2>2. CASE whole # mantissa
      <3>1. whole = w /\ AllIn(S, w + 1, mantissa) /\ w + 1 <= m /\ At(m) \notin S
        BY <1>2, <1>6, <1>9, <2>2
      <3> SUFFICES ASSUME m < mantissa PROVE FALSE BY <1>4, <1>7
      <3>2. m \in w + 1..mantissa - 1 BY <1>4, <1>7, <3>1
      <3>3. QED BY <3>1, <3>2 DEF AllIn
    <2>3. QED BY <2>1, <2>2
  <1>11. CASE mantissa = j
    BY <1>1, <1>4, <1>5, <1>10, <1>11 DEF x
  <1>12. CASE mantissa # j
    <2>1. At(mantissa) = marker BY <1>6, <1>12
    <2>2. ~(mantissa < m)
      <3> SUFFICES ASSUME mantissa < m PROVE FALSE OBVIOUS
      <3>1. CASE mantissa < w
        <4>1. mantissa \in i..w - 1 BY <1>1, <1>4, <1>6, <1>7, <3>1
        <4>2. QED BY <1>2, <2>1, <4>1 DEF AllIn
      <3>2. CASE mantissa = w
        <4>1. w # m BY <1>4, <3>2
        <4>2. QED BY <1>2, <2>1, <3>2, <4>1
      <3>3. CASE w < mantissa
        <4>1. w # m /\ mantissa \in w + 1..m - 1 BY <1>4, <1>7, <3>3
        <4>2. QED BY <1>2, <2>1, <4>1 DEF AllIn
      <3>4. QED BY <1>4, <1>7, <3>1, <3>2, <3>3
    <2>3. mantissa = m BY <1>4, <1>7, <1>10, <2>2
    <2>4. j <= x BY <1>5, <1>6, <1>12, <2>3
    <2>5. QED BY <2>4 DEF x
  <1>13. QED BY <1>11, <1>12

LEMMA NumeralChars ==
  ASSUME Text, NEW i \in Places, NEW S, "end" \notin S, NEW marker, marker # "end"
  PROVE  /\ NumeralTo(i, S, marker) \in i..Len(input) + 1
         /\ MantissaTo(i, S) \in i..NumeralTo(i, S, marker)
         /\ AllIn(UNION {S, Digits, {".", "+", "-", marker}}, i, NumeralTo(i, S, marker))
PROOF
  <1> DEFINE w == After(S, i)
             m == MantissaTo(i, S)
             x == NumeralTo(i, S, marker)
             C == UNION {S, Digits, {".", "+", "-", marker}}
  <1>1. Len(input) \in Nat /\ i \in Nat BY DEF Text, Places
  <1>2. /\ w \in i..Len(input) + 1 /\ m \in w..Len(input) + 1
        /\ AllIn(S, i, w)
        /\ w # m => At(w) = "." /\ w + 1 <= m /\ AllIn(S, w + 1, m)
    BY MantissaIs
  <1>3. x = Exponent(marker, m) BY DEF NumeralTo
  <1>4. /\ S \subseteq C /\ Digits \subseteq C
        /\ "." \in C /\ "+" \in C /\ "-" \in C /\ marker \in C
    OBVIOUS
  <1> HIDE DEF w, m, x, C
  <1>5. m \in Places /\ m \in Nat /\ w \in Nat BY <1>1, <1>2 DEF Places
  <1>6. /\ x \in m..Len(input) + 1
        /\ x = m \/ (/\ At(m) = marker
                     /\ \E digits \in m + 1..x - 1 : Signed(m, digits) /\ AllIn(Digits, digits, x))
    BY <1>3, <1>5, ExponentIs
  <1>7. x \in Nat /\ m <= x /\ w <= m /\ i <= w BY <1>1, <1>2, <1>5, <1>6
  <1>8. ASSUME NEW k \in i..x - 1 PROVE At(k) \in C
    <2>1. k \in Nat BY <1>1
    <2>2. CASE k < w
      <3>1. k \in i..w - 1 BY <1>5, <2>1, <2>2
      <3>2. QED BY <1>2, <1>4, <3>1 DEF AllIn
    <2>3. CASE w <= k /\ k < m
      <3>1. w # m /\ (k = w \/ k \in w + 1..m - 1) BY <1>5, <2>1, <2>3
      <3>2. QED BY <1>2, <1>4, <3>1 DEF AllIn
    <2>4. CASE m <= k
      <3>1. x # m BY <1>5, <1>7, <2>1, <2>4
      <3>2. PICK digits \in m + 1..x - 1 : Signed(m, digits) /\ AllIn(Digits, digits, x)
        BY <1>6, <3>1
      <3>3. CASE k = m BY <1>4, <1>6, <3>1, <3>3
      <3>4. CASE k \in digits..x - 1 BY <1>4, <3>2, <3>4 DEF AllIn
      <3>5. CASE k # m /\ k \notin digits..x - 1
        <4>1. k = m + 1 /\ digits = m + 2 /\ At(m + 1) \in {"+", "-"}
          BY <1>5, <1>7, <2>1, <2>4, <3>2, <3>5 DEF Signed
        <4>2. QED BY <1>4, <4>1
      <3>6. QED BY <3>3, <3>4, <3>5
    <2>5. QED BY <1>5, <2>1, <2>2, <2>3, <2>4
  <1>9. x \in i..Len(input) + 1 /\ m \in i..x BY <1>1, <1>5, <1>6, <1>7
  <1>10. QED BY <1>8, <1>9 DEF AllIn, x, m, C

LEMMA NumberClasses ==
  /\ "end" \notin Digits /\ "end" \notin HexDigits /\ "." \notin Digits /\ "." \notin HexDigits
  /\ "e" \notin Digits /\ "p" \notin HexDigits /\ "x" \notin Digits /\ "0" \in Digits
  /\ \A c \in {" ", "s", "m"} :
       /\ c \notin UNION {HexDigits, Digits, {".", "+", "-", "p"}}
       /\ c \notin UNION {Digits, Digits, {".", "+", "-", "e"}}
       /\ c # "0" /\ c # "x" /\ c # "end"
PROOF BY DEF Digits, HexDigits

(* What may be part of a numeral is no blank and begins no unit.            *)
Solid(p, i) == \A k \in p..i - 1 : At(k) \notin {" ", "s", "m"}

LEMMA HexNumeral ==
  ASSUME Text, NEW p, Here(p), IsHex(p), ~HasNoDigits(p)
  PROVE  /\ Ends(p, NumeralEnd(p))
         /\ IsPlain(p, NumeralEnd(p))
         /\ \A j \in Places : IsPlain(p, j) => j <= NumeralEnd(p)
         /\ Solid(p, NumeralEnd(p))
PROOF
  <1> DEFINE i == p + 2
             m == MantissaTo(i, HexDigits)
             x == NumeralEnd(p)
  <1>1. p \in Nat /\ p \in Places /\ p + 1 \in Places /\ Len(input) \in Nat BY Next1
  <1>2. At(p) = "0" /\ At(p + 1) = "x" BY DEF IsHex
  <1>3. p + 1 \in 1..Len(input) BY <1>2, Inside
  <1>4. i \in Places /\ i = p + 2 /\ i \in Nat BY <1>1, <1>3 DEF Places
  <1>5. m = HexMantissaEnd(p) BY DEF MantissaTo, HexMantissaEnd
  <1>6. x = NumeralTo(i, HexDigits, "p") BY DEF NumeralEnd, NumeralTo, MantissaTo, HexMantissaEnd
  <1> HIDE DEF i, m, x
  <1>7. /\ x \in i..Len(input) + 1 /\ m \in i..x
        /\ AllIn(UNION {HexDigits, Digits, {".", "+", "-", "p"}}, i, x)
    <2> DEFINE S == HexDigits
               c == "p"
    <2>1. "end" \notin S /\ c # "end" BY NumberClasses
    <2>2. x = NumeralTo(i, S, c) /\ m = MantissaTo(i, S) BY <1>6 DEF m
    <2> HIDE DEF S, c
    <2>3. /\ NumeralTo(i, S, c) \in i..Len(input) + 1
          /\ MantissaTo(i, S) \in i..NumeralTo(i, S, c)
          /\ AllIn(UNION {S, Digits, {".", "+", "-", c}}, i, NumeralTo(i, S, c))
      BY <1>4, <2>1, NumeralChars
    <2>4. QED BY <2>2, <2>3 DEF S, c
  <1>8. ~AllIn({"."}, i, m)
    <2> SUFFICES ASSUME AllIn({"."}, i, m) PROVE FALSE OBVIOUS
    <2> DEFINE s == Slice(i, m)
    <2>1. m \in Nat /\ i <= m /\ m <= Len(input) + 1 BY <1>1, <1>4, <1>7
    <2>2. s \in Seq(STRING) /\ Len(s) = m - i /\ \A k \in 1..Len(s) : s[k] = At(i + k - 1)
      BY <1>4, <2>1, SliceIs
    <2> HIDE DEF s
    <2>3. \A k \in 1..Len(s) : i + k - 1 \in i..m - 1 BY <1>4, <2>1, <2>2
    <2>4. \A k \in DOMAIN s : s[k] = "." BY <2>2, <2>3 DEF AllIn
    <2>5. ToSet(s) \subseteq {"."} BY <2>4 DEF ToSet
    <2>6. QED BY <1>4, <1>5, <2>5 DEF HasNoDigits, s
  <1>9. IsNumeral(i, x, HexDigits, "p")
    <2> DEFINE S == HexDigits
               c == "p"
    <2>1. "end" \notin S /\ c # "end" BY NumberClasses
    <2>2. x = NumeralTo(i, S, c) /\ ~AllIn({"."}, i, MantissaTo(i, S)) BY <1>6, <1>8 DEF m
    <2> HIDE DEF S, c
    <2>3. IsNumeral(i, NumeralTo(i, S, c), S, c) BY <1>4, <2>1, <2>2, NumeralHolds
    <2>4. QED BY <2>2, <2>3 DEF S, c
  <1>10. IsPlain(p, x) BY <1>2, <1>4, <1>9 DEF IsPlain
  <1>11. ASSUME NEW j \in Places, IsPlain(p, j) PROVE j <= x
    <2>1. CASE IsNumeral(i, j, HexDigits, "p")
      <3> DEFINE S == HexDigits
                 c == "p"
      <3>1. "end" \notin S /\ "." \notin S /\ c \notin S /\ c # "end" /\ c # "." BY NumberClasses
      <3>2. x = NumeralTo(i, S, c) /\ IsNumeral(i, j, S, c) BY <1>6, <2>1
      <3> HIDE DEF S, c
      <3>3. j <= NumeralTo(i, S, c) BY <1>4, <3>1, <3>2, NumeralLongest
      <3>4. QED BY <3>2, <3>3
    <2>2. CASE IsNumeral(p, j, Digits, "e")
      <3> DEFINE S == Digits
                 c == "e"
                 q == p + 1
      <3>1. /\ "end" \notin S /\ "." \notin S /\ c \notin S /\ c # "end" /\ c # "."
            /\ "x" \notin S /\ "0" \in S /\ "x" # "." /\ "x" # c
        BY NumberClasses
      <3>2. IsNumeral(p, j, S, c) BY <2>2
      <3>3. q \in p..Len(input) + 1 /\ q = p + 1 /\ p..q - 1 = {p} BY <1>1, <1>3
      <3>4. At(q) = "x" BY <1>2
      <3> HIDE DEF S, c, q
      <3>5. j <= NumeralTo(p, S, c) BY <1>1, <3>1, <3>2, NumeralLongest
      <3>6. \A k \in p..q - 1 : At(k) \in S BY <1>2, <3>1, <3>3
      <3>7. After(S, p) = q BY <1>1, <3>1, <3>3, <3>4, <3>6, AfterThat
      <3>8. MantissaTo(p, S) = q BY <3>1, <3>4, <3>7 DEF MantissaTo, Fraction
      <3>9. NumeralTo(p, S, c) = q BY <3>1, <3>4, <3>8 DEF NumeralTo, Exponent
      <3>10. j \in Nat /\ x \in Nat /\ i <= x BY <1>1, <1>4, <1>7 DEF Places
      <3>11. QED BY <1>1, <1>4, <3>3, <3>5, <3>9, <3>10
    <2>3. QED BY <1>4, <1>11, <2>1, <2>2 DEF IsPlain
  <1>12. Solid(p, x)
    <2> SUFFICES ASSUME NEW k \in p..x - 1 PROVE At(k) \notin {" ", "s", "m"} BY DEF Solid
    <2>1. k = p \/ k = p + 1 \/ k \in i..x - 1 BY <1>1, <1>4, <1>7
    <2>2. CASE k \in i..x - 1
      <3>1. At(k) \in UNION {HexDigits, Digits, {".", "+", "-", "p"}} BY <1>7, <2>2 DEF AllIn
      <3>2. QED BY <3>1, NumberClasses
    <2>3. CASE k = p \/ k = p + 1 BY <1>2, <2>3, NumberClasses
    <2>4. QED BY <2>1, <2>2, <2>3
  <1>13. Ends(p, x) BY <1>1, <1>4, <1>7 DEF Ends
  <1>14. QED BY <1>10, <1>11, <1>12, <1>13 DEF x

LEMMA DecimalNumeral ==
  ASSUME Text, NEW p, Here(p), ~IsHex(p), At(p) \in Digits
  PROVE  /\ Ends(p, NumeralEnd(p))
         /\ IsPlain(p, NumeralEnd(p))
         /\ \A j \in Places : IsPlain(p, j) => j <= NumeralEnd(p)
         /\ Solid(p, NumeralEnd(p))
PROOF
  <1> DEFINE S == Digits
             c == "e"
             w == After(S, p)
             m == MantissaTo(p, S)
             x == NumeralEnd(p)
  <1>1. p \in Nat /\ p \in Places /\ Len(input) \in Nat BY Next1
  <1>2. /\ "end" \notin S /\ "." \notin S /\ c \notin S /\ c # "end" /\ c # "." /\ At(p) \in S
        /\ \A d \in {" ", "s", "m"} : d \notin UNION {S, Digits, {".", "+", "-", c}}
    BY NumberClasses
  <1>3. x = NumeralTo(p, S, c) BY DEF NumeralEnd, NumeralTo, MantissaTo
  <1>4. \A j : IsPlain(p, j) <=> IsNumeral(p, j, S, c) BY DEF IsPlain, IsHex
  <1> HIDE DEF S, c, w, m, x
  <1>5. w \in p..Len(input) + 1 /\ At(w) \notin S /\ m \in w..Len(input) + 1
    BY <1>1, <1>2, MantissaIs DEF w, m
  <1>6. /\ x \in p..Len(input) + 1 /\ m \in p..x
        /\ AllIn(UNION {S, Digits, {".", "+", "-", c}}, p, x)
    BY <1>1, <1>2, <1>3, NumeralChars DEF m
  <1>7. w # p BY <1>2, <1>5
  <1>8. p \in p..m - 1 /\ x \in p + 1..Len(input) + 1 BY <1>1, <1>5, <1>6, <1>7
  <1>9. ~AllIn({"."}, p, m) BY <1>2, <1>8 DEF AllIn
  <1>10. IsNumeral(p, x, S, c) BY <1>1, <1>2, <1>3, <1>9, NumeralHolds DEF m
  <1>11. \A j \in Places : IsNumeral(p, j, S, c) => j <= x BY <1>1, <1>2, <1>3, NumeralLongest
  <1>12. Solid(p, x) BY <1>2, <1>6 DEF Solid, AllIn
  <1>13. QED BY <1>4, <1>8, <1>10, <1>11, <1>12 DEF Ends, x

LEMMA UnitChars ==
  ASSUME Text, NEW n \in Places, NEW j \in n..Len(input) + 1, Slice(n, j) \in Units
  PROVE  n < j /\ AllIn({"s", "m"}, n, j)
PROOF
  <1> DEFINE s == Slice(n, j)
  <1>1. n \in Nat /\ j \in Nat /\ n <= j /\ j <= Len(input) + 1 /\ Len(input) \in Nat
    BY DEF Text, Places
  <1>2. s \in Seq(STRING) /\ Len(s) = j - n /\ \A k \in 1..Len(s) : s[k] = At(n + k - 1)
    BY <1>1, SliceIs
  <1>3. s \in {<<"s">>, <<"m">>, <<"m", "s">>} BY DEF Units
  <1> HIDE DEF s
  <1>4. Len(s) # 0 /\ \A k \in 1..Len(s) : s[k] \in {"s", "m"} BY <1>3
  <1>5. n < j BY <1>1, <1>2, <1>4
  <1>6. ASSUME NEW i \in n..j - 1 PROVE At(i) \in {"s", "m"}
    <2> DEFINE k == i - n + 1
    <2>1. k \in 1..Len(s) /\ n + k - 1 = i BY <1>1, <1>2
    <2> HIDE DEF k
    <2>2. s[k] = At(i) BY <1>2, <2>1
    <2>3. QED BY <1>4, <2>1, <2>2
  <1>7. QED BY <1>5, <1>6 DEF AllIn

LEMMA MaxIsThat ==
  ASSUME NEW S, S \subseteq Nat, NEW x \in S, \A y \in S : y <= x
  PROVE  Max(S) = x
PROOF
  <1>1. \A y \in S : x >= y OBVIOUS
  <1>2. Max(S) \in S /\ \A y \in S : Max(S) >= y BY <1>1 DEF Max
  <1>3. x \in Nat /\ Max(S) \in Nat /\ x >= Max(S) /\ Max(S) >= x BY <1>1, <1>2
  <1> DEFINE m == Max(S)
  <1>4. m \in Nat /\ x >= m /\ m >= x BY <1>3
  <1> HIDE DEF m
  <1>5. m = x BY <1>3, <1>4
  <1>6. QED BY <1>5 DEF m

Stops == WordChars \cup {".", ":", "-"}

LEMMA NumberEnds ==
  ASSUME Text, NEW p, Here(p), At(p) \in Digits, ~HasNoDigits(p)
  PROVE  /\ Ends(p, NumberEnd(p))
         /\ NumberEnd(p) = Max({j \in p + 1..Len(input) + 1 : IsNumber(p, j)})
PROOF
  <1> DEFINE N    == NumeralEnd(p)
             from == After({" "}, N)
             to   == After(Lower, from)
             e    == NumberEnd(p)
  <1>1. p \in Nat /\ Len(input) \in Nat BY Next1
  <1>2. /\ Ends(p, N) /\ IsPlain(p, N) /\ Solid(p, N)
        /\ \A j \in Places : IsPlain(p, j) => j <= N
    BY HexNumeral, DecimalNumeral
  <1>3. e = IF Slice(from, to) \in Units /\ At(to) \notin Stops THEN to ELSE N
    BY DEF NumberEnd, UnitEnd, Stops
  <1> HIDE DEF N, e
  <1>4. N \in Places /\ N \in Nat /\ p < N BY <1>1, <1>2 DEF Ends, Places
  <1>5. from \in N..Len(input) + 1 /\ AllIn({" "}, N, from)
    <2> DEFINE S == {" "}
    <2>1. "end" \notin S OBVIOUS
    <2> HIDE DEF S
    <2>2. After(S, N) \in N..Len(input) + 1 /\ AllIn(S, N, After(S, N)) BY <1>4, <2>1, AfterIs DEF AllIn
    <2>3. QED BY <2>2 DEF S
  <1> HIDE DEF from
  <1>6. from \in Places /\ from \in Nat /\ N <= from
    <2>1. from \in N..Len(input) + 1 BY <1>5
    <2>3. N \in Nat /\ N >= 1 BY <1>1, <1>4
    <2> HIDE DEF to
    <2>2. QED BY <1>1, <2>1, <2>3 DEF Places
  <1>7. to \in from..Len(input) + 1
    <2>1. "end" \notin Lower BY Classes
    <2>2. QED BY <1>6, <2>1, AfterIs
  <1> HIDE DEF to
  <1>8. Ends(p, e) /\ IsNumber(p, e)
    <2>1. CASE Slice(from, to) \in Units /\ At(to) \notin Stops
      <3>1. e = to /\ from < to BY <1>3, <1>6, <1>7, <2>1, UnitChars
      <3>2. to \in Nat /\ N \in p + 1..to - 1 /\ from \in p + 1..to - 1 /\ p < to
        BY <1>1, <1>4, <1>6, <1>7, <3>1
      <3>3. IsNumber(p, to) BY <1>2, <1>5, <1>6, <2>1, <3>2 DEF IsNumber, Stops
      <3>4. Ends(p, to) BY <1>1, <1>6, <1>7, <3>2 DEF Ends
      <3>5. QED BY <3>1, <3>3, <3>4
    <2>2. CASE ~(Slice(from, to) \in Units /\ At(to) \notin Stops)
      <3>1. e = N BY <1>3, <2>2
      <3>2. QED BY <1>2, <3>1 DEF IsNumber
    <2>3. QED BY <2>1, <2>2
  <1>9. ASSUME NEW j \in p + 1..Len(input) + 1, IsNumber(p, j) PROVE j <= e
    <2>1. j \in Nat /\ j \in Places BY <1>1 DEF Places
    <2>2. N <= e
      <3>1. N <= to BY <1>4, <1>6, <1>7
      <3>2. N <= N BY <1>4
      <3>3. QED BY <1>3, <3>1, <3>2
    <2>3. CASE IsPlain(p, j)
      <3>1. j <= N BY <1>2, <2>1, <2>3
      <3>2. e \in Nat BY <1>1, <1>8 DEF Ends
      <3>3. QED BY <1>4, <2>1, <2>2, <3>1, <3>2
    <2>4. CASE ~IsPlain(p, j)
      <3>1. PICK k \in p + 1..j - 1, n \in p + 1..j - 1 :
              k <= n /\ IsPlain(p, k) /\ AllIn({" "}, k, n) /\ Slice(n, j) \in Units
        BY <1>9, <2>4 DEF IsNumber
      <3>2. At(j) \notin Stops BY <1>9, <2>4 DEF IsNumber, Stops
      <3>3. /\ k \in Nat /\ n \in Nat /\ k \in Places /\ n \in Places
            /\ n \in p + 1..Len(input) + 1 /\ j \in n..Len(input) + 1 /\ p < k
        <4>1. k \in p + 1..j - 1 /\ n \in p + 1..j - 1 /\ k <= n BY <3>1
        <4>2. j <= Len(input) + 1 BY <1>1
        <4>3. k \in Nat /\ n \in Nat /\ p < k /\ p < n /\ k < j /\ n < j BY <1>1, <2>1, <4>1
        <4>4. k >= 1 /\ n >= 1 /\ n >= p + 1 /\ k <= Len(input) + 1 /\ n <= Len(input) + 1 /\ n <= j
          BY <1>1, <2>1, <4>2, <4>3
        <4>5. QED BY <1>1, <2>1, <4>1, <4>2, <4>3, <4>4 DEF Places
      <3>4. n < j /\ AllIn({"s", "m"}, n, j) BY <3>1, <3>3, UnitChars
      <3>5. n \in n..j - 1 BY <2>1, <3>3, <3>4
      <3>6. At(n) \in {"s", "m"} BY <3>4, <3>5 DEF AllIn
      <3>7. k = N
        <4>1. k <= N BY <1>2, <3>1, <3>3
        <4> SUFFICES ASSUME k < N PROVE FALSE BY <1>4, <3>3, <4>1
        <4>2. k \in p..N - 1 BY <1>1, <1>4, <3>3
        <4>3. At(k) \notin {" ", "s", "m"} BY <1>2, <4>2 DEF Solid
        <4>4. CASE k = n BY <3>6, <4>3, <4>4
        <4>5. CASE k # n
          <5>1. k <= n /\ k \in Nat /\ n \in Nat BY <3>1, <3>3
          <5>2. k \in k..n - 1 BY <4>5, <5>1
          <5>3. QED BY <3>1, <4>3, <5>2 DEF AllIn
        <4>6. QED BY <4>4, <4>5
      <3>8. from = n
        <4> DEFINE S == {" "}
        <4>1. "end" \notin S /\ At(n) \notin S BY <3>6
        <4>2. n \in N..Len(input) + 1
          <5>1. N <= n BY <3>1, <3>7
          <5>2. n \in p + 1..Len(input) + 1 /\ n \in Nat BY <3>3
          <5>3. QED BY <1>1, <1>4, <5>1, <5>2
        <4>3. \A i \in N..n - 1 : At(i) \in S BY <3>1, <3>7 DEF AllIn
        <4> HIDE DEF S
        <4>4. After(S, N) = n BY <1>4, <4>1, <4>2, <4>3, AfterThat
        <4>5. QED BY <4>4 DEF S, from
      <3>9. to = j
        <4> DEFINE S == Lower
        <4>1. "end" \notin S /\ At(j) \notin S BY <3>2, Classes DEF Stops, WordChars, Letters
        <4>2. \A i \in n..j - 1 : At(i) \in S BY <3>4 DEF AllIn, Lower
        <4> HIDE DEF S
        <4>3. After(S, n) = j BY <3>3, <4>1, <4>2, AfterThat
        <4>4. QED BY <3>8, <4>3 DEF S, to
      <3>10. e = j BY <1>3, <3>1, <3>2, <3>8, <3>9
      <3>11. QED BY <2>1, <3>10
    <2>5. QED BY <2>3, <2>4
  <1>10. QED
    <2> DEFINE J == {j \in p + 1..Len(input) + 1 : IsNumber(p, j)}
    <2>1. e \in J /\ \A y \in J : y <= e BY <1>8, <1>9 DEF Ends
    <2>2. J \subseteq Nat BY <1>1
    <2> HIDE DEF J
    <2>3. Max(J) = e BY <2>1, <2>2, MaxIsThat
    <2>4. QED BY <1>8, <2>3 DEF J, e

-----------------------------------------------------------------------------
(* The text stays, and what is said of its places stays with it.            *)

LEMMA CharsStay ==
  ASSUME input' = input
  PROVE  /\ \A i : At(i)' = At(i)
         /\ \A i, j : Slice(i, j)' = Slice(i, j)
PROOF BY DEF At, Slice

LEMMA PlacesStay ==
  ASSUME input' = input
  PROVE  /\ \A S, i : After(S, i)' = After(S, i)
         /\ \A pattern, i : Find(pattern, i)' = Find(pattern, i)
PROOF
  <1>1. ASSUME NEW S, NEW i PROVE After(S, i)' = After(S, i)
    <2> DEFINE T == {j \in i..Len(input) + 1 : At(j) \notin S}
    <2>1. T' = T BY CharsStay
    <2>2. After(S, i) = Min(T) /\ After(S, i)' = Min(T') BY DEF After
    <2> HIDE DEF T
    <2>3. QED BY <2>1, <2>2
  <1>2. ASSUME NEW pattern, NEW i PROVE Find(pattern, i)' = Find(pattern, i)
    <2> DEFINE T == {j \in i..Len(input) - Len(pattern) + 1 : Slice(j, j + Len(pattern)) = pattern}
    <2>1. T' = T BY CharsStay
    <2>2. /\ Find(pattern, i) = Min(T \cup {Len(input) + 1})
          /\ Find(pattern, i)' = Min(T' \cup {Len(input') + 1})
      BY DEF Find
    <2> HIDE DEF T
    <2>3. QED BY <2>1, <2>2
  <1>3. QED BY <1>1, <1>2

LEMMA NumbersStay ==
  ASSUME input' = input
  PROVE  \A i, j : IsNumber(i, j)' <=> IsNumber(i, j)
PROOF
  <1>1. \A S, i, j : AllIn(S, i, j)' <=> AllIn(S, i, j) BY CharsStay DEF AllIn
  <1>2. \A i, j, S, marker : IsNumeral(i, j, S, marker)' <=> IsNumeral(i, j, S, marker)
    BY <1>1, CharsStay DEF IsNumeral
  <1>3. \A i, j : IsPlain(i, j)' <=> IsPlain(i, j) BY <1>2, CharsStay DEF IsPlain
  <1>4. QED BY <1>1, <1>3, CharsStay DEF IsNumber

LEMMA EndsStay ==
  ASSUME input' = input
  PROVE  \A t, before : Closes(t, before)' <=> Closes(t, before)
PROOF
  <1>1. \A p : Brackets(p)' = Brackets(p)
    <2>1. \A p : DelimiterEnd(p)' = DelimiterEnd(p) BY PlacesStay DEF DelimiterEnd
    <2>2. \A p : Slice(p + 1, DelimiterEnd(p))' = Slice(p + 1, DelimiterEnd(p)) BY <2>1, CharsStay
    <2>3. QED BY <2>2 DEF Brackets
  <1>2. \A open, close, t : EndsAtFirst(open, close, t)' <=> EndsAtFirst(open, close, t)
    BY CharsStay, PlacesStay DEF EndsAtFirst
  <1>3. \A p : Miscounts(p)' <=> Miscounts(p)
    <2>1. \A p : OpensTriple(p)' <=> OpensTriple(p) BY CharsStay DEF OpensTriple
    <2>2. \A p : HasEscape(p)' <=> HasEscape(p) BY CharsStay, PlacesStay DEF HasEscape
    <2>3. QED BY <2>1, <2>2, CharsStay, PlacesStay DEF Miscounts
  <1>4. QED BY <1>1, <1>2, <1>3, CharsStay, PlacesStay DEF Closes

-----------------------------------------------------------------------------
(* The inductive invariant, and what an action adds to the tokens.          *)

TokenRecords == [type : Types, start : Nat, stop : Nat, line : Nat, column : Nat]

(* One token behind the other, all of them behind the reader.               *)
Chain ==
  \A k \in 1..Len(tokens) :
    /\ tokens[k].start < tokens[k].stop \/ tokens[k].type = "EOF"
    /\ tokens[k].stop <= (IF k < Len(tokens) THEN tokens[k + 1].start ELSE position)

Coordinates ==
  /\ position \in Places
  /\ line \in Nat \ {0}
  /\ column \in Nat \ {0}

LexInv ==
  /\ Text
  /\ Coordinates
  /\ lexing \in {"on", "done", "failed"}
  /\ tokens \in Seq(TokenRecords)
  /\ Chain

Before == IF tokens = <<>> THEN "none" ELSE Last(tokens).type

NewToken(type, to) ==
  [type |-> type, start |-> position, stop |-> to, line |-> line, column |-> column]

(* What may be pushed.                                                      *)
Sound(type, to) ==
  /\ type \in Types
  /\ to \in position..Len(input) + 1
  /\ position < to \/ type = "EOF"
  /\ type = "NUMBER" =>
       to = Max({j \in position + 1..Len(input) + 1 : IsNumber(position, j)})
  /\ Closes(NewToken(type, to), Before)

Pushes ==
  \E type, to : /\ Sound(type, to)
                /\ tokens' = Append(tokens, NewToken(type, to))
                /\ position' = to

LEMMA NewLinesIn ==
  ASSUME Text, NEW i \in Places, NEW j \in Places
  PROVE  /\ Cardinality(NewLines(i, j)) \in Nat
         /\ NewLines(i, j) # {} =>
              /\ Max(NewLines(i, j)) \in i..j - 1
              /\ Max(NewLines(i, j)) \in 1..Len(input)
PROOF
  <1> DEFINE S == NewLines(i, j)
  <1>1. i \in Nat \ {0} /\ j \in Nat /\ Len(input) \in Nat /\ j <= Len(input) + 1
    BY DEF Text, Places
  <1>2. S \subseteq 1..j /\ S \subseteq Nat /\ \A k \in S : k \in i..j - 1 BY <1>1 DEF NewLines
  <1> HIDE DEF S
  <1>3. IsFiniteSet(1..j) BY <1>1, PlacesFinite
  <1>4. IsFiniteSet(S) BY <1>2, <1>3, FS_Subset
  <1>5. Cardinality(S) \in Nat BY <1>4, FS_CardinalityType
  <1>6. S # {} => Max(S) \in S BY <1>2, <1>4, MaxIsLargest
  <1>7. S # {} => Max(S) \in i..j - 1 BY <1>2, <1>6
  <1>8. \A k \in i..j - 1 : k \in 1..Len(input) BY <1>1
  <1>9. QED BY <1>5, <1>7, <1>8 DEF S

(* Cross, to the place behind a token.                                      *)
Crosses(to, first) ==
  LET counted == NewLines(position, to)
  IN /\ position' = to
     /\ line' = line + Cardinality(counted)
     /\ column' = IF counted = {} THEN column + (to - position)
                                  ELSE first + (to - Max(counted))

LEMMA AdvanceOk ==
  ASSUME Text, Coordinates, NEW to, Ends(position, to), NEW first \in {0, 1}, input' = input,
         Crosses(to, first)
  PROVE  Coordinates'
PROOF
  <1> DEFINE S == NewLines(position, to)
             m == Max(S)
  <1>1. /\ position \in Nat \ {0} /\ Len(input) \in Nat /\ to \in Nat /\ position < to
        /\ to \in Places /\ position \in Places /\ line \in Nat \ {0} /\ column \in Nat \ {0}
    BY DEF Text, Places, Coordinates, Ends
  <1>2. Cardinality(S) \in Nat /\ (S # {} => m \in position..to - 1)
    BY <1>1, NewLinesIn
  <1>3. /\ position' = to
        /\ line' = line + Cardinality(S)
        /\ column' = IF S = {} THEN column + (to - position) ELSE first + (to - m)
    BY DEF Crosses
  <1> HIDE DEF S, m
  <1>4. line' \in Nat \ {0} BY <1>1, <1>2, <1>3
  <1>5. CASE S = {} BY <1>1, <1>3, <1>4, <1>5 DEF Coordinates, Places
  <1>6. CASE S # {} BY <1>1, <1>2, <1>3, <1>4, <1>6 DEF Coordinates, Places
  <1>7. QED BY <1>5, <1>6

LEMMA PushOk ==
  ASSUME LexInv, Pushes, Coordinates', input' = input,
         lexing' \in {"on", "done", "failed"}
  PROVE  LexInv'
PROOF
  <1> USE DEF LexInv
  <1>1. PICK type, to : /\ Sound(type, to)
                        /\ tokens' = Append(tokens, NewToken(type, to))
                        /\ position' = to
    BY DEF Pushes
  <1> DEFINE t == NewToken(type, to)
             n == Len(tokens)
  <1>2. position \in Nat /\ to \in Nat /\ position <= to /\ type \in Types
    BY <1>1 DEF Sound, Coordinates, Places, Text
  <1>3. /\ t \in TokenRecords /\ t.type = type /\ t.start = position /\ t.stop = to
    BY <1>2 DEF NewToken, TokenRecords, Coordinates
  <1>4. /\ n \in Nat /\ tokens' \in Seq(TokenRecords) /\ Len(tokens') = n + 1
        /\ tokens'[n + 1] = t
        /\ \A k \in 1..n : tokens'[k] = tokens[k]
    BY <1>1, <1>3
  <1>5. t.start < t.stop \/ t.type = "EOF" BY <1>1, <1>3 DEF Sound
  <1> HIDE DEF t, n
  <1>6. ASSUME NEW k \in 1..n + 1
        PROVE  /\ tokens'[k].start < tokens'[k].stop \/ tokens'[k].type = "EOF"
               /\ tokens'[k].stop <= (IF k < n + 1 THEN tokens'[k + 1].start ELSE position')
    <2>1. CASE k = n + 1
      <3>1. ~(k < n + 1) BY <1>4, <2>1
      <3>2. tokens'[k].stop <= position' BY <1>1, <1>2, <1>3, <1>4, <2>1
      <3>3. QED BY <1>4, <1>5, <2>1, <3>1, <3>2
    <2>2. CASE k # n + 1
      <3>1. k \in 1..n /\ k < n + 1 BY <1>4, <2>2
      <3>2. /\ tokens[k].start < tokens[k].stop \/ tokens[k].type = "EOF"
            /\ tokens[k].stop <= (IF k < n THEN tokens[k + 1].start ELSE position)
        BY <3>1 DEF Chain, n
      <3>3. CASE k < n
        <4>1. k + 1 \in 1..n BY <1>4, <3>1, <3>3
        <4>2. QED BY <1>4, <3>1, <3>2, <3>3, <4>1
      <3>4. CASE ~(k < n)
        <4>1. k = n BY <1>4, <3>1, <3>4
        <4>2. QED BY <1>3, <1>4, <3>1, <3>2, <3>4, <4>1
      <3>5. QED BY <3>3, <3>4
    <2>3. QED BY <2>1, <2>2
  <1>7. Chain' BY <1>4, <1>6 DEF Chain
  <1>8. Text' BY DEF Text
  <1>9. QED BY <1>4, <1>7, <1>8

Kept == LexInv' /\ input' = input /\ (tokens' = tokens \/ Pushes)

LEMMA TokenKept ==
  ASSUME LexInv, NEW type, NEW to, Ends(position, to), Sound(type, to), Token(type, to)
  PROVE  Kept
PROOF
  <1>1. /\ input' = input /\ lexing' = lexing
        /\ tokens' = Append(tokens, NewToken(type, to))
    BY DEF Token, Push, NewToken
  <1>2. Crosses(to, 1) BY DEF Token, Advance, Cross, Crosses
  <1>3. Text /\ Coordinates /\ lexing \in {"on", "done", "failed"} BY DEF LexInv
  <1>4. Coordinates' BY <1>1, <1>2, <1>3, AdvanceOk
  <1>5. position' = to BY <1>2 DEF Crosses
  <1>6. Pushes BY <1>1, <1>5 DEF Pushes
  <1>7. LexInv' BY <1>1, <1>3, <1>4, <1>6, PushOk
  <1>8. QED BY <1>1, <1>6, <1>7 DEF Kept

(* Without a token the reader goes on.                                      *)
LEMMA SkipKept ==
  ASSUME LexInv, NEW to, Ends(position, to), NEW first \in {0, 1}, Crosses(to, first),
         UNCHANGED <<input, tokens, lexing>>
  PROVE  Kept
PROOF
  <1>1. /\ Text /\ Coordinates /\ lexing \in {"on", "done", "failed"}
        /\ tokens \in Seq(TokenRecords) /\ Chain
    BY DEF LexInv
  <1>2. input' = input /\ tokens' = tokens /\ lexing' = lexing OBVIOUS
  <1>3. Coordinates' BY <1>1, <1>2, AdvanceOk
  <1>4. position \in Nat /\ position' \in Nat /\ position <= position' /\ Len(tokens) \in Nat
    BY <1>1 DEF Crosses, Ends, Coordinates, Places, Text
  <1>5. Chain'
    <2> SUFFICES ASSUME NEW k \in 1..Len(tokens)
                 PROVE  /\ tokens[k].start < tokens[k].stop \/ tokens[k].type = "EOF"
                        /\ tokens[k].stop <= (IF k < Len(tokens) THEN tokens[k + 1].start
                                                                 ELSE position')
      BY <1>2 DEF Chain
    <2>1. /\ tokens[k].start < tokens[k].stop \/ tokens[k].type = "EOF"
          /\ tokens[k].stop <= (IF k < Len(tokens) THEN tokens[k + 1].start ELSE position)
      BY <1>1 DEF Chain
    <2>2. tokens[k] \in TokenRecords BY <1>1
    <2>3. tokens[k].stop \in Nat BY <2>2 DEF TokenRecords
    <2>4. QED BY <1>4, <2>1, <2>3
  <1>6. Text' BY <1>1, <1>2 DEF Text
  <1>7. LexInv' BY <1>1, <1>2, <1>3, <1>5, <1>6 DEF LexInv
  <1>8. QED BY <1>2, <1>7 DEF Kept

LEMMA Reads ==
  ASSUME LexInv, NEW S, "end" \notin S, Begins(S)
  PROVE  Text /\ Here(position) /\ At(position) \in S /\ At(position) # "end"
PROOF
  <1>1. Text /\ At(position) \in S BY DEF LexInv, Begins
  <1>2. At(position) # "end" BY <1>1
  <1>3. position \in 1..Len(input) BY <1>1, <1>2, Inside
  <1>4. QED BY <1>1, <1>2, <1>3 DEF Here

(* Tokens that are neither literals nor comments nor numbers.               *)
LEMMA OtherSound ==
  ASSUME LexInv, NEW type \in Types \ {"COMMENT", "STRING", "NUMBER", "EOF"}, NEW to,
         Ends(position, to)
  PROVE  Sound(type, to)
PROOF
  <1>1. to \in position..Len(input) + 1 /\ position < to
    BY DEF LexInv, Text, Coordinates, Places, Ends
  <1>2. NewToken(type, to).type = type BY DEF NewToken
  <1>3. Closes(NewToken(type, to), Before) BY <1>2 DEF Closes
  <1>4. QED BY <1>1, <1>3 DEF Sound

(* Literals, once their end is known.                                       *)
LEMMA LiteralSound ==
  ASSUME LexInv, NEW type \in {"COMMENT", "STRING"}, NEW to, Ends(position, to),
         Closes(NewToken(type, to), Before)
  PROVE  Sound(type, to)
PROOF
  <1>1. to \in position..Len(input) + 1 /\ position < to
    BY DEF LexInv, Text, Coordinates, Places, Ends
  <1>2. type \in Types /\ type # "NUMBER" BY DEF Types
  <1>3. QED BY <1>1, <1>2 DEF Sound

LEMMA BracketsClose ==
  ASSUME NEW type \in {"COMMENT", "STRING"}, NEW to, NEW open, NEW close,
         type = "COMMENT" => Slice(position, position + 2) = <<"/", "*">>,
         <<open, close>> \in Brackets(position),
         position + Len(open) <= Len(input) + 1,
         Slice(position, position + Len(open)) = open,
         IF Find(close, position + Len(open)) <= Len(input)
           THEN to = Find(close, position + Len(open)) + Len(close)
           ELSE to >= Len(input)
  PROVE  Closes(NewToken(type, to), Before)
PROOF
  <1> DEFINE t == NewToken(type, to)
             b == <<open, close>>
  <1>1. t.type = type /\ t.start = position /\ t.stop = to BY DEF NewToken
  <1>2. b[1] = open /\ b[2] = close /\ b \in Brackets(position) OBVIOUS
  <1> HIDE DEF t, b
  <1>3. EndsAtFirst(open, close, t) BY <1>1 DEF EndsAtFirst
  <1>4. \E c \in Brackets(t.start) : EndsAtFirst(c[1], c[2], t) BY <1>1, <1>2, <1>3
  <1>5. ~(t.type = "COMMENT" /\ Slice(t.start, t.start + 2) # <<"/", "*">>) BY <1>1
  <1>6. QED BY <1>4, <1>5 DEF Closes, t

-----------------------------------------------------------------------------
(* One lemma per branch of tokenize.                                        *)

LEMMA KeptByWhitespace ==
  ASSUME LexInv, Whitespace
  PROVE  Kept
PROOF
  <1> DEFINE to == After(Blanks, position)
  <1>1. "end" \notin Blanks /\ Begins(Blanks) BY Classes DEF Whitespace
  <1>2. Text /\ Here(position) /\ At(position) \in Blanks BY <1>1, Reads
  <1>3. Ends(position, to) BY <1>1, <1>2, RunEnds
  <1>4. Crosses(to, 0) /\ UNCHANGED <<input, tokens, lexing>> BY DEF Whitespace, Cross, Crosses
  <1> HIDE DEF to
  <1>5. QED BY <1>3, <1>4, SkipKept

LEMMA KeptByLineComment ==
  ASSUME LexInv, LineComment
  PROVE  Kept
PROOF
  <1> DEFINE S  == {"#", "/"}
             to == LineCommentEnd(position)
             t  == NewToken("COMMENT", to)
  <1>1. "end" \notin S /\ Begins(S) BY DEF LineComment
  <1>2. OpensLineComment /\ Token("COMMENT", to) BY DEF LineComment
  <1> HIDE DEF S
  <1>3. Text /\ Here(position) /\ At(position) \in S BY <1>1, Reads
  <1>4. At(position) # "nl" BY <1>3 DEF S
  <1>5. Ends(position, to) /\ to = Find(<<"nl">>, position) BY <1>3, <1>4, LineCommentEnds
  <1>6. Slice(position, position + 2) # <<"/", "*">>
    <2> DEFINE c == "/"
               d == "*"
    <2>1. ~(At(position) = c /\ At(position + 1) = d) BY <1>2 DEF OpensLineComment
    <2> HIDE DEF c, d
    <2>2. Slice(position, position + 2) # <<c, d>> BY <1>3, <2>1, TwoChars
    <2>3. QED BY <2>2 DEF c, d
  <1>7. t.type = "COMMENT" /\ t.start = position /\ t.stop = to BY DEF NewToken
  <1> HIDE DEF to, t
  <1>8. Closes(t, Before) BY <1>5, <1>6, <1>7 DEF Closes
  <1>9. Sound("COMMENT", to)
    <2> DEFINE type == "COMMENT"
    <2>1. type \in {"COMMENT", "STRING"} /\ t = NewToken(type, to) BY DEF t
    <2> HIDE DEF type
    <2>2. Sound(type, to) BY <1>5, <1>8, <2>1, LiteralSound
    <2>3. QED BY <2>2 DEF type
  <1>10. QED BY <1>2, <1>5, <1>9, TokenKept DEF to

LEMMA KeptByBlockComment ==
  ASSUME LexInv, BlockComment
  PROVE  Kept
PROOF
  <1> DEFINE S     == {"/"}
             to    == BlockCommentEnd(position)
             type  == "COMMENT"
             open  == <<"/", "*">>
             close == <<"*", "/">>
  <1>1. "end" \notin S /\ Begins(S) BY DEF BlockComment
  <1>2. OpensBlockComment /\ Token(type, to) BY DEF BlockComment
  <1> HIDE DEF S
  <1>3. Text /\ Here(position) BY <1>1, Reads
  <1>4. At(position) = "/" /\ At(position + 1) = "*" BY <1>2 DEF OpensBlockComment
  <1>5. /\ Ends(position, to) /\ Slice(position, position + 2) = open
        /\ position + 2 <= Len(input) + 1
        /\ IF Find(close, position + 2) <= Len(input) THEN to = Find(close, position + 2) + 2
                                                      ELSE to >= Len(input)
    BY <1>3, <1>4, BlockCommentEnds
  <1>6. Len(open) = 2 /\ Len(close) = 2 /\ <<open, close>> \in Brackets(position)
    BY DEF Brackets
  <1>7. type \in {"COMMENT", "STRING"} OBVIOUS
  <1>8. type = "COMMENT" => Slice(position, position + 2) = <<"/", "*">> BY <1>5
  <1> HIDE DEF to, type, open, close
  <1>9. Closes(NewToken(type, to), Before) BY <1>5, <1>6, <1>7, <1>8, BracketsClose
  <1>10. Sound(type, to) BY <1>5, <1>7, <1>9, LiteralSound
  <1>11. QED BY <1>2, <1>5, <1>10, TokenKept

LEMMA KeptByTripleString ==
  ASSUME LexInv, TripleString
  PROVE  Kept
PROOF
  <1> DEFINE to   == TripleStringEnd(position)
             type == "STRING"
             c    == At(position)
             q    == <<At(position), At(position), At(position)>>
  <1>1. "end" \notin Quotes /\ Begins(Quotes) BY Classes DEF TripleString
  <1>2. OpensTriple(position) /\ Token(type, to) BY DEF TripleString
  <1>3. Text /\ Here(position) /\ c \in Quotes BY <1>1, Reads
  <1>4. /\ Ends(position, to) /\ Slice(position, position + 3) = q
        /\ position + 3 <= Len(input) + 1
        /\ IF Find(q, position + 3) <= Len(input) THEN to = Find(q, position + 3) + 3
                                                  ELSE to >= Len(input)
    BY <1>2, <1>3, TripleStringEnds
  <1>5. Len(q) = 3 /\ <<q, q>> \in Brackets(position) BY <1>3 DEF Brackets
  <1>6. type \in {"COMMENT", "STRING"} /\ type # "COMMENT" OBVIOUS
  <1> HIDE DEF to, type, q
  <1>7. Closes(NewToken(type, to), Before) BY <1>4, <1>5, <1>6, BracketsClose
  <1>8. Sound(type, to) BY <1>4, <1>6, <1>7, LiteralSound
  <1>9. QED BY <1>2, <1>4, <1>8, TokenKept

LEMMA KeptByLongString ==
  ASSUME LexInv, LongString
  PROVE  Kept
PROOF
  <1> DEFINE S     == {"{"}
             to    == LongStringEnd(position)
             type  == "STRING"
             open  == Opening(position)
             close == Closing(position)
  <1>1. "end" \notin S /\ Begins(S) BY DEF LongString
  <1>2. OpensLong(position) /\ Token(type, to) BY DEF LongString
  <1> HIDE DEF S
  <1>3. Text /\ Here(position) BY <1>1, Reads
  <1>4. /\ Ends(position, to) /\ position + Len(open) <= Len(input) + 1
        /\ Slice(position, position + Len(open)) = open
        /\ IF Find(close, position + Len(open)) <= Len(input)
             THEN to = Find(close, position + Len(open)) + Len(close)
             ELSE to >= Len(input)
    BY <1>2, <1>3, LongStringEnds
  <1>5. <<open, close>> \in Brackets(position) BY DEF Brackets, Opening, Closing, Between
  <1>6. type \in {"COMMENT", "STRING"} /\ type # "COMMENT" OBVIOUS
  <1> HIDE DEF to, type, open, close
  <1>7. Closes(NewToken(type, to), Before) BY <1>4, <1>5, <1>6, BracketsClose
  <1>8. Sound(type, to) BY <1>4, <1>6, <1>7, LiteralSound
  <1>9. QED BY <1>2, <1>4, <1>8, TokenKept

LEMMA KeptBySyntheticBlock ==
  ASSUME LexInv, SyntheticBlock
  PROVE  Kept
PROOF
  <1> DEFINE S    == {"{"}
             to   == BlockEnd(position)
             type == "STRING"
             t    == NewToken(type, to)
  <1>1. "end" \notin S /\ Begins(S) BY DEF SyntheticBlock
  <1>2. AfterSynthetic /\ Token(type, to) BY DEF SyntheticBlock
  <1> HIDE DEF S
  <1>3. Text /\ Here(position) /\ At(position) \in S BY <1>1, Reads
  <1>4. Ends(position, to) BY <1>3, BlockEnds
  <1>5. t.type = "STRING" /\ t.start = position BY DEF NewToken
  <1>6. type \in {"COMMENT", "STRING"} OBVIOUS
  <1>7. Before = "KEYWORD" /\ At(position) = "{" BY <1>2, <1>3 DEF AfterSynthetic, Before, S
  <1> HIDE DEF to, t
  <1>8. Closes(t, Before) BY <1>5, <1>7 DEF Closes
  <1> HIDE DEF type
  <1>9. Sound(type, to) BY <1>4, <1>6, <1>8, LiteralSound DEF t
  <1>10. QED BY <1>2, <1>4, <1>9, TokenKept

LEMMA KeptByShortString ==
  ASSUME LexInv, ShortString
  PROVE  Kept
PROOF
  <1> DEFINE to   == ShortStringEnd(position)
             f    == Quote(position)
             S    == NewLines(position + 1, f)
             m    == Max(S)
             type == "STRING"
             q    == <<At(position)>>
  <1>1. "end" \notin Quotes /\ Begins(Quotes) BY Classes DEF ShortString
  <1>2. Text /\ Here(position) /\ At(position) \in Quotes BY <1>1, Reads
  <1>3. /\ Ends(position, to) /\ f \in position + 1..Len(input) + 1
        /\ \A i \in position..Len(input) : i <= f =>
             Advances(position, i) \in Nat /\ Advances(position, i) < to - position
        /\ HasEscape(position) \/ (\A k \in position..f - 1 : At(k) # "hi") =>
             IF f <= Len(input) THEN to = f + 1 ELSE to >= Len(input)
    BY <1>2, ShortStringEnds
  <1>4. /\ position \in Nat /\ position + 1 \in Places /\ Len(input) \in Nat
        /\ position <= Len(input)
    BY <1>2, Next1
  <1>5. f = Find(q, position + 1) BY DEF Quote
  <1>6. /\ position' = to
        /\ line' = line + Cardinality(S)
        /\ column' = IF S = {} THEN column + (to - position - Advances(position, position))
                               ELSE 1 + (to - position - Advances(position, m))
        /\ input' = input /\ lexing' = lexing
        /\ tokens' = Append(tokens, NewToken(type, to))
    BY DEF ShortString, Cross, Push, NewToken, Quote
  <1>7. Cardinality(S) \in Nat /\ (S # {} => m \in position + 1..f - 1 /\ m \in 1..Len(input))
    <2> DEFINE i == position + 1
    <2>1. i \in Places /\ f \in Places BY <1>3, <1>4 DEF Places
    <2>2. S = NewLines(i, f) /\ m = Max(NewLines(i, f)) OBVIOUS
    <2> HIDE DEF i, S, m
    <2>3. /\ Cardinality(S) \in Nat
          /\ S # {} => m \in i..f - 1 /\ m \in 1..Len(input)
      BY <1>2, <2>1, <2>2, NewLinesIn
    <2>4. QED BY <2>3 DEF i
  <1>8. Slice(position, position + 1) = q BY <1>2, OneChar
  <1>9. Len(q) = 1 /\ <<q, q>> \in Brackets(position) BY <1>2 DEF Brackets
  <1>10. type \in {"COMMENT", "STRING"} /\ type # "COMMENT" OBVIOUS
  <1> HIDE DEF to, f, S, m, type, q
  <1>11. Coordinates'
    <2>1. line \in Nat \ {0} /\ column \in Nat \ {0} BY DEF LexInv, Coordinates
    <2>2. to \in Nat /\ to \in 1..Len(input) + 1 BY <1>3, <1>4 DEF Ends
    <2>3. column' \in Nat \ {0}
      <3>1. CASE S = {}
        <4>1. position \in position..Len(input) /\ position <= f BY <1>3, <1>4
        <4>2. Advances(position, position) \in Nat /\ Advances(position, position) < to - position
          BY <1>3, <4>1
        <4>3. QED BY <1>4, <1>6, <2>1, <2>2, <3>1, <4>2
      <3>2. CASE S # {}
        <4>1. m \in position..Len(input) /\ m <= f BY <1>3, <1>4, <1>7, <3>2
        <4>2. Advances(position, m) \in Nat /\ Advances(position, m) < to - position
          BY <1>3, <4>1
        <4>3. QED BY <1>4, <1>6, <2>2, <3>2, <4>2
      <3>3. QED BY <3>1, <3>2
    <2>4. line' \in Nat \ {0} BY <1>6, <1>7, <2>1
    <2>5. QED BY <1>6, <2>2, <2>3, <2>4 DEF Coordinates, Places
  <1>12. Sound(type, to)
    <2>1. ASSUME ~Miscounts(position) PROVE Closes(NewToken(type, to), Before)
      <3>1. HasEscape(position) \/ \A k \in position..f - 1 : At(k) # "hi"
        <4>1. ~OpensTriple(position) BY DEF ShortString
        <4>2. HasEscape(position) \/ \A k \in position + 1..f - 1 : At(k) # "hi"
          BY <1>2, <1>5, <2>1, <4>1 DEF Miscounts, q
        <4>3. At(position) # "hi" BY <1>2 DEF Quotes
        <4>4. f \in Nat /\ \A k \in position..f - 1 : k = position \/ k \in position + 1..f - 1
          BY <1>3, <1>4
        <4>5. QED BY <4>2, <4>3, <4>4
      <3>2. IF f <= Len(input) THEN to = f + 1 ELSE to >= Len(input) BY <1>3, <3>1
      <3>3. position + 1 <= Len(input) + 1 BY <1>4
      <3>4. IF Find(q, position + 1) <= Len(input) THEN to = Find(q, position + 1) + 1
                                                   ELSE to >= Len(input)
        BY <1>5, <3>2
      <3>5. QED BY <1>8, <1>9, <1>10, <3>3, <3>4, BracketsClose
    <2>2. ASSUME Miscounts(position) PROVE Closes(NewToken(type, to), Before)
      <3>1. NewToken(type, to).type = type /\ NewToken(type, to).start = position BY DEF NewToken
      <3>2. QED BY <1>10, <2>2, <3>1 DEF Closes
    <2>3. QED BY <1>3, <1>10, <2>1, <2>2, LiteralSound
  <1>13. Pushes BY <1>6, <1>12 DEF Pushes
  <1>14. lexing' \in {"on", "done", "failed"} BY <1>6 DEF LexInv
  <1>15. LexInv' BY <1>6, <1>11, <1>13, <1>14, PushOk
  <1>16. QED BY <1>6, <1>13, <1>15 DEF Kept

LEMMA KeptByNumber ==
  ASSUME LexInv, Number
  PROVE  Kept
PROOF
  <1> DEFINE to   == NumberEnd(position)
             type == "NUMBER"
  <1>1. "end" \notin Digits /\ Begins(Digits) BY Classes DEF Number
  <1>2. ~HasNoDigits(position) /\ Token(type, to) BY DEF Number
  <1>3. Text /\ Here(position) /\ At(position) \in Digits BY <1>1, Reads
  <1>4. /\ Ends(position, to)
        /\ to = Max({j \in position + 1..Len(input) + 1 : IsNumber(position, j)})
    BY <1>2, <1>3, NumberEnds
  <1> HIDE DEF to
  <1>5. to \in position..Len(input) + 1 /\ position < to
    BY <1>4 DEF LexInv, Text, Coordinates, Places, Ends
  <1>6. type \in Types /\ type \notin {"COMMENT", "STRING"} BY DEF Types
  <1>7. NewToken(type, to).type = type BY DEF NewToken
  <1>8. Closes(NewToken(type, to), Before) BY <1>6, <1>7 DEF Closes
  <1> HIDE DEF type
  <1>9. Sound(type, to) BY <1>4, <1>5, <1>6, <1>8 DEF Sound
  <1>10. QED BY <1>2, <1>4, <1>9, TokenKept

LEMMA KeptByMarker ==
  ASSUME LexInv, Marker
  PROVE  Kept
PROOF
  <1> DEFINE S  == {"C", "W"}
             to == position + 2
  <1>1. "end" \notin S /\ Begins(S) /\ OpensMarker /\ Skip(to) BY DEF Marker
  <1> HIDE DEF S
  <1>2. Text /\ Here(position) BY <1>1, Reads
  <1>3. position + 1 \in 1..Len(input)
    <2> DEFINE i == position + 1
    <2>1. At(i) # "end" BY <1>1 DEF OpensMarker
    <2> HIDE DEF i
    <2>2. i \in 1..Len(input) BY <1>2, <2>1, Inside
    <2>3. QED BY <2>2 DEF i
  <1>4. Ends(position, to) BY <1>2, <1>3, Next1 DEF Ends
  <1>5. Crosses(to, 1) /\ UNCHANGED <<input, tokens, lexing>>
    BY <1>1 DEF Skip, Advance, Cross, Crosses
  <1> HIDE DEF to
  <1>6. QED BY <1>4, <1>5, SkipKept

LEMMA KeptByWord ==
  ASSUME LexInv, Word
  PROVE  Kept
PROOF
  <1> DEFINE to   == IdentifierEnd(position)
             type == WordType(to)
  <1>1. "end" \notin Letters /\ Begins(Letters) BY Classes DEF Word
  <1>2. Token(type, to) BY DEF Word
  <1>3. Text /\ Here(position) BY <1>1, Reads
  <1>4. Ends(position, to) BY <1>3, IdentifierEnds
  <1>5. type \in Types \ {"COMMENT", "STRING", "NUMBER", "EOF"} BY DEF WordType, Types
  <1> HIDE DEF to, type
  <1>6. Sound(type, to) BY <1>4, <1>5, OtherSound
  <1>7. QED BY <1>2, <1>4, <1>6, TokenKept

LEMMA KeptByOperator ==
  ASSUME LexInv, Operator
  PROVE  Kept
PROOF
  <1> DEFINE to   == OperatorEnd(position)
             type == "OPERATOR"
  <1>1. "end" \notin OperatorChars /\ Begins(OperatorChars) BY Classes DEF Operator
  <1>2. Token(type, to) BY DEF Operator
  <1>3. Text /\ Here(position) /\ At(position) \in OperatorChars BY <1>1, Reads
  <1>4. Ends(position, to) BY <1>1, <1>3, RunEnds DEF OperatorEnd
  <1>5. type \in Types \ {"COMMENT", "STRING", "NUMBER", "EOF"} BY DEF Types
  <1> HIDE DEF to, type
  <1>6. Sound(type, to) BY <1>4, <1>5, OtherSound
  <1>7. QED BY <1>2, <1>4, <1>6, TokenKept

(* A mark or a dot is a token of its own.                                   *)
LEMMA KeptByMark ==
  ASSUME LexInv, NEW S, "end" \notin S, Begins(S), Token("PUNCTUATION", position + 1)
  PROVE  Kept
PROOF
  <1> DEFINE to   == position + 1
             type == "PUNCTUATION"
  <1>1. Token(type, to) OBVIOUS
  <1>2. Text /\ Here(position) BY Reads
  <1>3. Ends(position, to) BY <1>2, Next1 DEF Ends
  <1>4. type \in Types \ {"COMMENT", "STRING", "NUMBER", "EOF"} BY DEF Types
  <1> HIDE DEF to, type
  <1>5. Sound(type, to) BY <1>3, <1>4, OtherSound
  <1>6. QED BY <1>1, <1>3, <1>5, TokenKept

LEMMA KeptByUnknown ==
  ASSUME LexInv, Unknown
  PROVE  Kept
PROOF
  <1> DEFINE to == position + 1
  <1>1. Skip(to) /\ position <= Len(input) BY DEF Unknown
  <1>2. Ends(position, to)
    BY <1>1 DEF LexInv, Text, Coordinates, Places, Ends
  <1>3. Crosses(to, 1) /\ UNCHANGED <<input, tokens, lexing>>
    BY <1>1 DEF Skip, Advance, Cross, Crosses
  <1> HIDE DEF to
  <1>4. QED BY <1>2, <1>3, SkipKept

LEMMA KeptByEof ==
  ASSUME LexInv, Eof
  PROVE  Kept
PROOF
  <1> DEFINE type == "EOF"
  <1>1. /\ input' = input /\ position' = position /\ line' = line /\ column' = column
        /\ lexing' = "done" /\ tokens' = Append(tokens, NewToken(type, position))
    BY DEF Eof, Push, NewToken
  <1>2. position \in position..Len(input) + 1 BY DEF LexInv, Text, Coordinates, Places
  <1>3. type \in Types /\ type \notin {"COMMENT", "STRING", "NUMBER"} BY DEF Types
  <1>4. NewToken(type, position).type = type BY DEF NewToken
  <1>5. Closes(NewToken(type, position), Before) BY <1>3, <1>4 DEF Closes
  <1>6. Sound(type, position) BY <1>2, <1>3, <1>5 DEF Sound
  <1> HIDE DEF type
  <1>7. Pushes BY <1>1, <1>6 DEF Pushes
  <1>8. Coordinates' BY <1>1 DEF LexInv, Coordinates, Places
  <1>9. LexInv' BY <1>1, <1>7, <1>8, PushOk
  <1>10. QED BY <1>1, <1>7, <1>9 DEF Kept

(* Neither reader, text nor tokens change.                                  *)
LEMMA KeptAtRest ==
  ASSUME LexInv, UNCHANGED <<input, position, line, column, tokens>>,
         lexing' \in {"on", "done", "failed"}
  PROVE  Kept
PROOF
  <1>1. LexInv' BY DEF LexInv, Text, Coordinates, Places, Chain
  <1>2. QED BY <1>1 DEF Kept

LEMMA Steps ==
  ASSUME LexInv, [LexNext]_lexVars
  PROVE  Kept
PROOF
  <1> DEFINE dot == {"."}
  <1>1. lexing \in {"on", "done", "failed"} BY DEF LexInv
  <1>2. CASE Whitespace BY <1>2, KeptByWhitespace
  <1>3. CASE LineComment BY <1>3, KeptByLineComment
  <1>4. CASE BlockComment BY <1>4, KeptByBlockComment
  <1>5. CASE TripleString BY <1>5, KeptByTripleString
  <1>6. CASE ShortString BY <1>6, KeptByShortString
  <1>7. CASE BadEscape BY <1>7, KeptAtRest DEF BadEscape, Throw
  <1>8. CASE Number BY <1>8, KeptByNumber
  <1>9. CASE BadNumber BY <1>9, KeptAtRest DEF BadNumber, Throw
  <1>10. CASE Marker BY <1>10, KeptByMarker
  <1>11. CASE Word BY <1>11, KeptByWord
  <1>12. CASE Operator BY <1>12, KeptByOperator
  <1>13. CASE LongString BY <1>13, KeptByLongString
  <1>14. CASE SyntheticBlock BY <1>14, KeptBySyntheticBlock
  <1>15. CASE Punctuation
    <2>1. "end" \notin Marks /\ Begins(Marks) BY <1>15, Classes DEF Punctuation
    <2>2. Token("PUNCTUATION", position + 1) BY <1>15 DEF Punctuation
    <2>3. QED BY <2>1, <2>2, KeptByMark
  <1>16. CASE Dot
    <2>1. "end" \notin dot /\ Begins(dot) BY <1>16 DEF Dot
    <2>2. Token("PUNCTUATION", position + 1) BY <1>16 DEF Dot
    <2> HIDE DEF dot
    <2>3. QED BY <2>1, <2>2, KeptByMark
  <1>17. CASE DotAgain BY <1>1, <1>17, KeptAtRest DEF DotAgain, lexVars
  <1>18. CASE Unknown BY <1>18, KeptByUnknown
  <1>19. CASE Eof BY <1>19, KeptByEof
  <1>20. CASE Read BY <1>1, <1>20, KeptAtRest DEF Read, lexVars
  <1>21. CASE UNCHANGED lexVars BY <1>1, <1>21, KeptAtRest DEF lexVars
  <1>22. QED
    BY <1>2, <1>3, <1>4, <1>5, <1>6, <1>7, <1>8, <1>9, <1>10, <1>11, <1>12, <1>13, <1>14,
       <1>15, <1>16, <1>17, <1>18, <1>19, <1>20, <1>21
    DEF LexNext, Lex

-----------------------------------------------------------------------------
(* What was said of the tokens is said of them with one more.               *)

NumberOk(t) ==
  t.type = "NUMBER" =>
    t.stop = Max({j \in t.start + 1..Len(input) + 1 : IsNumber(t.start, j)})

NumbersOk == \A t : (\E k \in DOMAIN tokens : tokens[k] = t) => NumberOk(t)

Preceding(s, k) == IF k = 1 THEN "none" ELSE s[k - 1].type

LiteralsOk ==
  \A t, b :
    (\E k \in DOMAIN tokens : tokens[k] = t /\ Preceding(tokens, k) = b) => Closes(t, b)

LEMMA NumberStays ==
  ASSUME input' = input, NEW t, NumberOk(t)
  PROVE  NumberOk(t)'
PROOF
  <1> DEFINE J == {j \in t.start + 1..Len(input) + 1 : IsNumber(t.start, j)}
  <1>1. J' = J BY NumbersStay
  <1>2. t.type = "NUMBER" => t.stop = Max(J) BY DEF NumberOk
  <1>3. NumberOk(t)' <=> (t.type = "NUMBER" => t.stop = Max(J')) BY DEF NumberOk
  <1> HIDE DEF J
  <1>4. QED BY <1>1, <1>2, <1>3

LEMMA Appended ==
  ASSUME LexInv, NEW type, NEW to, tokens' = Append(tokens, NewToken(type, to))
  PROVE  /\ Len(tokens) \in Nat
         /\ DOMAIN tokens = 1..Len(tokens) /\ DOMAIN tokens' = 1..Len(tokens) + 1
         /\ tokens'[Len(tokens) + 1] = NewToken(type, to)
         /\ \A k \in 1..Len(tokens) : tokens'[k] = tokens[k]
         /\ Preceding(tokens', Len(tokens) + 1) = Before
         /\ \A k \in 1..Len(tokens) : Preceding(tokens', k) = Preceding(tokens, k)
PROOF
  <1> DEFINE t == NewToken(type, to)
             n == Len(tokens)
  <1>1. tokens \in Seq(TokenRecords) BY DEF LexInv
  <1>2. n \in Nat /\ DOMAIN tokens = 1..n /\ (tokens = <<>> <=> n = 0) BY <1>1
  <1> HIDE DEF t
  <1>3. /\ DOMAIN tokens' = 1..n + 1 /\ tokens'[n + 1] = t
        /\ \A k \in 1..n : tokens'[k] = tokens[k]
    BY <1>1 DEF t
  <1>4. Preceding(tokens', n + 1) = Before
    <2>1. CASE n = 0 BY <1>2, <2>1 DEF Preceding, Before
    <2>2. CASE n # 0
      <3>1. n \in 1..n /\ n + 1 # 1 /\ n + 1 - 1 = n /\ tokens # <<>> BY <1>2, <2>2
      <3>2. Before = tokens[n].type BY <3>1 DEF Before, Last
      <3> HIDE DEF n
      <3>3. QED BY <1>3, <3>1, <3>2 DEF Preceding
    <2>3. QED BY <2>1, <2>2
  <1>5. \A k \in 1..n : k # 1 => k - 1 \in 1..n BY <1>2
  <1>6. \A k \in 1..n : Preceding(tokens', k) = Preceding(tokens, k)
    BY <1>3, <1>5 DEF Preceding
  <1>7. QED BY <1>2, <1>3, <1>4, <1>6 DEF t

LEMMA NumbersKept ==
  ASSUME LexInv, Kept, NumbersOk
  PROVE  NumbersOk'
PROOF
  <1>1. input' = input BY DEF Kept
  <1> SUFFICES ASSUME NEW t, NEW k \in DOMAIN tokens', tokens'[k] = t PROVE NumberOk(t)'
    BY DEF NumbersOk
  <1>2. NumberOk(t)
    <2>1. CASE tokens' = tokens BY <2>1 DEF NumbersOk
    <2>2. CASE Pushes
      <3>1. PICK type, to : Sound(type, to) /\ tokens' = Append(tokens, NewToken(type, to))
        BY <2>2 DEF Pushes
      <3>2. CASE k \in DOMAIN tokens
        <4>1. tokens[k] = t BY <3>1, <3>2, Appended
        <4>2. QED BY <3>2, <4>1 DEF NumbersOk
      <3>3. CASE k \notin DOMAIN tokens
        <4>1. k = Len(tokens) + 1 BY <3>1, <3>3, Appended
        <4>2. t = NewToken(type, to) BY <3>1, <4>1, Appended
        <4>3. t.type = type /\ t.start = position /\ t.stop = to BY <4>2 DEF NewToken
        <4>4. QED BY <3>1, <4>3 DEF Sound, NumberOk
      <3>4. QED BY <3>2, <3>3
    <2>3. QED BY <2>1, <2>2 DEF Kept
  <1>3. QED BY <1>1, <1>2, NumberStays

LEMMA LiteralsKept ==
  ASSUME LexInv, Kept, LiteralsOk
  PROVE  LiteralsOk'
PROOF
  <1>1. input' = input BY DEF Kept
  <1> SUFFICES ASSUME NEW t, NEW b, NEW k \in DOMAIN tokens', tokens'[k] = t,
                      Preceding(tokens', k) = b
               PROVE  Closes(t, b)'
    BY DEF LiteralsOk
  <1>2. Closes(t, b)
    <2>1. CASE tokens' = tokens BY <2>1 DEF LiteralsOk
    <2>2. CASE Pushes
      <3>1. PICK type, to : Sound(type, to) /\ tokens' = Append(tokens, NewToken(type, to))
        BY <2>2 DEF Pushes
      <3>2. CASE k \in DOMAIN tokens
        <4>1. tokens[k] = t /\ Preceding(tokens, k) = b BY <3>1, <3>2, Appended
        <4>2. QED BY <3>2, <4>1 DEF LiteralsOk
      <3>3. CASE k \notin DOMAIN tokens
        <4>1. k = Len(tokens) + 1 BY <3>1, <3>3, Appended
        <4>2. t = NewToken(type, to) /\ b = Before BY <3>1, <4>1, Appended
        <4>3. QED BY <3>1, <4>2 DEF Sound
      <3>4. QED BY <3>2, <3>3
    <2>3. QED BY <2>1, <2>2 DEF Kept
  <1>3. QED BY <1>1, <1>2, EndsStay

-----------------------------------------------------------------------------

LEMMA StartsWell == LexInit => LexInv /\ NumbersOk /\ LiteralsOk
PROOF
  <1> SUFFICES ASSUME LexInit PROVE LexInv /\ NumbersOk /\ LiteralsOk OBVIOUS
  <1>1. Text BY LexerAssumption DEF LexInit, Text
  <1>2. tokens = <<>> /\ tokens \in Seq(TokenRecords) /\ Len(tokens) = 0 /\ DOMAIN tokens = {}
    BY DEF LexInit
  <1>3. Coordinates BY <1>1 DEF LexInit, Coordinates, Places, Text
  <1>4. Chain BY <1>2 DEF Chain
  <1>5. LexInv BY <1>1, <1>2, <1>3, <1>4 DEF LexInv, LexInit
  <1>6. QED BY <1>2, <1>5 DEF NumbersOk, LiteralsOk

(* A step of tokenize keeps the invariant, what it says of numbers, and the *)
(* text.                                                                    *)
LEMMA LexerStep ==
  LexInv /\ NumbersOk /\ [LexNext]_lexVars => LexInv' /\ NumbersOk' /\ input' = input
PROOF
  <1> SUFFICES ASSUME LexInv, NumbersOk, [LexNext]_lexVars
               PROVE  LexInv' /\ NumbersOk' /\ input' = input
    OBVIOUS
  <1>1. Kept BY Steps
  <1>2. NumbersOk' BY <1>1, NumbersKept
  <1>3. QED BY <1>1, <1>2 DEF Kept

(* tokenize, on any text, never leaves it: the reader's place, line and     *)
(* column stay in range, and every token but the last is a stretch of the   *)
(* text that is not empty and lies behind the one before.                   *)
THEOREM TokenizeStaysInText == LexSpec => []LexTypeOK
PROOF
  <1>1. LexInit => LexInv /\ NumbersOk BY StartsWell
  <1>2. LexInv => LexTypeOK
    <2> SUFFICES ASSUME LexInv PROVE LexTypeOK OBVIOUS
    <2>1. /\ Coordinates /\ lexing \in {"on", "done", "failed"}
          /\ tokens \in Seq(TokenRecords) /\ Chain
      BY DEF LexInv
    <2>2. position \in 1..Len(input) + 1 /\ line \in Nat \ {0} /\ column \in Nat \ {0}
      BY <2>1 DEF Coordinates, Places
    <2>3. DOMAIN tokens = 1..Len(tokens) BY <2>1
    <2>4. \A k \in DOMAIN tokens : tokens[k] \in TokenRecords BY <2>1
    <2>5. \A k \in DOMAIN tokens : tokens[k].type \in Types BY <2>4 DEF TokenRecords
    <2>6. QED BY <2>1, <2>2, <2>3, <2>5 DEF Chain, LexTypeOK
  <1>3. QED BY <1>1, <1>2, LexerStep, PTL DEF LexSpec

(* A number token of readNumber is the longest literal at its place that is *)
(* a number of VCL, hexadecimal or decimal, with a fraction, an exponent    *)
(* and the unit that belongs to it: no digit is left over for the next      *)
(* token, whatever the text.                                                *)
THEOREM NumbersTakeAllTheyCan == LexSpec => []NumbersAreMaximal
PROOF
  <1>1. LexInit => LexInv /\ NumbersOk BY StartsWell
  <1>2. NumbersOk => NumbersAreMaximal BY DEF NumbersOk, NumberOk, NumbersAreMaximal
  <1>3. QED BY <1>1, <1>2, LexerStep, PTL DEF LexSpec

(* Strings and comments end where their delimiters say, in every text; but  *)
(* for quoted strings with a character of two units and no escape, which    *)
(* tokenizeString crosses by code points where it should count units.       *)
THEOREM LiteralsDoClose == LexSpec => []LiteralsClose
PROOF
  <1> DEFINE Inv == LexInv /\ NumbersOk /\ LiteralsOk
  <1>1. LexInit => Inv BY StartsWell
  <1>2. Inv /\ [LexNext]_lexVars => Inv'
    <2> SUFFICES ASSUME Inv, [LexNext]_lexVars PROVE Inv' OBVIOUS
    <2>1. LexInv' /\ NumbersOk' BY LexerStep
    <2>2. Kept BY Steps
    <2>3. LiteralsOk' BY <2>2, LiteralsKept
    <2>4. QED BY <2>1, <2>3
  <1>3. Inv => LiteralsClose BY DEF LiteralsOk, Preceding, LiteralsClose
  <1> HIDE DEF Inv
  <1>4. QED BY <1>1, <1>2, <1>3, PTL DEF LexSpec
=============================================================================
