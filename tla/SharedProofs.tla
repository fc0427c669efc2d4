---------------------------- MODULE SharedProofs ----------------------------
(***************************************************************************)
(* What outlives a request or is shared by several, for any number of      *)
(* them, of calls and of instants.                                         *)
(*                                                                         *)
(* Quotas: what rate counters count, penalty boxes hold and token buckets  *)
(* grant, for any counters, boxes, clients, buckets, windows and limits.   *)
(* Penalties are served in full when all additions to a box last equally   *)
(* long; a counter holds the sum of its window; no span lets through more  *)
(* than twice the largest threshold; and, when all callers of a counter    *)
(* agree on its window, a call goes over only for what came in during it.  *)
(* A bucket grants no more than its limit and what flows in, and withholds *)
(* nothing of it.                                                          *)
(*                                                                         *)
(* Backends: whom a pass asks, and what it then reports.                   *)
(*                                                                         *)
(* The default platform: it nests for any number of simulations and of     *)
(* turns, whatever platform there was before.                              *)
(*                                                                         *)
(* Each is proved of its component alone; the last section shows that they *)
(* hold of all components side by side.                                    *)
(***************************************************************************)
EXTENDS MCShared, Sums, SequenceTheorems

-----------------------------------------------------------------------------
(* Penalties.                                                               *)

Boxings == [Boxes -> [Entries -> Nat \cup {NoCounter}]]

(* The entry's penalty is over, or it sits in the box long enough.          *)
Served(table, box, entry, until) ==
  until <= now \/ (table[box][entry] \in Nat /\ until <= table[box][entry])

(* What a call that went over has made of the box, when additions last ttl. *)
Sound(table, c, ttl) ==
  c.verdict = "over" =>
    /\ c.box \in Boxes /\ c.entry \in Entries
    /\ c.until \in Nat /\ c.until <= now + ttl
    /\ Served(table, c.box, c.entry, c.until)

IInv(ttl) ==
  /\ now \in Nat
  /\ boxes \in Boxings
  /\ \E S : charges \in Seq(S)
  /\ \A i \in DOMAIN charges : Sound(boxes, charges[i], ttl)

(* Every addition of this instant lasts until the same time.                *)
Grown(table, ttl) ==
  \A b \in Boxes, e \in Entries : table[b][e] = boxes[b][e] \/ table[b][e] = now + ttl

-----------------------------------------------------------------------------

LEMMA BoxedGrows ==
  ASSUME NEW ttl \in Nat, NEW table \in Boxings, Grown(table, ttl), now \in Nat,
         NEW b \in Boxes, NEW e \in Entries
  PROVE  /\ Boxed(table, b, e, ttl) \in Boxings
         /\ Grown(Boxed(table, b, e, ttl), ttl)
         /\ Boxed(table, b, e, ttl)[b][e] = now + ttl
PROOF BY DEF Boxed, Boxings, Grown

LEMMA StaysSound ==
  ASSUME NEW ttl \in Nat, NEW table \in Boxings, Grown(table, ttl), now \in Nat,
         NEW c, Sound(boxes, c, ttl)
  PROVE  Sound(table, c, ttl)
PROOF BY DEF Sound, Served, Grown, Boxings

(* A call appends its records and fills boxes; the clock stands still.      *)
LEMMA CallIInv ==
  ASSUME NEW ttl \in Nat, IInv(ttl), UNCHANGED now,
         boxes' \in Boxings, Grown(boxes', ttl),
         NEW S, NEW more \in Seq(S), charges' = charges \o more,
         \A i \in DOMAIN more : Sound(boxes', more[i], ttl)
  PROVE  IInv(ttl)'
PROOF
  <1>1. PICK T : charges \in Seq(T) BY DEF IInv
  <1>2. charges \in Seq(S \cup T) /\ more \in Seq(S \cup T) BY <1>1
  <1>3. /\ charges' \in Seq(S \cup T)
        /\ Len(charges') = Len(charges) + Len(more)
        /\ \A i \in 1 .. Len(charges) + Len(more) : charges'[i] =
             IF i <= Len(charges) THEN charges[i] ELSE more[i - Len(charges)]
    BY <1>2, ConcatProperties
  <1>4. ASSUME NEW i \in DOMAIN charges' PROVE Sound(boxes', charges'[i], ttl)
    <2>1. Len(charges) \in Nat /\ Len(more) \in Nat /\ i \in 1 .. Len(charges) + Len(more)
      BY <1>2, <1>3, <1>4
    <2>2. CASE i <= Len(charges)
      <3>1. charges'[i] = charges[i] /\ i \in DOMAIN charges BY <1>2, <1>3, <2>1, <2>2
      <3>2. QED BY <3>1, StaysSound DEF IInv
    <2>3. CASE i > Len(charges)
      <3>1. charges'[i] = more[i - Len(charges)] /\ i - Len(charges) \in DOMAIN more
        BY <1>2, <1>3, <2>1, <2>3
      <3>2. QED BY <3>1
    <2>4. QED BY <2>1, <2>2, <2>3
  <1>5. \A i \in DOMAIN charges' : Sound(boxes, charges[i], ttl)' BY <1>4 DEF Sound, Served
  <1>6. QED BY <1>3, <1>5 DEF IInv

LEMMA EntryIsEntry ==
  ASSUME NEW client \in Clients, NEW bare \in Bare
  PROVE  EntryOf(client, bare) \in Entries
PROOF BY DEF Entries

LEMMA NoAddition == \A ttl : Grown(boxes, ttl)
PROOF BY DEF Grown

LEMMA CheckedIsSound ==
  ASSUME NEW ttl \in Nat, now \in Nat, NEW table \in Boxings,
         NEW client, NEW key, NEW w, NEW delta, NEW threshold, NEW over \in BOOLEAN,
         NEW box \in Boxes, NEW entry \in Entries,
         over => table[box][entry] = now + ttl
  PROVE  Sound(table, Checked(client, key, w, delta, threshold, over, box, entry, ttl), ttl)
PROOF BY DEF Sound, Served, Checked

LEMMA IncrementIInv ==
  ASSUME NEW ttl \in Nat, IInv(ttl), NEW client, NEW bare, NEW rc, NEW delta,
         RatecounterIncrement(client, bare, rc, delta)
  PROVE  IInv(ttl)'
PROOF
  <1> DEFINE c == Counted(client, Key(rc, EntryOf(client, bare)), delta)
  <1>1. UNCHANGED <<now, boxes>> /\ charges' = Append(charges, c)
    BY DEF RatecounterIncrement
  <1>2. Sound(boxes', c, ttl) BY DEF Sound, Counted
  <1> HIDE DEF c
  <1>3. PICK T : charges \in Seq(T) BY DEF IInv
  <1>4. charges \in Seq(T \cup {c}) /\ c \in T \cup {c} BY <1>3
  <1>5. charges' = charges \o <<c>> BY <1>1, <1>4, AppendIsConcat
  <1>6. <<c>> \in Seq({c}) /\ \A i \in DOMAIN <<c>> : Sound(boxes', <<c>>[i], ttl) BY <1>2
  <1>7. boxes' \in Boxings /\ Grown(boxes', ttl) BY <1>1, NoAddition DEF IInv
  <1>8. QED BY <1>1, <1>5, <1>6, <1>7, CallIInv

LEMMA CheckRateIInv ==
  ASSUME NEW ttl \in Nat, IInv(ttl), NEW client \in Clients, NEW bare \in Bare, NEW rc,
         NEW threshold, NEW w, NEW delta, NEW box \in Boxes,
         CheckRate(client, bare, rc, threshold, w, delta, box, ttl)
  PROVE  IInv(ttl)'
PROOF
  <1> DEFINE entry == EntryOf(client, bare)
             k == Key(rc, entry)
             over == Charged(counters[k], w, delta).count > threshold
             c == Checked(client, k, w, delta, threshold, over, box, entry, ttl)
  <1>1. /\ UNCHANGED now
        /\ boxes' = IF over THEN Boxed(boxes, box, entry, ttl) ELSE boxes
        /\ charges' = Append(charges, c)
    BY DEF CheckRate
  <1>2. over \in BOOLEAN OBVIOUS
  <1>3. entry \in Entries BY EntryIsEntry
  <1>4. now \in Nat /\ boxes \in Boxings BY DEF IInv
  <1> HIDE DEF entry, k, over
  <1>5. boxes' \in Boxings /\ Grown(boxes', ttl) /\ (over => boxes'[box][entry] = now + ttl)
    BY <1>1, <1>3, <1>4, NoAddition, BoxedGrows
  <1>6. Sound(boxes', c, ttl) BY <1>2, <1>3, <1>4, <1>5, CheckedIsSound
  <1> HIDE DEF c
  <1>7. PICK T : charges \in Seq(T) BY DEF IInv
  <1>8. charges \in Seq(T \cup {c}) /\ c \in T \cup {c} BY <1>7
  <1>9. charges' = charges \o <<c>> BY <1>1, <1>8, AppendIsConcat
  <1>10. <<c>> \in Seq({c}) /\ \A i \in DOMAIN <<c>> : Sound(boxes', <<c>>[i], ttl) BY <1>6
  <1>11. QED BY <1>1, <1>5, <1>9, <1>10, CallIInv

LEMMA CheckRatesIInv ==
  ASSUME NEW ttl \in Nat, IInv(ttl), NEW client \in Clients, NEW bare \in Bare, NEW rc,
         NEW t1, NEW w1, NEW d1, NEW box1 \in Boxes,
         NEW t2, NEW w2, NEW d2, NEW box2 \in Boxes,
         CheckRates(client, bare, rc, t1, w1, d1, box1, t2, w2, d2, box2, ttl)
  PROVE  IInv(ttl)'
PROOF
  <1> DEFINE entry == EntryOf(client, bare)
             k1 == WindowKey(rc, entry, w1)
             k2 == WindowKey(rc, entry, w2)
             c1 == Charged(counters[k1], w1, d1)
             c2 == Charged([counters EXCEPT ![k1] = c1][k2], w2, d2)
             over1 == c1.count > t1
             over2 == c2.count > t2
             boxes1 == IF over1 THEN Boxed(boxes, box1, entry, ttl) ELSE boxes
             x == Checked(client, k1, w1, d1, t1, over1, box1, entry, ttl)
             y == Checked(client, k2, w2, d2, t2, over2, box2, entry, ttl)
  <1>1. /\ UNCHANGED now
        /\ boxes' = IF over2 THEN Boxed(boxes1, box2, entry, ttl) ELSE boxes1
        /\ charges' = charges \o <<x, y>>
    BY DEF CheckRates
  <1>2. over1 \in BOOLEAN /\ over2 \in BOOLEAN OBVIOUS
  <1>3. entry \in Entries BY EntryIsEntry
  <1>4. now \in Nat /\ boxes \in Boxings BY DEF IInv
  <1> HIDE DEF entry, k1, k2, c1, c2, over1, over2
  <1>5. boxes1 \in Boxings /\ Grown(boxes1, ttl) /\ (over1 => boxes1[box1][entry] = now + ttl)
    BY <1>3, <1>4, NoAddition, BoxedGrows
  <1> HIDE DEF boxes1
  <1>6. boxes' \in Boxings /\ Grown(boxes', ttl) /\ (over2 => boxes'[box2][entry] = now + ttl)
    BY <1>1, <1>3, <1>4, <1>5, BoxedGrows
  <1>7. over1 => boxes'[box1][entry] = now + ttl
    BY <1>1, <1>3, <1>5 DEF Boxed, Boxings
  <1>8. Sound(boxes', x, ttl) /\ Sound(boxes', y, ttl)
    BY <1>2, <1>3, <1>4, <1>6, <1>7, CheckedIsSound
  <1> HIDE DEF x, y
  <1>9. <<x, y>> \in Seq({x, y}) /\ \A i \in DOMAIN <<x, y>> : Sound(boxes', <<x, y>>[i], ttl)
    BY <1>8
  <1>10. QED BY <1>1, <1>6, <1>9, CallIInv

LEMMA BoxIInv ==
  ASSUME NEW ttl \in Nat, IInv(ttl), NEW client \in Clients, NEW bare \in Bare, NEW b \in Boxes,
         PenaltyboxAdd(client, bare, b, ttl) \/ PenaltyboxHas(b, EntryOf(client, bare))
  PROVE  IInv(ttl)'
PROOF
  <1> DEFINE e == EntryOf(client, bare)
  <1>1. e \in Entries BY EntryIsEntry
  <1>2. now \in Nat /\ boxes \in Boxings /\ UNCHANGED <<now, charges>>
    BY DEF IInv, PenaltyboxAdd, PenaltyboxHas
  <1> HIDE DEF e
  <1>3. CASE PenaltyboxAdd(client, bare, b, ttl)
    <2>1. boxes' = Boxed(boxes, b, e, ttl) BY <1>3 DEF PenaltyboxAdd, e
    <2>2. boxes' \in Boxings /\ Grown(boxes', ttl) BY <1>1, <1>2, <2>1, NoAddition, BoxedGrows
    <2>3. \A i \in DOMAIN charges : Sound(boxes', charges[i], ttl)
      BY <1>2, <2>2, StaysSound DEF IInv
    <2>4. QED BY <1>2, <2>2, <2>3 DEF IInv, Sound, Served
  <1>4. CASE PenaltyboxHas(b, EntryOf(client, bare))
    <2>1. /\ boxes[b][e] # NoCounter /\ boxes[b][e] <= now
          /\ boxes' = [boxes EXCEPT ![b][e] = NoCounter]
      BY <1>4 DEF PenaltyboxHas, Freed, e
    <2>2. boxes' \in Boxings BY <1>1, <1>2, <2>1 DEF Boxings
    <2>3. \A i \in DOMAIN charges : Sound(boxes', charges[i], ttl)
      BY <1>1, <1>2, <2>1 DEF IInv, Sound, Served, Boxings
    <2>4. QED BY <1>2, <2>2, <2>3 DEF IInv, Sound, Served
  <1>5. QED BY <1>3, <1>4

LEMMA TickIInv ==
  ASSUME NEW ttl \in Nat, IInv(ttl), Tick
  PROVE  IInv(ttl)'
PROOF
  <1>1. now \in Nat /\ now' = now + 1 /\ UNCHANGED <<boxes, charges>>
    BY DEF IInv, Tick, Advance
  <1>2. ASSUME NEW c, Sound(boxes, c, ttl) PROVE Sound(boxes, c, ttl)'
    BY <1>1, <1>2 DEF Sound, Served
  <1>3. QED BY <1>1, <1>2 DEF IInv

LEMMA NextIInv ==
  ASSUME NEW ttl \in Nat, Ttls = {ttl}, IInv(ttl), [CountersNext]_counterVars
  PROVE  IInv(ttl)'
PROOF
  <1>1. CASE Tick BY <1>1, TickIInv
  <1>2. ASSUME NEW client \in Clients, NEW bare \in Bare, Request(client, bare)
        PROVE  IInv(ttl)'
    <2>1. ASSUME NEW rc \in Counters, NEW d \in Deltas, RatecounterIncrement(client, bare, rc, d)
          PROVE  IInv(ttl)'
      BY <2>1, IncrementIInv
    <2>2. ASSUME NEW rc \in Counters, NEW t \in Thresholds, NEW w \in Windows, NEW d \in Deltas,
                 NEW b \in Boxes, CheckRate(client, bare, rc, t, w, d, b, ttl)
          PROVE  IInv(ttl)'
      BY <2>2, CheckRateIInv
    <2>3. ASSUME NEW rc \in Counters, NEW p \in Pairs, NEW t1 \in Thresholds, NEW t2 \in Thresholds,
                 NEW d \in Deltas, NEW b1 \in Boxes, NEW b2 \in Boxes,
                 CheckRates(client, bare, rc, t1, p[1], d, b1, t2, p[2], d, b2, ttl)
          PROVE  IInv(ttl)'
      BY <2>3, CheckRatesIInv
    <2>4. ASSUME NEW b \in Boxes,
                 PenaltyboxAdd(client, bare, b, ttl) \/ PenaltyboxHas(b, EntryOf(client, bare))
          PROVE  IInv(ttl)'
      BY <2>4, BoxIInv
    <2>5. QED BY <1>2, <2>1, <2>2, <2>3, <2>4 DEF Request
  <1>3. CASE UNCHANGED counterVars
    BY <1>3 DEF counterVars, IInv, Sound, Served
  <1>4. QED BY <1>1, <1>2, <1>3 DEF CountersNext

LEMMA InitIInv ==
  ASSUME NEW ttl \in Nat, CountersInit
  PROVE  IInv(ttl)
PROOF BY DEF CountersInit, IInv, Boxings

(* An entry that went over sits in the penalty box until its time is up,    *)
(* when all additions last equally long (check_rate, penaltybox_has).       *)
THEOREM PenaltiesAreServed ==
  ASSUME NEW ttl \in Nat, Ttls = {ttl}
  PROVE  CountersSpec => []PenaltyServed
PROOF
<1>1. CountersInit => IInv(ttl) BY InitIInv
<1>2. IInv(ttl) /\ [CountersNext]_counterVars => IInv(ttl)' BY NextIInv
<1>3. IInv(ttl) => PenaltyServed
  BY RateLimitAssumption DEF IInv, Sound, Served, PenaltyServed, Freed, Boxings
<1>4. QED BY <1>1, <1>2, <1>3, PTL DEF CountersSpec

-----------------------------------------------------------------------------
(* The ledger: what the counters hold and the charges made so far.          *)

Counter == [count : Nat, lastReset : Nat, window : Nat]

DeltaOf(some) == [i \in DOMAIN some |-> some[i].delta]

Counting(some, n, k, from, to, verdicts) ==
  {i \in 1 .. n : /\ some[i].key = k
                  /\ some[i].at \in from .. to
                  /\ some[i].verdict \in verdicts}

Amount(some, n, k, from, to, verdicts) ==
  SumOf(DeltaOf(some), Counting(some, n, k, from, to, verdicts))

Charge(c, t) ==
  /\ c.key \in Keys /\ c.delta \in Nat
  /\ c.at \in Nat /\ c.at <= t
  /\ c.verdict \in All
  /\ c.verdict = "allowed" => c.threshold \in Nat

Listed(some, t) ==
  /\ \E S : some \in Seq(S)
  /\ \A i \in 1 .. Len(some) : Charge(some[i], t)

Tabled(table, t) ==
  /\ table \in [Keys -> Counter \cup {NoCounter}]
  /\ \A k \in Keys : table[k] # NoCounter => table[k].lastReset <= t

(* What was charged to a counter was charged before its window was over.    *)
InWindows(table, some) ==
  \A i \in 1 .. Len(some) :
    LET c == table[some[i].key]
    IN c # NoCounter /\ some[i].at <= c.lastReset + c.window

(* CountIsWindowSum *)
Counts(table, some, t) ==
  \A k \in Keys : table[k] # NoCounter =>
    table[k].count = Amount(some, Len(some), k, table[k].lastReset, t, All)

Allowed == {"allowed"}

Bounds(some, k, m) ==
  \A i \in 1 .. Len(some) :
    some[i].key = k /\ some[i].verdict = "allowed" => some[i].threshold <= m

(* What is let through ...                                                  *)
Slides(table, some, t) ==
  \A k \in Keys : \A m \in Nat : table[k] # NoCounter /\ Bounds(some, k, m) =>
    LET L == table[k].lastReset
        w == table[k].window
        n == Len(some)
    IN /\ Amount(some, n, k, L, t, Allowed) <= m
       /\ \A s \in Nat : s + w >= L => Amount(some, n, k, s, L - 1, Allowed) <= m
       /\ \A s \in Nat : Amount(some, n, k, s, s + w, Allowed) <= 2 * m

Caused(some) ==
  \A i \in 1 .. Len(some) : some[i].verdict = "over" =>
    Amount(some, i, some[i].key, some[i].at - some[i].window, some[i].at, All) > some[i].threshold

Ledger(table, some, t) ==
  /\ t \in Nat
  /\ Listed(some, t) /\ Tabled(table, t)
  /\ InWindows(table, some) /\ Counts(table, some, t) /\ Slides(table, some, t)

-----------------------------------------------------------------------------

LEMMA CountingFinite ==
  ASSUME NEW some, NEW n \in Nat, NEW k, NEW from, NEW to, NEW vs
  PROVE  IsFiniteSet(Counting(some, n, k, from, to, vs))
PROOF
  <1>1. IsFiniteSet(1 .. n) BY FS_Interval
  <1>2. QED BY <1>1, FS_Subset DEF Counting

LEMMA ListedDeltas ==
  ASSUME NEW some, NEW t, Listed(some, t), NEW i \in 1 .. Len(some)
  PROVE  DeltaOf(some)[i] = some[i].delta /\ DeltaOf(some)[i] \in Nat
PROOF
  <1>1. PICK S : some \in Seq(S) BY DEF Listed
  <1>2. i \in DOMAIN some BY <1>1
  <1>3. QED BY <1>2 DEF Listed, Charge, DeltaOf

LEMMA AmountIsNat ==
  ASSUME NEW some, NEW t, Listed(some, t), NEW n \in 0 .. Len(some), NEW k, NEW from, NEW to, NEW vs
  PROVE  Amount(some, n, k, from, to, vs) \in Nat
PROOF
  <1> DEFINE C == Counting(some, n, k, from, to, vs)
             d == DeltaOf(some)
  <1>1. Len(some) \in Nat BY DEF Listed
  <1>2. IsFiniteSet(C) BY <1>1, CountingFinite
  <1>3. \A i \in C : d[i] \in Nat BY <1>1, ListedDeltas DEF Counting
  <1> HIDE DEF C, d
  <1>4. SumOf(d, C) \in Nat BY <1>2, <1>3, SumIsNat
  <1>5. QED BY <1>4 DEF Amount, C, d

(* Fewer charges add up to less.                                            *)
LEMMA AmountSub ==
  ASSUME NEW some, NEW t, Listed(some, t), NEW n \in 0 .. Len(some), NEW k,
         NEW from, NEW to, NEW vs, NEW from2, NEW to2, NEW vs2,
         Counting(some, n, k, from, to, vs) \subseteq Counting(some, n, k, from2, to2, vs2)
  PROVE  Amount(some, n, k, from, to, vs) <= Amount(some, n, k, from2, to2, vs2)
PROOF
  <1> DEFINE C == Counting(some, n, k, from, to, vs)
             D == Counting(some, n, k, from2, to2, vs2)
             d == DeltaOf(some)
  <1>1. Len(some) \in Nat BY DEF Listed
  <1>2. IsFiniteSet(D) BY <1>1, CountingFinite
  <1>3. \A i \in D : d[i] \in Nat BY <1>1, ListedDeltas DEF Counting
  <1>4. C \in SUBSET D OBVIOUS
  <1> HIDE DEF C, D, d
  <1>5. SumOf(d, C) <= SumOf(d, D) BY <1>2, <1>3, <1>4, SumMonotone
  <1>6. QED BY <1>5 DEF Amount, C, D, d

(* A span falls into what is before an instant and what is not.             *)
LEMMA AmountSplit ==
  ASSUME NEW some, NEW t, Listed(some, t), NEW n \in 0 .. Len(some), NEW k,
         NEW from \in Int, NEW to \in Int, NEW mid \in Int, NEW vs
  PROVE  Amount(some, n, k, from, to, vs)
           <= Amount(some, n, k, from, mid - 1, vs) + Amount(some, n, k, mid, to, vs)
PROOF
  <1> DEFINE A == Counting(some, n, k, from, to, vs)
             B == Counting(some, n, k, from, mid - 1, vs)
             C == Counting(some, n, k, mid, to, vs)
             d == DeltaOf(some)
  <1>1. Len(some) \in Nat BY DEF Listed
  <1>2. IsFiniteSet(B) /\ IsFiniteSet(C) BY <1>1, CountingFinite
  <1>3. \A i \in B \cup C : d[i] \in Nat BY <1>1, ListedDeltas DEF Counting
  <1>4. A \subseteq B \cup C
    <2> SUFFICES ASSUME NEW i \in A PROVE i \in B \cup C OBVIOUS
    <2>1. i \in 1 .. Len(some) /\ i \in 1 .. n BY <1>1 DEF Counting
    <2>2. some[i].at \in Nat BY <2>1 DEF Listed, Charge
    <2>3. QED BY <2>1, <2>2 DEF Counting
  <1>5. B \cap C = {}
    <2> SUFFICES ASSUME NEW i \in B, i \in C PROVE FALSE OBVIOUS
    <2>1. i \in 1 .. Len(some) BY <1>1 DEF Counting
    <2>2. some[i].at \in Nat BY <2>1 DEF Listed, Charge
    <2>3. QED BY <2>2 DEF Counting
  <1>6. A \in SUBSET (B \cup C) BY <1>4
  <1> HIDE DEF A, B, C, d
  <1>7. IsFiniteSet(B \cup C) BY <1>2, FS_Union
  <1>8. SumOf(d, A) <= SumOf(d, B \cup C) BY <1>3, <1>6, <1>7, SumMonotone
  <1>9. SumOf(d, B \cup C) = SumOf(d, B) + SumOf(d, C) BY <1>2, <1>3, <1>5, SumDisjoint
  <1>10. QED BY <1>8, <1>9 DEF Amount, A, B, C, d

(* One more charge.                                                         *)
LEMMA AmountAppend ==
  ASSUME NEW some, NEW t, Listed(some, t), NEW c, Charge(c, t), NEW n, n = Len(some),
         NEW k, NEW from, NEW to, NEW vs
  PROVE  /\ Len(Append(some, c)) = n + 1
         /\ \A i \in 1 .. n : Append(some, c)[i] = some[i]
         /\ Append(some, c)[n + 1] = c
         /\ Listed(Append(some, c), t)
         /\ \A i \in 0 .. n : Amount(Append(some, c), i, k, from, to, vs) = Amount(some, i, k, from, to, vs)
         /\ Amount(Append(some, c), n + 1, k, from, to, vs) =
              Amount(some, n, k, from, to, vs)
                + (IF c.key = k /\ c.at \in from .. to /\ c.verdict \in vs THEN c.delta ELSE 0)
PROOF
  <1> DEFINE more == Append(some, c)
             d == DeltaOf(some)
             e == DeltaOf(more)
  <1>1. PICK S : some \in Seq(S) BY DEF Listed
  <1>2. some \in Seq(S \cup {c}) /\ c \in S \cup {c} /\ n \in Nat BY <1>1
  <1>3. /\ more \in Seq(S \cup {c}) /\ Len(more) = n + 1
        /\ \A i \in 1 .. n : more[i] = some[i]
        /\ more[n + 1] = c
    BY <1>2, AppendProperties
  <1> HIDE DEF more
  <1>4. Listed(more, t)
    <2>1. ASSUME NEW i \in 1 .. n + 1 PROVE Charge(more[i], t)
      <3>1. CASE i = n + 1 BY <1>3, <3>1
      <3>2. CASE i \in 1 .. n BY <1>3, <3>2 DEF Listed
      <3>3. QED BY <1>2, <3>1, <3>2
    <2>2. QED BY <1>3, <2>1 DEF Listed
  <1>5. \A i \in 1 .. n : d[i] = e[i] /\ d[i] \in Nat /\ e[i] \in Nat
    <2> SUFFICES ASSUME NEW i \in 1 .. n PROVE d[i] = e[i] /\ d[i] \in Nat /\ e[i] \in Nat
      OBVIOUS
    <2>1. i \in 1 .. Len(some) /\ i \in 1 .. Len(more) BY <1>2, <1>3
    <2>2. QED BY <1>3, <1>4, <2>1, ListedDeltas
  <1>6. e[n + 1] = c.delta /\ c.delta \in Nat
    <2>1. n + 1 \in 1 .. Len(more) BY <1>2, <1>3
    <2>2. QED BY <1>3, <1>4, <2>1, ListedDeltas
  <1>7. ASSUME NEW i \in 0 .. n
        PROVE  /\ Counting(more, i, k, from, to, vs) = Counting(some, i, k, from, to, vs)
               /\ SumOf(e, Counting(more, i, k, from, to, vs)) = SumOf(d, Counting(some, i, k, from, to, vs))
    <2> DEFINE C == Counting(some, i, k, from, to, vs)
    <2>1. Counting(more, i, k, from, to, vs) = C BY <1>2, <1>3 DEF Counting
    <2>2. IsFiniteSet(C) BY <1>2, CountingFinite
    <2>3. \A j \in C : e[j] = d[j] BY <1>2, <1>5 DEF Counting
    <2> HIDE DEF C, d, e
    <2>4. SumOf(e, C) = SumOf(d, C) BY <2>2, <2>3, SumSame
    <2>5. QED BY <2>1, <2>4 DEF C
  <1>8. SumOf(e, Counting(more, n + 1, k, from, to, vs)) =
          SumOf(d, Counting(some, n, k, from, to, vs))
            + (IF c.key = k /\ c.at \in from .. to /\ c.verdict \in vs THEN c.delta ELSE 0)
    <2> DEFINE C == Counting(some, n, k, from, to, vs)
    <2>1. SumOf(e, C) = SumOf(d, C) /\ Counting(more, n, k, from, to, vs) = C BY <1>2, <1>7
    <2>2. IsFiniteSet(C) /\ C \subseteq 1 .. n
      <3>1. IsFiniteSet(C) BY <1>2, CountingFinite
      <3>2. QED BY <3>1 DEF Counting
    <2>3. \A j \in C : e[j] \in Nat BY <1>5, <2>2
    <2>4. CASE c.key = k /\ c.at \in from .. to /\ c.verdict \in vs
      <3>1. Counting(more, n + 1, k, from, to, vs) = C \cup {n + 1}
        BY <1>2, <1>3, <2>1, <2>4 DEF Counting
      <3>2. n + 1 \notin C BY <1>2, <2>2
      <3> HIDE DEF C, d, e
      <3>3. SumOf(e, C \cup {n + 1}) = SumOf(e, C) + e[n + 1] BY <1>6, <2>2, <2>3, <3>2, SumAdd
      <3>4. QED BY <1>6, <2>1, <2>4, <3>1, <3>3 DEF C
    <2>5. CASE ~(c.key = k /\ c.at \in from .. to /\ c.verdict \in vs)
      <3>1. Counting(more, n + 1, k, from, to, vs) = C
        BY <1>2, <1>3, <2>1, <2>5 DEF Counting
      <3>2. SumOf(e, C) \in Nat
        <4> HIDE DEF C, d, e
        <4>1. QED BY <2>2, <2>3, SumIsNat
      <3> HIDE DEF C, d, e
      <3>3. QED BY <2>1, <2>5, <3>1, <3>2 DEF C
    <2>6. QED BY <2>4, <2>5
  <1>9. QED BY <1>3, <1>4, <1>7, <1>8 DEF more, Amount

-----------------------------------------------------------------------------
(* One increment, whoever makes it.                                         *)

(* A charge to key k that is asked for now, with window w.                  *)
Charging(c, k, w, delta, count) ==
  /\ c.key = k /\ c.at = now /\ c.delta = delta
  /\ c.verdict \in All
  /\ c.verdict = "allowed" => c.threshold \in Nat /\ count <= c.threshold
  /\ c.verdict = "over" => c.threshold \in Nat /\ count > c.threshold /\ c.window = w

LEMMA CurrentIs ==
  ASSUME NEW c \in Counter \cup {NoCounter}, NEW w \in Nat, now \in Nat,
         c # NoCounter => c.lastReset <= now
  PROVE  /\ Current(c, w) \in Counter
         /\ Current(c, w).lastReset <= now
         /\ now <= Current(c, w).lastReset + Current(c, w).window
         /\ \/ /\ c = NoCounter
               /\ Current(c, w).lastReset = now /\ Current(c, w).count = 0
               /\ Current(c, w).window = w
            \/ /\ c # NoCounter /\ c.lastReset + c.window < now
               /\ Current(c, w).lastReset = now /\ Current(c, w).count = 0
               /\ Current(c, w).window = c.window
            \/ c # NoCounter /\ now <= c.lastReset + c.window /\ Current(c, w) = c
PROOF
  <1>1. CASE c = NoCounter BY <1>1 DEF Current, Counter
  <1>2. CASE c # NoCounter /\ now - c.lastReset > c.window
    <2>1. Current(c, w) = [c EXCEPT !.count = 0, !.lastReset = now] BY <1>2 DEF Current
    <2>2. c \in Counter /\ c.lastReset + c.window < now BY <1>2 DEF Counter
    <2>3. Current(c, w) = [count |-> 0, lastReset |-> now, window |-> c.window]
      BY <2>1, <2>2 DEF Counter
    <2>4. QED BY <1>2, <2>2, <2>3 DEF Counter
  <1>3. CASE c # NoCounter /\ ~(now - c.lastReset > c.window) BY <1>3 DEF Current, Counter
  <1>4. QED BY <1>1, <1>2, <1>3

LEMMA ChargedIs ==
  ASSUME NEW c \in Counter \cup {NoCounter}, NEW w \in Nat, NEW delta \in Nat, now \in Nat,
         c # NoCounter => c.lastReset <= now
  PROVE  /\ Charged(c, w, delta) \in Counter
         /\ Charged(c, w, delta).count = Current(c, w).count + delta
         /\ Charged(c, w, delta).lastReset = Current(c, w).lastReset
         /\ Charged(c, w, delta).window = Current(c, w).window
PROOF
  <1> DEFINE b == Current(c, w)
  <1>1. b \in Counter BY CurrentIs
  <1>2. Charged(c, w, delta) = [b EXCEPT !.count = b.count + delta] BY <1>1 DEF Charged, Counter
  <1> HIDE DEF b
  <1>3. QED BY <1>1, <1>2 DEF Counter, b

(* Nothing was charged after the window's end, so a window that begins now  *)
(* begins with nothing.                                                     *)
LEMMA NothingSince ==
  ASSUME NEW table, NEW some, Ledger(table, some, now), NEW k \in Keys,
         NEW from \in Int, NEW to, NEW vs,
         table[k] # NoCounter => table[k].lastReset + table[k].window < from
  PROVE  Amount(some, Len(some), k, from, to, vs) = 0
PROOF
  <1>1. Counting(some, Len(some), k, from, to, vs) = {}
    <2> SUFFICES ASSUME NEW i \in Counting(some, Len(some), k, from, to, vs) PROVE FALSE OBVIOUS
    <2>1. i \in 1 .. Len(some) /\ some[i].key = k /\ some[i].at \in from .. to BY DEF Counting
    <2>2. table[k] # NoCounter /\ some[i].at <= table[k].lastReset + table[k].window
      BY <2>1 DEF Ledger, InWindows
    <2>3. table[k] \in Counter BY <2>2 DEF Ledger, Tabled
    <2>4. some[i].at \in Nat BY <2>1 DEF Ledger, Listed, Charge
    <2>5. QED BY <2>1, <2>2, <2>3, <2>4 DEF Counter
  <1>2. QED BY <1>1, SumEmpty DEF Amount

(* The amount of a span of this key up to now is that of the window, once   *)
(* the counter is current.                                                  *)
LEMMA CurrentCount ==
  ASSUME NEW table, NEW some, Ledger(table, some, now), NEW k \in Keys, NEW w \in Nat
  PROVE  Current(table[k], w).count =
           Amount(some, Len(some), k, Current(table[k], w).lastReset, now, All)
PROOF
  <1>1. /\ table[k] \in Counter \cup {NoCounter} /\ now \in Nat
        /\ table[k] # NoCounter => table[k].lastReset <= now
    BY DEF Ledger, Tabled
  <1>2. CASE table[k] # NoCounter /\ Current(table[k], w) = table[k]
    BY <1>2 DEF Ledger, Counts
  <1>3. CASE /\ Current(table[k], w).lastReset = now /\ Current(table[k], w).count = 0
             /\ table[k] # NoCounter => table[k].lastReset + table[k].window < now
    BY <1>1, <1>3, NothingSince
  <1>4. QED BY <1>1, <1>2, <1>3, CurrentIs

(* The same for what was allowed, and for the bounds of SlidingBound.       *)
LEMMA CurrentSlides ==
  ASSUME NEW table, NEW some, Ledger(table, some, now), NEW k \in Keys, NEW w \in Nat,
         NEW m \in Nat, Bounds(some, k, m)
  PROVE  LET c == Current(table[k], w)
             n == Len(some)
         IN /\ Amount(some, n, k, c.lastReset, now, Allowed) <= m
            /\ \A s \in Nat : s + c.window >= c.lastReset =>
                 Amount(some, n, k, s, c.lastReset - 1, Allowed) <= m
            /\ \A s \in Nat : Amount(some, n, k, s, s + c.window, Allowed) <= 2 * m
PROOF
  <1> DEFINE c == Current(table[k], w)
             n == Len(some)
  <1>1. /\ table[k] \in Counter \cup {NoCounter} /\ now \in Nat
        /\ table[k] # NoCounter => table[k].lastReset <= now
    BY DEF Ledger, Tabled
  <1>2. Listed(some, now) /\ n \in Nat BY DEF Ledger, Listed
  <1>3. CASE table[k] # NoCounter /\ c = table[k]
    BY <1>3 DEF Ledger, Slides
  <1>4. CASE table[k] = NoCounter
    <2>1. ASSUME NEW from \in Int, NEW to PROVE Amount(some, n, k, from, to, Allowed) = 0
      BY <1>4, NothingSince
    <2>2. c.lastReset \in Nat /\ c.window \in Nat BY <1>1, CurrentIs DEF Counter
    <2>3. QED BY <2>1, <2>2
  <1>5. CASE /\ table[k] # NoCounter /\ table[k].lastReset + table[k].window < now
             /\ c.lastReset = now /\ c.window = table[k].window
    <2> DEFINE L == table[k].lastReset
               v == table[k].window
    <2>1. L \in Nat /\ v \in Nat BY <1>1, <1>5 DEF Counter
    <2>2. Amount(some, n, k, now, now, Allowed) = 0 BY <1>1, <1>5, NothingSince
    <2>3. ASSUME NEW s \in Nat, s + v >= now
          PROVE  Amount(some, n, k, s, now - 1, Allowed) <= m
      <3>1. Amount(some, n, k, L, now, Allowed) <= m BY <1>5 DEF Ledger, Slides
      <3>2. s > L BY <1>1, <1>5, <2>1, <2>3
      <3>3. Counting(some, n, k, s, now - 1, Allowed) \subseteq Counting(some, n, k, L, now, Allowed)
        <4> SUFFICES ASSUME NEW i \in Counting(some, n, k, s, now - 1, Allowed)
                     PROVE  i \in Counting(some, n, k, L, now, Allowed)
          OBVIOUS
        <4>1. QED BY <1>1, <2>1, <3>2 DEF Counting
      <3>4. Amount(some, n, k, s, now - 1, Allowed) <= Amount(some, n, k, L, now, Allowed)
        BY <1>2, <3>3, AmountSub
      <3>5. Amount(some, n, k, s, now - 1, Allowed) \in Nat /\ Amount(some, n, k, L, now, Allowed) \in Nat
        BY <1>2, AmountIsNat
      <3>6. QED BY <3>1, <3>4, <3>5
    <2>4. \A s \in Nat : Amount(some, n, k, s, s + v, Allowed) <= 2 * m
      BY <1>5 DEF Ledger, Slides
    <2>5. QED BY <1>5, <2>2, <2>3, <2>4
  <1>6. QED BY <1>1, <1>3, <1>4, <1>5, CurrentIs

LEMMA ChargeStep ==
  ASSUME NEW table, NEW some, Ledger(table, some, now), NEW k \in Keys, NEW w \in Nat,
         NEW delta \in Nat, NEW c, Charging(c, k, w, delta, Charged(table[k], w, delta).count)
  PROVE  Ledger([table EXCEPT ![k] = Charged(table[k], w, delta)], Append(some, c), now)
PROOF
  <1> DEFINE b == Current(table[k], w)
             a == Charged(table[k], w, delta)
             table2 == [table EXCEPT ![k] = a]
             more == Append(some, c)
             n == Len(some)
  <1>1. /\ table[k] \in Counter \cup {NoCounter} /\ now \in Nat
        /\ table[k] # NoCounter => table[k].lastReset <= now
    BY DEF Ledger, Tabled
  <1>2. /\ b \in Counter /\ b.lastReset <= now /\ now <= b.lastReset + b.window
        /\ table[k] # NoCounter => b.window = table[k].window /\ table[k].lastReset <= b.lastReset
    <2> DEFINE old == table[k]
    <2>1. old # NoCounter => old.lastReset <= old.lastReset BY <1>1 DEF Counter
    <2>2. /\ old \in Counter \cup {NoCounter}
          /\ old # NoCounter => old.lastReset <= now
      BY <1>1
    <2> HIDE DEF old
    <2>3. QED BY <1>1, <2>1, <2>2, CurrentIs DEF old
  <1>3. /\ a \in Counter /\ a.count = b.count + delta
        /\ a.lastReset = b.lastReset /\ a.window = b.window
    BY <1>1, ChargedIs
  <1>4. a # NoCounter BY <1>3, RateLimitAssumption DEF Counter
  <1>5. /\ table2 \in [Keys -> Counter \cup {NoCounter}]
        /\ table2[k] = a
        /\ \A j \in Keys \ {k} : table2[j] = table[j]
    BY <1>3 DEF Ledger, Tabled
  <1>6. Charge(c, now) BY <1>1 DEF Charging, Charge
  <1>7. Listed(some, now) /\ n \in Nat BY DEF Ledger, Listed
  <1>8. /\ Len(more) = n + 1 /\ \A i \in 1 .. n : more[i] = some[i]
        /\ more[n + 1] = c /\ Listed(more, now)
    BY <1>6, <1>7, AmountAppend
  <1>9. ASSUME NEW j, NEW from, NEW to, NEW vs
        PROVE  Amount(more, n + 1, j, from, to, vs) =
                 Amount(some, n, j, from, to, vs)
                   + (IF k = j /\ now \in from .. to /\ c.verdict \in vs THEN delta ELSE 0)
    BY <1>6, <1>7, AmountAppend DEF Charging
  <1>10. ASSUME NEW j, NEW from, NEW to, NEW vs PROVE Amount(some, n, j, from, to, vs) \in Nat
    BY <1>7, AmountIsNat
  <1>11. b.count = Amount(some, n, k, b.lastReset, now, All) BY CurrentCount
  <1>12. c.verdict \in All /\ c.key = k /\ c.at = now /\ c.delta = delta BY DEF Charging
  <1>30. c.verdict = "allowed" => c.threshold \in Nat /\ a.count <= c.threshold BY DEF Charging
  <1>31. ASSUME NEW m \in Nat, Bounds(some, k, m)
         PROVE  /\ Amount(some, n, k, b.lastReset, now, Allowed) <= m
                /\ \A s \in Nat : s + b.window >= b.lastReset =>
                     Amount(some, n, k, s, b.lastReset - 1, Allowed) <= m
                /\ \A s \in Nat : Amount(some, n, k, s, s + b.window, Allowed) <= 2 * m
    BY <1>31, CurrentSlides
  <1> HIDE DEF b, a, table2, more, n
  <1>13. Tabled(table2, now)
    BY <1>2, <1>3, <1>5 DEF Ledger, Tabled
  <1>14. InWindows(table2, more)
    <2> SUFFICES ASSUME NEW i \in 1 .. n + 1
                 PROVE  /\ table2[more[i].key] # NoCounter
                        /\ more[i].at <= table2[more[i].key].lastReset + table2[more[i].key].window
      BY <1>8 DEF InWindows
    <2>1. CASE i = n + 1 BY <1>2, <1>3, <1>4, <1>5, <1>8, <1>12, <2>1
    <2>2. CASE i \in 1 .. n
      <3>1. more[i] = some[i] /\ some[i].key \in Keys /\ some[i].at \in Nat
        BY <1>8, <2>2 DEF Ledger, Listed, Charge, n
      <3>2. /\ table[some[i].key] # NoCounter
            /\ some[i].at <= table[some[i].key].lastReset + table[some[i].key].window
        BY <2>2 DEF Ledger, InWindows, n
      <3>3. CASE some[i].key = k
        BY <1>1, <1>2, <1>3, <1>4, <1>5, <3>1, <3>2, <3>3 DEF Counter
      <3>4. CASE some[i].key # k BY <1>5, <3>1, <3>2, <3>4
      <3>5. QED BY <3>3, <3>4
    <2>3. QED BY <1>7, <2>1, <2>2
  <1>15. Counts(table2, more, now)
    <2> SUFFICES ASSUME NEW j \in Keys, table2[j] # NoCounter
                 PROVE  table2[j].count = Amount(more, n + 1, j, table2[j].lastReset, now, All)
      BY <1>8 DEF Counts
    <2>1. CASE j = k
      <3>1. Amount(more, n + 1, k, b.lastReset, now, All) = Amount(some, n, k, b.lastReset, now, All) + delta
        BY <1>1, <1>2, <1>9, <1>12 DEF Counter
      <3>2. QED BY <1>3, <1>5, <1>11, <2>1, <3>1
    <2>2. CASE j # k
      <3>1. table2[j] = table[j] /\ table[j].count = Amount(some, n, j, table[j].lastReset, now, All)
        BY <1>5, <2>2 DEF Ledger, Counts, n
      <3>2. Amount(some, n, j, table[j].lastReset, now, All) \in Nat BY <1>10
      <3>3. QED BY <1>9, <2>2, <3>1, <3>2
    <2>3. QED BY <2>1, <2>2
  <1>16. Slides(table2, more, now)
    <2> SUFFICES ASSUME NEW j \in Keys, NEW m \in Nat, table2[j] # NoCounter, Bounds(more, j, m)
                 PROVE  LET L == table2[j].lastReset
                            v == table2[j].window
                        IN /\ Amount(more, n + 1, j, L, now, Allowed) <= m
                           /\ \A s \in Nat : s + v >= L => Amount(more, n + 1, j, s, L - 1, Allowed) <= m
                           /\ \A s \in Nat : Amount(more, n + 1, j, s, s + v, Allowed) <= 2 * m
      BY <1>8 DEF Slides
    <2>1. Bounds(some, j, m) BY <1>7, <1>8 DEF Bounds, n
    <2>2. CASE j # k
      <3>1. table2[j] = table[j] BY <1>5, <2>2
      <3>2. ASSUME NEW from, NEW to
            PROVE  Amount(more, n + 1, j, from, to, Allowed) = Amount(some, n, j, from, to, Allowed)
        BY <1>9, <1>10, <2>2
      <3>3. QED BY <2>1, <3>1, <3>2 DEF Ledger, Slides, n
    <2>3. CASE j = k /\ c.verdict # "allowed"
      <3>1. ASSUME NEW from, NEW to
            PROVE  Amount(more, n + 1, k, from, to, Allowed) = Amount(some, n, k, from, to, Allowed)
        BY <1>9, <1>10, <2>3 DEF Allowed
      <3>2. QED BY <1>3, <1>5, <1>31, <2>1, <2>3, <3>1
    <2>4. CASE j = k /\ c.verdict = "allowed"
      <3>1. c.threshold \in Nat /\ a.count <= c.threshold BY <1>30, <2>4
      <3>2. c.threshold <= m BY <1>7, <1>8, <1>12, <2>4 DEF Bounds
      <3>3. Amount(some, n, k, b.lastReset, now, Allowed) <= Amount(some, n, k, b.lastReset, now, All)
        <4>1. Counting(some, n, k, b.lastReset, now, Allowed) \subseteq Counting(some, n, k, b.lastReset, now, All)
          BY DEF Counting, Allowed, All
        <4>2. QED BY <1>7, <4>1, AmountSub DEF n
      <3>4. Amount(some, n, k, b.lastReset, now, Allowed) + delta <= m
        BY <1>2, <1>3, <1>10, <1>11, <3>1, <3>2, <3>3 DEF Counter
      <3>5. Amount(more, n + 1, k, b.lastReset, now, Allowed) <= m
        BY <1>1, <1>2, <1>9, <2>4, <3>4 DEF Allowed, Counter
      <3>6. \A s \in Nat : s + b.window >= b.lastReset =>
              Amount(more, n + 1, k, s, b.lastReset - 1, Allowed) <= m
        <4> SUFFICES ASSUME NEW s \in Nat, s + b.window >= b.lastReset
                     PROVE  Amount(more, n + 1, k, s, b.lastReset - 1, Allowed) <= m
          OBVIOUS
        <4>1. now \notin s .. b.lastReset - 1 BY <1>1, <1>2 DEF Counter
        <4>2. Amount(some, n, k, s, b.lastReset - 1, Allowed) <= m BY <1>31, <2>1, <2>4
        <4>3. QED BY <1>9, <1>10, <4>1, <4>2
      <3>7. \A s \in Nat : Amount(more, n + 1, k, s, s + b.window, Allowed) <= 2 * m
        <4> SUFFICES ASSUME NEW s \in Nat
                     PROVE  Amount(more, n + 1, k, s, s + b.window, Allowed) <= 2 * m
          OBVIOUS
        <4>1. b.window \in Nat /\ b.lastReset \in Nat BY <1>2 DEF Counter
        <4>2. CASE now \notin s .. s + b.window
          <5>1. Amount(some, n, k, s, s + b.window, Allowed) <= 2 * m BY <1>31, <2>1, <2>4
          <5>2. QED BY <1>9, <1>10, <4>2, <5>1
        <4>3. CASE now \in s .. s + b.window
          <5>1. s + b.window >= b.lastReset BY <1>1, <1>2, <4>1, <4>3
          <5>2. Amount(more, n + 1, k, s, s + b.window, Allowed)
                  <= Amount(more, n + 1, k, s, b.lastReset - 1, Allowed)
                       + Amount(more, n + 1, k, b.lastReset, s + b.window, Allowed)
            BY <1>7, <1>8, <4>1, AmountSplit
          <5>3. Amount(more, n + 1, k, b.lastReset, s + b.window, Allowed)
                  <= Amount(more, n + 1, k, b.lastReset, now, Allowed)
            <6>1. Counting(more, n + 1, k, b.lastReset, s + b.window, Allowed)
                    \subseteq Counting(more, n + 1, k, b.lastReset, now, Allowed)
              <7> SUFFICES ASSUME NEW i \in Counting(more, n + 1, k, b.lastReset, s + b.window, Allowed)
                           PROVE  i \in Counting(more, n + 1, k, b.lastReset, now, Allowed)
                OBVIOUS
              <7>1. i \in 1 .. n + 1 BY DEF Counting
              <7>2. more[i].at <= now BY <1>8, <7>1 DEF Listed, Charge
              <7>3. QED BY <1>1, <4>1, <7>1, <7>2 DEF Counting
            <6>2. QED BY <1>7, <1>8, <6>1, AmountSub
          <5>4. Amount(more, n + 1, k, s, b.lastReset - 1, Allowed) <= m BY <3>6, <5>1
          <5>5. /\ Amount(more, n + 1, k, s, s + b.window, Allowed) \in Nat
                /\ Amount(more, n + 1, k, s, b.lastReset - 1, Allowed) \in Nat
                /\ Amount(more, n + 1, k, b.lastReset, s + b.window, Allowed) \in Nat
                /\ Amount(more, n + 1, k, b.lastReset, now, Allowed) \in Nat
            BY <1>7, <1>8, AmountIsNat
          <5>6. QED BY <3>5, <5>2, <5>3, <5>4, <5>5
        <4>4. QED BY <4>2, <4>3
      <3>8. QED BY <1>3, <1>5, <2>4, <3>5, <3>6, <3>7
    <2>5. QED BY <2>2, <2>3, <2>4
  <1>17. QED BY <1>1, <1>8, <1>13, <1>14, <1>15, <1>16 DEF Ledger, table2, more, a, n

-----------------------------------------------------------------------------
(* The windows callers ask for.                                             *)

(* A counter and a window that a call may name together.                    *)
Asked ==
  {<<Key(rc, e), w>> : rc \in Counters, e \in Entries, w \in Windows \cup {DefaultWindow}}
    \cup {<<WindowKey(rc, e, p[i]), p[i]>> : rc \in Counters, e \in Entries,
                                             p \in Pairs, i \in {1, 2}}

(* All callers of a counter agree on its window.                            *)
Agreement == \A a, b \in Asked : a[1] = b[1] => a[2] = b[2]

(* A counter's window is one that was asked for.                            *)
Windowed(table) == \A k \in Keys : table[k] # NoCounter => <<k, table[k].window>> \in Asked

OneCharge(table, some, table2, more) ==
  \E k \in Keys, w \in Nat, delta \in Nat : \E c :
    /\ <<k, w>> \in Asked
    /\ Charging(c, k, w, delta, Charged(table[k], w, delta).count)
    /\ table2 = [table EXCEPT ![k] = Charged(table[k], w, delta)]
    /\ more = Append(some, c)

Kept(table, some, t) ==
  /\ Ledger(table, some, t)
  /\ Windowed(table)
  /\ Agreement => Caused(some)

LEMMA OneChargeKeeps ==
  ASSUME NEW table, NEW some, Kept(table, some, now),
         NEW table2, NEW more, OneCharge(table, some, table2, more)
  PROVE  Kept(table2, more, now)
PROOF
  <1>1. PICK k \in Keys, w \in Nat, delta \in Nat : \E c :
          /\ <<k, w>> \in Asked
          /\ Charging(c, k, w, delta, Charged(table[k], w, delta).count)
          /\ table2 = [table EXCEPT ![k] = Charged(table[k], w, delta)]
          /\ more = Append(some, c)
    BY DEF OneCharge
  <1>2. PICK c :
          /\ <<k, w>> \in Asked
          /\ Charging(c, k, w, delta, Charged(table[k], w, delta).count)
          /\ table2 = [table EXCEPT ![k] = Charged(table[k], w, delta)]
          /\ more = Append(some, c)
    BY <1>1
  <1> DEFINE a == Charged(table[k], w, delta)
             old == table[k]
             n == Len(some)
  <1>3. Ledger(table2, more, now) BY <1>2, ChargeStep DEF Kept
  <1>4. /\ old \in Counter \cup {NoCounter} /\ now \in Nat
        /\ old # NoCounter => old.lastReset <= now
    BY DEF Kept, Ledger, Tabled
  <1>5. /\ a \in Counter /\ now <= a.lastReset + a.window /\ a.lastReset <= now
        /\ a.window = IF old = NoCounter THEN w ELSE old.window
    <2>1. a = Charged(old, w, delta) OBVIOUS
    <2> HIDE DEF a, old
    <2> DEFINE b == Current(old, w)
    <2>2. /\ b \in Counter /\ b.lastReset <= now /\ now <= b.lastReset + b.window
          /\ b.window = IF old = NoCounter THEN w ELSE old.window
      BY <1>4, CurrentIs
    <2>3. a \in Counter /\ a.lastReset = b.lastReset /\ a.window = b.window
      BY <1>4, <2>1, ChargedIs
    <2> HIDE DEF b
    <2>4. QED BY <2>2, <2>3
  <1>6. /\ table2[k] = a
        /\ \A j \in Keys \ {k} : table2[j] = table[j]
    BY <1>2 DEF Kept, Ledger, Tabled
  <1>7. <<k, a.window>> \in Asked BY <1>2, <1>5 DEF Kept, Windowed
  <1>8. Windowed(table2) BY <1>6, <1>7 DEF Kept, Windowed
  <1>9. Charge(c, now)
    BY <1>2, <1>4 DEF Charging, Charge
  <1>10. Listed(some, now) /\ n \in Nat BY DEF Kept, Ledger, Listed
  <1>11. /\ Len(more) = n + 1 /\ \A i \in 1 .. n : more[i] = some[i]
         /\ more[n + 1] = c
    BY <1>2, <1>9, <1>10, AmountAppend
  <1>12. ASSUME NEW i \in 1 .. n, NEW j, NEW from, NEW to, NEW vs
         PROVE  Amount(more, i, j, from, to, vs) = Amount(some, i, j, from, to, vs)
    <2>1. i \in 0 .. n BY <1>10
    <2>2. QED BY <1>2, <1>9, <1>10, <2>1, AmountAppend
  <1>13. c.verdict = "over" => c.threshold \in Nat /\ a.count > c.threshold /\ c.window = w
    BY <1>2 DEF Charging
  <1>14. c.key = k /\ c.at = now BY <1>2 DEF Charging
  <1>15. a.count = Amount(more, n + 1, k, a.lastReset, now, All)
    <2>1. table2[k] # NoCounter BY <1>5, <1>6, RateLimitAssumption DEF Counter
    <2>2. QED BY <1>3, <1>6, <1>11, <2>1 DEF Ledger, Counts
  <1> HIDE DEF a, n
  <1>16. ASSUME Agreement PROVE Caused(more)
    <2> SUFFICES ASSUME NEW i \in 1 .. n + 1, more[i].verdict = "over"
                 PROVE  Amount(more, i, more[i].key, more[i].at - more[i].window, more[i].at, All)
                          > more[i].threshold
      BY <1>11 DEF Caused
    <2>1. CASE i \in 1 .. n
      BY <1>11, <1>12, <1>16, <2>1 DEF Kept, Caused, n
    <2>2. CASE i = n + 1
      <3>1. c.verdict = "over" /\ more[i] = c BY <1>11, <2>2
      <3>2. a.window = w BY <1>2, <1>7, <1>16 DEF Agreement
      <3>3. a.lastReset >= now - w BY <1>4, <1>5, <3>2 DEF Counter
      <3>4. Counting(more, n + 1, k, a.lastReset, now, All)
              \subseteq Counting(more, n + 1, k, now - w, now, All)
        <4> SUFFICES ASSUME NEW q \in Counting(more, n + 1, k, a.lastReset, now, All)
                     PROVE  q \in Counting(more, n + 1, k, now - w, now, All)
          OBVIOUS
        <4>1. QED BY <1>4, <1>5, <3>3 DEF Counting, Counter
      <3>5. Listed(more, now) BY <1>3 DEF Ledger
      <3>6. Amount(more, n + 1, k, a.lastReset, now, All) <= Amount(more, n + 1, k, now - w, now, All)
        BY <1>10, <1>11, <3>4, <3>5, AmountSub
      <3>7. Amount(more, n + 1, k, a.lastReset, now, All) \in Nat
            /\ Amount(more, n + 1, k, now - w, now, All) \in Nat
        BY <1>10, <1>11, <3>5, AmountIsNat
      <3>8. QED BY <1>13, <1>14, <1>15, <2>2, <3>1, <3>6, <3>7
    <2>3. QED BY <1>10, <2>1, <2>2 DEF n
  <1>17. QED BY <1>3, <1>8, <1>16 DEF Kept

-----------------------------------------------------------------------------
(* Every call makes no charge, one, or one after another.                   *)

LEMMA CheckedIsCharging ==
  ASSUME NEW client, NEW k, NEW w, NEW delta, NEW threshold \in Nat, NEW count \in Nat,
         NEW box, NEW entry, NEW ttl
  PROVE  Charging(Checked(client, k, w, delta, threshold, count > threshold, box, entry, ttl),
                  k, w, delta, count)
PROOF
  <1> DEFINE c == Checked(client, k, w, delta, threshold, count > threshold, box, entry, ttl)
  <1>1. /\ c.key = k /\ c.at = now /\ c.delta = delta /\ c.threshold = threshold /\ c.window = w
        /\ c.verdict = IF count > threshold THEN "over" ELSE "allowed"
    BY DEF Checked
  <1> HIDE DEF c
  <1>2. Charging(c, k, w, delta, count) BY <1>1 DEF Charging, All
  <1>3. QED BY <1>2 DEF c

LEMMA CountedCount ==
  ASSUME NEW table, Tabled(table, now), now \in Nat, NEW k \in Keys, NEW w \in Nat, NEW delta \in Nat
  PROVE  Charged(table[k], w, delta).count \in Nat
PROOF
  <1> DEFINE old == table[k]
  <1>1. /\ old \in Counter \cup {NoCounter}
        /\ old # NoCounter => old.lastReset <= now
    BY DEF Tabled
  <1> HIDE DEF old
  <1>2. Charged(old, w, delta) \in Counter BY <1>1, ChargedIs
  <1>3. QED BY <1>2 DEF old, Counter

LEMMA IncrementCharges ==
  ASSUME Kept(counters, charges, now), NEW client \in Clients, NEW bare \in Bare,
         NEW rc \in Counters, NEW delta \in Deltas,
         RatecounterIncrement(client, bare, rc, delta)
  PROVE  OneCharge(counters, charges, counters', charges')
PROOF
  <1> DEFINE entry == EntryOf(client, bare)
             k == Key(rc, entry)
             c == Counted(client, k, delta)
             count == Charged(counters[k], DefaultWindow, delta).count
  <1>1. /\ counters' = [counters EXCEPT ![k] = Charged(counters[k], DefaultWindow, delta)]
        /\ charges' = Append(charges, c)
    BY DEF RatecounterIncrement, Kept, Ledger, Tabled
  <1>2. entry \in Entries BY EntryIsEntry
  <1>3. k \in Keys /\ <<k, DefaultWindow>> \in Asked
    <2> HIDE DEF entry
    <2>1. QED BY <1>2 DEF Keys, Asked
  <1>4. DefaultWindow \in Nat /\ delta \in Nat BY RateLimitAssumption
  <1>5. Charging(c, k, DefaultWindow, delta, count) BY DEF Counted, Charging, All
  <1> HIDE DEF k, c
  <1>6. QED BY <1>1, <1>3, <1>4, <1>5 DEF OneCharge

LEMMA CheckRateCharges ==
  ASSUME Kept(counters, charges, now), NEW client \in Clients, NEW bare \in Bare,
         NEW rc \in Counters, NEW threshold \in Thresholds, NEW w \in Windows, NEW delta \in Deltas,
         NEW box \in Boxes, NEW ttl \in Ttls,
         CheckRate(client, bare, rc, threshold, w, delta, box, ttl)
  PROVE  OneCharge(counters, charges, counters', charges')
PROOF
  <1> DEFINE entry == EntryOf(client, bare)
             k == Key(rc, entry)
             count == Charged(counters[k], w, delta).count
             c == Checked(client, k, w, delta, threshold, count > threshold, box, entry, ttl)
  <1>1. /\ counters' = [counters EXCEPT ![k] = Charged(counters[k], w, delta)]
        /\ charges' = Append(charges, c)
    BY DEF CheckRate
  <1>2. entry \in Entries BY EntryIsEntry
  <1>3. k \in Keys /\ <<k, w>> \in Asked
    <2> HIDE DEF entry
    <2>1. QED BY <1>2 DEF Keys, Asked
  <1>4. w \in Nat /\ delta \in Nat /\ threshold \in Nat BY RateLimitAssumption
  <1>5. count \in Nat BY <1>3, <1>4, CountedCount DEF Kept, Ledger
  <1>6. Charging(c, k, w, delta, count) BY <1>4, <1>5, CheckedIsCharging
  <1> HIDE DEF k, c
  <1>7. QED BY <1>1, <1>3, <1>4, <1>6 DEF OneCharge

LEMMA AppendTwo ==
  ASSUME NEW S, NEW s \in Seq(S), NEW x \in S, NEW y \in S
  PROVE  s \o <<x, y>> = Append(Append(s, x), y)
PROOF OBVIOUS

LEMMA CheckRatesCharges ==
  ASSUME Kept(counters, charges, now), NEW client \in Clients, NEW bare \in Bare,
         NEW rc \in Counters, NEW p \in Pairs, NEW t1 \in Thresholds, NEW t2 \in Thresholds,
         NEW delta \in Deltas, NEW b1 \in Boxes, NEW b2 \in Boxes, NEW ttl \in Ttls,
         CheckRates(client, bare, rc, t1, p[1], delta, b1, t2, p[2], delta, b2, ttl)
  PROVE  \E table, some : /\ OneCharge(counters, charges, table, some)
                          /\ OneCharge(table, some, counters', charges')
PROOF
  <1> DEFINE entry == EntryOf(client, bare)
             k1 == WindowKey(rc, entry, p[1])
             k2 == WindowKey(rc, entry, p[2])
             count1 == Charged(counters[k1], p[1], delta).count
             table == [counters EXCEPT ![k1] = Charged(counters[k1], p[1], delta)]
             count2 == Charged(table[k2], p[2], delta).count
             x == Checked(client, k1, p[1], delta, t1, count1 > t1, b1, entry, ttl)
             y == Checked(client, k2, p[2], delta, t2, count2 > t2, b2, entry, ttl)
  <1>1. /\ counters' = [table EXCEPT ![k2] = Charged(table[k2], p[2], delta)]
        /\ charges' = charges \o <<x, y>>
    BY DEF CheckRates
  <1>2. entry \in Entries BY EntryIsEntry
  <1>3. k1 \in Keys /\ k2 \in Keys /\ <<k1, p[1]>> \in Asked /\ <<k2, p[2]>> \in Asked
    <2> HIDE DEF entry
    <2>1. QED BY <1>2 DEF Keys, Asked
  <1>4. p[1] \in Nat /\ p[2] \in Nat /\ delta \in Nat /\ t1 \in Nat /\ t2 \in Nat
    BY RateLimitAssumption
  <1>5. count1 \in Nat BY <1>3, <1>4, CountedCount DEF Kept, Ledger
  <1>6. Charging(x, k1, p[1], delta, count1) BY <1>4, <1>5, CheckedIsCharging
  <1> HIDE DEF k1, k2, x
  <1>7. OneCharge(counters, charges, table, Append(charges, x))
    BY <1>3, <1>4, <1>6 DEF OneCharge
  <1>8. Kept(table, Append(charges, x), now) BY <1>7, OneChargeKeeps
  <1> HIDE DEF table
  <1>9. count2 \in Nat BY <1>3, <1>4, <1>8, CountedCount DEF Kept, Ledger
  <1>10. Charging(y, k2, p[2], delta, count2) BY <1>4, <1>9, CheckedIsCharging
  <1>11. charges' = Append(Append(charges, x), y)
    <2>1. PICK S : charges \in Seq(S) BY DEF Kept, Ledger, Listed
    <2>2. charges \in Seq(S \cup {x, y}) BY <2>1
    <2> HIDE DEF y
    <2>3. QED BY <1>1, <2>2, AppendTwo
  <1> HIDE DEF y
  <1>12. OneCharge(table, Append(charges, x), counters', charges')
    BY <1>1, <1>3, <1>4, <1>10, <1>11 DEF OneCharge
  <1>13. QED BY <1>7, <1>12

LEMMA InitKept == CountersInit => Kept(counters, charges, now)
PROOF
  <1> SUFFICES ASSUME CountersInit PROVE Kept(counters, charges, now) OBVIOUS
  <1>1. /\ now = 0 /\ charges = <<>> /\ Len(charges) = 0
        /\ \A k \in Keys : counters[k] = NoCounter
        /\ counters \in [Keys -> Counter \cup {NoCounter}]
    BY DEF CountersInit
  <1>2. charges \in Seq({}) BY <1>1
  <1>3. QED
    BY <1>1, <1>2 DEF Kept, Ledger, Listed, Tabled, InWindows, Counts, Slides, Windowed, Caused

LEMMA TickKept == Kept(counters, charges, now) /\ Tick => Kept(counters, charges, now)'
PROOF
  <1> SUFFICES ASSUME Kept(counters, charges, now), Tick
               PROVE  Kept(counters, charges, now + 1)
    BY DEF Tick, Advance, Kept, Ledger, Listed, Tabled, InWindows, Counts, Slides, Windowed, Caused,
           Charge, Amount
  <1>1. now \in Nat /\ Listed(charges, now) BY DEF Kept, Ledger
  <1>2. Listed(charges, now + 1) BY <1>1 DEF Listed, Charge
  <1>3. Tabled(counters, now + 1)
    <2>1. ASSUME NEW k \in Keys, counters[k] # NoCounter PROVE counters[k].lastReset <= now + 1
      <3>1. counters[k] \in Counter /\ counters[k].lastReset <= now
        BY <2>1 DEF Kept, Ledger, Tabled
      <3>2. QED BY <1>1, <3>1 DEF Counter
    <2>2. QED BY <2>1 DEF Kept, Ledger, Tabled
  <1>4. ASSUME NEW k, NEW from, NEW vs
        PROVE  Amount(charges, Len(charges), k, from, now + 1, vs)
                 = Amount(charges, Len(charges), k, from, now, vs)
    <2>1. Counting(charges, Len(charges), k, from, now + 1, vs)
            = Counting(charges, Len(charges), k, from, now, vs)
      <3>1. ASSUME NEW i \in 1 .. Len(charges)
            PROVE  charges[i].at \in from .. now + 1 <=> charges[i].at \in from .. now
        <4>1. charges[i].at \in Nat /\ charges[i].at <= now BY <1>1 DEF Listed, Charge
        <4>2. QED BY <1>1, <4>1
      <3>2. QED BY <3>1 DEF Counting
    <2>2. QED BY <2>1 DEF Amount
  <1>5. Counts(counters, charges, now + 1) BY <1>4 DEF Kept, Ledger, Counts
  <1>6. Slides(counters, charges, now + 1) BY <1>4 DEF Kept, Ledger, Slides
  <1>7. QED BY <1>1, <1>2, <1>3, <1>5, <1>6 DEF Kept, Ledger

LEMMA NextKept ==
  Kept(counters, charges, now) /\ [CountersNext]_counterVars => Kept(counters, charges, now)'
PROOF
  <1> SUFFICES ASSUME Kept(counters, charges, now), [CountersNext]_counterVars
               PROVE  Kept(counters, charges, now)'
    OBVIOUS
  <1>1. ASSUME now' = now, Kept(counters', charges', now) PROVE Kept(counters, charges, now)'
    BY <1>1 DEF Kept, Ledger, Listed, Tabled, InWindows, Counts, Slides, Windowed, Caused, Charge,
                Amount
  <1>2. ASSUME now' = now, OneCharge(counters, charges, counters', charges')
        PROVE  Kept(counters, charges, now)'
    BY <1>1, <1>2, OneChargeKeeps
  <1>3. CASE Tick BY <1>3, TickKept
  <1>4. ASSUME NEW client \in Clients, NEW bare \in Bare, Request(client, bare)
        PROVE  Kept(counters, charges, now)'
    <2>1. ASSUME NEW rc \in Counters, NEW d \in Deltas, RatecounterIncrement(client, bare, rc, d)
          PROVE  Kept(counters, charges, now)'
      BY <1>2, <2>1, IncrementCharges DEF RatecounterIncrement
    <2>2. ASSUME NEW rc \in Counters, NEW t \in Thresholds, NEW w \in Windows, NEW d \in Deltas,
                 NEW b \in Boxes, NEW ttl \in Ttls, CheckRate(client, bare, rc, t, w, d, b, ttl)
          PROVE  Kept(counters, charges, now)'
      <3>1. now' = now BY <2>2 DEF CheckRate
      <3>2. QED BY <1>2, <2>2, <3>1, CheckRateCharges
    <2>3. ASSUME NEW rc \in Counters, NEW p \in Pairs, NEW t1 \in Thresholds, NEW t2 \in Thresholds,
                 NEW d \in Deltas, NEW b1 \in Boxes, NEW b2 \in Boxes, NEW ttl \in Ttls,
                 CheckRates(client, bare, rc, t1, p[1], d, b1, t2, p[2], d, b2, ttl)
          PROVE  Kept(counters, charges, now)'
      <3>1. now' = now BY <2>3 DEF CheckRates
      <3>2. PICK table, some : /\ OneCharge(counters, charges, table, some)
                               /\ OneCharge(table, some, counters', charges')
        BY <2>3, CheckRatesCharges
      <3>3. Kept(table, some, now) BY <3>2, OneChargeKeeps
      <3>4. Kept(counters', charges', now) BY <3>2, <3>3, OneChargeKeeps
      <3>5. QED BY <1>1, <3>1, <3>4
    <2>4. ASSUME NEW b \in Boxes, NEW ttl \in Ttls,
                 PenaltyboxAdd(client, bare, b, ttl) \/ PenaltyboxHas(b, EntryOf(client, bare))
          PROVE  Kept(counters, charges, now)'
      <3>1. UNCHANGED <<now, counters, charges>> BY <2>4 DEF PenaltyboxAdd, PenaltyboxHas
      <3>2. QED BY <1>1, <3>1
    <2>5. ASSUME NEW b \in Boxes, PenaltyboxHas(b, EntryOf(client, bare))
          PROVE  Kept(counters, charges, now)'
      <3>1. UNCHANGED <<now, counters, charges>> BY <2>5 DEF PenaltyboxHas
      <3>2. QED BY <1>1, <3>1
    <2>6. QED BY <1>4, <2>1, <2>2, <2>3, <2>4, <2>5 DEF Request
  <1>5. CASE UNCHANGED counterVars BY <1>1, <1>5 DEF counterVars
  <1>6. QED BY <1>3, <1>4, <1>5 DEF CountersNext

-----------------------------------------------------------------------------
(* What follows for the properties.                                         *)

LEMMA TotalIsAmount ==
  ASSUME NEW n, NEW k, NEW from, NEW to, NEW vs
  PROVE  Total(n, k, from, to, vs) = Amount(charges, n, k, from, to, vs)
PROOF BY DEF Total, Delta, Amount, SumOf, DeltaOf, Counting

(* A counter holds exactly what was counted since its window began: no      *)
(* increment is lost or taken over from an earlier window                   *)
(* (getOrCreateCounter, check_rate, check_rates).                           *)
THEOREM CountsAreWindowSums == CountersSpec => []CountIsWindowSum
PROOF
<1>1. Kept(counters, charges, now) => CountIsWindowSum
  BY TotalIsAmount DEF Kept, Ledger, Counts, CountIsWindowSum
<1>2. QED BY <1>1, InitKept, NextKept, PTL DEF CountersSpec

(* When all callers of a counter agree on its window, a call goes over only *)
(* when the increments of that window exceed its threshold.                 *)
THEOREM RefusalsAreJust ==
  ASSUME Agreement
  PROVE  CountersSpec => []RefusedForCause
PROOF
<1>1. Kept(counters, charges, now) => RefusedForCause
  <2> SUFFICES ASSUME Kept(counters, charges, now), NEW i \in DOMAIN charges,
                      charges[i].verdict = "over"
               PROVE  Amount(charges, i, charges[i].key, charges[i].at - charges[i].window,
                             charges[i].at, All) > charges[i].threshold
    BY TotalIsAmount DEF RefusedForCause
  <2>1. PICK S : charges \in Seq(S) BY DEF Kept, Ledger, Listed
  <2>2. i \in 1 .. Len(charges) BY <2>1
  <2>3. QED BY <2>2 DEF Kept, Caused
<1>2. QED BY <1>1, InitKept, NextKept, PTL DEF CountersSpec

(* However the calls fall, no span as long as the window lets through more  *)
(* than twice the largest threshold asked for: a counter lets through at    *)
(* most a threshold between two of its resets, and a span touches at most   *)
(* two such windows.                                                        *)
THEOREM AtMostTwiceTheThreshold == CountersSpec => []SlidingBound
PROOF
<1>1. Kept(counters, charges, now) => SlidingBound
  <2> SUFFICES ASSUME Kept(counters, charges, now), NEW k \in Keys, counters[k] # NoCounter,
                      NEW s \in 0 .. now
               PROVE  LET allowed == {i \in DOMAIN charges :
                                        charges[i].key = k /\ charges[i].verdict = "allowed"}
                      IN Amount(charges, Len(charges), k, s, s + counters[k].window, Allowed)
                           <= 2 * Max({0} \cup {charges[i].threshold : i \in allowed})
    BY TotalIsAmount DEF SlidingBound, Allowed
  <2> DEFINE allowed == {i \in DOMAIN charges :
                           charges[i].key = k /\ charges[i].verdict = "allowed"}
             thresholds == {charges[i].threshold : i \in allowed}
             tops == {0} \cup thresholds
             m == Max(tops)
  <2>1. DOMAIN charges = 1 .. Len(charges) /\ Len(charges) \in Nat
    <3>1. PICK S : charges \in Seq(S) BY DEF Kept, Ledger, Listed
    <3>2. QED BY <3>1
  <2>2. \A i \in allowed : charges[i].threshold \in Nat
    BY <2>1 DEF Kept, Ledger, Listed, Charge
  <2>3. IsFiniteSet(tops)
    <3>1. IsFiniteSet(1 .. Len(charges)) BY <2>1, FS_Interval
    <3>2. IsFiniteSet(allowed) BY <2>1, <3>1, FS_Subset
    <3> DEFINE f == [i \in allowed |-> charges[i].threshold]
    <3>3. thresholds = {f[i] : i \in allowed} OBVIOUS
    <3> HIDE DEF f, allowed
    <3>4. IsFiniteSet({f[i] : i \in allowed}) BY <3>2, ImageFinite
    <3>5. IsFiniteSet(thresholds) BY <3>3, <3>4
    <3> HIDE DEF thresholds
    <3>6. IsFiniteSet({0}) BY FS_Singleton
    <3>7. QED BY <3>5, <3>6, FS_Union
  <2>4. tops \subseteq Nat BY <2>2
  <2>5. m \in tops /\ \A x \in tops : x <= m
    <3>1. tops # {} OBVIOUS
    <3> HIDE DEF tops
    <3>2. QED BY <2>3, <2>4, <3>1, MaxIsLargest
  <2>6. m \in Nat BY <2>4, <2>5
  <2>7. Bounds(charges, k, m)
    <3> SUFFICES ASSUME NEW i \in 1 .. Len(charges), charges[i].key = k,
                        charges[i].verdict = "allowed"
                 PROVE  charges[i].threshold <= m
      BY DEF Bounds
    <3>1. charges[i].threshold \in tops BY <2>1
    <3>2. QED BY <2>5, <3>1
  <2> HIDE DEF m
  <2>8. s \in Nat BY DEF Kept, Ledger
  <2>9. QED BY <2>6, <2>7, <2>8 DEF Kept, Ledger, Slides, m, tops, thresholds, allowed
<1>2. QED BY <1>1, InitKept, NextKept, PTL DEF CountersSpec

Within == boxes \in Boxings /\ Len(charges) <= MaxCharges

LEMMA BoxesKept ==
  Within /\ Kept(counters, charges, now) /\ [CountersNext]_counterVars => Within'
PROOF
  <1> SUFFICES ASSUME boxes \in Boxings, Len(charges) <= MaxCharges,
                      Kept(counters, charges, now), [CountersNext]_counterVars
               PROVE  boxes' \in Boxings /\ Len(charges') <= MaxCharges
    BY DEF Within
  <1>1. PICK S : charges \in Seq(S) BY DEF Kept, Ledger, Listed
  <1>2. MaxCharges \in Nat /\ now \in Nat BY RateLimitAssumption DEF Kept, Ledger
  <1>3. ASSUME NEW table \in Boxings, NEW b \in Boxes, NEW e \in Entries, NEW ttl \in Ttls
        PROVE  Boxed(table, b, e, ttl) \in Boxings
    BY <1>2, <1>3, RateLimitAssumption DEF Boxed, Boxings
  <1>4. ASSUME NEW c, charges' = Append(charges, c), Len(charges) < MaxCharges
        PROVE  Len(charges') <= MaxCharges
    <2>1. charges \in Seq(S \cup {c}) BY <1>1
    <2>2. QED BY <1>2, <1>4, <2>1, AppendProperties
  <1>5. CASE UNCHANGED <<boxes, charges>> BY <1>5
  <1>6. ASSUME NEW client \in Clients, NEW bare \in Bare, Request(client, bare)
        PROVE  boxes' \in Boxings /\ Len(charges') <= MaxCharges
    <2> DEFINE entry == EntryOf(client, bare)
    <2>1. entry \in Entries BY EntryIsEntry
    <2> HIDE DEF entry
    <2>2. ASSUME NEW rc \in Counters, NEW d \in Deltas, RatecounterIncrement(client, bare, rc, d)
          PROVE  boxes' \in Boxings /\ Len(charges') <= MaxCharges
      BY <1>4, <2>2 DEF RatecounterIncrement
    <2>3. ASSUME NEW rc \in Counters, NEW t \in Thresholds, NEW w \in Windows, NEW d \in Deltas,
                 NEW b \in Boxes, NEW ttl \in Ttls, CheckRate(client, bare, rc, t, w, d, b, ttl)
          PROVE  boxes' \in Boxings /\ Len(charges') <= MaxCharges
      <3>1. Len(charges') <= MaxCharges BY <1>4, <2>3 DEF CheckRate
      <3>2. boxes' = boxes \/ boxes' = Boxed(boxes, b, entry, ttl) BY <2>3 DEF CheckRate, entry
      <3>3. QED BY <1>3, <2>1, <3>1, <3>2
    <2>4. ASSUME NEW rc \in Counters, NEW p \in Pairs, NEW t1 \in Thresholds, NEW t2 \in Thresholds,
                 NEW d \in Deltas, NEW b1 \in Boxes, NEW b2 \in Boxes, NEW ttl \in Ttls,
                 CheckRates(client, bare, rc, t1, p[1], d, b1, t2, p[2], d, b2, ttl)
          PROVE  boxes' \in Boxings /\ Len(charges') <= MaxCharges
      <3>1. /\ Len(charges) + 1 < MaxCharges
            /\ \E x, y : charges' = charges \o <<x, y>>
        BY <2>4 DEF CheckRates
      <3>2. PICK x, y : charges' = charges \o <<x, y>> BY <3>1
      <3>3. charges \in Seq(S \cup {x, y}) /\ <<x, y>> \in Seq(S \cup {x, y}) BY <1>1
      <3>4. Len(charges') = Len(charges) + 2 BY <3>2, <3>3, ConcatProperties
      <3>5. Len(charges') <= MaxCharges BY <1>1, <1>2, <3>1, <3>4
      <3>6. \E table : /\ table = boxes \/ table = Boxed(boxes, b1, entry, ttl)
                       /\ boxes' = table \/ boxes' = Boxed(table, b2, entry, ttl)
        BY <2>4 DEF CheckRates, entry
      <3>7. boxes' \in Boxings BY <1>3, <2>1, <3>6
      <3>8. QED BY <3>5, <3>7
    <2>5. ASSUME NEW b \in Boxes, NEW ttl \in Ttls, PenaltyboxAdd(client, bare, b, ttl)
          PROVE  boxes' \in Boxings /\ Len(charges') <= MaxCharges
      BY <1>3, <2>1, <2>5 DEF PenaltyboxAdd, entry
    <2>6. ASSUME NEW b \in Boxes, PenaltyboxHas(b, EntryOf(client, bare))
          PROVE  boxes' \in Boxings /\ Len(charges') <= MaxCharges
      BY <2>1, <2>6 DEF PenaltyboxHas, Boxings, entry
    <2>7. QED BY <1>6, <2>2, <2>3, <2>4, <2>5, <2>6 DEF Request
  <1>7. QED BY <1>5, <1>6 DEF CountersNext, Tick, counterVars

(* Counters and boxes hold what they are declared to hold, and no counter   *)
(* was reset in the future.                                                 *)
THEOREM CountersTyped == CountersSpec => []CountersTypeOK
PROOF
<1>1. Within /\ Kept(counters, charges, now) => CountersTypeOK
  BY DEF Within, Boxings, Kept, Ledger, Tabled, Counter, CountersTypeOK
<1>2. CountersInit => Within
  BY RateLimitAssumption DEF CountersInit, Within, Boxings
<1>3. QED BY <1>1, <1>2, InitKept, NextKept, BoxesKept, PTL DEF CountersSpec

-----------------------------------------------------------------------------
(* Token buckets.                                                           *)

Bucket == [tokens : Nat, lastRefill : Nat, limit : Nat, window : Nat \ {0}]

Exists(k) == buckets[k] # NoBucket

Types ==
  /\ now \in Nat
  /\ buckets \in [Buckets -> Bucket \cup {NoBucket}]
  /\ \A k \in Buckets : Exists(k) =>
       /\ buckets[k].lastRefill <= now
       /\ buckets[k].tokens <= buckets[k].limit * buckets[k].window
  /\ IsFiniteSet(requested)
  /\ \A q \in requested : q.at \in Nat /\ q.at <= now

(* What was granted of some requests.                                       *)
GrantedOf(some, k, from, to) == {q \in some : q.key = k /\ q.granted /\ q.at \in from .. to}

Count(some, k, from, to) == Cardinality(GrantedOf(some, k, from, to))

(* Nothing was granted since the last refill, or without a bucket.          *)
GrantsAreRefills ==
  \A q \in requested : \A k \in Buckets :
    q.key = k => Exists(k) /\ q.at <= buckets[k].lastRefill

(* What was granted in a span up to the last refill and what is left now    *)
(* came from the limit and what flowed in during the span.                  *)
Conserved ==
  \A k \in Buckets : Exists(k) =>
    LET b == buckets[k]
    IN \A s \in 0 .. b.lastRefill :
         Count(requested, k, s, b.lastRefill) * b.window + b.tokens
           <= b.limit * b.window + (b.lastRefill - s) * b.limit

(* BucketGrantBound, with its operator spelled out.                         *)
Bounded ==
  \A k \in Buckets : Exists(k) =>
    \A s \in 0 .. now : \A t \in s .. now :
      Count(requested, k, s, t) * buckets[k].window
        <= buckets[k].limit * buckets[k].window + (t - s) * buckets[k].limit

Lent == Types /\ GrantsAreRefills /\ Conserved /\ Bounded


-----------------------------------------------------------------------------

(* What a span gains when its end moves on.                                 *)
LEMMA Inflow ==
  ASSUME NEW g \in Nat, NEW w \in Nat, NEW l \in Nat, NEW tokens \in Nat,
         NEW s \in Nat, NEW t \in Nat, NEW u \in Nat, s <= t, t <= u,
         g * w + tokens <= l * w + (t - s) * l
  PROVE  g * w + (tokens + (u - t) * l) <= l * w + (u - s) * l
PROOF
  <1>1. (u - s) * l = (u - t) * l + (t - s) * l OBVIOUS
  <1>2. (u - t) * l \in Nat /\ (t - s) * l \in Nat /\ g * w \in Nat /\ l * w \in Nat OBVIOUS
  <1>3. QED BY <1>1, <1>2

LEMMA CountIsNat ==
  ASSUME NEW some, IsFiniteSet(some), NEW k, NEW s, NEW t
  PROVE  Count(some, k, s, t) \in Nat /\ IsFiniteSet(GrantedOf(some, k, s, t))
PROOF BY FS_Subset, FS_CardinalityType DEF Count, GrantedOf

LEMMA NothingGranted ==
  ASSUME NEW some, NEW k, NEW s, NEW t, GrantedOf(some, k, s, t) = {}
  PROVE  Count(some, k, s, t) = 0
PROOF BY FS_EmptySet DEF Count

LEMMA InitLent == BucketInit => Lent
PROOF
  <1> SUFFICES ASSUME BucketInit PROVE Lent OBVIOUS
  <1>1. \A k \in Buckets : ~Exists(k) BY DEF BucketInit, Exists
  <1>2. IsFiniteSet(requested) BY FS_EmptySet DEF BucketInit
  <1>3. QED
    BY <1>1, <1>2 DEF BucketInit, Lent, Types, Exists, GrantsAreRefills, Conserved, Bounded

LEMMA TickLent == Lent /\ BucketTick => Lent'
PROOF
  <1> SUFFICES ASSUME Lent, BucketTick PROVE Lent' OBVIOUS
  <1>1. now' = now + 1 /\ UNCHANGED <<buckets, requested>> BY DEF BucketTick, Advance
  <1>2. Types'
    <2>1. now \in Nat /\ IsFiniteSet(requested) BY DEF Lent, Types
    <2>2. \A k \in Buckets : Exists(k)' =>
            /\ buckets'[k].lastRefill <= now'
            /\ buckets'[k].tokens <= buckets'[k].limit * buckets'[k].window
      <3> SUFFICES ASSUME NEW k \in Buckets, Exists(k)
                   PROVE  /\ buckets[k].lastRefill <= now + 1
                          /\ buckets[k].tokens <= buckets[k].limit * buckets[k].window
        BY <1>1 DEF Exists
      <3>1. buckets[k].lastRefill \in Nat BY DEF Lent, Types, Exists, Bucket
      <3>2. QED BY <2>1, <3>1 DEF Lent, Types
    <2>3. \A q \in requested : q.at \in Nat /\ q.at <= now + 1 BY <2>1 DEF Lent, Types
    <2>4. QED BY <1>1, <2>1, <2>2, <2>3 DEF Lent, Types
  <1>3. GrantsAreRefills' BY <1>1 DEF Lent, GrantsAreRefills, Exists
  <1>4. Conserved' BY <1>1 DEF Lent, Conserved, Exists
  <1>5. Bounded'
    <2> SUFFICES ASSUME NEW k \in Buckets, Exists(k), NEW s \in 0 .. now + 1, NEW t \in s .. now + 1
                 PROVE  Count(requested, k, s, t) * buckets[k].window
                          <= buckets[k].limit * buckets[k].window + (t - s) * buckets[k].limit
      BY <1>1 DEF Bounded, Exists
    <2>1. now \in Nat /\ buckets[k] \in Bucket BY DEF Lent, Types, Exists
    <2>2. CASE t <= now BY <2>1, <2>2 DEF Lent, Bounded, Exists
    <2>3. CASE t = now + 1 /\ s <= now
      <3>1. GrantedOf(requested, k, s, t) = GrantedOf(requested, k, s, now)
        BY <2>1, <2>3 DEF GrantedOf, Lent, Types
      <3>2. Count(requested, k, s, t) = Count(requested, k, s, now) BY <3>1 DEF Count
      <3>3. Count(requested, k, s, now) * buckets[k].window
              <= buckets[k].limit * buckets[k].window + (now - s) * buckets[k].limit
        BY <2>1, <2>3 DEF Lent, Bounded, Exists
      <3>4. Count(requested, k, s, now) \in Nat BY CountIsNat DEF Lent, Types
      <3>5. (t - s) * buckets[k].limit = (now - s) * buckets[k].limit + buckets[k].limit
        BY <2>1, <2>3 DEF Bucket
      <3>6. /\ Count(requested, k, s, now) * buckets[k].window \in Nat
            /\ buckets[k].limit * buckets[k].window \in Nat
            /\ (now - s) * buckets[k].limit \in Nat
            /\ buckets[k].limit \in Nat
        BY <2>1, <2>3, <3>4 DEF Bucket
      <3>7. QED BY <3>2, <3>3, <3>5, <3>6
    <2>4. CASE s = now + 1
      <3>1. GrantedOf(requested, k, s, t) = {} BY <2>1, <2>4 DEF GrantedOf, Lent, Types
      <3>2. Count(requested, k, s, t) = 0 BY <3>1, NothingGranted
      <3>3. QED BY <2>1, <2>4, <3>2 DEF Bucket
    <2>5. QED BY <2>1, <2>2, <2>3, <2>4
  <1>6. QED BY <1>2, <1>3, <1>4, <1>5 DEF Lent

(* The bucket a call finds, or makes.                                       *)
Found(k, limit, window) ==
  IF buckets[k] = NoBucket
    THEN [tokens |-> limit * window, lastRefill |-> now, limit |-> limit, window |-> window]
    ELSE buckets[k]

LEMMA RefillKeeps ==
  ASSUME NEW b \in Bucket, b.lastRefill <= now, now \in Nat, b.tokens <= b.limit * b.window
  PROVE  /\ Refilled(b) \in Bucket
         /\ Refilled(b).lastRefill = now
         /\ Refilled(b).limit = b.limit /\ Refilled(b).window = b.window
         /\ Refilled(b).tokens <= b.limit * b.window
         /\ Refilled(b).tokens <= b.tokens + (now - b.lastRefill) * b.limit
         /\ \/ Refilled(b).tokens = b.limit * b.window
            \/ Refilled(b).tokens = b.tokens + (now - b.lastRefill) * b.limit
PROOF
  <1>1. b.limit * b.window \in Nat /\ (now - b.lastRefill) * b.limit \in Nat BY DEF Bucket
  <1>2. b.tokens + (now - b.lastRefill) * b.limit \in Nat BY <1>1 DEF Bucket
  <1> DEFINE tokens == b.tokens + (now - b.lastRefill) * b.limit
             full == b.limit * b.window
             capped == IF tokens > full THEN full ELSE tokens
  <1>3. capped \in Nat /\ capped <= full /\ capped <= tokens /\ capped \in {full, tokens} BY <1>1, <1>2
  <1>4. Refilled(b) = [b EXCEPT !.tokens = capped, !.lastRefill = now] BY DEF Refilled
  <1> HIDE DEF capped
  <1>5. /\ Refilled(b) \in Bucket /\ Refilled(b).lastRefill = now /\ Refilled(b).limit = b.limit
        /\ Refilled(b).window = b.window /\ Refilled(b).tokens = capped
    BY <1>3, <1>4 DEF Bucket
  <1>6. QED BY <1>3, <1>5

(* What a call makes of the bucket it finds, and notes.                     *)
Step(k, old, b, left, granted, q0) ==
  /\ buckets' = [buckets EXCEPT ![k] = left] /\ requested' = requested \cup {q0} /\ now' = now
  /\ q0.key = k /\ q0.at = now /\ q0.n = Cardinality(requested) /\ (q0.granted <=> granted)
  /\ old \in Bucket /\ old.lastRefill <= now /\ old.tokens <= old.limit * old.window
  /\ b \in Bucket /\ b.lastRefill = now /\ b.limit = old.limit /\ b.window = old.window
  /\ b.tokens <= old.limit * old.window
  /\ b.tokens <= old.tokens + (now - old.lastRefill) * old.limit
  /\ \/ b.tokens = old.limit * old.window
     \/ b.tokens = old.tokens + (now - old.lastRefill) * old.limit
  /\ left \in Bucket /\ left.lastRefill = now /\ left.limit = b.limit /\ left.window = b.window
  /\ left.tokens <= b.tokens
  /\ granted => b.tokens >= b.window /\ left.tokens = b.tokens - b.window
  /\ ~granted => b.tokens < b.window /\ left.tokens = b.tokens
  /\ Exists(k)'
  /\ \A j \in Buckets : buckets'[j] = IF j = k THEN left ELSE buckets[j]

LEMMA RateLimitSteps ==
  ASSUME NEW k \in Buckets, NEW limit \in Limits, NEW window \in BucketWindows,
         Lent, RateLimit(k, limit, window)
  PROVE  \E b, left, granted, q0 : Step(k, Found(k, limit, window), b, left, granted, q0)
PROOF
  <1> DEFINE old == Found(k, limit, window)
             b == Refilled(old)
             granted == b.tokens >= b.window
             left == IF granted THEN [b EXCEPT !.tokens = @ - b.window] ELSE b
             n == Cardinality(requested)
             q0 == [key |-> k, at |-> now, n |-> n, granted |-> granted]
  <1>1. /\ buckets' = [buckets EXCEPT ![k] = left]
        /\ requested' = requested \cup {q0}
        /\ now' = now
    BY DEF RateLimit, Found
  <1>2. now \in Nat BY DEF Lent, Types
  <1>3. old \in Bucket /\ old.lastRefill <= now /\ old.tokens <= old.limit * old.window
    BY <1>2, TokenBucketAssumption DEF Found, Lent, Types, Exists, Bucket
  <1>4. /\ b \in Bucket /\ b.lastRefill = now
        /\ b.limit = old.limit /\ b.window = old.window
        /\ b.tokens <= old.limit * old.window
        /\ b.tokens <= old.tokens + (now - old.lastRefill) * old.limit
        /\ \/ b.tokens = old.limit * old.window
           \/ b.tokens = old.tokens + (now - old.lastRefill) * old.limit
    BY <1>2, <1>3, RefillKeeps
  <1>5. q0.key = k /\ q0.at = now /\ q0.n = n OBVIOUS
  <1>6. q0.granted <=> granted BY Zenon
  <1> HIDE DEF old, b, q0
  <1>7. /\ left \in Bucket /\ left.lastRefill = now /\ left.limit = b.limit
        /\ left.window = b.window /\ left.tokens <= b.tokens
        /\ granted => left.tokens = b.tokens - b.window
        /\ ~granted => b.tokens < b.window /\ left.tokens = b.tokens
    BY <1>4 DEF Bucket
  <1> HIDE DEF left
  <1>8. left # NoBucket BY <1>7, TokenBucketAssumption DEF Bucket
  <1>9. /\ Exists(k)'
        /\ \A j \in Buckets : buckets'[j] = IF j = k THEN left ELSE buckets[j]
    BY <1>1, <1>8 DEF Exists, Lent, Types
  <1>10. granted => b.tokens >= b.window OBVIOUS
  <1> HIDE DEF granted, n
  <1>11. Step(k, old, b, left, granted, q0)
    BY <1>1, <1>3, <1>4, <1>5, <1>6, <1>7, <1>9, <1>10 DEF Step, n
  <1>12. QED BY <1>11 DEF old

LEMMA RateLimitLent ==
  ASSUME NEW k \in Buckets, NEW limit \in Limits, NEW window \in BucketWindows,
         Lent, RateLimit(k, limit, window)
  PROVE  Lent'
PROOF
  <1> DEFINE old == Found(k, limit, window)
  <1>0. PICK b, left, granted, q0 : Step(k, old, b, left, granted, q0) BY RateLimitSteps
  <1> HIDE DEF old
  <1>1. /\ buckets' = [buckets EXCEPT ![k] = left]
        /\ requested' = requested \cup {q0}
        /\ now' = now
    BY <1>0 DEF Step
  <1>2. now \in Nat /\ IsFiniteSet(requested) /\ IsFiniteSet(requested')
    BY <1>1, FS_AddElement DEF Lent, Types
  <1>3. old \in Bucket /\ old.lastRefill <= now /\ old.tokens <= old.limit * old.window
    BY <1>0 DEF Step
  <1>4. /\ b \in Bucket /\ b.lastRefill = now
        /\ b.limit = old.limit /\ b.window = old.window
        /\ b.tokens <= old.limit * old.window
        /\ b.tokens <= old.tokens + (now - old.lastRefill) * old.limit
    BY <1>0 DEF Step
  <1>5. /\ left \in Bucket /\ left.lastRefill = now /\ left.limit = b.limit
        /\ left.window = b.window /\ left.tokens <= b.tokens
        /\ granted => left.tokens = b.tokens - b.window
        /\ ~granted => left.tokens = b.tokens
    BY <1>0 DEF Step
  <1>6. /\ q0.key = k /\ q0.at = now /\ (q0.granted <=> granted)
    BY <1>0 DEF Step
  <1>7. /\ Exists(k)' /\ buckets'[k] = left
        /\ \A j \in Buckets \ {k} : buckets'[j] = buckets[j]
    BY <1>0 DEF Step
  <1>8. Types'
    <2>1. left.tokens <= left.limit * left.window
      BY <1>3, <1>4, <1>5 DEF Bucket
    <2>2. buckets' \in [Buckets -> Bucket \cup {NoBucket}] BY <1>1, <1>5 DEF Lent, Types
    <2>3. \A j \in Buckets : Exists(j)' =>
             /\ buckets'[j].lastRefill <= now'
             /\ buckets'[j].tokens <= buckets'[j].limit * buckets'[j].window
      BY <1>1, <1>2, <1>5, <1>7, <2>1 DEF Lent, Types, Exists
    <2>4. QED BY <1>1, <1>2, <1>6, <2>2, <2>3 DEF Lent, Types
  <1>9. GrantsAreRefills'
    BY <1>1, <1>2, <1>5, <1>6, <1>7 DEF Lent, Types, GrantsAreRefills, Exists
  <1>10. ASSUME NEW s \in 0 .. now
         PROVE  Count(requested, k, s, now) * b.window + b.tokens
                  <= b.limit * b.window + (now - s) * b.limit
    <2>1. CASE Exists(k) /\ s <= buckets[k].lastRefill
      <3>1. old = buckets[k] BY <2>1 DEF old, Found, Exists
      <3>2. GrantedOf(requested, k, s, now) = GrantedOf(requested, k, s, old.lastRefill)
        BY <1>2, <1>3, <2>1, <3>1 DEF GrantedOf, Lent, GrantsAreRefills, Bucket, Types
      <3>3. Count(requested, k, s, now) = Count(requested, k, s, old.lastRefill) BY <3>2 DEF Count
      <3>4. Count(requested, k, s, now) * old.window + old.tokens
              <= old.limit * old.window + (old.lastRefill - s) * old.limit
        BY <1>3, <2>1, <3>1, <3>3 DEF Lent, Conserved, Exists, Bucket
      <3>5. Count(requested, k, s, now) \in Nat BY <1>2, CountIsNat
      <3>6. Count(requested, k, s, now) * old.window + (old.tokens + (now - old.lastRefill) * old.limit)
              <= old.limit * old.window + (now - s) * old.limit
        BY <1>2, <1>3, <2>1, <3>1, <3>4, <3>5, Inflow DEF Bucket
      <3>7. /\ Count(requested, k, s, now) * old.window \in Nat /\ b.tokens \in Nat
            /\ old.tokens + (now - old.lastRefill) * old.limit \in Nat
            /\ old.limit * old.window + (now - s) * old.limit \in Nat
        BY <1>2, <1>3, <1>4, <3>5 DEF Bucket
      <3>8. QED BY <1>4, <3>6, <3>7
    <2>2. CASE ~(Exists(k) /\ s <= buckets[k].lastRefill)
      <3>1. GrantedOf(requested, k, s, now) = {}
        BY <1>2, <2>2 DEF GrantedOf, Lent, GrantsAreRefills, Types, Exists, Bucket
      <3>2. Count(requested, k, s, now) = 0 BY <3>1, NothingGranted
      <3>3. (now - s) * b.limit \in Nat /\ b.limit * b.window \in Nat /\ b.tokens \in Nat
        BY <1>2, <1>4 DEF Bucket
      <3>4. 0 * b.window = 0 BY <1>4 DEF Bucket
      <3>5. QED BY <1>4, <3>2, <3>3, <3>4
    <2>3. QED BY <2>1, <2>2
  <1>11. ASSUME NEW j, NEW s \in Nat, NEW t \in Nat, j # k \/ t < now
         PROVE  Count(requested', j, s, t) = Count(requested, j, s, t)
    <2>1. GrantedOf(requested', j, s, t) = GrantedOf(requested, j, s, t) BY <1>1, <1>2, <1>6, <1>11 DEF GrantedOf
    <2>2. QED BY <2>1 DEF Count
  <1>12. ASSUME NEW s \in 0 .. now
         PROVE  Count(requested', k, s, now) * left.window + left.tokens
                  <= left.limit * left.window + (now - s) * left.limit
    <2>1. Count(requested, k, s, now) \in Nat /\ IsFiniteSet(GrantedOf(requested, k, s, now)) BY <1>2, CountIsNat
    <2>2. CASE granted
      <3>1. GrantedOf(requested', k, s, now) = GrantedOf(requested, k, s, now) \cup {q0}
        <4>1. q0.granted BY <1>6, <2>2, Zenon
        <4>2. q0.key = k /\ q0.at \in s .. now BY <1>2, <1>6
        <4>3. QED BY <1>1, <4>1, <4>2, Zenon DEF GrantedOf
      <3>2. Count(requested', k, s, now) = Cardinality(GrantedOf(requested, k, s, now) \cup {q0})
        BY <3>1 DEF Count
      <3>3. Count(requested, k, s, now) = Cardinality(GrantedOf(requested, k, s, now)) BY DEF Count
      <3>4. Count(requested', k, s, now) \in {Count(requested, k, s, now), Count(requested, k, s, now) + 1}
        BY <2>1, <3>2, <3>3, FS_AddElement
      <3>5. Count(requested', k, s, now) * b.window <= Count(requested, k, s, now) * b.window + b.window
        BY <1>4, <2>1, <3>4 DEF Bucket
      <3>6. left.tokens = b.tokens - b.window BY <1>5, <2>2
      <3>7. /\ Count(requested', k, s, now) * b.window \in Nat /\ Count(requested, k, s, now) * b.window \in Nat
            /\ b.window \in Nat /\ b.tokens \in Nat
            /\ b.limit * b.window + (now - s) * b.limit \in Nat
        BY <1>2, <1>4, <2>1, <3>4 DEF Bucket
      <3>8. QED BY <1>5, <1>10, <3>5, <3>6, <3>7
    <2>3. CASE ~granted
      <3>1. GrantedOf(requested', k, s, now) = GrantedOf(requested, k, s, now)
        <4>1. ~q0.granted BY <1>6, <2>3
        <4>2. QED BY <1>1, <4>1, Zenon DEF GrantedOf
      <3>2. Count(requested', k, s, now) = Count(requested, k, s, now) BY <3>1 DEF Count
      <3>3. QED BY <1>5, <1>10, <2>3, <3>2
    <2>4. QED BY <2>2, <2>3
  <1>13. Conserved'
    <2> SUFFICES ASSUME NEW j \in Buckets, Exists(j)', NEW s \in 0 .. buckets'[j].lastRefill
                 PROVE  Count(requested', j, s, buckets'[j].lastRefill) * buckets'[j].window
                          + buckets'[j].tokens
                          <= buckets'[j].limit * buckets'[j].window
                               + (buckets'[j].lastRefill - s) * buckets'[j].limit
      BY DEF Conserved
    <2>1. CASE j = k BY <1>5, <1>7, <1>12, <2>1
    <2>2. CASE j # k
      <3>1. Exists(j) /\ buckets'[j] = buckets[j] /\ buckets[j].lastRefill \in Nat
        BY <1>7, <2>2 DEF Exists, Lent, Types, Bucket
      <3>2. s \in Nat BY <3>1
      <3>3. Count(requested', j, s, buckets[j].lastRefill) = Count(requested, j, s, buckets[j].lastRefill)
        BY <1>11, <2>2, <3>1, <3>2
      <3>4. QED BY <3>1, <3>3 DEF Lent, Conserved
    <2>3. QED BY <2>1, <2>2
  <1>14. Bounded'
    <2> SUFFICES ASSUME NEW j \in Buckets, Exists(j)', NEW s \in 0 .. now, NEW t \in s .. now
                 PROVE  Count(requested', j, s, t) * buckets'[j].window
                          <= buckets'[j].limit * buckets'[j].window
                               + (t - s) * buckets'[j].limit
      BY <1>1 DEF Bounded, Exists
    <2>1. s \in Nat /\ t \in Nat /\ s <= t BY <1>2
    <2>2. CASE j # k
      <3>1. Exists(j) /\ buckets'[j] = buckets[j] BY <1>7, <2>2 DEF Exists
      <3>2. QED BY <1>11, <2>1, <2>2, <3>1 DEF Lent, Bounded, Exists
    <2>3. CASE j = k /\ t = now
      <3>1. Count(requested', k, s, now) * left.window + left.tokens
              <= left.limit * left.window + (now - s) * left.limit
        BY <1>12
      <3>2. Count(requested', k, s, now) \in Nat BY <1>2, CountIsNat
      <3>3. /\ Count(requested', k, s, now) * left.window \in Nat /\ left.tokens \in Nat
            /\ left.limit * left.window + (now - s) * left.limit \in Nat
        BY <1>2, <1>5, <3>2 DEF Bucket
      <3>4. QED BY <1>7, <2>3, <3>1, <3>3
    <2>4. CASE j = k /\ t < now
      <3>1. Count(requested', k, s, t) = Count(requested, k, s, t) BY <1>11, <2>1, <2>4
      <3>2. CASE Exists(k)
        <4>1. left.limit = buckets[k].limit /\ left.window = buckets[k].window
          BY <1>4, <1>5, <3>2 DEF old, Found, Exists
        <4>2. QED BY <1>7, <2>1, <2>4, <3>1, <3>2, <4>1 DEF Lent, Bounded, Exists
      <3>3. CASE ~Exists(k)
        <4>1. GrantedOf(requested, k, s, t) = {} BY <3>3 DEF GrantedOf, Lent, GrantsAreRefills
        <4>2. Count(requested, k, s, t) = 0 BY <4>1, NothingGranted
        <4>3. (t - s) * left.limit \in Nat /\ left.limit * left.window \in Nat
              /\ 0 * left.window = 0
          BY <1>5, <2>1 DEF Bucket
        <4>4. QED BY <1>7, <2>4, <3>1, <4>2, <4>3
      <3>4. QED BY <3>2, <3>3
    <2>5. QED BY <1>2, <2>1, <2>2, <2>3, <2>4
  <1>15. QED BY <1>8, <1>9, <1>13, <1>14 DEF Lent

LEMMA NextLent == Lent /\ [BucketNext]_bucketVars => Lent'
PROOF
  <1> SUFFICES ASSUME Lent, [BucketNext]_bucketVars PROVE Lent' OBVIOUS
  <1>1. ASSUME NEW k \in Buckets, NEW limit \in Limits, NEW window \in BucketWindows,
               RateLimit(k, limit, window)
        PROVE  Lent'
    BY <1>1, RateLimitLent
  <1>2. CASE BucketTick BY <1>2, TickLent
  <1>3. CASE UNCHANGED bucketVars
    BY <1>3 DEF bucketVars, Lent, Types, Exists, GrantsAreRefills, Conserved, Bounded
  <1>4. QED BY <1>1, <1>2, <1>3 DEF BucketNext

(* In any span a key is granted at most its limit and what flows in during  *)
(* that span (waf.rate_limit).                                              *)
THEOREM GrantsAreBounded == BucketSpec => []BucketGrantBound
PROOF
<1>1. Lent => BucketGrantBound
  BY DEF Lent, Bounded, BucketGrantBound, Exists, Granted, Count, GrantedOf
<1>2. QED BY <1>1, InitLent, NextLent, PTL DEF BucketSpec

(* A bucket holds at most its limit, and was not refilled in the future.    *)
THEOREM BucketTypes == BucketSpec => []BucketTypeOK
PROOF
<1>1. Lent => BucketTypeOK
  <2> SUFFICES ASSUME Lent, NEW k \in Buckets, Exists(k)
               PROVE  /\ buckets[k].tokens \in 0 .. buckets[k].limit * buckets[k].window
                      /\ buckets[k].lastRefill \in 0 .. now
    BY DEF BucketTypeOK, Exists
  <2>1. buckets[k] \in Bucket BY DEF Lent, Types, Exists
  <2>2. buckets[k].limit * buckets[k].window \in Nat BY <2>1 DEF Bucket
  <2>3. QED BY <2>1, <2>2 DEF Lent, Types, Bucket, Exists
<1>2. QED BY <1>1, InitLent, NextLent, PTL DEF BucketSpec

-----------------------------------------------------------------------------
(* No token is withheld.                                                    *)

(* The requests are numbered, so that no two are the same.                  *)
Numbered ==
  \A q \in requested : q.key \in Buckets /\ q.n \in Nat /\ q.n < Cardinality(requested)

(* What flowed in lately is still there, or was granted since.              *)
Due ==
  \A k \in Buckets : Exists(k) =>
    LET b == buckets[k]
    IN \A s \in b.lastRefill - b.window .. b.lastRefill :
         (b.lastRefill - s) * b.limit <= Count(requested, k, s, b.lastRefill) * b.window + b.tokens

(* BucketDeniedForCause, with its operator spelled out.                     *)
Denials ==
  \A q \in requested : ~q.granted =>
    buckets[q.key].limit <= Count(requested, q.key, q.at - buckets[q.key].window, q.at)

NotWithheld == Numbered /\ Due /\ Denials

(* What was due before a refill is due after it.                            *)
LEMMA StillDue ==
  ASSUME NEW g \in Nat, NEW w \in Nat, NEW l \in Nat, NEW before \in Nat, NEW after \in Nat,
         NEW r \in Nat, NEW t \in Nat, NEW s \in Int, r <= t, s <= t, t - s <= w,
         after = l * w \/ after = before + (t - r) * l,
         s <= r => (r - s) * l <= g * w + before
  PROVE  (t - s) * l <= g * w + after
PROOF
  <1>1. t - s \in Nat /\ t - r \in Nat /\ w - (t - s) \in Nat OBVIOUS
  <1>2. g * w \in Nat /\ l * w \in Nat /\ (t - s) * l \in Nat /\ (t - r) * l \in Nat
        /\ (w - (t - s)) * l \in Nat
    BY <1>1
  <1>3. CASE after = l * w
    <2>1. l * w = (t - s) * l + (w - (t - s)) * l BY <1>1
    <2>2. QED BY <1>2, <1>3, <2>1
  <1>4. CASE after = before + (t - r) * l /\ s <= r
    <2>1. r - s \in Nat /\ (r - s) * l \in Nat BY <1>4
    <2>2. (t - s) * l = (t - r) * l + (r - s) * l BY <1>1, <2>1
    <2>3. QED BY <1>2, <1>4, <2>1, <2>2
  <1>5. CASE after = before + (t - r) * l /\ s > r
    <2>1. s - r \in Nat /\ (s - r) * l \in Nat BY <1>5
    <2>2. (t - r) * l = (t - s) * l + (s - r) * l BY <1>1, <2>1
    <2>3. QED BY <1>2, <1>5, <2>1, <2>2
  <1>6. QED BY <1>3, <1>4, <1>5

LEMMA WholeLimit ==
  ASSUME NEW g \in Nat, NEW w \in Nat, NEW l \in Nat, NEW tokens \in Nat,
         tokens < w, w * l <= g * w + tokens
  PROVE  l <= g
PROOF
  <1> SUFFICES ASSUME g + 1 <= l PROVE FALSE OBVIOUS
  <1>1. l - (g + 1) \in Nat /\ w * (l - (g + 1)) \in Nat /\ g * w \in Nat OBVIOUS
  <1>2. w * l = w * (g + 1) + w * (l - (g + 1)) BY <1>1
  <1>3. w * (g + 1) = g * w + w OBVIOUS
  <1>4. QED BY <1>1, <1>2, <1>3

LEMMA RateLimitNotWithheld ==
  ASSUME NEW k \in Buckets, NEW limit \in Limits, NEW window \in BucketWindows,
         Lent, NotWithheld, RateLimit(k, limit, window)
  PROVE  NotWithheld'
PROOF
  <1> DEFINE old == Found(k, limit, window)
             n == Cardinality(requested)
  <1>1. PICK b, left, granted, q0 : Step(k, old, b, left, granted, q0) BY RateLimitSteps
  <1>2. Exists(k) => old = buckets[k] BY DEF Found, Exists
  <1>3. ~Exists(k) => old.tokens = old.limit * old.window /\ old.lastRefill = now
    <2>1. ~Exists(k) => old = [tokens |-> limit * window, lastRefill |-> now,
                               limit |-> limit, window |-> window]
      BY DEF Found, Exists
    <2>2. QED BY <2>1
  <1> HIDE DEF old
  <1>4. requested' = requested \cup {q0} /\ now' = now
        /\ q0.key = k /\ q0.at = now /\ q0.n = n /\ (q0.granted <=> granted)
    BY <1>1 DEF Step
  <1>5. now \in Nat /\ IsFiniteSet(requested) /\ n \in Nat
        /\ \A q \in requested : q.at \in Nat /\ q.at <= now
    BY FS_CardinalityType DEF Lent, Types
  <1>6. q0 \notin requested BY <1>4, <1>5 DEF NotWithheld, Numbered
  <1>7. Cardinality(requested') = n + 1 /\ IsFiniteSet(requested')
    BY <1>4, <1>5, <1>6, FS_AddElement
  <1>8. Numbered'
    <2>1. \A q \in requested' : q.key \in Buckets /\ q.n \in Nat /\ q.n < n + 1
      BY <1>4, <1>5 DEF NotWithheld, Numbered
    <2>2. QED BY <1>7, <2>1 DEF Numbered
  <1>9. /\ old \in Bucket /\ old.lastRefill <= now /\ old.tokens <= old.limit * old.window
        /\ b \in Bucket /\ b.lastRefill = now /\ b.limit = old.limit /\ b.window = old.window
        /\ \/ b.tokens = old.limit * old.window
           \/ b.tokens = old.tokens + (now - old.lastRefill) * old.limit
        /\ left \in Bucket /\ left.lastRefill = now /\ left.limit = b.limit
        /\ left.window = b.window
    BY <1>1 DEF Step
  <1>10. ASSUME NEW s \in now - b.window .. now
         PROVE  (now - s) * b.limit <= Count(requested, k, s, now) * b.window + b.tokens
    <2> DEFINE g == Count(requested, k, s, now)
    <2>1. g \in Nat BY <1>5, CountIsNat
    <2>2. s <= old.lastRefill => (old.lastRefill - s) * old.limit <= g * old.window + old.tokens
      <3> SUFFICES ASSUME s <= old.lastRefill
                   PROVE  (old.lastRefill - s) * old.limit <= g * old.window + old.tokens
        OBVIOUS
      <3>1. CASE Exists(k)
        <4>1. GrantedOf(requested, k, s, now) = GrantedOf(requested, k, s, old.lastRefill)
          BY <1>2, <1>5, <1>9, <3>1 DEF GrantedOf, Lent, GrantsAreRefills, Bucket
        <4>2. g = Count(requested, k, s, old.lastRefill) BY <4>1 DEF Count
        <4>3. s \in old.lastRefill - old.window .. old.lastRefill
          BY <1>5, <1>9 DEF Bucket
        <4>4. QED BY <1>2, <3>1, <4>2, <4>3 DEF NotWithheld, Due
      <3>2. CASE ~Exists(k)
        <4>1. now - s \in Nat /\ old.window - (now - s) \in Nat BY <1>5, <1>9, <1>3, <3>2 DEF Bucket
        <4>2. old.window * old.limit = (now - s) * old.limit + (old.window - (now - s)) * old.limit
          BY <1>9, <4>1 DEF Bucket
        <4>3. (now - s) * old.limit \in Nat /\ (old.window - (now - s)) * old.limit \in Nat
              /\ g * old.window \in Nat /\ old.limit * old.window = old.window * old.limit
          BY <1>9, <2>1, <4>1 DEF Bucket
        <4>4. QED BY <1>3, <3>2, <4>2, <4>3
      <3>3. QED BY <3>1, <3>2
    <2> HIDE DEF g
    <2>3. now - s <= old.window /\ s <= now /\ s \in Int BY <1>5, <1>9 DEF Bucket
    <2>4. old.window \in Nat /\ old.limit \in Nat /\ old.tokens \in Nat /\ b.tokens \in Nat
          /\ old.lastRefill \in Nat
      BY <1>9 DEF Bucket
    <2>5. (now - s) * old.limit <= g * old.window + b.tokens
      BY <1>5, <1>9, <2>1, <2>2, <2>3, <2>4, StillDue
    <2>6. QED BY <1>9, <2>5 DEF g
  <1>11. ASSUME NEW j, NEW s \in Int, NEW t \in Nat, ~granted \/ j # k \/ t < now
         PROVE  Count(requested', j, s, t) = Count(requested, j, s, t)
    <2>1. GrantedOf(requested', j, s, t) = GrantedOf(requested, j, s, t)
      <3>1. ASSUME q0.key = j, q0.at \in s .. t PROVE ~q0.granted
        BY <1>4, <1>5, <1>11, <3>1
      <3>2. QED BY <1>4, <3>1, Zenon DEF GrantedOf
    <2>2. QED BY <2>1 DEF Count
  <1>12. ASSUME NEW s \in now - b.window .. now
         PROVE  (now - s) * left.limit <= Count(requested', k, s, now) * left.window + left.tokens
    <2>1. Count(requested, k, s, now) \in Nat /\ IsFiniteSet(GrantedOf(requested, k, s, now))
      BY <1>5, CountIsNat
    <2>2. CASE granted
      <3>1. GrantedOf(requested', k, s, now) = GrantedOf(requested, k, s, now) \cup {q0}
        <4>1. q0.granted BY <1>4, <2>2, Zenon
        <4>2. q0.key = k /\ q0.at \in s .. now BY <1>4, <1>5, <1>9 DEF Bucket
        <4>3. QED BY <1>4, <4>1, <4>2, Zenon DEF GrantedOf
      <3>2. q0 \notin GrantedOf(requested, k, s, now) BY <1>6 DEF GrantedOf
      <3>3. Count(requested', k, s, now) = Count(requested, k, s, now) + 1
        BY <2>1, <3>1, <3>2, FS_AddElement DEF Count
      <3>4. left.tokens = b.tokens - b.window BY <1>1, <2>2 DEF Step
      <3>5. (Count(requested, k, s, now) + 1) * b.window
              = Count(requested, k, s, now) * b.window + b.window
        BY <1>9, <2>1 DEF Bucket
      <3>6. /\ Count(requested, k, s, now) * b.window \in Nat /\ b.window \in Nat
            /\ b.tokens \in Nat
        BY <1>9, <2>1 DEF Bucket
      <3>7. QED BY <1>9, <1>10, <3>3, <3>4, <3>5, <3>6
    <2>3. CASE ~granted
      <3>1. left.tokens = b.tokens BY <1>1, <2>3 DEF Step
      <3>2. s \in Int BY <1>5, <1>9 DEF Bucket
      <3>3. Count(requested', k, s, now) = Count(requested, k, s, now) BY <1>5, <1>11, <2>3, <3>2
      <3>4. QED BY <1>9, <1>10, <3>1, <3>3
    <2>4. QED BY <2>2, <2>3
  <1>13. Exists(k)' /\ buckets'[k] = left
         /\ \A j \in Buckets : j # k => buckets'[j] = buckets[j]
    BY <1>1 DEF Step
  <1>14. Due'
    <2> SUFFICES ASSUME NEW j \in Buckets, Exists(j)',
                        NEW s \in buckets'[j].lastRefill - buckets'[j].window .. buckets'[j].lastRefill
                 PROVE  (buckets'[j].lastRefill - s) * buckets'[j].limit
                          <= Count(requested', j, s, buckets'[j].lastRefill) * buckets'[j].window
                               + buckets'[j].tokens
      BY DEF Due
    <2>1. CASE j = k BY <1>9, <1>12, <1>13, <2>1
    <2>2. CASE j # k
      <3>1. Exists(j) /\ buckets'[j] = buckets[j] BY <1>13, <2>2 DEF Exists
      <3>2. buckets[j] \in Bucket BY <3>1 DEF Lent, Types, Exists
      <3>3. s \in Int /\ buckets[j].lastRefill \in Nat BY <3>1, <3>2 DEF Bucket
      <3>4. Count(requested', j, s, buckets[j].lastRefill) = Count(requested, j, s, buckets[j].lastRefill)
        BY <1>11, <2>2, <3>3
      <3>5. QED BY <3>1, <3>4 DEF NotWithheld, Due
    <2>3. QED BY <2>1, <2>2
  <1>15. Denials'
    <2> SUFFICES ASSUME NEW q \in requested', ~q.granted
                 PROVE  buckets'[q.key].limit
                          <= Count(requested', q.key, q.at - buckets'[q.key].window, q.at)
      BY DEF Denials
    <2>1. CASE q = q0
      <3>1. ~granted BY <1>4, <2>1
      <3>2. b.tokens < b.window BY <1>1, <3>1 DEF Step
      <3> DEFINE s == now - b.window
                 g == Count(requested, k, s, now)
      <3>3. s \in now - b.window .. now /\ s \in Int /\ now - s = b.window BY <1>5, <1>9 DEF Bucket
      <3>4. g \in Nat BY <1>5, CountIsNat
      <3>5. b.window * b.limit <= g * b.window + b.tokens BY <1>10, <3>3
      <3>6. Count(requested', k, s, now) = g BY <1>5, <1>11, <3>1, <3>3
      <3> HIDE DEF g
      <3>7. b.limit <= g BY <1>9, <3>2, <3>4, <3>5, WholeLimit DEF Bucket
      <3>8. QED BY <1>4, <1>9, <1>13, <2>1, <3>6, <3>7
    <2>2. CASE q \in requested
      <3>1. q.key \in Buckets BY <2>2 DEF NotWithheld, Numbered
      <3>2. Exists(q.key) BY <2>2, <3>1 DEF Lent, GrantsAreRefills
      <3>3. buckets'[q.key].limit = buckets[q.key].limit /\ buckets'[q.key].window = buckets[q.key].window
        <4>1. CASE q.key = k BY <1>2, <1>9, <1>13, <3>2, <4>1
        <4>2. CASE q.key # k BY <1>13, <3>1, <4>2
        <4>3. QED BY <4>1, <4>2
      <3>4. buckets[q.key] \in Bucket BY <3>1, <3>2 DEF Lent, Types, Exists
      <3> DEFINE s == q.at - buckets[q.key].window
      <3>5. s \in Int /\ q.at \in Nat BY <1>5, <2>2, <3>4 DEF Bucket
      <3>6. buckets[q.key].limit <= Count(requested, q.key, s, q.at) BY <2>2 DEF NotWithheld, Denials
      <3> HIDE DEF s
      <3>7. GrantedOf(requested, q.key, s, q.at) \subseteq GrantedOf(requested', q.key, s, q.at)
        BY <1>4 DEF GrantedOf
      <3>8. IsFiniteSet(GrantedOf(requested', q.key, s, q.at)) BY <1>7, FS_Subset DEF GrantedOf
      <3>9. Count(requested, q.key, s, q.at) <= Count(requested', q.key, s, q.at)
        BY <3>7, <3>8, FS_Subset DEF Count
      <3>10. Count(requested, q.key, s, q.at) \in Nat /\ Count(requested', q.key, s, q.at) \in Nat
        BY <1>5, <1>7, CountIsNat
      <3>11. buckets[q.key].limit \in Nat BY <3>4 DEF Bucket
      <3>12. QED BY <3>3, <3>6, <3>9, <3>10, <3>11 DEF s
    <2>3. QED BY <1>4, <2>1, <2>2
  <1>16. QED BY <1>8, <1>14, <1>15 DEF NotWithheld

(* A request is turned away only when the whole limit was granted within    *)
(* the last window (waf.rate_limit).                                        *)
THEOREM DenialsAreJust == BucketSpec => []BucketDeniedForCause
PROOF
<1>1. BucketInit => NotWithheld
  BY DEF BucketInit, NotWithheld, Numbered, Due, Denials, Exists
<1>2. Lent /\ NotWithheld /\ [BucketNext]_bucketVars => NotWithheld'
  <2> SUFFICES ASSUME Lent, NotWithheld, [BucketNext]_bucketVars PROVE NotWithheld' OBVIOUS
  <2>1. ASSUME NEW k \in Buckets, NEW limit \in Limits, NEW window \in BucketWindows,
               RateLimit(k, limit, window)
        PROVE  NotWithheld'
    BY <2>1, RateLimitNotWithheld
  <2>2. CASE UNCHANGED <<buckets, requested>>
    BY <2>2 DEF NotWithheld, Numbered, Due, Denials, Exists
  <2>3. QED BY <2>1, <2>2 DEF BucketNext, BucketTick, bucketVars
<1>3. NotWithheld => BucketDeniedForCause
  <2> SUFFICES ASSUME NotWithheld, NEW q \in requested, ~q.granted
               PROVE  Granted(q.key, q.at - buckets[q.key].window, q.at) >= buckets[q.key].limit
    BY DEF BucketDeniedForCause
  <2>1. buckets[q.key].limit <= Count(requested, q.key, q.at - buckets[q.key].window, q.at)
    BY DEF NotWithheld, Denials
  <2>2. QED BY <2>1 DEF Count, Granted, GrantedOf
<1>4. QED BY <1>1, <1>2, <1>3, InitLent, NextLent, PTL DEF BucketSpec

-----------------------------------------------------------------------------
(* The variables of requests, which each step changes at one request only.  *)
Tabulated ==
  /\ DOMAIN pc = Requests /\ DOMAIN asked = Requests /\ DOMAIN current = Requests
  /\ DOMAIN response = Requests /\ DOMAIN beresp = Requests
  /\ DOMAIN obj = Requests /\ DOMAIN lost = Requests

(* The history of a pass: nobody was asked, the current backend was, or     *)
(* another one before it.                                                   *)
AskedNone(r) == asked[r] = <<>>
AskedOne(r)  == asked[r] = <<current[r]>>
AskedTwo(r)  ==
  \E first : /\ asked[r] = <<first, current[r]>>
             /\ first.name # current[r].name
             /\ response[r].from = first \/ response[r].from = current[r]

(* What the place of a request tells of its pass.                           *)
PlaceTells(r) ==
  \/ pc[r] \in {"idle", "recv"} /\ AskedNone(r) /\ lost[r] = FALSE
  \/ pc[r] = "sent" /\ AskedOne(r) /\ lost[r] = FALSE
  \/ pc[r] = "fallback" /\ AskedTwo(r) /\ lost[r] = FALSE
  \/ /\ pc[r] \in {"body", "fetch"}
     /\ AskedOne(r) \/ AskedTwo(r)
     /\ ~lost[r] => response[r].from = current[r]
     /\ pc[r] = "fetch" => beresp[r] = current[r].name
  \/ /\ pc[r] = "failed"
     /\ AskedNone(r) \/ ((AskedOne(r) \/ AskedTwo(r)) /\ obj[r] = "gateway")
  \/ pc[r] = "done" /\ (AskedNone(r) \/ AskedOne(r) \/ AskedTwo(r))

PassIInv == Tabulated /\ \A r \in Requests : PlaceTells(r)

(* What PlaceTells(r) is about.                                             *)
OfRequest(r) ==
  <<pc[r], asked[r], current[r], response[r], beresp[r], obj[r], lost[r]>>

-----------------------------------------------------------------------------

LEMMA SameRequest == \A r \in Requests : PlaceTells(r) /\ UNCHANGED OfRequest(r) => PlaceTells(r)'
PROOF BY DEF PlaceTells, OfRequest, AskedNone, AskedOne, AskedTwo

LEMMA InitPasses == Init => PassIInv
PROOF BY DEF Init, PassIInv, Tabulated, PlaceTells, AskedNone

(* Whose request it is not keeps what it has.                               *)
LEMMA OnlyOwn ==
  ASSUME NEW r \in Requests, PassIInv, Tabulated', PlaceTells(r)',
         \A q \in Requests \ {r} : UNCHANGED OfRequest(q)
  PROVE  PassIInv'
PROOF BY SameRequest DEF PassIInv

LEMMA Appended ==
  \A a, b : Append(<<>>, b) = <<b>> /\ Append(<<a>>, b) = <<a, b>>
PROOF
  <1> SUFFICES ASSUME NEW a, NEW b PROVE Append(<<>>, b) = <<b>> /\ Append(<<a>>, b) = <<a, b>>
    OBVIOUS
  <1>1. <<>> \in Seq({a, b}) /\ <<a>> \in Seq({a, b}) OBVIOUS
  <1>2. b \in {a, b} OBVIOUS
  <1>3. /\ Append(<<>>, b) \in Seq({a, b}) /\ Append(<<a>>, b) \in Seq({a, b})
        /\ Len(Append(<<>>, b)) = 1 /\ Append(<<>>, b)[1] = b
        /\ Len(Append(<<a>>, b)) = 2 /\ Append(<<a>>, b)[1] = a /\ Append(<<a>>, b)[2] = b
    BY <1>1, <1>2, AppendProperties
  <1>4. <<b>> \in Seq({a, b}) /\ <<a, b>> \in Seq({a, b}) OBVIOUS
  <1>5. Append(<<>>, b) = <<b>> BY <1>3, <1>4, SeqEqual
  <1>6. Append(<<a>>, b) = <<a, b>> 
    <2>1. Len(<<a, b>>) = 2 OBVIOUS
    <2>2. \A i \in 1 .. 2 : Append(<<a>>, b)[i] = <<a, b>>[i] BY <1>3
    <2>3. QED BY <1>3, <1>4, <2>1, <2>2, SeqEqual
  <1>7. QED BY <1>5, <1>6

LEMMA NewPassTells ==
  ASSUME NEW r \in Requests, PassIInv, NewPass(r)
  PROVE  PassIInv'
PROOF
  <1> USE DEF NewPass
  <1>1. Tabulated' BY DEF PassIInv, Tabulated
  <1>2. PlaceTells(r)' BY DEF PassIInv, Tabulated, PlaceTells, AskedNone
  <1>3. \A q \in Requests \ {r} : UNCHANGED OfRequest(q) BY DEF PassIInv, Tabulated, OfRequest
  <1>4. QED BY <1>1, <1>2, <1>3, OnlyOwn

LEMMA CaughtTells ==
  ASSUME NEW r \in Requests, PassIInv, Caught(r), pc[r] \in {"sent", "body"}
  PROVE  PassIInv'
PROOF
  <1> USE DEF Caught
  <1>1. Tabulated' BY DEF PassIInv, Tabulated
  <1>2. PlaceTells(r)'
    BY DEF PassIInv, Tabulated, PlaceTells, AskedNone, AskedOne, AskedTwo
  <1>3. \A q \in Requests \ {r} : UNCHANGED OfRequest(q) BY DEF PassIInv, Tabulated, OfRequest
  <1>4. QED BY <1>1, <1>2, <1>3, OnlyOwn

LEMMA RouteTells ==
  ASSUME NEW r \in Requests, PassIInv, Route(r)
  PROVE  PassIInv'
PROOF
  <1>1. AskedNone(r) /\ pc[r] = "recv" BY DEF Route, PassIInv, PlaceTells
  <1>2. PICK b \in Routes(r) :
          IF b # Throws /\ IsHealthy(r, b.name)
            THEN Ask(r, b) /\ pc' = [pc EXCEPT ![r] = "sent"]
            ELSE /\ current' = [current EXCEPT ![r] = IF b = Throws THEN @ ELSE b]
                 /\ pc' = [pc EXCEPT ![r] = "failed"]
                 /\ UNCHANGED <<asked, thread>>
    BY DEF Route
  <1>3. UNCHANGED <<response, beresp, obj, lost>> BY DEF Route
  <1>4. Tabulated' BY <1>2, <1>3 DEF PassIInv, Tabulated, Ask
  <1>5. \A q \in Requests \ {r} : UNCHANGED OfRequest(q)
    BY <1>2, <1>3 DEF PassIInv, Tabulated, OfRequest, Ask
  <1>6. PlaceTells(r)'
    <2>1. CASE b # Throws /\ IsHealthy(r, b.name)
      <3>1. asked'[r] = Append(<<>>, b) /\ current'[r] = b
        BY <1>1, <1>2, <2>1 DEF Ask, PassIInv, Tabulated, AskedNone
      <3>2. AskedOne(r)' BY <3>1, Appended DEF AskedOne
      <3>3. QED BY <1>1, <1>2, <1>3, <2>1, <3>2 DEF PassIInv, Tabulated, PlaceTells
    <2>2. CASE ~(b # Throws /\ IsHealthy(r, b.name))
      BY <1>1, <1>2, <1>3, <2>2 DEF PassIInv, Tabulated, PlaceTells, AskedNone
    <2>3. QED BY <2>1, <2>2
  <1>7. QED BY <1>4, <1>5, <1>6, OnlyOwn

LEMMA AnswerTells ==
  ASSUME NEW r \in Requests, NEW status, PassIInv, Answer(r, status)
  PROVE  PassIInv'
PROOF
  <1>1. pc[r] = "sent" /\ AskedOne(r) /\ lost[r] = FALSE BY DEF Answer, PassIInv, PlaceTells
  <1>2. CASE Caught(r) BY <1>1, <1>2, CaughtTells
  <1>3. CASE Received(r, status) /\ Keep(r) /\ UNCHANGED <<beresp, obj, lost>>
    <2> USE <1>3 DEF Received, Keep
    <2>1. Tabulated' BY DEF PassIInv, Tabulated
    <2>2. \A q \in Requests \ {r} : UNCHANGED OfRequest(q) BY DEF PassIInv, Tabulated, OfRequest
    <2>3. PlaceTells(r)' BY <1>1 DEF PassIInv, Tabulated, PlaceTells, AskedOne
    <2>4. QED BY <2>1, <2>2, <2>3, OnlyOwn
  <1>4. CASE /\ \E b \in Others(r) : Ask(r, b)
             /\ Received(r, status)
             /\ pc' = [pc EXCEPT ![r] = "fallback"]
             /\ UNCHANGED <<beresp, obj, lost>>
    <2> USE <1>4 DEF Received
    <2>1. PICK b \in Others(r) : Ask(r, b) OBVIOUS
    <2>2. b.name # current[r].name BY DEF Others
    <2>3. Tabulated' BY <2>1 DEF PassIInv, Tabulated, Ask
    <2>4. \A q \in Requests \ {r} : UNCHANGED OfRequest(q)
      BY <2>1 DEF PassIInv, Tabulated, OfRequest, Ask
    <2>5. asked'[r] = <<current[r], b>> /\ current'[r] = b
      <3>1. asked'[r] = Append(<<current[r]>>, b) /\ current'[r] = b
        BY <1>1, <2>1 DEF PassIInv, Tabulated, Ask, AskedOne
      <3>2. QED BY <3>1, Appended
    <2>6. response'[r].from = current[r] /\ pc'[r] = "fallback" /\ lost'[r] = FALSE
      BY <1>1 DEF PassIInv, Tabulated
    <2>7. AskedTwo(r)' BY <2>2, <2>5, <2>6 DEF AskedTwo
    <2>8. PlaceTells(r)' BY <2>6, <2>7 DEF PlaceTells
    <2>9. QED BY <2>3, <2>4, <2>8, OnlyOwn
  <1>5. QED BY <1>2, <1>3, <1>4 DEF Answer

LEMMA FallbackTells ==
  ASSUME NEW r \in Requests, NEW status, PassIInv,
         FallbackAnswer(r, status) \/ FallbackFail(r)
  PROVE  PassIInv'
PROOF
  <1>1. pc[r] = "fallback" /\ AskedTwo(r) BY DEF FallbackAnswer, FallbackFail, PassIInv, PlaceTells
  <1>2. CASE FallbackAnswer(r, status)
    <2> USE <1>2 DEF FallbackAnswer, Received, Keep
    <2>1. Tabulated' BY DEF PassIInv, Tabulated
    <2>2. \A q \in Requests \ {r} : UNCHANGED OfRequest(q) BY DEF PassIInv, Tabulated, OfRequest
    <2>3. response'[r].from = current'[r] /\ pc'[r] = "body" BY DEF PassIInv, Tabulated
    <2>4. AskedTwo(r)' BY <1>1, <2>3 DEF AskedTwo
    <2>5. PlaceTells(r)' BY <2>3, <2>4 DEF PlaceTells
    <2>6. QED BY <2>1, <2>2, <2>5, OnlyOwn
  <1>3. CASE FallbackFail(r)
    <2> USE <1>3 DEF FallbackFail, Keep
    <2>1. Tabulated' BY DEF PassIInv, Tabulated
    <2>2. \A q \in Requests \ {r} : UNCHANGED OfRequest(q) BY DEF PassIInv, Tabulated, OfRequest
    <2>3. lost'[r] = TRUE /\ pc'[r] = "body" BY DEF PassIInv, Tabulated
    <2>4. AskedTwo(r)' BY <1>1 DEF AskedTwo
    <2>5. PlaceTells(r)' BY <2>3, <2>4 DEF PlaceTells
    <2>6. QED BY <2>1, <2>2, <2>5, OnlyOwn
  <1>4. QED BY <1>2, <1>3

LEMMA BodyTells ==
  ASSUME NEW r \in Requests, PassIInv, Body(r)
  PROVE  PassIInv'
PROOF
  <1> USE DEF Body, Answering
  <1>1. Tabulated' BY DEF PassIInv, Tabulated
  <1>2. PlaceTells(r)' BY DEF PassIInv, Tabulated, PlaceTells, AskedOne, AskedTwo
  <1>3. \A q \in Requests \ {r} : UNCHANGED OfRequest(q) BY DEF PassIInv, Tabulated, OfRequest
  <1>4. QED BY <1>1, <1>2, <1>3, OnlyOwn

LEMMA FinishTells ==
  ASSUME NEW r \in Requests, PassIInv, Finish(r)
  PROVE  PassIInv'
PROOF
  <1> USE DEF Finish, fetched
  <1>1. Tabulated' BY DEF PassIInv, Tabulated
  <1>2. PlaceTells(r)'
    BY DEF PassIInv, Tabulated, PlaceTells, InVcl, AskedNone, AskedOne, AskedTwo
  <1>3. \A q \in Requests \ {r} : UNCHANGED OfRequest(q) BY DEF PassIInv, Tabulated, OfRequest
  <1>4. QED BY <1>1, <1>2, <1>3, OnlyOwn

(* Calls of VCL and changes of health leave the passes alone.               *)
LEMMA Bystanders ==
  ASSUME PassIInv, UNCHANGED <<pc, fetched>>
  PROVE  PassIInv'
PROOF
  <1>1. Tabulated' BY DEF PassIInv, Tabulated, fetched
  <1>2. \A q \in Requests : UNCHANGED OfRequest(q) BY DEF OfRequest, fetched
  <1>3. QED BY <1>1, <1>2, SameRequest DEF PassIInv

LEMMA NextPasses == PassIInv /\ [Next]_vars => PassIInv'
PROOF
  <1> SUFFICES ASSUME PassIInv, [Next]_vars PROVE PassIInv' OBVIOUS
  <1>1. ASSUME NEW r \in Requests, Arrive(r) PROVE PassIInv'
    BY <1>1, NewPassTells DEF Arrive
  <1>2. ASSUME NEW r \in Requests, Restart(r) PROVE PassIInv'
    BY <1>2, NewPassTells DEF Restart
  <1>3. ASSUME NEW r \in Requests, StdCall(r) PROVE PassIInv'
    <2>1. UNCHANGED <<pc, fetched>>
      BY <1>3 DEF StdCall, Calls, BackendAdd, BackendRemove, DirectorAdd, DirectorRemove,
                  DirectorAddBackend, DirectorRemoveBackend
    <2>2. QED BY <2>1, Bystanders
  <1>4. ASSUME NEW r \in Requests, Route(r) PROVE PassIInv' BY <1>4, RouteTells
  <1>5. ASSUME NEW r \in Requests, Fail(r) PROVE PassIInv' BY <1>5, CaughtTells DEF Fail
  <1>6. ASSUME NEW r \in Requests, FallbackFail(r) PROVE PassIInv' BY <1>6, FallbackTells
  <1>7. ASSUME NEW r \in Requests, NEW status \in {"ok", "5xx"}, Answer(r, status) PROVE PassIInv'
    BY <1>7, AnswerTells
  <1>8. ASSUME NEW r \in Requests, NEW status \in {"ok", "5xx"}, FallbackAnswer(r, status)
        PROVE PassIInv'
    BY <1>8, FallbackTells
  <1>9. ASSUME NEW r \in Requests, Body(r) PROVE PassIInv' BY <1>9, BodyTells
  <1>10. ASSUME NEW r \in Requests, Finish(r) PROVE PassIInv' BY <1>10, FinishTells
  <1>11. ASSUME NEW b \in Backend, Mark(b) PROVE PassIInv' BY <1>11, Bystanders DEF Mark
  <1>12. CASE UNCHANGED vars BY <1>12, Bystanders DEF vars
  <1>13. QED
    BY <1>1, <1>2, <1>3, <1>4, <1>5, <1>6, <1>7, <1>8, <1>9, <1>10, <1>11, <1>12
    DEF Next, Settled

LEMMA Invariant == Spec => []PassIInv
PROOF BY InitPasses, NextPasses, PTL DEF Spec

(* A pass asks at most two backends, of different names (fetchFromBackend). *)
THEOREM FallbackAsksAnother == Spec => []FallbackIsOther
PROOF
<1>1. PassIInv => FallbackIsOther
  <2> SUFFICES ASSUME PassIInv, NEW r \in Requests
               PROVE  /\ Len(asked[r]) <= 2
                      /\ Len(asked[r]) = 2 => /\ asked[r][1].name # asked[r][2].name
                                              /\ response[r].from \in ToSet(asked[r])
    BY DEF FallbackIsOther
  <2>1. AskedNone(r) \/ AskedOne(r) \/ AskedTwo(r) BY DEF PassIInv, PlaceTells
  <2>2. CASE AskedNone(r) BY <2>2 DEF AskedNone
  <2>3. CASE AskedOne(r) BY <2>3 DEF AskedOne
  <2>4. CASE AskedTwo(r) BY <2>4 DEF AskedTwo, ToSet
  <2>5. QED BY <2>1, <2>2, <2>3, <2>4
<1>2. QED BY <1>1, Invariant, PTL

(* Once a backend was asked, a failure has a gateway status (the catch of   *)
(* fetchFromBackend).                                                       *)
THEOREM FailureHasStatus == Spec => []FailureIsGateway
PROOF
<1>1. PassIInv => FailureIsGateway BY DEF PassIInv, PlaceTells, AskedNone, FailureIsGateway
<1>2. QED BY <1>1, Invariant, PTL

(* beresp.backend names the sender of the response that vcl_fetch sees,     *)
(* unless a fallback was lost (runPass).                                    *)
THEOREM BerespNamesSender == Spec => []BerespNamesAnswerer
PROOF
<1>1. PassIInv => BerespNamesAnswerer BY DEF PassIInv, PlaceTells, BerespNamesAnswerer
<1>2. QED BY <1>1, Invariant, PTL

-----------------------------------------------------------------------------
(* What a director selects.                                                 *)

Content == [type : {"random", "fallback"}, quorum : Nat, members : Seq(Backend)]

LEMMA SelectedAreHealthy ==
  ASSUME NEW r, NEW name,
         LET d == content[Object(name, directors[r][name])]
         IN DOMAIN d.members \subseteq Nat,
         NEW b \in Selected(r, name) \ {None, Throws}
  PROVE  /\ healthy[b]
         /\ LET members == content[Object(name, directors[r][name])].members
            IN \E i \in DOMAIN members : b = members[i]
PROOF
  <1> DEFINE d == content[Object(name, directors[r][name])]
             up == Selectable(d)
  <1>1. PICK i \in up : b = d.members[i]
    <2>1. up # {} /\ b \in {d.members[Min(up)]} \cup {d.members[i] : i \in up}
      BY DEF Selected
    <2>2. up \in SUBSET Nat BY DEF Selectable
    <2>3. Min(up) \in up
      <3> HIDE DEF up
      <3>1. PICK i \in up : \A j \in up : i <= j BY <2>1, <2>2, LeastNat
      <3>2. QED BY <3>1 DEF Min
    <2> HIDE DEF up, d
    <2>4. QED BY <2>1, <2>3
  <1>2. QED BY <1>1 DEF Selectable

-----------------------------------------------------------------------------
(* What there is to select from.                                            *)

Shared ==
  /\ healthy \in [Backend -> BOOLEAN]
  /\ content \in [Director -> Content]

Tables ==
  /\ backends \in [Requests -> [Names -> Owners \cup {None}]]
  /\ directors \in [Requests -> [Directors -> Owners \cup {None}]]

(* Whoever is asked, or was, is a backend.                                  *)
Fetching ==
  /\ thread \in Requests \cup {Nobody}
  /\ pc \in [Requests -> Phases]
  /\ current \in [Requests -> Backend \cup {None}]
  /\ \A r \in Requests : pc[r] \in {"sent", "fallback", "body"} => current[r] \in Backend
  /\ beresp \in [Requests -> Names \cup {None}]
  /\ obj \in [Requests -> {"initial", "gateway"}]

Typed == Shared /\ Tables /\ Fetching

LEMMA ObjectIsBackend == \A n \in Names, o \in Owners : Object(n, o) \in Backend
PROOF BY DEF Object, Backend

LEMMA ObjectIsDirector == \A d \in Directors, o \in Owners : Object(d, o) \in Director
PROOF BY DEF Object, Director

LEMMA SelectedAreBackends ==
  ASSUME Typed, NEW r \in Requests, NEW name \in Directors,
         NEW b \in Selected(r, name) \ {None, Throws}
  PROVE  b \in Backend /\ healthy[b]
PROOF
  <1> DEFINE o == Object(name, directors[r][name])
             members == content[o].members
  <1>1. directors[r][name] \in Owners
    <2>1. directors[r][name] \in Owners \cup {None} BY DEF Typed, Tables
    <2>2. directors[r][name] # None BY DEF Selected
    <2>3. QED BY <2>1, <2>2
  <1>2. o \in Director BY <1>1, ObjectIsDirector
  <1> HIDE DEF o
  <1>3. members \in Seq(Backend) BY <1>2 DEF Typed, Shared, Content
  <1>4. DOMAIN members \subseteq Nat BY <1>3
  <1>5. healthy[b] /\ \E i \in DOMAIN members : b = members[i]
    BY <1>4, SelectedAreHealthy DEF o
  <1>6. QED BY <1>3, <1>5

LEMMA NamedIsBackend ==
  ASSUME Typed, NEW r \in Requests, NEW n \in Names, Named(r, n) # Throws
  PROVE  /\ Named(r, n) \in Backend
         /\ IsHealthy(r, Named(r, n).name) => healthy[Named(r, n)]
PROOF
  <1>1. backends[r][n] \in Owners /\ Named(r, n) = Object(n, backends[r][n])
    BY DEF Named, Typed, Tables
  <1>2. Named(r, n).name = n BY <1>1 DEF Object
  <1>3. QED BY <1>1, <1>2, ObjectIsBackend DEF IsHealthy

LEMMA RoutesAreBackends ==
  ASSUME Typed, NEW r \in Requests, NEW b \in Routes(r) \ {Throws}
  PROVE  b \in Backend /\ (IsHealthy(r, b.name) => healthy[b])
PROOF
  <1>1. CASE \E n \in Names : b = Named(r, n) BY <1>1, NamedIsBackend
  <1>2. CASE \E name \in Directors : b \in Selected(r, name) \ {None, Throws}
    BY <1>2, SelectedAreBackends
  <1>3. {"api", "static", "default"} \subseteq Names BY DEF Names
  <1>4. {"main_director", "fallback_director"} \subseteq Directors BY DEF Directors
  <1>5. QED
    <2> SUFFICES ASSUME b # Named(r, "api"), b # Named(r, "static"), b # Named(r, "default")
                 PROVE  \E name \in Directors : b \in Selected(r, name) \ {None, Throws}
      BY <1>1, <1>2, <1>3
    <2>1. PICK c \in UNION {IF m = None THEN Selected(r, "fallback_director") ELSE {m} :
                              m \in Selected(r, "main_director")} :
            b = IF c = None THEN Default(r) ELSE c
      BY DEF Routes
    <2>2. b = c /\ c # None BY <2>1 DEF Default
    <2>3. PICK m \in Selected(r, "main_director") :
            b \in IF m = None THEN Selected(r, "fallback_director") ELSE {m}
      BY <2>1, <2>2
    <2>4. QED BY <1>4, <2>2, <2>3

-----------------------------------------------------------------------------
(* Types, one action at a time.                                             *)

LEMMA InitTyped == Init => Typed
PROOF
  <1> SUFFICES ASSUME Init PROVE Typed OBVIOUS
  <1>1. Server \in Owners BY DEF Owners
  <1>2. \A n \in Names : Object(n, Server) \in Backend BY <1>1, ObjectIsBackend
  <1>3. {"main", "api", "static"} \subseteq Names BY DEF Names
  <1>4. /\ <<Object("main", Server), Object("static", Server)>> \in Seq(Backend)
        /\ <<Object("main", Server), Object("api", Server)>> \in Seq(Backend)
        /\ <<>> \in Seq(Backend)
    BY <1>2, <1>3
  <1>5. \A d \in Directors : Configured[d] \in Content BY <1>4 DEF Configured, Content
  <1>6. Empty \in Content BY <1>4 DEF Empty, Content
  <1>7. \A d \in Director : d.name \in Directors BY DEF Director
  <1>8. content \in [Director -> Content] BY <1>5, <1>6, <1>7 DEF Init
  <1>9. healthy \in [Backend -> BOOLEAN] BY DEF Init
  <1>10. Tables BY <1>1 DEF Init, Tables
  <1>11. Fetching BY DEF Init, Fetching, Phases, Nobody
  <1>12. QED BY <1>8, <1>9, <1>10, <1>11 DEF Typed, Shared

(* Std calls change objects and tables only.                                *)
LEMMA StdTyped ==
  ASSUME NEW r \in Requests, Typed, StdCall(r)
  PROVE  Typed'
PROOF
  <1>1. UNCHANGED <<thread, pc, fetched>>
    BY DEF StdCall, Calls, BackendAdd, BackendRemove, DirectorAdd, DirectorRemove,
           DirectorAddBackend, DirectorRemoveBackend
  <1>2. Fetching' BY <1>1 DEF Typed, Fetching, fetched
  <1>3. Touched \subseteq Names BY BackendsAssumption DEF Names
  <1>4. r \in Owners BY DEF Owners
  <1> USE DEF Typed, Shared, Tables
  <1>5. ASSUME NEW n \in Touched, BackendAdd(r, n) PROVE Shared' /\ Tables'
    <2>1. Object(n, r) \in Backend BY <1>3, <1>4, ObjectIsBackend
    <2>2. healthy' \in [Backend -> BOOLEAN] BY <1>5, <2>1 DEF BackendAdd
    <2>3. backends' \in [Requests -> [Names -> Owners \cup {None}]]
      BY <1>3, <1>4, <1>5 DEF BackendAdd
    <2>4. QED BY <1>5, <2>2, <2>3 DEF BackendAdd
  <1>6. ASSUME NEW n \in Touched, BackendRemove(r, n) PROVE Shared' /\ Tables'
    BY <1>3, <1>6 DEF BackendRemove, shared
  <1>7. ASSUME NEW d \in Directors, NEW type \in {"random", "fallback"}, DirectorAdd(r, d, type)
        PROVE  Shared' /\ Tables'
    <2>1. [Empty EXCEPT !.type = type] \in Content
      <3>1. <<>> \in Seq(Backend) OBVIOUS
      <3>2. QED BY <3>1 DEF Empty, Content
    <2>2. Object(d, r) \in Director BY <1>4, ObjectIsDirector
    <2>3. content' \in [Director -> Content] BY <1>7, <2>1, <2>2 DEF DirectorAdd
    <2>4. directors' \in [Requests -> [Directors -> Owners \cup {None}]]
      BY <1>4, <1>7 DEF DirectorAdd
    <2>5. QED BY <1>7, <2>3, <2>4 DEF DirectorAdd
  <1>8. ASSUME NEW d \in Directors, DirectorRemove(r, d) PROVE Shared' /\ Tables'
    BY <1>8 DEF DirectorRemove, shared
  <1>9. ASSUME NEW d \in Directors, NEW members \in Seq(Backend), directors[r][d] # None,
               content' = [content EXCEPT ![Object(d, directors[r][d])].members = members],
               UNCHANGED <<healthy, tables>>
        PROVE  Shared' /\ Tables'
    <2> DEFINE o == Object(d, directors[r][d])
    <2>1. directors[r][d] \in Owners BY <1>9
    <2>2. o \in Director BY <2>1, ObjectIsDirector
    <2> HIDE DEF o
    <2>3. content[o] \in Content BY <2>2
    <2>4. [content[o] EXCEPT !.members = members] \in Content BY <1>9, <2>3 DEF Content
    <2>5. content' = [content EXCEPT ![o] = [content[o] EXCEPT !.members = members]]
      BY <1>9 DEF o
    <2>6. content' \in [Director -> Content] BY <2>2, <2>4, <2>5
    <2>7. QED BY <1>9, <2>6 DEF tables
  <1>10. ASSUME NEW d \in Directors, directors[r][d] # None
         PROVE  content[Object(d, directors[r][d])].members \in Seq(Backend)
    <2>1. directors[r][d] \in Owners BY <1>10
    <2>2. Object(d, directors[r][d]) \in Director BY <2>1, ObjectIsDirector
    <2>3. QED BY <2>2 DEF Content
  <1>11. ASSUME NEW d \in Directors, NEW n \in Touched, DirectorAddBackend(r, d, n)
         PROVE  Shared' /\ Tables'
    <2> DEFINE before == content[Object(d, directors[r][d])].members
               members == Append(before, Object(n, backends[r][n]))
    <2>1. directors[r][d] # None /\ backends[r][n] # None BY <1>11 DEF DirectorAddBackend
    <2>2. Object(n, backends[r][n]) \in Backend BY <1>3, <2>1, ObjectIsBackend
    <2>3. before \in Seq(Backend) BY <1>10, <2>1
    <2>4. members \in Seq(Backend) BY <2>2, <2>3
    <2>5. content' = [content EXCEPT ![Object(d, directors[r][d])].members = members]
      BY <1>11 DEF DirectorAddBackend
    <2> HIDE DEF members
    <2>6. QED BY <1>9, <1>11, <2>1, <2>4, <2>5 DEF DirectorAddBackend
  <1>12. ASSUME NEW d \in Directors, NEW n \in Touched, DirectorRemoveBackend(r, d, n)
         PROVE  Shared' /\ Tables'
    <2> DEFINE before == content[Object(d, directors[r][d])].members
               first == SelectInSeq(before, LAMBDA b : b.name = n)
               members == RemoveAt(before, first)
    <2>1. directors[r][d] # None /\ first # 0 BY <1>12 DEF DirectorRemoveBackend
    <2>2. before \in Seq(Backend) BY <1>10, <2>1
    <2>3. first \in 1 .. Len(before)
      <3> DEFINE T == {i \in 1 .. Len(before) : before[i].name = n}
      <3>1. T # {} /\ first = Min(T) BY <2>1 DEF SelectInSeq
      <3>2. T \in SUBSET Nat BY <2>2
      <3> HIDE DEF before
      <3>3. first \in T
        <4> HIDE DEF T, first
        <4>1. PICK i \in T : \A j \in T : i <= j BY <3>1, <3>2, LeastNat
        <4>2. QED BY <3>1, <4>1 DEF Min
      <3> HIDE DEF first
      <3>4. QED BY <3>3
    <2>4. members \in Seq(Backend)
      <3> HIDE DEF before, first
      <3>1. first - 1 \in Nat /\ first - 1 <= Len(before) /\ first \in Nat /\ Len(before) \in Nat
        BY <2>2, <2>3
      <3>2. \A i \in 1 .. first - 1 : before[i] \in Backend BY <2>2, <3>1
      <3>3. \A i \in first + 1 .. Len(before) : before[i] \in Backend BY <2>2, <3>1
      <3>4. SubSeq(before, 1, first - 1) \in Seq(Backend) BY <3>1, <3>2, SubSeqProperties
      <3>5. SubSeq(before, first + 1, Len(before)) \in Seq(Backend)
        BY <3>1, <3>3, SubSeqProperties
      <3>6. QED BY <3>4, <3>5, ConcatProperties DEF RemoveAt
    <2>5. content' = [content EXCEPT ![Object(d, directors[r][d])].members = members]
      BY <1>12 DEF DirectorRemoveBackend
    <2> HIDE DEF members
    <2>6. QED BY <1>9, <1>12, <2>1, <2>4, <2>5 DEF DirectorRemoveBackend
  <1>13. QED BY <1>2, <1>5, <1>6, <1>7, <1>8, <1>11, <1>12 DEF StdCall

(* The rest leaves objects and tables alone, but for changes of health.     *)
LEMMA SameTables ==
  ASSUME Typed, UNCHANGED <<shared, tables>>
  PROVE  Shared' /\ Tables'
PROOF BY DEF Typed, Shared, Tables, shared, tables

LEMMA NewPassTyped ==
  ASSUME NEW r \in Requests, Typed, NewPass(r), thread' \in Requests \cup {Nobody}
  PROVE  Typed'
PROOF
  <1>1. Shared' /\ Tables' BY SameTables DEF NewPass
  <1>2. Fetching' BY DEF NewPass, Typed, Fetching, Phases
  <1>3. QED BY <1>1, <1>2 DEF Typed

LEMMA CaughtTyped ==
  ASSUME NEW r \in Requests, Typed, Caught(r)
  PROVE  Typed'
PROOF
  <1>1. Shared' /\ Tables' BY SameTables DEF Caught
  <1>2. Fetching' BY DEF Caught, Typed, Fetching, Phases
  <1>3. QED BY <1>1, <1>2 DEF Typed

(* A backend that is asked is healthy.                                      *)
LEMMA AskTyped ==
  ASSUME NEW r \in Requests, Typed, NEW b \in Backend, Ask(r, b),
         NEW place \in {"sent", "fallback"}, pc' = [pc EXCEPT ![r] = place],
         UNCHANGED <<shared, tables, beresp, obj>>
  PROVE  Typed'
PROOF
  <1>1. Shared' /\ Tables' BY SameTables
  <1>2. Fetching' BY DEF Ask, Typed, Fetching, Phases
  <1>3. QED BY <1>1, <1>2 DEF Typed

LEMMA KeepTyped ==
  ASSUME NEW r \in Requests, Typed, Keep(r), pc[r] \in {"sent", "fallback"},
         UNCHANGED <<shared, tables, beresp, obj>>
  PROVE  Typed'
PROOF
  <1>1. Shared' /\ Tables' BY SameTables
  <1>2. Fetching' BY DEF Keep, Typed, Fetching, Phases
  <1>3. QED BY <1>1, <1>2 DEF Typed

LEMMA RouteTyped ==
  ASSUME NEW r \in Requests, Typed, Route(r)
  PROVE  /\ Typed'
         /\ asked' = asked \/ \E b \in Backend : Ask(r, b) /\ healthy[b]
PROOF
  <1>1. PICK b \in Routes(r) :
          IF b # Throws /\ IsHealthy(r, b.name)
            THEN Ask(r, b) /\ pc' = [pc EXCEPT ![r] = "sent"]
            ELSE /\ current' = [current EXCEPT ![r] = IF b = Throws THEN @ ELSE b]
                 /\ pc' = [pc EXCEPT ![r] = "failed"]
                 /\ UNCHANGED <<asked, thread>>
    BY DEF Route
  <1>2. UNCHANGED <<shared, tables, beresp, obj>> BY DEF Route
  <1>3. b # Throws => b \in Backend /\ (IsHealthy(r, b.name) => healthy[b])
    BY RoutesAreBackends
  <1>4. CASE b # Throws /\ IsHealthy(r, b.name)
    <2>1. b \in Backend /\ healthy[b] /\ Ask(r, b) /\ pc' = [pc EXCEPT ![r] = "sent"]
      BY <1>1, <1>3, <1>4
    <2>2. QED BY <1>2, <2>1, AskTyped
  <1>5. CASE ~(b # Throws /\ IsHealthy(r, b.name))
    <2>1. Shared' /\ Tables' BY <1>2, SameTables
    <2>2. current' \in [Requests -> Backend \cup {None}]
      BY <1>1, <1>3, <1>5 DEF Typed, Fetching
    <2>3. pc' = [pc EXCEPT ![r] = "failed"] /\ UNCHANGED <<asked, thread>>
          /\ \A q \in Requests \ {r} : current'[q] = current[q]
      BY <1>1, <1>5 DEF Typed, Fetching
    <2>4. Fetching' BY <1>2, <2>2, <2>3 DEF Typed, Fetching, Phases
    <2>5. QED BY <2>1, <2>3, <2>4 DEF Typed
  <1>6. QED BY <1>4, <1>5

LEMMA AnswerTyped ==
  ASSUME NEW r \in Requests, NEW status, Typed, Answer(r, status)
  PROVE  /\ Typed'
         /\ asked' = asked \/ \E b \in Backend : Ask(r, b) /\ healthy[b]
PROOF
  <1>1. pc[r] = "sent" BY DEF Answer
  <1>2. CASE Caught(r)
    <2>1. asked' = asked BY <1>2 DEF Caught
    <2>2. QED BY <1>2, <2>1, CaughtTyped
  <1>3. CASE Keep(r) /\ UNCHANGED <<shared, tables, beresp, obj>>
    <2>1. asked' = asked BY <1>3 DEF Keep
    <2>2. QED BY <1>1, <1>3, <2>1, KeepTyped
  <1>4. CASE /\ \E b \in Others(r) : Ask(r, b)
             /\ pc' = [pc EXCEPT ![r] = "fallback"]
             /\ UNCHANGED <<shared, tables, beresp, obj>>
    <2>1. PICK b \in Others(r) : Ask(r, b) BY <1>4
    <2>2. b \in Selected(r, "fallback_director") \ {None, Throws} BY DEF Others
    <2>3. "fallback_director" \in Directors BY DEF Directors
    <2>4. b \in Backend /\ healthy[b] BY <2>2, <2>3, SelectedAreBackends
    <2>5. Typed' BY <1>4, <2>1, <2>4, AskTyped
    <2>6. QED BY <2>1, <2>4, <2>5
  <1>5. QED BY <1>2, <1>3, <1>4 DEF Answer

LEMMA BodyTyped ==
  ASSUME NEW r \in Requests, Typed, Body(r)
  PROVE  Typed'
PROOF
  <1>1. Shared' /\ Tables' BY SameTables DEF Body
  <1>2. current[r] \in Backend /\ Answering(r) \in Names
    BY DEF Body, Typed, Fetching, Answering, Backend
  <1>3. Fetching' BY <1>2 DEF Body, Typed, Fetching, Phases
  <1>4. QED BY <1>1, <1>3 DEF Typed

LEMMA FinishTyped ==
  ASSUME NEW r \in Requests, Typed, Finish(r)
  PROVE  Typed'
PROOF
  <1>1. Shared' /\ Tables' BY SameTables DEF Finish
  <1>2. Fetching' BY DEF Finish, Typed, Fetching, Phases, Nobody, fetched
  <1>3. QED BY <1>1, <1>2 DEF Typed

LEMMA MarkTyped ==
  ASSUME NEW b \in Backend, Typed, Mark(b)
  PROVE  Typed'
PROOF
  <1>1. healthy' \in [Backend -> BOOLEAN]
    <2>1. healthy' = [healthy EXCEPT ![b] = ~healthy[b]] /\ healthy \in [Backend -> BOOLEAN]
      BY DEF Mark, Typed, Shared
    <2>2. (~healthy[b]) \in BOOLEAN OBVIOUS
    <2>3. QED BY <2>1, <2>2, Zenon
  <1>2. UNCHANGED <<content, thread, pc, tables, fetched>> BY DEF Mark
  <1>3. Fetching' BY <1>2 DEF Typed, Fetching, fetched
  <1>4. QED BY <1>1, <1>2, <1>3 DEF Typed, Shared, Tables, tables

(* A step keeps the types, and whom it asks, if anyone, is healthy.         *)
LEMMA NextTyped ==
  ASSUME Typed, [Next]_vars
  PROVE  /\ Typed'
         /\ \/ asked' = asked
            \/ \E r \in Requests : asked' = [asked EXCEPT ![r] = <<>>]
            \/ \E r \in Requests, b \in Backend : Ask(r, b) /\ healthy[b]
PROOF
  <1>1. ASSUME NEW r \in Requests, Arrive(r) \/ Restart(r)
        PROVE  Typed' /\ asked' = [asked EXCEPT ![r] = <<>>]
    <2>1. NewPass(r) BY <1>1 DEF Arrive, Restart
    <2>2. thread' \in Requests \cup {Nobody} BY <1>1 DEF Arrive, Restart, Typed, Fetching
    <2>3. QED BY <2>1, <2>2, NewPassTyped DEF NewPass
  <1>2. ASSUME NEW r \in Requests, StdCall(r) PROVE Typed' /\ asked' = asked
    <2>1. UNCHANGED fetched
      BY <1>2 DEF StdCall, Calls, BackendAdd, BackendRemove, DirectorAdd, DirectorRemove,
                  DirectorAddBackend, DirectorRemoveBackend
    <2>2. QED BY <1>2, <2>1, StdTyped DEF fetched
  <1>3. ASSUME NEW r \in Requests, Fail(r) PROVE Typed' /\ asked' = asked
    <2>1. Caught(r) BY <1>3 DEF Fail
    <2>2. QED BY <2>1, CaughtTyped DEF Caught
  <1>4. ASSUME NEW r \in Requests, NEW status, FallbackAnswer(r, status) \/ FallbackFail(r)
        PROVE  Typed' /\ asked' = asked
    <2>1. Keep(r) /\ pc[r] = "fallback" /\ UNCHANGED <<shared, tables, beresp, obj>>
      BY <1>4 DEF FallbackAnswer, FallbackFail
    <2>2. QED BY <2>1, KeepTyped DEF Keep
  <1>5. ASSUME NEW r \in Requests, Body(r) PROVE Typed' /\ asked' = asked
    BY <1>5, BodyTyped DEF Body
  <1>6. ASSUME NEW r \in Requests, Finish(r) PROVE Typed' /\ asked' = asked
    BY <1>6, FinishTyped DEF Finish, fetched
  <1>7. ASSUME NEW b \in Backend, Mark(b) PROVE Typed' /\ asked' = asked
    BY <1>7, MarkTyped DEF Mark, fetched
  <1>8. CASE UNCHANGED vars
    <2>1. UNCHANGED <<shared, tables, thread, pc, fetched>> BY <1>8 DEF vars
    <2>2. Shared' /\ Tables' BY <2>1, SameTables
    <2>3. Fetching' BY <2>1 DEF Typed, Fetching, fetched
    <2>4. QED BY <2>1, <2>2, <2>3 DEF Typed, fetched
  <1>9. CASE Next
    <2>1. CASE \E r \in Requests : Arrive(r) \/ Restart(r) BY <1>1, <2>1
    <2>2. CASE \E r \in Requests : StdCall(r) BY <1>2, <2>2
    <2>3. CASE \E r \in Requests : Route(r) BY <2>3, RouteTyped
    <2>4. CASE \E r \in Requests : Fail(r) BY <1>3, <2>4
    <2>5. CASE \E r \in Requests, status \in {"ok", "5xx"} : Answer(r, status)
      BY <2>5, AnswerTyped
    <2>6. CASE \E r \in Requests :
                 FallbackFail(r) \/ \E status \in {"ok", "5xx"} : FallbackAnswer(r, status)
      BY <1>4, <2>6
    <2>7. CASE \E r \in Requests : Body(r) BY <1>5, <2>7
    <2>8. CASE \E r \in Requests : Finish(r) BY <1>6, <2>8
    <2>9. CASE \E b \in Backend : Mark(b) BY <1>7, <2>9
    <2>10. CASE Settled BY <1>8, <2>10 DEF Settled
    <2>11. QED
      BY <1>9, <2>1, <2>2, <2>3, <2>4, <2>5, <2>6, <2>7, <2>8, <2>9, <2>10 DEF Next
  <1>10. QED BY <1>8, <1>9

(* The tables of every request and the objects behind them stay what the    *)
(* server and the std functions make of them, restarts, fallbacks and       *)
(* removals in between or not (fetchFromBackend, addStdFunctions).          *)
THEOREM BackendTypes == Spec => []TypeOK
PROOF
<1>1. Typed => TypeOK BY DEF Typed, Shared, Tables, Fetching, TypeOK, Content
<1>2. Typed /\ [Next]_vars => Typed' BY NextTyped
<1>3. QED BY <1>1, <1>2, InitTyped, PTL DEF Spec

(* Whatever other requests do to the directors they share, and whenever     *)
(* health changes, a backend is healthy at the moment it is asked: there is *)
(* no await between the choice of a backend and its use (fetchFromBackend). *)
THEOREM HealthyWhenAsked == Spec => AskedWhileHealthy
PROOF
<1>1. PassIInv /\ Typed /\ [Next]_vars
        => [\A r \in Requests : Len(asked'[r]) > Len(asked[r]) => healthy[Last(asked'[r])]]_vars
  <2> SUFFICES ASSUME PassIInv, Typed, [Next]_vars, NEW r \in Requests, Len(asked'[r]) > Len(asked[r])
               PROVE  healthy[Last(asked'[r])]
    OBVIOUS
  <2>1. DOMAIN asked = Requests BY DEF PassIInv, Tabulated
  <2>2. AskedNone(r) \/ AskedOne(r) \/ AskedTwo(r) BY DEF PassIInv, PlaceTells
  <2>3. Len(asked[r]) \in Nat BY <2>2 DEF AskedNone, AskedOne, AskedTwo
  <2>4. asked'[r] # asked[r] BY <2>3
  <2>5. asked'[r] # <<>> BY <2>3
  <2>6. PICK b \in Backend : Ask(r, b) /\ healthy[b]
    <3>1. CASE \E q \in Requests : asked' = [asked EXCEPT ![q] = <<>>] BY <2>1, <2>4, <2>5, <3>1
    <3>2. CASE \E q \in Requests, b \in Backend : Ask(q, b) /\ healthy[b]
      BY <2>1, <2>4, <3>2 DEF Ask
    <3>3. QED BY <2>4, <3>1, <3>2, NextTyped
  <2>7. asked'[r] = Append(asked[r], b) BY <2>1, <2>6 DEF Ask
  <2>8. PICK S : asked[r] \in Seq(S) /\ b \in S
    <3>1. CASE AskedNone(r)
      <4>1. <<>> \in Seq({b}) OBVIOUS
      <4>2. QED BY <3>1, <4>1 DEF AskedNone
    <3>2. CASE AskedOne(r)
      <4>1. <<current[r]>> \in Seq({b, current[r]}) OBVIOUS
      <4>2. QED BY <3>2, <4>1 DEF AskedOne
    <3>3. CASE AskedTwo(r)
      <4>1. PICK first : asked[r] = <<first, current[r]>> BY <3>3 DEF AskedTwo
      <4>2. <<first, current[r]>> \in Seq({b, first, current[r]}) OBVIOUS
      <4>3. QED BY <4>1, <4>2
    <3>4. QED BY <2>2, <3>1, <3>2, <3>3
  <2>9. Last(asked'[r]) = b BY <2>7, <2>8, AppendProperties DEF Last
  <2>10. QED BY <2>6, <2>9
<1>2. Typed /\ [Next]_vars => Typed' BY NextTyped
<1>3. QED BY <1>1, <1>2, InitPasses, NextPasses, InitTyped, PTL DEF Spec, AskedWhileHealthy

-----------------------------------------------------------------------------
(* The default platform.                                                    *)

(* Two simulations that run began one within the other, and what each found *)
(* was the platform of the innermost one around it.                         *)
Stacked ==
  /\ \A s \in RunningSims : s \notin outer[s] /\ outer[s] \subseteq RunningSims
  /\ \A r, s \in RunningSims : r = s \/ r \in outer[s] \/ s \in outer[r]
  /\ \A r, s \in RunningSims : r \in outer[s] => s \notin outer[r]
  /\ \A s \in RunningSims : outer[s] # {} =>
       /\ previous[s] \in outer[s]
       /\ \A r \in outer[s] : r = previous[s] \/ r \in outer[previous[s]]

(* The innermost one that runs is the default platform.                     *)
InnermostRules ==
  RunningSims # {} =>
    /\ platform \in RunningSims
    /\ \A r \in RunningSims : r = platform \/ r \in outer[platform]

(* The platform registered before, if any, is what the outermost one found. *)
BaseWaits ==
  \/ /\ platform # Base
     /\ \A s \in Sims : previous[s] # Base
  \/ /\ RunningSims = {} => platform = Base
     /\ \A s \in RunningSims : outer[s] = {} => previous[s] = Base

OwnTurns ==
  \A s \in Sims : phase[s] # "idle" /\ (\A r \in Sims : s \notin outer[r]) => used[s] = {s}

PlatformTypes ==
  /\ previous \in [Sims -> Sims \cup {Base, NoBase}]
  /\ platform \in Sims \cup {Base, NoBase}
  /\ phase \in [Sims -> {"idle", "running", "over"}]
  /\ turns \in [Sims -> Nat]
  /\ used \in [Sims -> SUBSET (Sims \cup {Base, NoBase})]
  /\ outer \in [Sims -> SUBSET Sims]
  /\ crossed \in BOOLEAN

Nesting ==
  /\ PlatformTypes
  /\ \A r, s \in Sims : r \in outer[s] => phase[r] # "idle"
  /\ \A s \in Sims : phase[s] = "idle" => outer[s] = {}
  /\ ~crossed => Stacked /\ InnermostRules /\ BaseWaits /\ OwnTurns

-----------------------------------------------------------------------------

LEMMA InitNesting == SimInit => Nesting
PROOF
  <1> SUFFICES ASSUME SimInit PROVE Nesting OBVIOUS
  <1>1. RunningSims = {} BY DEF SimInit, RunningSims
  <1>2. QED
    BY <1>1, SimulationAssumption
    DEF SimInit, Nesting, PlatformTypes, Stacked, InnermostRules, BaseWaits, OwnTurns

LEMMA StartNesting == \A s \in Sims : Nesting /\ Start(s) => Nesting'
PROOF
  <1> SUFFICES ASSUME NEW s \in Sims, Nesting, Start(s) PROVE Nesting' OBVIOUS
  <1> USE DEF Start
  <1>1. PlatformTypes' BY DEF Nesting, PlatformTypes, RunningSims
  <1>2. RunningSims' = RunningSims \cup {s} /\ s \notin RunningSims
    BY DEF Nesting, PlatformTypes, RunningSims
  <1>3. \A r, t \in Sims : r \in outer'[t] => phase'[r] # "idle"
    BY DEF Nesting, PlatformTypes, RunningSims
  <1>4. \A t \in Sims : phase'[t] = "idle" => outer'[t] = {}
    BY DEF Nesting, PlatformTypes
  <1>5. ASSUME ~crossed' PROVE Stacked' /\ InnermostRules' /\ BaseWaits' /\ OwnTurns'
    <2>1. PlatformTypes /\ Stacked /\ InnermostRules /\ BaseWaits /\ OwnTurns BY <1>5 DEF Nesting
    <2>2. \A r \in RunningSims : outer'[r] = outer[r] /\ previous'[r] = previous[r] /\ s \notin outer[r]
      BY <1>2, <2>1 DEF PlatformTypes, Stacked
    <2>3. outer'[s] = RunningSims /\ previous'[s] = platform /\ platform' = s
      BY <2>1 DEF PlatformTypes
    <2>4. Stacked' BY <1>2, <2>1, <2>2, <2>3 DEF Stacked, InnermostRules
    <2>5. InnermostRules' BY <1>2, <2>3 DEF InnermostRules
    <2>6. BaseWaits' BY <1>2, <2>1, <2>2, <2>3, SimulationAssumption DEF BaseWaits, PlatformTypes
    <2>7. OwnTurns'
      <3> SUFFICES ASSUME NEW t \in Sims, phase'[t] # "idle", \A r \in Sims : t \notin outer'[r]
                   PROVE used'[t] = {t}
        BY DEF OwnTurns
      <3>1. CASE t = s BY <3>1, <2>1 DEF PlatformTypes
      <3>2. CASE t # s
        <4>1. phase[t] # "idle" /\ used'[t] = used[t] BY <3>2, <2>1 DEF PlatformTypes
        <4>2. \A r \in Sims : t \notin outer[r] BY <2>1 DEF PlatformTypes, Nesting
        <4>3. QED BY <4>1, <4>2, <2>1 DEF OwnTurns
      <3>3. QED BY <3>1, <3>2
    <2>8. QED BY <2>4, <2>5, <2>6, <2>7
  <1>6. QED BY <1>1, <1>3, <1>4, <1>5 DEF Nesting

LEMMA TurnNesting == \A s \in Sims : Nesting /\ Turn(s) => Nesting'
PROOF
  <1> SUFFICES ASSUME NEW s \in Sims, Nesting, Turn(s) PROVE Nesting' OBVIOUS
  <1>1. PlatformTypes' BY DEF Turn, Nesting, PlatformTypes
  <1>2. RunningSims' = RunningSims /\ s \in RunningSims BY DEF Turn, RunningSims
  <1>3. ASSUME ~crossed PROVE Stacked' /\ InnermostRules' /\ BaseWaits' /\ OwnTurns'
    <2>1. PlatformTypes /\ Stacked /\ InnermostRules /\ BaseWaits /\ OwnTurns BY <1>3 DEF Nesting
    <2>2. Stacked' /\ InnermostRules' /\ BaseWaits'
      BY <1>2, <2>1 DEF Turn, Stacked, InnermostRules, BaseWaits
    <2>3. (\A r \in Sims : s \notin outer[r]) => platform = s
      BY <1>2, <2>1 DEF InnermostRules, RunningSims
    <2>4. OwnTurns' BY <2>1, <2>3 DEF Turn, OwnTurns, PlatformTypes
    <2>5. QED BY <2>2, <2>4
  <1>4. QED BY <1>1, <1>3 DEF Turn, Nesting

LEMMA EndNesting == \A s \in Sims : Nesting /\ EndSimulation(s) => Nesting'
PROOF
  <1> SUFFICES ASSUME NEW s \in Sims, Nesting, EndSimulation(s) PROVE Nesting' OBVIOUS
  <1> USE DEF EndSimulation
  <1>1. PlatformTypes' BY DEF Nesting, PlatformTypes, Restore, RunningSims
  <1>2. RunningSims' = RunningSims \ {s} /\ s \in RunningSims
    BY DEF Nesting, PlatformTypes, RunningSims
  <1>3. \A r, t \in Sims : r \in outer'[t] => phase'[r] # "idle" BY DEF Nesting, PlatformTypes
  <1>4. \A t \in Sims : phase'[t] = "idle" => outer'[t] = {} BY DEF Nesting, PlatformTypes
  <1>5. ASSUME ~crossed' PROVE Stacked' /\ InnermostRules' /\ BaseWaits' /\ OwnTurns'
    <2>1. PlatformTypes /\ Stacked /\ InnermostRules /\ BaseWaits /\ OwnTurns BY <1>5 DEF Nesting
    <2>2. \A r \in RunningSims : s \notin outer[r] BY <1>5
    <2>3. platform = s BY <1>2, <2>1, <2>2 DEF InnermostRules
    <2>4. outer[s] = RunningSims \ {s} BY <1>2, <2>1, <2>3 DEF Stacked, InnermostRules
    <2>5. Stacked' BY <1>2, <2>1, <2>2 DEF Stacked
    <2>6. outer[s] # {} => platform' = previous[s]
      BY <1>2, <2>1, SimulationAssumption DEF Stacked, Restore, RunningSims
    <2>7. InnermostRules'
      BY <1>2, <2>1, <2>4, <2>6 DEF InnermostRules, Stacked
    <2>8. BaseWaits'
      <3>1. CASE outer[s] = {}
        BY <3>1, <1>2, <2>1, <2>3, <2>4, SimulationAssumption DEF BaseWaits, Restore, PlatformTypes
      <3>2. CASE outer[s] # {}
        BY <3>2, <1>2, <2>1, <2>4, <2>6, SimulationAssumption DEF BaseWaits, PlatformTypes
      <3>3. QED BY <3>1, <3>2
    <2>9. OwnTurns' BY <2>1 DEF OwnTurns, PlatformTypes
    <2>10. QED BY <2>5, <2>7, <2>8, <2>9
  <1>6. QED BY <1>1, <1>3, <1>4, <1>5 DEF Nesting

LEMMA SimNextNesting == Nesting /\ [SimNext]_simVars => Nesting'
PROOF
  <1> SUFFICES ASSUME Nesting, [SimNext]_simVars PROVE Nesting' OBVIOUS
  <1>1. ASSUME NEW s \in Sims, Start(s) PROVE Nesting' BY <1>1, StartNesting
  <1>2. ASSUME NEW s \in Sims, Turn(s) PROVE Nesting' BY <1>2, TurnNesting
  <1>3. ASSUME NEW s \in Sims, EndSimulation(s) PROVE Nesting' BY <1>3, EndNesting
  <1>4. CASE UNCHANGED simVars
    BY <1>4 DEF simVars, Nesting, PlatformTypes, Stacked, InnermostRules, BaseWaits, OwnTurns, RunningSims
  <1>5. QED BY <1>1, <1>2, <1>3, <1>4 DEF SimNext

(* The default platform is that of the innermost simulation that runs, each *)
(* meets its own, and what was registered before comes back, as long as     *)
(* simulations end in the reverse of the order they began in                *)
(* (runBrowserSimulation).                                                  *)
THEOREM PlatformsNest == SimSpec => []PlatformNests
PROOF
<1>1. SimInit => Nesting BY InitNesting
<1>2. Nesting /\ [SimNext]_simVars => Nesting' BY SimNextNesting
<1>3. Nesting => PlatformNests
  <2> SUFFICES ASSUME Nesting, ~crossed PROVE PlatformNests BY DEF PlatformNests
  <2>1. Stacked /\ InnermostRules /\ BaseWaits /\ OwnTurns BY DEF Nesting
  <2>2. \A s \in RunningSims : (\A r \in RunningSims : s \notin outer[r]) => platform = s
    BY <2>1 DEF InnermostRules
  <2>3. RunningSims = {} /\ (\E s \in Sims : previous[s] = Base) => platform = Base
    BY <2>1 DEF BaseWaits
  <2>4. QED BY <2>1, <2>2, <2>3 DEF PlatformNests, OwnTurns
<1>4. QED BY <1>1, <1>2, <1>3, PTL DEF SimSpec

(* No simulation takes more turns than the model allows.                    *)
TurnsBounded == turns \in [Sims -> 0 .. MaxTurns]

(* The default platform is a simulation's, the one registered before, or    *)
(* none, and turns stay within their bound (runBrowserSimulation).          *)
THEOREM PlatformsTyped == SimSpec => []SimTypeOK
PROOF
<1> USE SimulationAssumption
<1>1. SimInit => Nesting /\ TurnsBounded BY InitNesting DEF SimInit, TurnsBounded
<1>2. Nesting /\ [SimNext]_simVars => Nesting' BY SimNextNesting
<1>3. TurnsBounded /\ [SimNext]_simVars => TurnsBounded'
  BY DEF TurnsBounded, SimNext, Start, Turn, EndSimulation, simVars
<1>4. Nesting /\ TurnsBounded => SimTypeOK
  BY DEF Nesting, PlatformTypes, TurnsBounded, SimTypeOK
<1>5. QED BY <1>1, <1>2, <1>3, <1>4, PTL DEF SimSpec

-----------------------------------------------------------------------------
(* Side by side.                                                            *)

(* A step of another component is no step of the counters, except that the  *)
(* clock, which buckets read, too, moves for them as well.                  *)
LEMMA CountersStep == [MCNext]_sharedVars => [CountersNext]_counterVars
PROOF
  <1> SUFFICES ASSUME [MCNext]_sharedVars PROVE [CountersNext]_counterVars OBVIOUS
  <1>1. CASE component = "counters" /\ CountersNext BY <1>1
  <1>2. CASE BucketNext /\ UNCHANGED <<counters, boxes, charges>>
    <2>1. CASE BucketTick BY <1>2, <2>1 DEF BucketTick, Tick, CountersNext
    <2>2. ASSUME NEW k \in Buckets, NEW limit \in Limits, NEW window \in BucketWindows,
                 RateLimit(k, limit, window)
          PROVE  UNCHANGED counterVars
      BY <1>2, <2>2 DEF RateLimit, counterVars
    <2>3. QED BY <1>2, <2>1, <2>2 DEF BucketNext
  <1>3. CASE UNCHANGED counterVars BY <1>3
  <1>4. QED BY <1>1, <1>2, <1>3 DEF MCNext, BoundsReached, sharedVars

(* Nor are those of another component steps of the buckets.                 *)
LEMMA BucketsStep == [MCNext]_sharedVars => [BucketNext]_bucketVars
PROOF
  <1> SUFFICES ASSUME [MCNext]_sharedVars PROVE [BucketNext]_bucketVars OBVIOUS
  <1>1. CASE BucketNext BY <1>1
  <1>2. CASE CountersNext /\ UNCHANGED <<buckets, requested>>
    <2>1. CASE Tick BY <1>2, <2>1 DEF Tick, BucketTick, BucketNext
    <2>2. ASSUME NEW c \in Clients, NEW b \in Bare, Request(c, b)
          PROVE  UNCHANGED bucketVars
      <3>1. ASSUME NEW rc \in Counters, NEW d \in Deltas, RatecounterIncrement(c, b, rc, d)
            PROVE  UNCHANGED now
        BY <3>1 DEF RatecounterIncrement
      <3>2. ASSUME NEW rc, NEW t, NEW w, NEW d, NEW x, NEW ttl,
                   CheckRate(c, b, rc, t, w, d, x, ttl)
            PROVE  UNCHANGED now
        BY <3>2 DEF CheckRate
      <3>3. ASSUME NEW rc, NEW p, NEW t1, NEW t2, NEW d, NEW b1, NEW b2, NEW ttl,
                   CheckRates(c, b, rc, t1, p[1], d, b1, t2, p[2], d, b2, ttl)
            PROVE  UNCHANGED now
        BY <3>3 DEF CheckRates
      <3>4. ASSUME NEW x, NEW ttl, PenaltyboxAdd(c, b, x, ttl) PROVE UNCHANGED now
        BY <3>4 DEF PenaltyboxAdd
      <3>5. ASSUME NEW x, PenaltyboxHas(x, EntryOf(c, b)) PROVE UNCHANGED now
        BY <3>5 DEF PenaltyboxHas
      <3>6. UNCHANGED now BY <2>2, <3>1, <3>2, <3>3, <3>4, <3>5 DEF Request
      <3>7. QED BY <1>2, <3>6 DEF bucketVars
    <2>3. QED BY <1>2, <2>1, <2>2 DEF CountersNext
  <1>3. CASE UNCHANGED bucketVars BY <1>3
  <1>4. QED BY <1>1, <1>2, <1>3 DEF MCNext, BoundsReached, sharedVars, bucketVars, counterVars

LEMMA BackendsStep == [MCNext]_sharedVars => [Next]_backendVars
PROOF BY DEF MCNext, BoundsReached, sharedVars

LEMMA PlatformStep == [MCNext]_sharedVars => [SimNext]_simVars
PROOF BY DEF MCNext, BoundsReached, sharedVars

(* A behaviour of all components is one of each: what is proved of each     *)
(* alone holds when they run side by side, in any order.                    *)
THEOREM SideBySide == MCSpec => CountersSpec /\ BucketSpec /\ Spec /\ SimSpec
PROOF
  <1>1. MCInit => CountersInit /\ BucketInit /\ Init /\ SimInit BY DEF MCInit
  <1>2. Spec <=> Init /\ [][Next]_backendVars BY DEF Spec, backendVars
  <1>3. QED
    BY <1>1, <1>2, CountersStep, BucketsStep, BackendsStep, PlatformStep, PTL
    DEF MCSpec, CountersSpec, BucketSpec, SimSpec

(* Counters, boxes, buckets, backends, requests and the default platform    *)
(* hold what the code may put there, whatever the others do.                *)
THEOREM SharedTyped == MCSpec => []SharedTypeOK
PROOF
  <1>1. CountersTypeOK /\ BucketTypeOK /\ TypeOK /\ SimTypeOK => SharedTypeOK BY DEF SharedTypeOK
  <1>2. QED BY <1>1, SideBySide, CountersTyped, BucketTypes, BackendTypes, PlatformsTyped, PTL
=============================================================================
