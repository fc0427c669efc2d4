------------------------------ MODULE RateLimit ------------------------------
(***************************************************************************)
(* The rate counters and penalty boxes of src/src/vcl-ratelimit.ts, which  *)
(* all requests share.  Every call is synchronous; what makes it hard is   *)
(* time: a counter lives through windows that only a call can end, and a   *)
(* penalty through a lifetime that only a lookup notices is over.          *)
(*                                                                         *)
(* A counter's key is a string put together with colons.  An entry here is *)
(* the sequence of its colon-separated parts, a key the sequence of all.   *)
(*                                                                         *)
(* evaluateFunctionCall (vcl-compiler.ts) hands ratelimit.* functions the  *)
(* name of every argument that is a bare variable, meant for the names of  *)
(* counters and boxes; the entry may be a bare variable, too.              *)
(***************************************************************************)
EXTENDS Clock, Sequences, FiniteSetsExt

CONSTANTS
  Counters,      \* names of rate counters
  Clients,       \* the values of client.ip
  Bare,          \* whether the entry is written as a bare variable: BOOLEANs
  Boxes,         \* names of penalty boxes
  Windows,       \* windows of check_rate
  Pairs,         \* windows of check_rates: pairs
  Thresholds, Deltas, Ttls,
  DefaultWindow, \* DEFAULT_WINDOW_MS
  NoCounter,     \* no counter, not in the box
  MaxCharges       \* bound of the model: only so many increments are made

ASSUME RateLimitAssumption ==
  /\ Bare \subseteq BOOLEAN
  /\ Windows \subseteq Nat
  /\ Pairs \subseteq Nat \X Nat
  /\ Thresholds \subseteq Nat
  /\ Deltas \subseteq Nat
  /\ Ttls \subseteq Nat
  /\ DefaultWindow \in Nat
  /\ MaxCharges \in Nat
  /\ NoCounter \notin Int
  /\ NoCounter \notin [count : Nat, lastReset : Nat, window : Nat]

VARIABLES
  counters,  \* rateCounters: key -> counter or NoCounter
  boxes,     \* penaltyBoxes: box -> entry -> expiry or NoCounter
  charges    \* history: the increments so far

counterVars == <<now, counters, boxes, charges>>

(* The entry that client.ip, or an expression of it, stands for.            *)
EntryOf(client, bare) == IF bare THEN <<"client.ip">> ELSE client

Entries == {EntryOf(c, b) : c \in Clients, b \in Bare}

(* The key of ratecounter_increment and check_rate; check_rates adds the    *)
(* window.                                                                  *)
Key(rc, entry)          == <<rc>> \o entry
WindowKey(rc, entry, w) == <<rc>> \o entry \o <<w>>

Keys == {Key(rc, e) : rc \in Counters, e \in Entries}
          \cup {WindowKey(rc, e, p[i]) : rc \in Counters, e \in Entries,
                                         p \in Pairs, i \in {1, 2}}

CountersInit ==
  /\ now = 0
  /\ counters = [k \in Keys |-> NoCounter]
  /\ boxes = [b \in Boxes |-> [e \in Entries |-> NoCounter]]
  /\ charges = <<>>

-----------------------------------------------------------------------------
(* Mutants of Current: an ended window starts over without being moved, or  *)
(* is moved without starting over.                                          *)
CurrentUnmoved(c, w) ==
  IF c = NoCounter THEN [count |-> 0, lastReset |-> now, window |-> w]
  ELSE IF now - c.lastReset > c.window THEN [c EXCEPT !.count = 0]
  ELSE c

CurrentUncleared(c, w) ==
  IF c = NoCounter THEN [count |-> 0, lastReset |-> now, window |-> w]
  ELSE IF now - c.lastReset > c.window THEN [c EXCEPT !.lastReset = now]
  ELSE c

(* getOrCreateCounter: only the first caller's window counts, and a window  *)
(* ends one instant after its length.                                       *)
Current(c, w) ==
  IF c = NoCounter THEN [count |-> 0, lastReset |-> now, window |-> w]
  ELSE IF now - c.lastReset > c.window THEN [c EXCEPT !.count = 0, !.lastReset = now]
  ELSE c

Charged(c, w, delta) == [Current(c, w) EXCEPT !.count = @ + delta]

(* History: what a call was asked for, and what came of it.                 *)
Counted(client, key, delta) ==
  [verdict |-> "counted", client |-> client, key |-> key, at |-> now, delta |-> delta]

Checked(client, key, w, delta, threshold, over, box, entry, ttl) ==
  [verdict |-> IF over THEN "over" ELSE "allowed", client |-> client, key |-> key,
   at |-> now, window |-> w, delta |-> delta, threshold |-> threshold,
   box |-> box, entry |-> entry, until |-> now + ttl]

Boxed(table, box, entry, ttl) == [table EXCEPT ![box][entry] = now + ttl]

RatecounterIncrement(client, bare, rc, delta) ==
  LET k == Key(rc, EntryOf(client, bare))
  IN /\ Len(charges) < MaxCharges
     /\ counters' = [counters EXCEPT ![k] = Charged(@, DefaultWindow, delta)]
     /\ charges' = Append(charges, Counted(client, k, delta))
     /\ UNCHANGED <<now, boxes>>

CheckRate(client, bare, rc, threshold, w, delta, box, ttl) ==
  LET entry == EntryOf(client, bare)
      k     == Key(rc, entry)
      c     == Charged(counters[k], w, delta)
      over  == c.count > threshold
  IN /\ Len(charges) < MaxCharges
     /\ counters' = [counters EXCEPT ![k] = c]
     /\ boxes' = IF over THEN Boxed(boxes, box, entry, ttl) ELSE boxes
     /\ charges' = Append(charges, Checked(client, k, w, delta, threshold, over, box, entry, ttl))
     /\ UNCHANGED now

(* Mutant of CheckRates: the second window is charged from what the first    *)
(* call found.                                                              *)
CheckRatesTogether(client, bare, rc, t1, w1, d1, box1, t2, w2, d2, box2, ttl) ==
  LET entry == EntryOf(client, bare)
      k1 == WindowKey(rc, entry, w1)
      k2 == WindowKey(rc, entry, w2)
      c1 == Charged(counters[k1], w1, d1)
      c2 == Charged(counters[k2], w2, d2)
  IN /\ Len(charges) + 1 < MaxCharges
     /\ counters' = [counters EXCEPT ![k1] = c1, ![k2] = c2]
     /\ charges' = charges \o <<Checked(client, k1, w1, d1, t1, FALSE, box1, entry, ttl),
                           Checked(client, k2, w2, d2, t2, FALSE, box2, entry, ttl)>>
     /\ UNCHANGED <<now, boxes>>

(* Both windows are charged, the second after the first (they may be one    *)
(* and the same key).                                                       *)
CheckRates(client, bare, rc, t1, w1, d1, box1, t2, w2, d2, box2, ttl) ==
  LET entry == EntryOf(client, bare)
      k1 == WindowKey(rc, entry, w1)
      k2 == WindowKey(rc, entry, w2)
      c1 == Charged(counters[k1], w1, d1)
      counters1 == [counters EXCEPT ![k1] = c1]
      c2 == Charged(counters1[k2], w2, d2)
      over1 == c1.count > t1
      over2 == c2.count > t2
      boxes1 == IF over1 THEN Boxed(boxes, box1, entry, ttl) ELSE boxes
  IN /\ Len(charges) + 1 < MaxCharges
     /\ counters' = [counters1 EXCEPT ![k2] = c2]
     /\ boxes' = IF over2 THEN Boxed(boxes1, box2, entry, ttl) ELSE boxes1
     /\ charges' = charges \o <<Checked(client, k1, w1, d1, t1, over1, box1, entry, ttl),
                           Checked(client, k2, w2, d2, t2, over2, box2, entry, ttl)>>
     /\ UNCHANGED now

PenaltyboxAdd(client, bare, box, ttl) ==
  /\ boxes' = Boxed(boxes, box, EntryOf(client, bare), ttl)
  /\ UNCHANGED <<now, counters, charges>>

(* Mutant of Freed: the penalty is over an instant early.                   *)
FreedEarly(expiry) == expiry <= now + 1

(* penaltybox_has: an entry past its time is let out by the lookup.         *)
Freed(expiry) == expiry <= now

PenaltyboxHas(box, entry) ==
  /\ boxes[box][entry] # NoCounter
  /\ Freed(boxes[box][entry])
  /\ boxes' = [boxes EXCEPT ![box][entry] = NoCounter]
  /\ UNCHANGED <<now, counters, charges>>

Tick ==
  /\ Advance
  /\ UNCHANGED <<counters, boxes, charges>>

Request(client, bare) ==
  \/ \E rc \in Counters, d \in Deltas : RatecounterIncrement(client, bare, rc, d)
  \/ \E rc \in Counters, t \in Thresholds, w \in Windows, d \in Deltas, b \in Boxes,
        ttl \in Ttls : CheckRate(client, bare, rc, t, w, d, b, ttl)
  \/ \E rc \in Counters, p \in Pairs, t1, t2 \in Thresholds, d \in Deltas,
        b1, b2 \in Boxes, ttl \in Ttls :
          CheckRates(client, bare, rc, t1, p[1], d, b1, t2, p[2], d, b2, ttl)
  \/ \E b \in Boxes, ttl \in Ttls : PenaltyboxAdd(client, bare, b, ttl)
  \/ \E b \in Boxes : PenaltyboxHas(b, EntryOf(client, bare))

CountersNext == Tick \/ \E c \in Clients, b \in Bare : Request(c, b)

CountersSpec == CountersInit /\ [][CountersNext]_counterVars

-----------------------------------------------------------------------------
(* Properties.                                                              *)

CountersTypeOK ==
  /\ now \in Nat
  /\ \A k \in Keys : \/ counters[k] = NoCounter
                     \/ counters[k] \in [count : Nat, lastReset : 0 .. now, window : Nat]
  /\ \A b \in Boxes : \A e \in Entries : boxes[b][e] = NoCounter \/ boxes[b][e] \in Nat
  /\ Len(charges) <= MaxCharges

Delta == [i \in DOMAIN charges |-> charges[i].delta]

(* The increments of a key among the first n calls that are not older than  *)
(* `from' nor newer than `to' and had one of these verdicts.                *)
Total(n, k, from, to, verdicts) ==
  MapThenSumSet(LAMBDA i : Delta[i], {i \in 1 .. n : /\ charges[i].key = k
                                                     /\ charges[i].at \in from .. to
                                                     /\ charges[i].verdict \in verdicts})

All == {"counted", "allowed", "over"}

(* A counter holds exactly what was counted since its window began: no      *)
(* increment is lost or taken over from an earlier window.                  *)
CountIsWindowSum ==
  \A k \in Keys : counters[k] # NoCounter =>
    counters[k].count = Total(Len(charges), k, counters[k].lastReset, now, All)

(* However the calls fall, no span as long as the window lets through more  *)
(* than twice the largest threshold asked for (a fixed window is not a      *)
(* sliding one: twice is reached, more is not).                             *)
SlidingBound ==
  \A k \in Keys : counters[k] # NoCounter =>
    LET allowed == {i \in DOMAIN charges : charges[i].key = k /\ charges[i].verdict = "allowed"}
    IN \A s \in 0 .. now :
         Total(Len(charges), k, s, s + counters[k].window, {"allowed"})
           <= 2 * Max({0} \cup {charges[i].threshold : i \in allowed})

(* A call goes over only when the increments of the window it asked for     *)
(* exceed its threshold (check_rates: always; check_rate: while all callers *)
(* of a counter agree on its window).                                       *)
RefusedForCause ==
  \A i \in DOMAIN charges : charges[i].verdict = "over" =>
    Total(i, charges[i].key, charges[i].at - charges[i].window, charges[i].at, All)
      > charges[i].threshold

(* An entry that went over sits in the penalty box until its time is up     *)
(* (while all additions to the box last equally long).                      *)
PenaltyServed ==
  \A i \in DOMAIN charges : charges[i].verdict = "over" /\ now < charges[i].until =>
    /\ boxes[charges[i].box][charges[i].entry] # NoCounter
    /\ ~Freed(boxes[charges[i].box][charges[i].entry])

-----------------------------------------------------------------------------
(* What the documentation says of the code.                                 *)

(* A client goes over only by its own increments.                           *)
RefusedForOwn ==
  \A i \in DOMAIN charges : charges[i].verdict = "over" =>
    MapThenSumSet(LAMBDA j : Delta[j], {j \in 1 .. i : charges[j].client = charges[i].client})
      > charges[i].threshold
=============================================================================
