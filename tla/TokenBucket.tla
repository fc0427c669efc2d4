----------------------------- MODULE TokenBucket -----------------------------
(***************************************************************************)
(* The token buckets of src/src/vcl-waf.ts (waf.rate_limit), shared by all *)
(* requests.  A bucket is filled by the time that has passed whenever it   *)
(* is asked for a token, up to the limit of the call that created it.      *)
(*                                                                         *)
(* The code counts tokens in floating point, limit / window of them per    *)
(* millisecond.  Here a token is `window' units, so that limit units come  *)
(* in per tick and all numbers are whole.                                  *)
(***************************************************************************)
EXTENDS Clock, FiniteSetsExt

CONSTANTS
  Buckets,       \* keys of buckets
  Limits,        \* limits callers give
  BucketWindows, \* windows callers give
  NoBucket,
  MaxRequests    \* bound of the model: only so many tokens are asked for

ASSUME TokenBucketAssumption ==
  /\ Limits \subseteq Nat
  /\ BucketWindows \subseteq Nat \ {0}
  /\ MaxRequests \in Nat
  /\ NoBucket \notin [tokens : Nat, lastRefill : Nat, limit : Nat, window : Nat]

VARIABLES
  buckets,   \* rateLimitBuckets: key -> bucket or NoBucket
  requested  \* history: the requests for a token, numbered: {[key, at, n, granted]}

bucketVars == <<now, buckets, requested>>

BucketInit ==
  /\ now = 0
  /\ buckets = [k \in Buckets |-> NoBucket]
  /\ requested = {}

(* Mutant of Refilled: the time already refilled for counts again.          *)
RefilledAgain(b) == [b EXCEPT
  !.tokens = IF @ + (now - b.lastRefill) * b.limit > b.limit * b.window
               THEN b.limit * b.window ELSE @ + (now - b.lastRefill) * b.limit]

(* Mutant of Refilled: the refill is lost, only the time is noted.          *)
RefillLost(b) == [b EXCEPT !.lastRefill = now]

Refilled(b) ==
  LET tokens == b.tokens + (now - b.lastRefill) * b.limit
  IN [b EXCEPT !.tokens = IF tokens > b.limit * b.window THEN b.limit * b.window ELSE tokens,
               !.lastRefill = now]

(* rate_limit: a new bucket is full; a token is one whole token.            *)
RateLimit(k, limit, window) ==
  LET b == Refilled(IF buckets[k] = NoBucket
                      THEN [tokens |-> limit * window, lastRefill |-> now,
                            limit |-> limit, window |-> window]
                      ELSE buckets[k])
      granted == b.tokens >= b.window
      n == Cardinality(requested)
  IN /\ n < MaxRequests
     /\ buckets' = [buckets EXCEPT ![k] =
          IF granted THEN [b EXCEPT !.tokens = @ - b.window] ELSE b]
     /\ requested' = requested \cup {[key |-> k, at |-> now, n |-> n, granted |-> granted]}
     /\ UNCHANGED now

BucketTick ==
  /\ Advance
  /\ UNCHANGED <<buckets, requested>>

BucketNext ==
  \/ \E k \in Buckets, limit \in Limits, window \in BucketWindows :
       RateLimit(k, limit, window)
  \/ BucketTick

BucketSpec == BucketInit /\ [][BucketNext]_bucketVars

-----------------------------------------------------------------------------
(* Properties.                                                              *)

BucketTypeOK ==
  \A k \in Buckets : buckets[k] # NoBucket =>
    /\ buckets[k].tokens \in 0 .. buckets[k].limit * buckets[k].window
    /\ buckets[k].lastRefill \in 0 .. now

Granted(k, from, to) ==
  Cardinality({q \in requested : q.key = k /\ q.granted /\ q.at \in from .. to})

(* In any span a key is granted at most its limit and what flows in during  *)
(* that span.                                                               *)
BucketGrantBound ==
  \A k \in Buckets : buckets[k] # NoBucket =>
    \A s \in 0 .. now : \A t \in s .. now :
      Granted(k, s, t) * buckets[k].window
        <= buckets[k].limit * buckets[k].window + (t - s) * buckets[k].limit

(* A request is turned away only when the whole limit was granted within    *)
(* the last window: no token that was due is ever withheld.                 *)
BucketDeniedForCause ==
  \A q \in requested : ~q.granted =>
    Granted(q.key, q.at - buckets[q.key].window, q.at) >= buckets[q.key].limit
=============================================================================
