--------------------------- MODULE ResponseCache ---------------------------
(***************************************************************************)
(* What the cache of src/src/runtime/pipeline.ts promises, with the        *)
(* lifecycle of a request left out: a request looks at the clock, and one  *)
(* later step answers it, once, with an object that is still in the cache  *)
(* and was fresh (or stale, and then it is removed by the same step) at    *)
(* the instant it looked.  Module Pipeline, where the lookup, the VCL that *)
(* runs on the hit and the deletion are separate steps of a request among  *)
(* other requests, is shown to implement it.                               *)
(***************************************************************************)
EXTENDS Integers

CONSTANTS Requests, Keys, NoEntry, Entry

VARIABLES
  clock,
  store,   \* key -> object or NoEntry
  stored,  \* how many objects have been stored so far
  looked,  \* when a request that is about to be served looked, or Never
  answer

abstractVars == <<clock, store, stored, looked, answer>>

Never == -1

Unanswered == [outcome |-> "none", object |-> 0]

(* What a request is answered with, apart from a hit.                       *)
Misses == {"miss", "pass", "uncacheable", "error", "upgrade", "rejected"}

(* Every request is answered at most once.                                  *)
Answer(r, outcome, object) ==
  /\ answer[r] = Unanswered
  /\ looked' = [looked EXCEPT ![r] = Never]
  /\ answer' = [answer EXCEPT ![r] = [outcome |-> outcome, object |-> object]]

Remove(k) == store' = [store EXCEPT ![k] = NoEntry]

Init ==
  /\ clock = 0
  /\ store = [k \in Keys |-> NoEntry]
  /\ stored = 0
  /\ looked = [r \in Requests |-> Never]
  /\ answer = [r \in Requests |-> Unanswered]

Look(r) ==
  /\ answer[r] = Unanswered
  /\ looked[r] = Never
  /\ looked' = [looked EXCEPT ![r] = clock]
  /\ UNCHANGED <<clock, store, stored, answer>>

(* VCL may decide against what was found.                                   *)
GiveUp(r) ==
  /\ looked' = [looked EXCEPT ![r] = Never]
  /\ UNCHANGED <<clock, store, stored, answer>>

(* The object answers a request that looked while it was fresh, ...         *)
ServeFresh(r, k) ==
  /\ store[k] # NoEntry
  /\ store[k].created <= looked[r]
  /\ looked[r] < store[k].expires
  /\ Answer(r, "hit", store[k].id)
  /\ UNCHANGED <<clock, store, stored>>

(* ... or stale, and then it is gone with the answer.                       *)
ServeStale(r, k) ==
  /\ store[k] # NoEntry
  /\ store[k].created <= looked[r]
  /\ store[k].expires <= looked[r]
  /\ looked[r] < store[k].staleUntil
  /\ Answer(r, "hit-stale", store[k].id)
  /\ Remove(k)
  /\ UNCHANGED <<clock, stored>>

ServeOther(r) ==
  /\ \E outcome \in Misses : Answer(r, outcome, 0)
  /\ UNCHANGED <<clock, store, stored>>

(* A new object, alive for at least a moment, replaces what the key held.   *)
Store(k) ==
  /\ stored' = stored + 1
  /\ store'[k] \in Entry
  /\ store' = [store EXCEPT ![k] = store'[k]]
  /\ store'[k].id = stored'
  /\ store'[k].created = clock
  /\ clock < store'[k].expires
  /\ UNCHANGED <<clock, looked, answer>>

(* Only an object past its whole window is dropped unserved.                *)
Expire(k) ==
  /\ store[k] # NoEntry
  /\ clock >= store[k].expires
  /\ clock >= store[k].staleUntil
  /\ Remove(k)
  /\ UNCHANGED <<clock, stored, looked, answer>>

Tick ==
  /\ clock' = clock + 1
  /\ UNCHANGED <<store, stored, looked, answer>>

Next ==
  \/ \E r \in Requests : Look(r) \/ GiveUp(r) \/ ServeOther(r)
  \/ \E r \in Requests, k \in Keys : ServeFresh(r, k) \/ ServeStale(r, k)
  \/ \E k \in Keys : Store(k) \/ Expire(k)
  \/ Tick

Spec == Init /\ [][Next]_abstractVars
=============================================================================
