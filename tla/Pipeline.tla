------------------------------ MODULE Pipeline ------------------------------
(***************************************************************************)
(* The request lifecycle of src/src/runtime/pipeline.ts: every request     *)
(* runs vcl_recv, vcl_hash and the cache lookup, vcl_hit / vcl_miss /      *)
(* vcl_pass, the backend fetch, vcl_fetch, vcl_deliver and vcl_log, with   *)
(* errors and restarts, against one cache Map shared by all requests.      *)
(*                                                                         *)
(* JavaScript runs one request at a time.  A request keeps the thread from *)
(* the moment it starts or resumes until it awaits getBackendResponse or   *)
(* settles; `thread' names the request that holds it.  The clock may move  *)
(* at any time: the code reads it afresh with now().                       *)
(*                                                                         *)
(* A VCL subroutine is user code.  Its run is a step that picks the action *)
(* it returns and what it writes to the context among the values the       *)
(* constants allow.                                                        *)
(***************************************************************************)
EXTENDS Integers

CONSTANTS
  Requests,       \* the concurrent requests
  Keys,           \* what computeCacheKey can return
  NoKey,          \* "": this pass made no lookup
  NoEntry,        \* the Map holds nothing under a key
  Nobody,         \* the JavaScript thread is idle
  MaxRestarts,    \* PipelineOptions.maxRestarts
  Ttls,           \* values vcl_fetch and vcl_deliver may leave in beresp.ttl
  Windows,        \* ... and in grace + stale_while_revalidate
  DefaultTtl,     \* DEFAULT_TTL
  DefaultWindow,  \* DEFAULT_GRACE + DEFAULT_STALE_WHILE_REVALIDATE
  ScriptRestarts, \* values VCL may assign to req.restarts ({}: it leaves it alone)
  ScriptStatuses, \* statuses VCL may put in obj.status
  MaxTime         \* the clock stops here (a bound of the model)

ASSUME PipelineAssumption ==
  /\ Nobody \notin Requests
  /\ NoKey \notin Keys
  /\ MaxRestarts \in Nat
  /\ Ttls \subseteq Int
  /\ Windows \subseteq Int
  /\ DefaultTtl \in Nat \ {0}
  /\ DefaultWindow \in Nat
  /\ ScriptRestarts \subseteq Int
  /\ ScriptStatuses \subseteq {"script", "zero"}
  /\ MaxTime \in Nat

(***************************************************************************)
(* A stored object.  `id' tells two objects stored under one key apart.    *)
(***************************************************************************)
Entry == [id : Nat, created : Nat, expires : Int, staleUntil : Int]

ASSUME NoEntryAssumption == NoEntry \notin Entry

VARIABLES
  now,        \* platform.now()
  cache,      \* the Map: key -> entry or NoEntry
  objects,    \* how many objects have been stored so far
  thread,     \* the request whose synchronous turn it is
  pc,         \* where each request is in runPass
  restarts,   \* context.req.restarts
  key,        \* runPass's key
  cached, at, \* runPass's cached entry and the time of its lookup
  action,     \* runPass's action once vcl_fetch has run
  objStatus,  \* context.obj.status, by who set it
  objHits,    \* context.obj.hits
  beresp,     \* context.beresp
  result,     \* what runPipeline resolved to
  passes,     \* history: runPass calls so far
  verbs       \* history: "lookup" and "error", if returned in this pass

world   == <<now, cache, objects>>
turn    == <<thread, pc, result>>
context == <<restarts, objStatus, objHits, beresp>>
local   == <<key, cached, at, action>>
history == <<passes, verbs>>
vars    == <<world, turn, context, local, history>>

-----------------------------------------------------------------------------
(* Where a request can be.  "fetching" is the one await of runPass.         *)

Phases == {"idle", "recv", "upgrade", "hash", "hit", "hitDeliver", "hitLog",
           "miss", "pass", "send", "fetching", "fetch", "deliver", "log",
           "error", "failed", "restart", "limit", "done"}

(* The phases in which a cached object has been found and not yet served.   *)
HitPhases == {"hit", "hitDeliver", "hitLog"}

(* The phases that run a VCL subroutine.                                    *)
SubroutinePhases == Phases \ {"idle", "send", "fetching", "restart", "done"}

(* What a subroutine may return, as far as runPass tells the values apart.  *)
(* An exception in vcl_recv .. vcl_fetch reads as "error".                  *)
RecvActions  == {"lookup", "pass", "error", "restart", "upgrade", "other"}
HitActions   == {"deliver", "restart", "pass", "error", "other"}
MissActions  == {"fetch", "pass", "error"}
FetchActions == {"deliver", "restart", "pass", "error"}
LastActions  == {"deliver", "restart"}

Outcomes == {"hit", "hit-stale", "miss", "pass", "uncacheable", "error",
             "upgrade", "rejected"}

Statuses == {"initial", "script", "zero", "gateway", "unavailable", "limit",
             "internal"}

(* A result names the object a hit served and the status an error sent.     *)
Result == [outcome : Outcomes \cup {"none"}, object : Nat,
           status : Statuses \cup {"none"}]

Pending == [outcome |-> "none", object |-> 0, status |-> "none"]

Beresp == [ttl : Int, window : Int, born : Nat, backend : Nat]

NoBeresp == [ttl |-> 0, window |-> 0, born |-> 0, backend |-> 0]

TypeOK ==
  /\ now \in Nat
  /\ cache \in [Keys -> Entry \cup {NoEntry}]
  /\ objects \in Nat
  /\ thread \in Requests \cup {Nobody}
  /\ pc \in [Requests -> Phases]
  /\ result \in [Requests -> Result]
  /\ restarts \in [Requests -> Int]
  /\ objStatus \in [Requests -> Statuses]
  /\ objHits \in [Requests -> {0, 1}]
  /\ beresp \in [Requests -> Beresp]
  /\ key \in [Requests -> Keys \cup {NoKey}]
  /\ cached \in [Requests -> Entry \cup {NoEntry}]
  /\ at \in [Requests -> Nat]
  /\ action \in [Requests -> FetchActions \cup {"none"}]
  /\ passes \in [Requests -> Nat]
  /\ verbs \in [Requests -> SUBSET {"lookup", "error"}]

Init ==
  /\ now = 0
  /\ cache = [k \in Keys |-> NoEntry]
  /\ objects = 0
  /\ thread = Nobody
  /\ pc = [r \in Requests |-> "idle"]
  /\ result = [r \in Requests |-> Pending]
  /\ restarts = [r \in Requests |-> 0]
  /\ objStatus = [r \in Requests |-> "initial"]
  /\ objHits = [r \in Requests |-> 0]
  /\ beresp = [r \in Requests |-> NoBeresp]
  /\ key = [r \in Requests |-> NoKey]
  /\ cached = [r \in Requests |-> NoEntry]
  /\ at = [r \in Requests |-> 0]
  /\ action = [r \in Requests |-> "none"]
  /\ passes = [r \in Requests |-> 0]
  /\ verbs = [r \in Requests |-> {}]

-----------------------------------------------------------------------------
(* Steps shared by the handlers.                                            *)

Runs(r, phase) == thread = r /\ pc[r] = phase

(* The turn goes on in another phase of runPass.                            *)
Continue(r, phase) ==
  /\ pc' = [pc EXCEPT ![r] = phase]
  /\ UNCHANGED <<thread, result>>

(* runPipeline settles: the thread is free, and the context and the locals  *)
(* of runPass are garbage (here: back to what they were).                   *)
Finish(r, outcome, object, status) ==
  /\ pc' = [pc EXCEPT ![r] = "done"]
  /\ thread' = Nobody
  /\ result' = [result EXCEPT ![r] =
       [outcome |-> outcome, object |-> object, status |-> status]]
  /\ restarts' = [restarts EXCEPT ![r] = 0]
  /\ objStatus' = [objStatus EXCEPT ![r] = "initial"]
  /\ objHits' = [objHits EXCEPT ![r] = 0]
  /\ beresp' = [beresp EXCEPT ![r] = NoBeresp]
  /\ key' = [key EXCEPT ![r] = NoKey]
  /\ cached' = [cached EXCEPT ![r] = NoEntry]
  /\ at' = [at EXCEPT ![r] = 0]
  /\ action' = [action EXCEPT ![r] = "none"]
  /\ passes' = [passes EXCEPT ![r] = 0]
  /\ verbs' = [verbs EXCEPT ![r] = {}]

(* What any subroutine may write: VCL can set req.restarts and obj.status.  *)
Script(r) ==
  /\ \E n \in ScriptRestarts \cup {restarts[r]} :
       restarts' = [restarts EXCEPT ![r] = n]
  /\ \E s \in ScriptStatuses \cup {objStatus[r]} :
       objStatus' = [objStatus EXCEPT ![r] = s]

(* Mutant of NewPass: beresp.backend survives a restart.                    *)
NewPassKeepsBackend(r) ==
  /\ key' = [key EXCEPT ![r] = NoKey]
  /\ cached' = [cached EXCEPT ![r] = NoEntry]
  /\ at' = [at EXCEPT ![r] = 0]
  /\ action' = [action EXCEPT ![r] = "none"]
  /\ passes' = [passes EXCEPT ![r] = @ + 1]
  /\ verbs' = [verbs EXCEPT ![r] = {}]
  /\ UNCHANGED beresp

(* Mutant of NewPass: the cache key survives a restart.                     *)
NewPassKeepsKey(r) ==
  /\ cached' = [cached EXCEPT ![r] = NoEntry]
  /\ at' = [at EXCEPT ![r] = 0]
  /\ action' = [action EXCEPT ![r] = "none"]
  /\ beresp' = [beresp EXCEPT ![r].backend = 0]
  /\ passes' = [passes EXCEPT ![r] = @ + 1]
  /\ verbs' = [verbs EXCEPT ![r] = {}]
  /\ UNCHANGED key

(* The head of runPass: no hash data, no beresp.backend, no key.            *)
NewPass(r) ==
  /\ key' = [key EXCEPT ![r] = NoKey]
  /\ cached' = [cached EXCEPT ![r] = NoEntry]
  /\ at' = [at EXCEPT ![r] = 0]
  /\ action' = [action EXCEPT ![r] = "none"]
  /\ beresp' = [beresp EXCEPT ![r].backend = 0]
  /\ passes' = [passes EXCEPT ![r] = @ + 1]
  /\ verbs' = [verbs EXCEPT ![r] = {}]

Returned(r, verb) ==
  verbs' = [verbs EXCEPT ![r] = @ \cup ({verb} \cap {"lookup", "error"})]

(* Mutants of IsFresh (fresh for one tick too many) and of IsStale (stale   *)
(* without end).                                                            *)
IsFreshTooLong(e, t) == t <= e.expires
IsStaleForever(e, t) == t >= e.expires

(* isFresh and isStale of a lookup made at time t.                          *)
IsFresh(e, t) == t < e.expires
IsStale(e, t) == ~IsFresh(e, t) /\ t < e.staleUntil

-----------------------------------------------------------------------------
(* The handlers, in the order runPass calls them.                           *)

Arrive(r) ==
  /\ thread = Nobody
  /\ pc[r] = "idle"
  /\ thread' = r
  /\ pc' = [pc EXCEPT ![r] = "recv"]
  /\ NewPass(r)
  /\ UNCHANGED <<world, result, restarts, objStatus, objHits>>

(* vcl_recv picks the way through the pass.  An action that is none of      *)
(* restart, upgrade, error, lookup and pass goes straight to the backend.   *)
Recv(r) ==
  /\ Runs(r, "recv")
  /\ Script(r)
  /\ \E v \in RecvActions :
       /\ Returned(r, v)
       /\ Continue(r, CASE v = "lookup" -> "hash"
                        [] v = "other"  -> "send"
                        [] OTHER        -> v)
  /\ UNCHANGED <<world, local, objHits, beresp, passes>>

Upgrade(r) ==
  /\ Runs(r, "upgrade")
  /\ Finish(r, "upgrade", 0, "none")
  /\ UNCHANGED world

(* vcl_hash and the lookup: a servable object leads to vcl_hit, an absent   *)
(* one to vcl_miss, and an expired one is deleted on the way to vcl_miss.   *)
Lookup(r) ==
  /\ Runs(r, "hash")
  /\ Script(r)
  /\ \E k \in Keys :
       LET e == cache[k]
           servable == e # NoEntry /\ (IsFresh(e, now) \/ IsStale(e, now))
       IN /\ key' = [key EXCEPT ![r] = k]
          /\ \/ /\ servable
                /\ cached' = [cached EXCEPT ![r] = e]
                /\ at' = [at EXCEPT ![r] = now]
                /\ objHits' = [objHits EXCEPT ![r] = 1]
                /\ Continue(r, "hit")
                /\ UNCHANGED cache
             \/ /\ ~servable
                /\ cache' = [cache EXCEPT ![k] = NoEntry]
                /\ Continue(r, "miss")
                /\ UNCHANGED <<cached, at, objHits>>
  /\ UNCHANGED <<now, objects, action, beresp, history>>

(* vcl_hit: deliver serves the object, restart restarts, and anything else  *)
(* refetches under the same key.                                            *)
Hit(r) ==
  /\ Runs(r, "hit")
  /\ Script(r)
  /\ \E v \in HitActions :
       /\ Returned(r, v)
       /\ Continue(r, CASE v = "deliver" -> "hitDeliver"
                        [] v = "restart" -> "restart"
                        [] OTHER         -> "send")
  /\ UNCHANGED <<world, local, objHits, beresp, passes>>

HitDeliver(r) ==
  /\ Runs(r, "hitDeliver")
  /\ Script(r)
  /\ \E v \in LastActions :
       Continue(r, IF v = "restart" THEN "restart" ELSE "hitLog")
  /\ UNCHANGED <<world, local, objHits, beresp, history>>

(* Mutants of HitLog: a stale object stays; a fresh one goes too.           *)
HitLogKeepsStale(r) ==
  /\ Runs(r, "hitLog")
  /\ Finish(r, IF IsStale(cached[r], at[r]) THEN "hit-stale" ELSE "hit",
            cached[r].id, "none")
  /\ UNCHANGED world

HitLogDropsFresh(r) ==
  /\ Runs(r, "hitLog")
  /\ cache' = [cache EXCEPT ![key[r]] = NoEntry]
  /\ Finish(r, IF IsStale(cached[r], at[r]) THEN "hit-stale" ELSE "hit",
            cached[r].id, "none")
  /\ UNCHANGED <<now, objects>>

(* vcl_log, the deletion of a stale object, and the response.               *)
HitLog(r) ==
  /\ Runs(r, "hitLog")
  /\ IF IsStale(cached[r], at[r])
       THEN /\ cache' = [cache EXCEPT ![key[r]] = NoEntry]
            /\ Finish(r, "hit-stale", cached[r].id, "none")
       ELSE /\ Finish(r, "hit", cached[r].id, "none")
            /\ UNCHANGED cache
  /\ UNCHANGED <<now, objects>>

(* vcl_miss and vcl_pass: whatever they return, the fetch goes ahead.       *)
MissOrPass(r) ==
  /\ Runs(r, "miss") \/ Runs(r, "pass")
  /\ Script(r)
  /\ \E v \in MissActions : Returned(r, v)
  /\ Continue(r, "send")
  /\ UNCHANGED <<world, local, objHits, beresp, passes>>

(* await getBackendResponse(context): the turn ends here.                   *)
Send(r) ==
  /\ Runs(r, "send")
  /\ pc' = [pc EXCEPT ![r] = "fetching"]
  /\ thread' = Nobody
  /\ UNCHANGED <<world, result, context, local, history>>

(* The backend answered: beresp is born from this answer alone.             *)
Answer(r) ==
  /\ thread = Nobody
  /\ pc[r] = "fetching"
  /\ thread' = r
  /\ pc' = [pc EXCEPT ![r] = "fetch"]
  /\ beresp' = [beresp EXCEPT ![r] = [ttl |-> 0, window |-> 0,
                                      born |-> passes[r], backend |-> passes[r]]]
  /\ UNCHANGED <<world, result, restarts, objStatus, objHits, local, history>>

(* Mutant of Fail: the failure leaves no status at all.                     *)
FailClearsStatus(r) ==
  /\ thread = Nobody
  /\ pc[r] = "fetching"
  /\ thread' = r
  /\ pc' = [pc EXCEPT ![r] = "failed"]
  /\ objStatus' = [objStatus EXCEPT ![r] = "none"]
  /\ UNCHANGED <<world, result, restarts, objHits, beresp, local, history>>

(* getBackendResponse threw.  A network error left its own status in obj; a *)
(* backend that could not be used did not, and runPass fills in 503 only    *)
(* when obj.status is still zero.                                           *)
Fail(r) ==
  /\ thread = Nobody
  /\ pc[r] = "fetching"
  /\ thread' = r
  /\ pc' = [pc EXCEPT ![r] = "failed"]
  /\ \E s \in {"gateway", IF objStatus[r] = "zero" THEN "unavailable"
                                                   ELSE objStatus[r]} :
       objStatus' = [objStatus EXCEPT ![r] = s]
  /\ UNCHANGED <<world, result, restarts, objHits, beresp, local, history>>

(* The response made of obj: a status of zero reads as unset.               *)
ErrorResult(r, s) == Finish(r, "error", 0, IF s = "zero" THEN "internal" ELSE s)

(* vcl_error, after vcl_recv chose error or the backend failed, then the    *)
(* response made of obj.                                                    *)
ErrorRestart(r) ==
  /\ Runs(r, "error") \/ Runs(r, "failed")
  /\ Script(r)
  /\ Continue(r, "restart")
  /\ UNCHANGED <<world, local, objHits, beresp, history>>

ErrorDeliver(r) ==
  /\ Runs(r, "error") \/ Runs(r, "failed")
  /\ \E s \in ScriptStatuses \cup {objStatus[r]} : ErrorResult(r, s)
  /\ UNCHANGED world

(* vcl_fetch decides what becomes of the response.  A ttl of zero reads as  *)
(* unset and brings in the defaults.                                        *)
Fetch(r) ==
  /\ Runs(r, "fetch")
  /\ Script(r)
  /\ \E v \in FetchActions, t \in Ttls, w \in Windows :
       LET unset == t = 0 /\ v # "restart"
       IN /\ action' = [action EXCEPT ![r] = v]
          /\ beresp' = [beresp EXCEPT ![r] =
               [ttl     |-> IF unset THEN DefaultTtl ELSE t,
                window  |-> IF unset THEN DefaultWindow ELSE w,
                born    |-> beresp[r].born,
                backend |-> beresp[r].backend]]
          /\ Continue(r, IF v = "restart" THEN "restart" ELSE "deliver")
  /\ UNCHANGED <<world, objHits, key, cached, at, history>>

(* Mutant of Storable: a response without a lifetime is stored.             *)
StorableDead(r, ttl) == action[r] = "deliver" /\ key[r] # NoKey

(* What decides whether the response of this pass is kept.                  *)
Storable(r, ttl) == action[r] = "deliver" /\ key[r] # NoKey /\ ttl > 0

(* vcl_deliver, then the store, then the restart it may have asked for.     *)
Deliver(r) ==
  /\ Runs(r, "deliver")
  /\ Script(r)
  /\ \E t \in Ttls \cup {beresp[r].ttl}, w \in Windows \cup {beresp[r].window} :
       /\ beresp' = [beresp EXCEPT ![r].ttl = t, ![r].window = w]
       /\ IF Storable(r, t)
            THEN /\ objects' = objects + 1
                 /\ cache' = [cache EXCEPT ![key[r]] =
                      [id |-> objects + 1, created |-> now, expires |-> now + t,
                       staleUntil |-> now + t + w]]
            ELSE UNCHANGED <<cache, objects>>
  /\ \E v \in LastActions :
       Continue(r, IF v = "restart" THEN "restart" ELSE "log")
  /\ UNCHANGED <<now, local, objHits, history>>

Log(r) ==
  /\ Runs(r, "log")
  /\ Finish(r, IF key[r] = NoKey THEN "pass"
               ELSE IF Storable(r, beresp[r].ttl) THEN "miss" ELSE "uncacheable",
            0, "none")
  /\ UNCHANGED world

(* Mutant of Restart: the limit is one too high.                            *)
RestartOnceMore(r) ==
  /\ Runs(r, "restart")
  /\ restarts[r] <= MaxRestarts
  /\ restarts' = [restarts EXCEPT ![r] = @ + 1]
  /\ NewPass(r)
  /\ Continue(r, "recv")
  /\ UNCHANGED <<world, objStatus, objHits>>

(* The loop of runPipeline: another pass, or the restart limit.             *)
Restart(r) ==
  /\ Runs(r, "restart")
  /\ restarts[r] < MaxRestarts
  /\ restarts' = [restarts EXCEPT ![r] = @ + 1]
  /\ NewPass(r)
  /\ Continue(r, "recv")
  /\ UNCHANGED <<world, objStatus, objHits>>

RestartLimit(r) ==
  /\ Runs(r, "restart")
  /\ restarts[r] >= MaxRestarts
  /\ objStatus' = [objStatus EXCEPT ![r] = "limit"]
  /\ Continue(r, "limit")
  /\ UNCHANGED <<world, restarts, objHits, beresp, local, history>>

(* Mutant of LimitError: vcl_error may restart after the limit.             *)
LimitErrorRestarts(r) ==
  /\ Runs(r, "limit")
  /\ Continue(r, "restart")
  /\ UNCHANGED <<world, context, local, history>>

(* vcl_error after the limit: its action is ignored.                        *)
LimitError(r) ==
  /\ Runs(r, "limit")
  /\ \E s \in ScriptStatuses \cup {objStatus[r]} : ErrorResult(r, s)
  /\ UNCHANGED world

(* An UnsupportedFeatureError or VCLLimitExceededError escapes executeVCL   *)
(* and rejects runPipeline's promise.                                       *)
Reject(r) ==
  /\ \E p \in SubroutinePhases : Runs(r, p)
  /\ Finish(r, "rejected", 0, "none")
  /\ UNCHANGED world

Tick ==
  /\ now < MaxTime
  /\ now' = now + 1
  /\ UNCHANGED <<cache, objects, turn, context, local, history>>

(* Every request has been answered: the model may stop here.                *)
Settled ==
  /\ \A r \in Requests : pc[r] = "done"
  /\ UNCHANGED vars

Turn(r) ==
  \/ Recv(r) \/ Upgrade(r) \/ Lookup(r) \/ Hit(r) \/ HitDeliver(r) \/ HitLog(r)
  \/ MissOrPass(r) \/ Send(r) \/ Fetch(r) \/ Deliver(r) \/ Log(r)
  \/ ErrorRestart(r) \/ ErrorDeliver(r) \/ Restart(r) \/ RestartLimit(r)
  \/ LimitError(r) \/ Reject(r)

Resume(r) == Answer(r) \/ Fail(r)

Next ==
  \/ \E r \in Requests : Arrive(r) \/ Resume(r) \/ Turn(r)
  \/ Tick
  \/ Settled

Spec == Init /\ [][Next]_vars

(* A turn runs to its end (subroutines have no loops), and every fetch      *)
(* ends: AbortSignal.timeout bounds it.  Arrivals and the clock owe nothing.*)
Fairness == \A r \in Requests : WF_vars(Turn(r)) /\ WF_vars(Resume(r))

FairSpec == Spec /\ Fairness

-----------------------------------------------------------------------------
(* Properties.                                                              *)

(* A request makes at most maxRestarts + 1 passes, and so as many backend   *)
(* requests, whichever subroutines restart it (the loop of runPipeline).    *)
RestartBound == \A r \in Requests : passes[r] <= MaxRestarts + 1

(* From the lookup that finds an object to the response that serves it, and *)
(* through the VCL that runs in between, the Map still holds that very      *)
(* object, and the lookup fell in its lifetime: the age reported is not     *)
(* negative and the deletion of a stale object removes no other.            *)
HitIsLive ==
  \A r \in Requests : pc[r] \in HitPhases =>
    /\ cached[r] # NoEntry
    /\ cache[key[r]] = cached[r]
    /\ cached[r].created <= at[r]
    /\ at[r] < cached[r].expires \/ at[r] < cached[r].staleUntil

(* A pass never sees the beresp of an earlier one: what vcl_fetch and       *)
(* vcl_deliver work on was born in this pass, and beresp.backend names the  *)
(* backend of this pass or none (a restart cannot inherit it).              *)
BerespOfThisPass ==
  \A r \in Requests :
    /\ pc[r] \in {"fetch", "deliver", "log"} => beresp[r].born = passes[r]
    /\ beresp[r].backend \in {0, passes[r]}

ServedStale(r, object) == result[r].outcome = "hit-stale" /\ result[r].object = object

(* A stale object answers one request: it is deleted with that answer, so   *)
(* no other request is served it, fresh or stale, and it is not found again.*)
StaleServedOnce ==
  \A r \in Requests : \A object \in 1 .. objects : ServedStale(r, object) =>
    /\ \A q \in Requests \ {r} : ~ServedStale(q, object)
    /\ \A k \in Keys : cache[k] # NoEntry => cache[k].id # object

(* A fresh object leaves the Map only when a newer one replaces it: neither *)
(* the deletion after a stale hit nor that of an expired object can hit it. *)
FreshIsKept ==
  [][\A k \in Keys : cache[k] # NoEntry /\ cache'[k] = NoEntry
                        => now >= cache[k].expires]_vars

(* A response is stored only when vcl_recv of this pass (not of a pass      *)
(* before a restart) chose lookup and vcl_fetch returned deliver, and it is *)
(* stored alive.                                                            *)
StoreRule ==
  [][\A k \in Keys : cache'[k] # cache[k] /\ cache'[k] # NoEntry =>
       /\ cache'[k].created < cache'[k].expires
       /\ \E r \in Requests : /\ thread = r
                              /\ key[r] = k
                              /\ "lookup" \in verbs[r]
                              /\ action[r] = "deliver"]_vars

(* Every request that has started is answered.                              *)
EveryRequestAnswered ==
  \A r \in Requests : pc[r] = "recv" ~> pc[r] = "done"

-----------------------------------------------------------------------------
(* The inductive invariant: what the properties above rest on.              *)

(* A request that is not waiting holds the thread, so the steps between its *)
(* lookup and its answer are its own.                                       *)
TurnIsHeld ==
  \A r \in Requests : pc[r] \notin {"idle", "fetching", "done"} => thread = r

(* Objects in the Map were stored alive, in the past, each under its own id.*)
EntriesAreSound ==
  \A k \in Keys : cache[k] # NoEntry =>
    /\ cache[k].id \in 1 .. objects
    /\ cache[k].created <= now
    /\ cache[k].created < cache[k].expires
    /\ \A j \in Keys \ {k} : cache[j] # NoEntry => cache[j].id # cache[k].id

(* A hit was looked up under a key, in the past.                            *)
HitHasKey ==
  \A r \in Requests : pc[r] \in HitPhases => key[r] \in Keys /\ at[r] <= now

(* A request has a result only once it is done, naming a stored object.     *)
ResultsAreFinal ==
  \A r \in Requests : /\ pc[r] # "done" => result[r] = Pending
                      /\ result[r].object <= objects

(* This pass has a key only because its vcl_recv returned lookup.           *)
KeyMeansLookup ==
  \A r \in Requests : pc[r] = "hash" \/ key[r] # NoKey => "lookup" \in verbs[r]

IInv ==
  /\ TypeOK
  /\ TurnIsHeld
  /\ EntriesAreSound
  /\ HitHasKey
  /\ HitIsLive
  /\ ResultsAreFinal
  /\ StaleServedOnce
  /\ KeyMeansLookup
  /\ BerespOfThisPass

(* req.restarts counts the passes when VCL leaves it alone.                 *)
RestartsCountPasses ==
  \A r \in Requests :
    /\ restarts[r] \in 0 .. MaxRestarts
    /\ IF pc[r] \in {"idle", "done"} THEN restarts[r] = 0 /\ passes[r] = 0
                                     ELSE passes[r] = restarts[r] + 1

-----------------------------------------------------------------------------
(* Refinement, and what the documentation says of the code.                 *)

(* The lifecycle implements the atomic cache: a hit is served from what the *)
(* Map holds at that step and was servable when the request looked, whatever*)
(* other requests did in between, and requests settle once.                 *)
lookups == [r \in Requests |-> IF pc[r] \in HitPhases THEN at[r] ELSE -1]

answers == [r \in Requests |-> [outcome |-> result[r].outcome,
                                object  |-> result[r].object]]

AtomicCache == INSTANCE ResponseCache WITH
  clock <- now, store <- cache, stored <- objects, looked <- lookups,
  answer <- answers

ImplementsAtomicCache == AtomicCache!Spec

(* When the backend request has failed, obj.status says so: the error       *)
(* response is not sent under the 200 that createVCLContext starts from.    *)
FailureSetsStatus ==
  \A r \in Requests : pc[r] = "failed" => objStatus[r] # "initial"
=============================================================================
