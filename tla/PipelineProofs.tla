--------------------------- MODULE PipelineProofs ---------------------------
(***************************************************************************)
(* Proofs about module Pipeline, for any sets of requests and keys, any    *)
(* restart limit and any values VCL may choose.                            *)
(***************************************************************************)
EXTENDS Pipeline, TLAPS

(* The subroutines write context fields of the right types.                 *)
LEMMA ScriptType ==
  ASSUME TypeOK, NEW r \in Requests, Script(r)
  PROVE  /\ restarts' \in [Requests -> Int]
         /\ objStatus' \in [Requests -> Statuses]
BY PipelineAssumption DEF Script, TypeOK, Statuses

(* A settled request keeps the state well typed.                            *)
LEMMA FinishType ==
  ASSUME TypeOK, NEW r \in Requests, NEW outcome \in Outcomes, NEW object \in Nat,
         NEW status \in Statuses \cup {"none"},
         Finish(r, outcome, object, status), UNCHANGED <<now, objects>>,
         cache' \in [Keys -> Entry \cup {NoEntry}]
  PROVE  TypeOK'
<1>1. result' \in [Requests -> Result]
  BY DEF Finish, TypeOK, Result
<1>2. pc' \in [Requests -> Phases] /\ thread' \in Requests \cup {Nobody}
  BY DEF Finish, TypeOK, Phases
<1>3. /\ restarts' \in [Requests -> Int]
      /\ objStatus' \in [Requests -> Statuses]
      /\ objHits' \in [Requests -> {0, 1}]
      /\ beresp' \in [Requests -> Beresp]
  BY DEF Finish, TypeOK, Statuses, Beresp, NoBeresp
<1>4. /\ key' \in [Requests -> Keys \cup {NoKey}]
      /\ cached' \in [Requests -> Entry \cup {NoEntry}]
      /\ at' \in [Requests -> Nat]
      /\ action' \in [Requests -> FetchActions \cup {"none"}]
  BY DEF Finish, TypeOK
<1>5. /\ passes' \in [Requests -> Nat]
      /\ verbs' \in [Requests -> SUBSET {"lookup", "error"}]
  BY DEF Finish, TypeOK
<1> QED
  BY <1>1, <1>2, <1>3, <1>4, <1>5 DEF TypeOK

(* So does the head of a pass.                                              *)
LEMMA NewPassType ==
  ASSUME TypeOK, NEW r \in Requests, NewPass(r)
  PROVE  /\ key' \in [Requests -> Keys \cup {NoKey}]
         /\ cached' \in [Requests -> Entry \cup {NoEntry}]
         /\ at' \in [Requests -> Nat]
         /\ action' \in [Requests -> FetchActions \cup {"none"}]
         /\ beresp' \in [Requests -> Beresp]
         /\ passes' \in [Requests -> Nat]
         /\ verbs' \in [Requests -> SUBSET {"lookup", "error"}]
<1>1. beresp' \in [Requests -> Beresp]
  BY DEF NewPass, TypeOK, Beresp
<1> QED
  BY <1>1 DEF NewPass, TypeOK

LEMMA InitType == Init => TypeOK
BY DEF Init, TypeOK, Phases, Statuses, Result, Pending, Beresp, NoBeresp

(* One step per action of a turn.                                           *)
LEMMA TurnType ==
  ASSUME TypeOK, HitIsLive, NEW r \in Requests, Turn(r)
  PROVE  TypeOK'
<1> USE DEF world, turn, context, local, history
<1>1. CASE Recv(r)
  BY <1>1, ScriptType DEF Recv, TypeOK, Continue, Returned, Phases, RecvActions
<1>2. CASE Upgrade(r)
  BY <1>2, FinishType DEF Upgrade, TypeOK, Outcomes
<1>3. CASE Lookup(r)
  <2>1. PICK k \in Keys :
          /\ key' = [key EXCEPT ![r] = k]
          /\ \/ /\ cache[k] # NoEntry
                /\ cached' = [cached EXCEPT ![r] = cache[k]]
                /\ at' = [at EXCEPT ![r] = now]
                /\ objHits' = [objHits EXCEPT ![r] = 1]
                /\ Continue(r, "hit")
                /\ UNCHANGED cache
             \/ /\ cache' = [cache EXCEPT ![k] = NoEntry]
                /\ Continue(r, "miss")
                /\ UNCHANGED <<cached, at, objHits>>
    BY <1>3 DEF Lookup
  <2>2. /\ key' \in [Requests -> Keys \cup {NoKey}]
        /\ cache' \in [Keys -> Entry \cup {NoEntry}]
        /\ cached' \in [Requests -> Entry \cup {NoEntry}]
        /\ at' \in [Requests -> Nat]
        /\ objHits' \in [Requests -> {0, 1}]
    BY <2>1 DEF TypeOK
  <2>3. pc' \in [Requests -> Phases] /\ UNCHANGED <<thread, result>>
    BY <2>1 DEF TypeOK, Continue, Phases
  <2> QED
    BY <1>3, <2>2, <2>3, ScriptType DEF Lookup, TypeOK
<1>4. CASE Hit(r)
  BY <1>4, ScriptType DEF Hit, TypeOK, Continue, Returned, Phases, HitActions
<1>5. CASE HitDeliver(r)
  BY <1>5, ScriptType DEF HitDeliver, TypeOK, Continue, Phases
<1>6. CASE HitLog(r)
  <2>1. cached[r] \in Entry
    BY <1>6 DEF HitLog, Runs, HitIsLive, HitPhases, TypeOK
  <2>2. cached[r].id \in Nat
    BY <2>1 DEF Entry
  <2> QED
    BY <1>6, <2>2, FinishType DEF HitLog, TypeOK, Outcomes, Entry
<1>7. CASE MissOrPass(r)
  BY <1>7, ScriptType DEF MissOrPass, TypeOK, Continue, Returned, Phases
<1>8. CASE Send(r)
  BY <1>8 DEF Send, TypeOK, Phases
<1>9. CASE Fetch(r)
  <2>1. PICK v \in FetchActions, t \in Int, w \in Int :
          /\ action' = [action EXCEPT ![r] = v]
          /\ beresp' = [beresp EXCEPT ![r] =
               [ttl |-> t, window |-> w, born |-> beresp[r].born,
                backend |-> beresp[r].backend]]
          /\ Continue(r, IF v = "restart" THEN "restart" ELSE "deliver")
    <3>1. PICK v \in FetchActions, t \in Ttls, w \in Windows :
            /\ action' = [action EXCEPT ![r] = v]
            /\ beresp' = [beresp EXCEPT ![r] =
                 [ttl     |-> IF t = 0 /\ v # "restart" THEN DefaultTtl ELSE t,
                  window  |-> IF t = 0 /\ v # "restart" THEN DefaultWindow ELSE w,
                  born    |-> beresp[r].born,
                  backend |-> beresp[r].backend]]
            /\ Continue(r, IF v = "restart" THEN "restart" ELSE "deliver")
      BY <1>9 DEF Fetch
    <3> DEFINE tt == IF t = 0 /\ v # "restart" THEN DefaultTtl ELSE t
               ww == IF t = 0 /\ v # "restart" THEN DefaultWindow ELSE w
    <3>2. tt \in Int /\ ww \in Int
      BY <3>1, PipelineAssumption
    <3>3. /\ beresp' = [beresp EXCEPT ![r] =
               [ttl |-> tt, window |-> ww, born |-> beresp[r].born,
                backend |-> beresp[r].backend]]
          /\ action' = [action EXCEPT ![r] = v]
          /\ Continue(r, IF v = "restart" THEN "restart" ELSE "deliver")
      BY <3>1
    <3> HIDE DEF tt, ww
    <3> QED
      BY <3>2, <3>3
  <2>2. beresp[r] \in Beresp
    BY DEF TypeOK
  <2>3. [ttl |-> t, window |-> w, born |-> beresp[r].born,
         backend |-> beresp[r].backend] \in Beresp
    BY <2>2 DEF Beresp
  <2>4. beresp' \in [Requests -> Beresp]
    BY <2>1, <2>3 DEF TypeOK
  <2>5. pc' \in [Requests -> Phases] /\ UNCHANGED <<thread, result>>
    BY <2>1 DEF TypeOK, Continue, Phases
  <2> QED
    BY <1>9, <2>1, <2>4, <2>5, ScriptType DEF Fetch, TypeOK
<1>10. CASE Deliver(r)
  <2>1. PICK t \in Int, w \in Int :
          /\ beresp' = [beresp EXCEPT ![r].ttl = t, ![r].window = w]
          /\ \/ /\ objects' = objects + 1
                /\ cache' = [cache EXCEPT ![key[r]] =
                     [id |-> objects + 1, created |-> now, expires |-> now + t,
                      staleUntil |-> now + t + w]]
             \/ UNCHANGED <<cache, objects>>
    <3>1. PICK t \in Ttls \cup {beresp[r].ttl}, w \in Windows \cup {beresp[r].window} :
            /\ beresp' = [beresp EXCEPT ![r].ttl = t, ![r].window = w]
            /\ IF Storable(r, t)
                 THEN /\ objects' = objects + 1
                      /\ cache' = [cache EXCEPT ![key[r]] =
                           [id |-> objects + 1, created |-> now, expires |-> now + t,
                            staleUntil |-> now + t + w]]
                 ELSE UNCHANGED <<cache, objects>>
      BY <1>10 DEF Deliver
    <3>2. t \in Int /\ w \in Int
      BY PipelineAssumption DEF TypeOK, Beresp
    <3> QED
      BY <3>1, <3>2
  <2>2. beresp' \in [Requests -> Beresp] /\ objects' \in Nat
    <3>0. beresp[r] \in Beresp
      BY DEF TypeOK
    <3>1. [beresp[r] EXCEPT !.ttl = t, !.window = w] \in Beresp
      BY <3>0 DEF Beresp
    <3>2. beresp' = [beresp EXCEPT ![r] = [beresp[r] EXCEPT !.ttl = t, !.window = w]]
      BY <2>1, <3>0 DEF TypeOK, Beresp
    <3>3. objects' \in Nat
      BY <2>1 DEF TypeOK
    <3> QED
      BY <3>1, <3>2, <3>3 DEF TypeOK
  <2>3. [id |-> objects + 1, created |-> now, expires |-> now + t,
         staleUntil |-> now + t + w] \in Entry
    BY <2>1 DEF TypeOK, Beresp, Entry
  <2>4. cache' \in [Keys -> Entry \cup {NoEntry}]
    BY <2>1, <2>3 DEF TypeOK
  <2>5. pc' \in [Requests -> Phases] /\ UNCHANGED <<thread, result>>
    BY <1>10 DEF Deliver, TypeOK, Continue, Phases
  <2> QED
    BY <1>10, <2>2, <2>4, <2>5, ScriptType DEF Deliver, TypeOK
<1>11. CASE Log(r)
  BY <1>11, FinishType DEF Log, TypeOK, Outcomes
<1>12. CASE ErrorRestart(r)
  BY <1>12, ScriptType DEF ErrorRestart, TypeOK, Continue, Phases
<1>13. CASE ErrorDeliver(r)
  <2>1. PICK s \in Statuses : Finish(r, "error", 0, s)
    BY <1>13, PipelineAssumption DEF ErrorDeliver, ErrorResult, TypeOK, Statuses
  <2> QED
    BY <1>13, <2>1, FinishType DEF ErrorDeliver, TypeOK, Outcomes
<1>14. CASE Restart(r)
  BY <1>14, NewPassType DEF Restart, TypeOK, Continue, Phases
<1>15. CASE RestartLimit(r)
  BY <1>15 DEF RestartLimit, TypeOK, Continue, Phases, Statuses
<1>16. CASE LimitError(r)
  <2>1. PICK s \in Statuses : Finish(r, "error", 0, s)
    BY <1>16, PipelineAssumption DEF LimitError, ErrorResult, TypeOK, Statuses
  <2> QED
    BY <1>16, <2>1, FinishType DEF LimitError, TypeOK, Outcomes
<1>17. CASE Reject(r)
  BY <1>17, FinishType DEF Reject, TypeOK, Outcomes
<1> QED
  BY <1>1, <1>2, <1>3, <1>4, <1>5, <1>6, <1>7, <1>8, <1>9, <1>10, <1>11,
     <1>12, <1>13, <1>14, <1>15, <1>16, <1>17 DEF Turn

LEMMA StepType == TypeOK /\ HitIsLive /\ [Next]_vars => TypeOK'
<1> SUFFICES ASSUME TypeOK, HitIsLive, [Next]_vars PROVE TypeOK'
  OBVIOUS
<1> USE DEF world, turn, context, local, history
<1>1. ASSUME NEW r \in Requests, Arrive(r) PROVE TypeOK'
  BY <1>1, NewPassType DEF Arrive, TypeOK, Phases
<1>2. ASSUME NEW r \in Requests, Answer(r) PROVE TypeOK'
  <2>1. beresp' \in [Requests -> Beresp]
    BY <1>2 DEF Answer, TypeOK, Beresp
  <2> QED
    BY <1>2, <2>1 DEF Answer, TypeOK, Phases
<1>3. ASSUME NEW r \in Requests, Fail(r) PROVE TypeOK'
  <2>1. objStatus' \in [Requests -> Statuses]
    BY <1>3 DEF Fail, TypeOK, Statuses
  <2> QED
    BY <1>3, <2>1 DEF Fail, TypeOK, Phases
<1>4. ASSUME NEW r \in Requests, Turn(r) PROVE TypeOK'
  BY <1>4, TurnType
<1>5. CASE Tick
  BY <1>5 DEF Tick, TypeOK
<1>6. CASE UNCHANGED vars
  BY <1>6 DEF vars, TypeOK
<1> QED
  BY <1>1, <1>2, <1>3, <1>4, <1>5, <1>6 DEF Next, Resume, Settled

-----------------------------------------------------------------------------
(* Each part of the inductive invariant is preserved.  The groups of        *)
(* actions are those that disturb the same variables the same way.          *)

(* The actions that settle a request without touching the Map.              *)
Settles(r) ==
  Upgrade(r) \/ Log(r) \/ ErrorDeliver(r) \/ LimitError(r) \/ Reject(r)

(* The actions that only move a request on, to a phase outside the hit.     *)
Moves(r) ==
  \/ Arrive(r) \/ Answer(r) \/ Fail(r) \/ Recv(r) \/ MissOrPass(r) \/ Send(r)
  \/ Fetch(r) \/ ErrorRestart(r) \/ Restart(r) \/ RestartLimit(r)

LEMMA NextCases ==
  ASSUME [Next]_vars
  PROVE  \/ \E r \in Requests : \/ Moves(r) \/ Settles(r) \/ Lookup(r) \/ Hit(r)
                                \/ HitDeliver(r) \/ HitLog(r) \/ Deliver(r)
         \/ Tick
         \/ UNCHANGED vars
BY DEF Next, Settled, Turn, Resume, Moves, Settles

(* What a move leaves alone, and where it can lead.                         *)
LEMMA MovesFrame ==
  ASSUME TypeOK, NEW r \in Requests, Moves(r)
  PROVE  /\ UNCHANGED <<world, result>>
         /\ \E p \in Phases \ (HitPhases \cup {"idle", "done"}) :
              pc' = [pc EXCEPT ![r] = p]
         /\ pc[r] \notin HitPhases \cup {"done"}
         /\ \A q \in Requests \ {r} :
              key'[q] = key[q] /\ cached'[q] = cached[q] /\ at'[q] = at[q]
<1> USE DEF world, turn, context, local, history, Phases, HitPhases, Continue, Runs,
            NewPass, TypeOK
<1>1. CASE Arrive(r) \/ Answer(r) \/ Fail(r) \/ Send(r)
  BY <1>1 DEF Arrive, Answer, Fail, Send
<1>2. CASE Recv(r)
  BY <1>2 DEF Recv, RecvActions
<1>3. CASE MissOrPass(r) \/ ErrorRestart(r) \/ Restart(r) \/ RestartLimit(r)
  BY <1>3 DEF MissOrPass, ErrorRestart, Restart, RestartLimit
<1>4. CASE Fetch(r)
  BY <1>4 DEF Fetch
<1> QED
  BY <1>1, <1>2, <1>3, <1>4, Moves(r) DEF Moves

LEMMA SettlesFrame ==
  ASSUME NEW r \in Requests, Settles(r)
  PROVE  /\ UNCHANGED world
         /\ thread = r
         /\ \E outcome \in Outcomes \ {"hit", "hit-stale"},
               status \in Statuses \cup {"none"} \cup {objStatus[r]} :
              Finish(r, outcome, 0, status)
<1> USE DEF Runs, Outcomes
<1>1. CASE Upgrade(r) \/ Reject(r)
  BY <1>1 DEF Upgrade, Reject
<1>2. CASE Log(r)
  BY <1>2 DEF Log
<1>3. CASE ErrorDeliver(r) \/ LimitError(r)
  BY <1>3, PipelineAssumption DEF ErrorDeliver, LimitError, ErrorResult, Statuses
<1> QED
  BY <1>1, <1>2, <1>3 DEF Settles

LEMMA StepTurn == IInv /\ [Next]_vars => TurnIsHeld'
<1> SUFFICES ASSUME IInv, [Next]_vars PROVE TurnIsHeld'
  OBVIOUS
<1> USE DEF world, turn, context, local, history
<1>1. TypeOK /\ TurnIsHeld
  BY DEF IInv
<1>2. ASSUME NEW r \in Requests, Arrive(r) \/ Answer(r) \/ Fail(r)
      PROVE  TurnIsHeld'
  BY <1>1, <1>2, PipelineAssumption DEF TypeOK, TurnIsHeld, Arrive, Answer, Fail
<1>3. ASSUME NEW r \in Requests, thread = r,
             NEW p \in Phases, pc' = [pc EXCEPT ![r] = p], UNCHANGED thread
      PROVE  TurnIsHeld'
  BY <1>1, <1>3 DEF TypeOK, TurnIsHeld
<1>4. ASSUME NEW r \in Requests, thread = r,
             NEW p \in {"fetching", "done"}, pc' = [pc EXCEPT ![r] = p]
      PROVE  TurnIsHeld'
  BY <1>1, <1>4, PipelineAssumption DEF TypeOK, TurnIsHeld
<1>5. ASSUME NEW r \in Requests, Turn(r) PROVE TurnIsHeld'
  <2> USE DEF Runs, Continue, Phases
  <2>1. CASE Recv(r)
    BY <1>3, <2>1 DEF Recv, RecvActions
  <2>2. CASE Lookup(r)
    BY <1>3, <2>2 DEF Lookup
  <2>3. CASE Hit(r) \/ HitDeliver(r) \/ MissOrPass(r)
    BY <1>3, <2>3 DEF Hit, HitDeliver, MissOrPass
  <2>4. CASE Fetch(r) \/ Deliver(r)
    BY <1>3, <2>4 DEF Fetch, Deliver
  <2>5. CASE ErrorRestart(r) \/ Restart(r) \/ RestartLimit(r)
    BY <1>3, <2>5 DEF ErrorRestart, Restart, RestartLimit
  <2>6. CASE Send(r)
    BY <1>4, <2>6 DEF Send
  <2>7. CASE HitLog(r)
    BY <1>4, <2>7 DEF HitLog, Finish
  <2>8. CASE Settles(r)
    BY <1>4, <2>8, SettlesFrame DEF Finish
  <2> QED
    BY <1>5, <2>1, <2>2, <2>3, <2>4, <2>5, <2>6, <2>7, <2>8 DEF Turn, Settles
<1>6. CASE Tick
  BY <1>1, <1>6 DEF Tick, TurnIsHeld
<1>7. CASE UNCHANGED vars
  BY <1>1, <1>7 DEF vars, TurnIsHeld
<1> QED
  BY <1>2, <1>5, <1>6, <1>7 DEF Next, Resume, Settled

LEMMA StepEntries == IInv /\ [Next]_vars => EntriesAreSound'
<1> SUFFICES ASSUME IInv, [Next]_vars PROVE EntriesAreSound'
  OBVIOUS
<1> USE DEF world, turn, context, local, history
<1>1. TypeOK /\ EntriesAreSound
  BY DEF IInv
<1>2. ASSUME UNCHANGED <<cache, objects>>, now' \in Nat, now <= now'
      PROVE  EntriesAreSound'
  BY <1>1, <1>2 DEF EntriesAreSound, TypeOK, Entry
<1>3. ASSUME NEW k \in Keys, cache' = [cache EXCEPT ![k] = NoEntry],
             UNCHANGED <<now, objects>>
      PROVE  EntriesAreSound'
  BY <1>1, <1>3 DEF EntriesAreSound, TypeOK
<1>4. ASSUME NEW r \in Requests, Moves(r) \/ Settles(r) \/ Hit(r) \/ HitDeliver(r)
      PROVE  EntriesAreSound'
  BY <1>1, <1>2, <1>4, MovesFrame, SettlesFrame DEF Hit, HitDeliver, TypeOK
<1>5. ASSUME NEW r \in Requests, Lookup(r) PROVE EntriesAreSound'
  BY <1>1, <1>2, <1>3, <1>5 DEF Lookup, TypeOK
<1>6. ASSUME NEW r \in Requests, HitLog(r) PROVE EntriesAreSound'
  <2>1. key[r] \in Keys
    BY <1>6 DEF IInv, HitHasKey, HitPhases, HitLog, Runs
  <2> QED
    BY <1>1, <1>2, <1>3, <1>6, <2>1 DEF HitLog, TypeOK
<1>7. ASSUME NEW r \in Requests, Deliver(r) PROVE EntriesAreSound'
  <2>1. CASE UNCHANGED <<cache, objects>>
    BY <1>1, <1>2, <1>7, <2>1 DEF Deliver, TypeOK
  <2>2. ASSUME NEW t \in Int, NEW w \in Int, t > 0, objects' = objects + 1,
               cache' = [cache EXCEPT ![key[r]] =
                 [id |-> objects + 1, created |-> now, expires |-> now + t,
                  staleUntil |-> now + t + w]],
               UNCHANGED now
        PROVE  EntriesAreSound'
    <3> DEFINE e == [id |-> objects + 1, created |-> now, expires |-> now + t,
                     staleUntil |-> now + t + w]
    <3>1. /\ e.id = objects + 1
          /\ e.created = now
          /\ e.expires = now + t
      OBVIOUS
    <3>2. \A k \in Keys : cache'[k] = (IF k = key[r] THEN e ELSE cache[k])
      BY <1>1, <2>2 DEF TypeOK
    <3> HIDE DEF e
    <3> QED
      BY <1>1, <2>2, <3>1, <3>2 DEF EntriesAreSound, TypeOK, Entry
  <2>3. PICK t \in Int, w \in Int :
          IF Storable(r, t)
            THEN /\ objects' = objects + 1
                 /\ cache' = [cache EXCEPT ![key[r]] =
                      [id |-> objects + 1, created |-> now, expires |-> now + t,
                       staleUntil |-> now + t + w]]
            ELSE UNCHANGED <<cache, objects>>
    BY <1>1, <1>7, PipelineAssumption DEF Deliver, TypeOK, Beresp
  <2>4. UNCHANGED now
    BY <1>7 DEF Deliver
  <2> QED
    BY <2>1, <2>2, <2>3, <2>4 DEF Storable
<1>8. CASE Tick
  BY <1>1, <1>2, <1>8 DEF Tick, TypeOK
<1>9. CASE UNCHANGED vars
  BY <1>1, <1>2, <1>9 DEF vars, TypeOK
<1> QED
  BY <1>4, <1>5, <1>6, <1>7, <1>8, <1>9, NextCases

LEMMA StepHit == IInv /\ [Next]_vars => (HitHasKey /\ HitIsLive)'
<1> SUFFICES ASSUME IInv, [Next]_vars PROVE (HitHasKey /\ HitIsLive)'
  OBVIOUS
<1> USE DEF world, turn, context, local, history
<1>1. TypeOK /\ TurnIsHeld /\ HitHasKey /\ HitIsLive
  BY DEF IInv
<1> USE DEF HitHasKey, HitIsLive
<1>2. ASSUME UNCHANGED <<cache, pc, key, cached, at>>, now' \in Nat, now <= now'
      PROVE  (HitHasKey /\ HitIsLive)'
  BY <1>1, <1>2 DEF TypeOK
(* The turn of r: no other request is between its lookup and its answer.    *)
<1>3. ASSUME NEW r \in Requests, thread = r
      PROVE  \A q \in Requests \ {r} : pc[q] \notin HitPhases
  BY <1>1, <1>3 DEF TurnIsHeld, HitPhases
<1>4. ASSUME NEW r \in Requests, Moves(r) PROVE (HitHasKey /\ HitIsLive)'
  BY <1>1, <1>4, MovesFrame DEF TypeOK, world
<1>5. ASSUME NEW r \in Requests, Settles(r) PROVE (HitHasKey /\ HitIsLive)'
  <2>1. thread = r /\ pc' = [pc EXCEPT ![r] = "done"]
    BY <1>5, SettlesFrame DEF Finish
  <2> QED
    BY <1>1, <1>3, <2>1 DEF TypeOK, HitPhases
<1>6. ASSUME NEW r \in Requests, HitLog(r) PROVE (HitHasKey /\ HitIsLive)'
  <2>1. thread = r /\ pc' = [pc EXCEPT ![r] = "done"]
    BY <1>6 DEF HitLog, Finish, Runs
  <2> QED
    BY <1>1, <1>3, <2>1 DEF TypeOK, HitPhases
<1>7. ASSUME NEW r \in Requests, Deliver(r) PROVE (HitHasKey /\ HitIsLive)'
  <2>1. thread = r /\ \E p \in {"restart", "log"} : pc' = [pc EXCEPT ![r] = p]
    BY <1>7 DEF Deliver, Runs, Continue
  <2> QED
    BY <1>1, <1>3, <2>1 DEF TypeOK, HitPhases
<1>8. ASSUME NEW r \in Requests, Hit(r) \/ HitDeliver(r)
      PROVE  (HitHasKey /\ HitIsLive)'
  BY <1>1, <1>8 DEF TypeOK, Hit, HitDeliver, Continue, Runs, HitPhases
<1>9. ASSUME NEW r \in Requests, Lookup(r) PROVE (HitHasKey /\ HitIsLive)'
  <2>1. thread = r
    BY <1>9 DEF Lookup, Runs
  <2>2. PICK k \in Keys :
          /\ key' = [key EXCEPT ![r] = k]
          /\ \/ /\ cache[k] # NoEntry
                /\ IsFresh(cache[k], now) \/ IsStale(cache[k], now)
                /\ cached' = [cached EXCEPT ![r] = cache[k]]
                /\ at' = [at EXCEPT ![r] = now]
                /\ Continue(r, "hit")
                /\ UNCHANGED cache
             \/ Continue(r, "miss")
    BY <1>9 DEF Lookup
  <2>3. CASE Continue(r, "miss")
    BY <1>1, <1>3, <2>1, <2>3 DEF TypeOK, Continue, HitPhases
  <2>4. CASE /\ cache[k] # NoEntry
             /\ IsFresh(cache[k], now) \/ IsStale(cache[k], now)
             /\ cached' = [cached EXCEPT ![r] = cache[k]]
             /\ at' = [at EXCEPT ![r] = now]
             /\ Continue(r, "hit")
             /\ UNCHANGED cache
    <3>1. cache[k].created <= now
      BY <2>4 DEF IInv, EntriesAreSound
    <3>2. now < cache[k].expires \/ now < cache[k].staleUntil
      BY <2>4 DEF IsFresh, IsStale
    <3>3. UNCHANGED now
      BY <1>9 DEF Lookup
    <3>4. \A q \in Requests \ {r} : pc'[q] = pc[q] /\ pc[q] \notin HitPhases
      BY <1>1, <1>3, <2>1, <2>4 DEF TypeOK, Continue
    <3> QED
      BY <1>1, <2>2, <2>4, <3>1, <3>2, <3>3, <3>4 DEF TypeOK, Continue
  <2> QED
    BY <2>2, <2>3, <2>4
<1>10. CASE Tick
  BY <1>1, <1>2, <1>10 DEF Tick, TypeOK
<1>11. CASE UNCHANGED vars
  BY <1>1, <1>2, <1>11 DEF vars, TypeOK
<1> QED
  BY <1>4, <1>5, <1>6, <1>7, <1>8, <1>9, <1>10, <1>11, NextCases

LEMMA StepResults == IInv /\ [Next]_vars => ResultsAreFinal'
<1> SUFFICES ASSUME IInv, [Next]_vars PROVE ResultsAreFinal'
  OBVIOUS
<1> USE DEF world, turn, context, local, history, ResultsAreFinal
<1>1. TypeOK /\ ResultsAreFinal
  BY DEF IInv
<1>2. ASSUME UNCHANGED <<objects, pc, result>> PROVE ResultsAreFinal'
  BY <1>1, <1>2
<1>3. ASSUME NEW r \in Requests, pc[r] # "done", NEW p \in Phases \ {"done"},
             pc' = [pc EXCEPT ![r] = p], UNCHANGED result,
             objects' \in Nat, objects <= objects'
      PROVE  ResultsAreFinal'
  BY <1>1, <1>3 DEF TypeOK, Result
<1>4. ASSUME NEW r \in Requests, NEW outcome \in Outcomes, NEW object \in Nat,
             NEW status \in Statuses \cup {"none"},
             Finish(r, outcome, object, status), object <= objects, UNCHANGED objects
      PROVE  ResultsAreFinal'
  BY <1>1, <1>4 DEF TypeOK, Finish
<1>5. ASSUME NEW r \in Requests, Moves(r) PROVE ResultsAreFinal'
  BY <1>1, <1>3, <1>5, MovesFrame DEF TypeOK
<1>6. ASSUME NEW r \in Requests, Settles(r) PROVE ResultsAreFinal'
  <2>1. PICK outcome \in Outcomes, status \in Statuses \cup {"none"} \cup {objStatus[r]} :
          Finish(r, outcome, 0, status)
    BY <1>6, SettlesFrame
  <2>2. objects \in Nat /\ objStatus[r] \in Statuses
    BY <1>1 DEF TypeOK
  <2>3. UNCHANGED objects
    BY <1>6, SettlesFrame
  <2> QED
    BY <1>4, <2>1, <2>2, <2>3
<1>7. ASSUME NEW r \in Requests, Lookup(r) \/ Hit(r) \/ HitDeliver(r)
      PROVE  ResultsAreFinal'
  <2>1. /\ pc[r] # "done" /\ UNCHANGED <<objects, result>>
        /\ \E p \in Phases \ {"done"} : pc' = [pc EXCEPT ![r] = p]
    BY <1>7 DEF Lookup, Hit, HitDeliver, Runs, Continue, Phases
  <2> QED
    BY <1>1, <1>3, <2>1 DEF TypeOK
<1>8. ASSUME NEW r \in Requests, Deliver(r) PROVE ResultsAreFinal'
  <2>1. /\ pc[r] # "done" /\ UNCHANGED result
        /\ \E p \in Phases \ {"done"} : pc' = [pc EXCEPT ![r] = p]
    BY <1>8 DEF Deliver, Runs, Continue, Phases
  <2>2. objects' = objects \/ objects' = objects + 1
    BY <1>8 DEF Deliver
  <2>3. objects' \in Nat /\ objects <= objects'
    BY <1>1, <2>2 DEF TypeOK
  <2> QED
    BY <1>3, <2>1, <2>3
<1>9. ASSUME NEW r \in Requests, HitLog(r) PROVE ResultsAreFinal'
  <2>1. /\ cached[r] # NoEntry /\ cache[key[r]] = cached[r] /\ key[r] \in Keys
    BY <1>9 DEF IInv, HitHasKey, HitIsLive, HitPhases, HitLog, Runs
  <2>2. cached[r].id \in 1 .. objects
    BY <2>1 DEF IInv, EntriesAreSound
  <2>3. \E outcome \in Outcomes : Finish(r, outcome, cached[r].id, "none")
    BY <1>9 DEF HitLog, Outcomes
  <2>4. UNCHANGED objects
    BY <1>9 DEF HitLog
  <2> QED
    BY <1>1, <1>4, <2>2, <2>3, <2>4 DEF TypeOK
<1>10. CASE Tick
  BY <1>2, <1>10 DEF Tick
<1>11. CASE UNCHANGED vars
  BY <1>2, <1>11 DEF vars
<1> QED
  BY <1>5, <1>6, <1>7, <1>8, <1>9, <1>10, <1>11, NextCases

LEMMA StepStale == IInv /\ [Next]_vars => StaleServedOnce'
<1> SUFFICES ASSUME IInv, [Next]_vars PROVE StaleServedOnce'
  OBVIOUS
<1> USE DEF world, turn, context, local, history, StaleServedOnce, ServedStale
<1>1. TypeOK /\ EntriesAreSound /\ ResultsAreFinal /\ StaleServedOnce
  BY DEF IInv
<1>2. ASSUME UNCHANGED <<cache, objects, result>> PROVE StaleServedOnce'
  BY <1>1, <1>2
(* An answer that is no stale hit.                                          *)
<1>3. ASSUME NEW r \in Requests, NEW outcome \in Outcomes \ {"hit-stale"},
             NEW object \in Nat, NEW status \in Statuses \cup {"none"},
             Finish(r, outcome, object, status), UNCHANGED <<cache, objects>>
      PROVE  StaleServedOnce'
  BY <1>1, <1>3 DEF TypeOK, Finish
<1>4. ASSUME NEW r \in Requests, Moves(r) PROVE StaleServedOnce'
  BY <1>1, <1>2, <1>4, MovesFrame
<1>5. ASSUME NEW r \in Requests, Settles(r) PROVE StaleServedOnce'
  BY <1>1, <1>3, <1>5, SettlesFrame DEF TypeOK
<1>6. ASSUME NEW r \in Requests, Hit(r) \/ HitDeliver(r) PROVE StaleServedOnce'
  BY <1>2, <1>6 DEF Hit, HitDeliver, Continue
<1>7. ASSUME NEW r \in Requests, Lookup(r) PROVE StaleServedOnce'
  <2>1. UNCHANGED <<objects, result>>
    BY <1>7 DEF Lookup, Continue
  <2>2. \A k \in Keys : cache'[k] \in {cache[k], NoEntry}
    BY <1>1, <1>7 DEF Lookup, TypeOK
  <2> QED
    BY <1>1, <2>1, <2>2
(* A new object was served to nobody.                                       *)
<1>8. ASSUME NEW r \in Requests, Deliver(r) PROVE StaleServedOnce'
  <2>1. UNCHANGED result
    BY <1>8 DEF Deliver, Continue
  <2>2. \/ UNCHANGED <<cache, objects>>
        \/ /\ objects' = objects + 1
           /\ \A k \in Keys : cache'[k] = cache[k] \/ cache'[k].id = objects + 1
    BY <1>1, <1>8 DEF Deliver, TypeOK
  <2>3. \A q \in Requests : result[q].object <= objects /\ result[q].object \in Nat
    BY <1>1 DEF ResultsAreFinal, TypeOK, Result
  <2> QED
    BY <1>1, <1>2, <2>1, <2>2, <2>3 DEF TypeOK
(* The object a stale hit removes was in the Map until now, so nobody else  *)
(* was served it stale, and no other key holds it.                          *)
<1>9. ASSUME NEW r \in Requests, HitLog(r) PROVE StaleServedOnce'
  <2>1. cached[r] # NoEntry /\ cache[key[r]] = cached[r] /\ key[r] \in Keys
    BY <1>9 DEF IInv, HitHasKey, HitIsLive, HitPhases, HitLog, Runs
  <2>2. cached[r].id \in 1 .. objects
    BY <2>1 DEF IInv, EntriesAreSound
  <2>3. UNCHANGED objects
    BY <1>9 DEF HitLog
  <2>4. CASE UNCHANGED cache /\ Finish(r, "hit", cached[r].id, "none")
    BY <1>3, <2>2, <2>3, <2>4 DEF Outcomes
  <2>5. CASE /\ cache' = [cache EXCEPT ![key[r]] = NoEntry]
             /\ Finish(r, "hit-stale", cached[r].id, "none")
    <3>1. /\ result'[r].object = cached[r].id
          /\ \A q \in Requests \ {r} : result'[q] = result[q]
      BY <1>1, <2>5 DEF TypeOK, Finish
    <3>2. \A k \in Keys : cache'[k] = IF k = key[r] THEN NoEntry ELSE cache[k]
      BY <1>1, <2>5 DEF TypeOK
    <3>3. \A q \in Requests : ~ServedStale(q, cached[r].id)
      BY <1>1, <2>1, <2>2
    <3>4. \A k \in Keys : cache'[k] # NoEntry => cache[k].id # cached[r].id
      BY <1>1, <2>1, <3>2 DEF EntriesAreSound
    <3> QED
      BY <1>1, <2>3, <3>1, <3>2, <3>3, <3>4
  <2> QED
    BY <1>9, <2>4, <2>5 DEF HitLog
<1>10. CASE Tick
  BY <1>2, <1>10 DEF Tick
<1>11. CASE UNCHANGED vars
  BY <1>2, <1>11 DEF vars
<1> QED
  BY <1>4, <1>5, <1>6, <1>7, <1>8, <1>9, <1>10, <1>11, NextCases

LEMMA StepKey == IInv /\ [Next]_vars => KeyMeansLookup'
<1> SUFFICES ASSUME IInv, [Next]_vars PROVE KeyMeansLookup'
  OBVIOUS
<1> USE DEF world, turn, context, local, history, KeyMeansLookup
<1>1. TypeOK /\ KeyMeansLookup
  BY DEF IInv
(* A new pass has no key, and a settled request neither.                    *)
<1>2. ASSUME NEW r \in Requests, key' = [key EXCEPT ![r] = NoKey],
             verbs' = [verbs EXCEPT ![r] = {}],
             NEW p \in Phases \ {"hash"}, pc' = [pc EXCEPT ![r] = p]
      PROVE  KeyMeansLookup'
  BY <1>1, <1>2 DEF TypeOK
<1>3. ASSUME NEW r \in Requests, UNCHANGED key,
             verbs' = verbs \/ \E v \in MissActions \cup HitActions : Returned(r, v),
             NEW p \in Phases \ {"hash"}, pc' = [pc EXCEPT ![r] = p]
      PROVE  KeyMeansLookup'
  BY <1>1, <1>3 DEF TypeOK, Returned
<1>4. ASSUME NEW r \in Requests, Arrive(r) \/ Restart(r) PROVE KeyMeansLookup'
  BY <1>2, <1>4 DEF Arrive, Restart, NewPass, Continue, Phases
<1>5. ASSUME NEW r \in Requests, Settles(r) \/ HitLog(r) PROVE KeyMeansLookup'
  <2>1. /\ key' = [key EXCEPT ![r] = NoKey]
        /\ verbs' = [verbs EXCEPT ![r] = {}]
        /\ pc' = [pc EXCEPT ![r] = "done"]
    BY <1>5, SettlesFrame DEF HitLog, Finish
  <2> QED
    BY <1>2, <2>1 DEF Phases
<1>6. ASSUME NEW r \in Requests, Recv(r) PROVE KeyMeansLookup'
  <2>1. PICK v \in RecvActions :
          /\ Returned(r, v)
          /\ Continue(r, CASE v = "lookup" -> "hash" [] v = "other"  -> "send"
                           [] OTHER -> v)
    BY <1>6 DEF Recv
  <2>2. UNCHANGED key
    BY <1>6 DEF Recv
  <2>3. verbs'[r] = verbs[r] \cup ({v} \cap {"lookup", "error"})
    BY <1>1, <2>1 DEF Returned, TypeOK
  <2>4. pc'[r] = "hash" => v = "lookup"
    BY <1>1, <2>1 DEF Continue, RecvActions, TypeOK
  <2>5. \A q \in Requests \ {r} : pc'[q] = pc[q] /\ verbs'[q] = verbs[q]
    BY <1>1, <2>1 DEF Continue, Returned, TypeOK
  <2> QED
    BY <1>1, <2>2, <2>3, <2>4, <2>5
<1>7. ASSUME NEW r \in Requests, Lookup(r) PROVE KeyMeansLookup'
  <2>1. "lookup" \in verbs[r] /\ UNCHANGED verbs
    BY <1>1, <1>7 DEF Lookup, Runs
  <2>2. /\ \E p \in {"hit", "miss"} : pc' = [pc EXCEPT ![r] = p]
        /\ \E k \in Keys : key' = [key EXCEPT ![r] = k]
    BY <1>7 DEF Lookup, Continue
  <2> QED
    BY <1>1, <2>1, <2>2 DEF TypeOK
<1>8. ASSUME NEW r \in Requests, Hit(r) \/ HitDeliver(r) \/ MissOrPass(r)
      PROVE  KeyMeansLookup'
  BY <1>3, <1>8 DEF Hit, HitDeliver, MissOrPass, Continue, Phases
<1>9. ASSUME NEW r \in Requests, Send(r) \/ Answer(r) \/ Fail(r)
      PROVE  KeyMeansLookup'
  BY <1>3, <1>9 DEF Send, Answer, Fail, Phases
<1>10. ASSUME NEW r \in Requests, Fetch(r) PROVE KeyMeansLookup'
  BY <1>3, <1>10 DEF Fetch, Continue, Phases
<1>11. ASSUME NEW r \in Requests, Deliver(r) \/ ErrorRestart(r) \/ RestartLimit(r)
       PROVE  KeyMeansLookup'
  BY <1>3, <1>11 DEF Deliver, ErrorRestart, RestartLimit, Continue, Phases
<1>12. CASE Tick
  BY <1>1, <1>12 DEF Tick
<1>13. CASE UNCHANGED vars
  BY <1>1, <1>13 DEF vars
<1> QED
  BY <1>4, <1>5, <1>6, <1>7, <1>8, <1>9, <1>10, <1>11, <1>12, <1>13, NextCases
     DEF Moves

LEMMA StepBeresp == IInv /\ [Next]_vars => BerespOfThisPass'
<1> SUFFICES ASSUME IInv, [Next]_vars PROVE BerespOfThisPass'
  OBVIOUS
<1> USE DEF world, turn, context, local, history, BerespOfThisPass
<1>1. TypeOK /\ BerespOfThisPass
  BY DEF IInv
<1>2. ASSUME NEW r \in Requests, NEW p \in Phases \ {"fetch", "deliver", "log"},
             pc' = [pc EXCEPT ![r] = p], UNCHANGED <<beresp, passes>>
      PROVE  BerespOfThisPass'
  BY <1>1, <1>2 DEF TypeOK
(* beresp.backend is reset and the pass is no longer past its fetch.        *)
<1>3. ASSUME NEW r \in Requests, NEW p \in {"recv", "done"},
             pc' = [pc EXCEPT ![r] = p], beresp'[r].backend = 0,
             \A q \in Requests \ {r} : beresp'[q] = beresp[q] /\ passes'[q] = passes[q]
      PROVE  BerespOfThisPass'
  BY <1>1, <1>3 DEF TypeOK
(* The subroutines after the fetch keep what Answer wrote.                  *)
<1>4. ASSUME NEW r \in Requests, pc[r] \in {"fetch", "deliver"}, UNCHANGED passes,
             NEW p \in Phases, pc' = [pc EXCEPT ![r] = p],
             beresp'[r].born = beresp[r].born, beresp'[r].backend = beresp[r].backend,
             \A q \in Requests \ {r} : beresp'[q] = beresp[q]
      PROVE  BerespOfThisPass'
  BY <1>1, <1>4 DEF TypeOK
<1>5. ASSUME NEW r \in Requests, Arrive(r) \/ Restart(r) PROVE BerespOfThisPass'
  <2>1. NewPass(r) /\ pc' = [pc EXCEPT ![r] = "recv"]
    BY <1>5 DEF Arrive, Restart, Continue
  <2> QED
    BY <1>1, <1>3, <2>1 DEF NewPass, TypeOK, Beresp
<1>6. ASSUME NEW r \in Requests, Settles(r) \/ HitLog(r) PROVE BerespOfThisPass'
  <2>1. /\ pc' = [pc EXCEPT ![r] = "done"]
        /\ beresp' = [beresp EXCEPT ![r] = NoBeresp]
        /\ passes' = [passes EXCEPT ![r] = 0]
    BY <1>6, SettlesFrame DEF HitLog, Finish
  <2> QED
    BY <1>1, <1>3, <2>1 DEF TypeOK, NoBeresp
<1>7. ASSUME NEW r \in Requests, Answer(r) PROVE BerespOfThisPass'
  <2>1. /\ pc' = [pc EXCEPT ![r] = "fetch"]
        /\ beresp' = [beresp EXCEPT ![r] = [ttl |-> 0, window |-> 0,
                                            born |-> passes[r], backend |-> passes[r]]]
        /\ UNCHANGED passes
    BY <1>7 DEF Answer
  <2> QED
    BY <1>1, <2>1 DEF TypeOK
<1>8. ASSUME NEW r \in Requests, Fetch(r) PROVE BerespOfThisPass'
  <2>1. pc[r] = "fetch" /\ UNCHANGED passes
    BY <1>8 DEF Fetch, Runs
  <2>2. \E t, w : beresp' = [beresp EXCEPT ![r] =
          [ttl |-> t, window |-> w, born |-> beresp[r].born,
           backend |-> beresp[r].backend]]
    BY <1>8 DEF Fetch
  <2>3. \E p \in {"restart", "deliver"} : pc' = [pc EXCEPT ![r] = p]
    BY <1>8 DEF Fetch, Continue
  <2>4. /\ beresp'[r].born = beresp[r].born /\ beresp'[r].backend = beresp[r].backend
        /\ \A q \in Requests \ {r} : beresp'[q] = beresp[q]
    BY <1>1, <2>2 DEF TypeOK
  <2> QED
    BY <1>4, <2>1, <2>3, <2>4 DEF Phases
<1>9. ASSUME NEW r \in Requests, Deliver(r) PROVE BerespOfThisPass'
  <2>1. pc[r] = "deliver" /\ UNCHANGED passes
    BY <1>9 DEF Deliver, Runs
  <2>2. \E t, w : beresp' = [beresp EXCEPT ![r].ttl = t, ![r].window = w]
    BY <1>9 DEF Deliver
  <2>3. \E p \in {"restart", "log"} : pc' = [pc EXCEPT ![r] = p]
    BY <1>9 DEF Deliver, Continue
  <2>4. beresp[r] \in Beresp
    BY <1>1 DEF TypeOK
  <2>5. /\ beresp'[r].born = beresp[r].born /\ beresp'[r].backend = beresp[r].backend
        /\ \A q \in Requests \ {r} : beresp'[q] = beresp[q]
    BY <1>1, <2>2, <2>4 DEF TypeOK, Beresp
  <2> QED
    BY <1>4, <2>1, <2>3, <2>5 DEF Phases
<1>10. ASSUME NEW r \in Requests, Recv(r) PROVE BerespOfThisPass'
  BY <1>2, <1>10 DEF Recv, Continue, RecvActions, Phases
<1>11. ASSUME NEW r \in Requests,
              Lookup(r) \/ Hit(r) \/ HitDeliver(r) \/ MissOrPass(r)
       PROVE  BerespOfThisPass'
  BY <1>2, <1>11 DEF Lookup, Hit, HitDeliver, MissOrPass, Continue, Phases
<1>12. ASSUME NEW r \in Requests,
              Send(r) \/ Fail(r) \/ ErrorRestart(r) \/ RestartLimit(r)
       PROVE  BerespOfThisPass'
  BY <1>2, <1>12 DEF Send, Fail, ErrorRestart, RestartLimit, Continue, Phases
<1>13. CASE Tick
  BY <1>1, <1>13 DEF Tick
<1>14. CASE UNCHANGED vars
  BY <1>1, <1>14 DEF vars
<1> QED
  BY <1>5, <1>6, <1>7, <1>8, <1>9, <1>10, <1>11, <1>12, <1>13, <1>14, NextCases
     DEF Moves

LEMMA InitInv == Init => IInv
<1> SUFFICES ASSUME Init PROVE IInv
  OBVIOUS
<1>1. TypeOK
  BY InitType
<1>2. TurnIsHeld /\ EntriesAreSound /\ HitHasKey /\ HitIsLive /\ KeyMeansLookup
  BY DEF Init, TurnIsHeld, EntriesAreSound, HitHasKey, HitIsLive, HitPhases,
         KeyMeansLookup
<1>3. ResultsAreFinal /\ StaleServedOnce
  BY DEF Init, ResultsAreFinal, StaleServedOnce, ServedStale, Pending
<1>4. BerespOfThisPass
  BY DEF Init, BerespOfThisPass, NoBeresp
<1> QED
  BY <1>1, <1>2, <1>3, <1>4 DEF IInv

LEMMA StepInv == IInv /\ [Next]_vars => IInv'
<1> SUFFICES ASSUME IInv, [Next]_vars PROVE IInv'
  OBVIOUS
<1>1. TypeOK'
  BY StepType DEF IInv
<1> QED
  BY <1>1, StepTurn, StepEntries, StepHit, StepResults, StepStale, StepKey,
     StepBeresp DEF IInv

-----------------------------------------------------------------------------
(* The theorems.                                                            *)

(* Every reachable state of the lifecycle satisfies the invariant the       *)
(* properties below rest on.                                                *)
THEOREM Invariance == Spec => []IInv
BY InitInv, StepInv, PTL DEF Spec

(* The variables of runPass and of the cache keep their types.              *)
THEOREM TypeCorrect == Spec => []TypeOK
<1>1. IInv => TypeOK
  BY DEF IInv
<1> QED
  BY <1>1, Invariance, PTL

(* From lookup to response, a hit serves the object the Map still holds.    *)
THEOREM HitsAreLive == Spec => []HitIsLive
<1>1. IInv => HitIsLive
  BY DEF IInv
<1> QED
  BY <1>1, Invariance, PTL

(* A stale object answers one request and is gone.                          *)
THEOREM StaleOnce == Spec => []StaleServedOnce
<1>1. IInv => StaleServedOnce
  BY DEF IInv
<1> QED
  BY <1>1, Invariance, PTL

(* No pass sees the beresp of the pass before a restart.                    *)
THEOREM BerespIsOwn == Spec => []BerespOfThisPass
<1>1. IInv => BerespOfThisPass
  BY DEF IInv
<1> QED
  BY <1>1, Invariance, PTL

(* What each action does to the Map, in terms of the entry it touches.       *)
LEMMA CacheSteps ==
  ASSUME IInv, [Next]_vars
  PROVE  \/ UNCHANGED cache
         \/ \E k \in Keys : /\ cache' = [cache EXCEPT ![k] = NoEntry]
                            /\ cache[k] # NoEntry => now >= cache[k].expires
         \/ \E r \in Requests, t \in Int, w \in Int :
              /\ Runs(r, "deliver")
              /\ Storable(r, t)
              /\ objects' = objects + 1
              /\ cache' = [cache EXCEPT ![key[r]] =
                   [id |-> objects + 1, created |-> now, expires |-> now + t,
                    staleUntil |-> now + t + w]]
<1> USE DEF world, turn, context, local, history
<1>1. TypeOK
  BY DEF IInv
<1>2. ASSUME NEW r \in Requests, Moves(r) \/ Settles(r) \/ Hit(r) \/ HitDeliver(r)
      PROVE  UNCHANGED cache
  BY <1>1, <1>2, MovesFrame, SettlesFrame DEF Hit, HitDeliver
<1>3. ASSUME NEW r \in Requests, Lookup(r)
      PROVE  \/ UNCHANGED cache
             \/ \E k \in Keys : /\ cache' = [cache EXCEPT ![k] = NoEntry]
                                /\ cache[k] # NoEntry => now >= cache[k].expires
  BY <1>1, <1>3 DEF Lookup, IsFresh, TypeOK, Entry
<1>4. ASSUME NEW r \in Requests, HitLog(r)
      PROVE  \/ UNCHANGED cache
             \/ /\ key[r] \in Keys
                /\ cache' = [cache EXCEPT ![key[r]] = NoEntry]
                /\ now >= cache[key[r]].expires
  <2>1. /\ cached[r] # NoEntry /\ cache[key[r]] = cached[r] /\ key[r] \in Keys
        /\ at[r] <= now
    BY <1>4 DEF IInv, HitHasKey, HitIsLive, HitPhases, HitLog, Runs
  <2>2. cached[r].expires \in Int /\ at[r] \in Nat /\ now \in Nat
    BY <1>1, <2>1 DEF TypeOK, Entry
  <2> QED
    BY <1>4, <2>1, <2>2 DEF HitLog, IsStale, IsFresh
<1>5. ASSUME NEW r \in Requests, Deliver(r)
      PROVE  \/ UNCHANGED cache
             \/ \E t \in Int, w \in Int :
                  /\ Runs(r, "deliver")
                  /\ Storable(r, t)
                  /\ objects' = objects + 1
                  /\ cache' = [cache EXCEPT ![key[r]] =
                       [id |-> objects + 1, created |-> now, expires |-> now + t,
                        staleUntil |-> now + t + w]]
  BY <1>1, <1>5, PipelineAssumption DEF Deliver, TypeOK, Beresp
<1>6. CASE Tick \/ UNCHANGED vars
  BY <1>6 DEF Tick, vars
<1> QED
  BY <1>2, <1>3, <1>4, <1>5, <1>6, NextCases

(* Nothing but a newer object takes the place of a fresh one.               *)
THEOREM FreshObjectsAreKept == Spec => FreshIsKept
<1>1. ASSUME IInv, [Next]_vars
      PROVE  [\A k \in Keys : cache[k] # NoEntry /\ cache'[k] = NoEntry
                => now >= cache[k].expires]_vars
  <2>1. TypeOK
    BY <1>1 DEF IInv
  <2>2. CASE UNCHANGED cache
    BY <2>2
  <2>3. ASSUME NEW j \in Keys, cache' = [cache EXCEPT ![j] = NoEntry],
               cache[j] # NoEntry => now >= cache[j].expires
        PROVE  \A k \in Keys : cache[k] # NoEntry /\ cache'[k] = NoEntry
                 => now >= cache[k].expires
    BY <2>1, <2>3 DEF TypeOK
  <2>4. ASSUME NEW r \in Requests, NEW t \in Int, NEW w \in Int, Storable(r, t),
               cache' = [cache EXCEPT ![key[r]] =
                 [id |-> objects + 1, created |-> now, expires |-> now + t,
                  staleUntil |-> now + t + w]]
        PROVE  \A k \in Keys : cache[k] # NoEntry => cache'[k] # NoEntry
    <3>1. [id |-> objects + 1, created |-> now, expires |-> now + t,
           staleUntil |-> now + t + w] \in Entry
      BY <2>1 DEF TypeOK, Entry, Beresp
    <3> QED
      BY <2>1, <2>4, <3>1, NoEntryAssumption DEF TypeOK
  <2> QED
    BY <1>1, <2>2, <2>3, <2>4, CacheSteps
<1> QED
  BY <1>1, Invariance, PTL DEF Spec, FreshIsKept

(* Only a pass that looked up, whose vcl_fetch delivered, stores.           *)
THEOREM OnlyLookupsStore == Spec => StoreRule
<1>1. ASSUME IInv, [Next]_vars
      PROVE  [\A k \in Keys : cache'[k] # cache[k] /\ cache'[k] # NoEntry =>
                /\ cache'[k].created < cache'[k].expires
                /\ \E r \in Requests : /\ thread = r
                                       /\ key[r] = k
                                       /\ "lookup" \in verbs[r]
                                       /\ action[r] = "deliver"]_vars
  <2>1. TypeOK /\ KeyMeansLookup
    BY <1>1 DEF IInv
  <2>2. ASSUME NEW r \in Requests, NEW t \in Int, NEW w \in Int, Runs(r, "deliver"),
               Storable(r, t),
               cache' = [cache EXCEPT ![key[r]] =
                 [id |-> objects + 1, created |-> now, expires |-> now + t,
                  staleUntil |-> now + t + w]],
               NEW k \in Keys, cache'[k] # cache[k]
        PROVE  /\ cache'[k].created < cache'[k].expires
               /\ \E q \in Requests : /\ thread = q
                                      /\ key[q] = k
                                      /\ "lookup" \in verbs[q]
                                      /\ action[q] = "deliver"
    <3>1. k = key[r] /\ cache'[k].created = now /\ cache'[k].expires = now + t
      BY <2>1, <2>2 DEF TypeOK
    <3>2. now < now + t
      BY <2>1, <2>2 DEF TypeOK, Storable
    <3>3. "lookup" \in verbs[r] /\ thread = r /\ action[r] = "deliver"
      BY <2>1, <2>2 DEF KeyMeansLookup, Storable, Runs
    <3> QED
      BY <3>1, <3>2, <3>3
  <2>3. ASSUME NEW j \in Keys, cache' = [cache EXCEPT ![j] = NoEntry]
        PROVE  \A k \in Keys : cache'[k] = cache[k] \/ cache'[k] = NoEntry
    BY <2>1, <2>3 DEF TypeOK
  <2> QED
    BY <1>1, <2>2, <2>3, CacheSteps
<1> QED
  BY <1>1, Invariance, PTL DEF Spec, StoreRule

(* The restart limit, for VCL that does not assign to req.restarts.         *)
THEOREM RestartsAreBounded == ScriptRestarts = {} => (Spec => []RestartBound)
<1> SUFFICES ASSUME ScriptRestarts = {} PROVE Spec => []RestartBound
  OBVIOUS
<1>1. Init => RestartsCountPasses
  <2> SUFFICES ASSUME Init, NEW r \in Requests
               PROVE  /\ restarts[r] \in 0 .. MaxRestarts
                      /\ pc[r] = "idle" /\ restarts[r] = 0 /\ passes[r] = 0
    BY DEF RestartsCountPasses
  <2> QED
    BY PipelineAssumption DEF Init
<1>2. TypeOK /\ TypeOK' /\ RestartsCountPasses /\ [Next]_vars => RestartsCountPasses'
  <2> SUFFICES ASSUME TypeOK, TypeOK', RestartsCountPasses, [Next]_vars
               PROVE  RestartsCountPasses'
    OBVIOUS
  <2> USE DEF world, turn, context, local, history, RestartsCountPasses
  <2>1. \A r \in Requests : Script(r) => UNCHANGED restarts
    BY DEF Script, TypeOK
  <2>2. ASSUME NEW r \in Requests, pc[r] \notin {"idle", "done"},
               NEW p \in Phases \ {"idle", "done"}, pc' = [pc EXCEPT ![r] = p],
               UNCHANGED <<restarts, passes>>
        PROVE  RestartsCountPasses'
    BY <2>2 DEF TypeOK
  <2>3. ASSUME NEW r \in Requests, Arrive(r) PROVE RestartsCountPasses'
    <3>1. /\ pc[r] = "idle" /\ pc' = [pc EXCEPT ![r] = "recv"] /\ UNCHANGED restarts
          /\ passes' = [passes EXCEPT ![r] = @ + 1]
      BY <2>3 DEF Arrive, NewPass
    <3> QED
      BY <3>1 DEF TypeOK
  <2>4. ASSUME NEW r \in Requests, Restart(r) PROVE RestartsCountPasses'
    <3>1. /\ pc[r] = "restart" /\ pc' = [pc EXCEPT ![r] = "recv"]
          /\ restarts[r] < MaxRestarts /\ restarts' = [restarts EXCEPT ![r] = @ + 1]
          /\ passes' = [passes EXCEPT ![r] = @ + 1]
      BY <2>4 DEF Restart, NewPass, Runs, Continue
    <3> QED
      BY <3>1, PipelineAssumption DEF TypeOK
  <2>5. ASSUME NEW r \in Requests, Settles(r) \/ HitLog(r) PROVE RestartsCountPasses'
    <3>1. /\ pc' = [pc EXCEPT ![r] = "done"]
          /\ restarts' = [restarts EXCEPT ![r] = 0]
          /\ passes' = [passes EXCEPT ![r] = 0]
      BY <2>5, SettlesFrame DEF HitLog, Finish
    <3> QED
      BY <3>1, PipelineAssumption DEF TypeOK
  <2>6. ASSUME NEW r \in Requests, Recv(r) PROVE RestartsCountPasses'
    BY <2>1, <2>2, <2>6 DEF Recv, Runs, Continue, RecvActions, Phases
  <2>7. ASSUME NEW r \in Requests,
               Lookup(r) \/ Hit(r) \/ HitDeliver(r) \/ MissOrPass(r)
        PROVE  RestartsCountPasses'
    BY <2>1, <2>2, <2>7 DEF Lookup, Hit, HitDeliver, MissOrPass, Runs, Continue, Phases
  <2>8. ASSUME NEW r \in Requests, Send(r) \/ Answer(r) \/ Fail(r)
        PROVE  RestartsCountPasses'
    BY <2>2, <2>8 DEF Send, Answer, Fail, Runs, Phases
  <2>9. ASSUME NEW r \in Requests, ErrorRestart(r) \/ RestartLimit(r)
        PROVE  RestartsCountPasses'
    BY <2>1, <2>2, <2>9 DEF ErrorRestart, RestartLimit, Runs, Continue, Phases
  <2>10. ASSUME NEW r \in Requests, Fetch(r) \/ Deliver(r) PROVE RestartsCountPasses'
    <3>1. Script(r) /\ pc[r] \in {"fetch", "deliver"} /\ UNCHANGED passes
      BY <2>10 DEF Fetch, Deliver, Runs
    <3>2. \E p \in {"restart", "deliver", "log"} : pc' = [pc EXCEPT ![r] = p]
      BY <2>10 DEF Fetch, Deliver, Continue
    <3> QED
      BY <2>1, <2>2, <3>1, <3>2 DEF Phases
  <2>11. CASE Tick \/ UNCHANGED vars
    BY <2>11 DEF Tick, vars
  <2> QED
    BY <2>3, <2>4, <2>5, <2>6, <2>7, <2>8, <2>9, <2>10, <2>11, NextCases DEF Moves
<1>3. RestartsCountPasses => RestartBound
  <2> SUFFICES ASSUME RestartsCountPasses, NEW r \in Requests
               PROVE  passes[r] <= MaxRestarts + 1
    BY DEF RestartBound
  <2>1. /\ restarts[r] \in 0 .. MaxRestarts
        /\ passes[r] = 0 \/ passes[r] = restarts[r] + 1
    BY DEF RestartsCountPasses
  <2> QED
    BY <2>1, PipelineAssumption
<1> QED
  BY <1>1, <1>2, <1>3, TypeCorrect, PTL DEF Spec

-----------------------------------------------------------------------------
(* Refinement.                                                              *)

(* The lifecycle of requests that interleave implements the atomic cache:   *)
(* each step of theirs is one step of module ResponseCache or none.         *)
THEOREM Implementation == Spec => ImplementsAtomicCache
<1>1. Init => AtomicCache!Init
  BY DEF Init, AtomicCache!Init, AtomicCache!Unanswered, AtomicCache!Never, answers,
         lookups, Pending, HitPhases
<1>2. ASSUME IInv, IInv', [Next]_vars
      PROVE  [AtomicCache!Next]_(AtomicCache!abstractVars)
  <2> USE DEF world, turn, context, local, history
  <2>1. TypeOK
    BY <1>2 DEF IInv
  <2>2. ASSUME UNCHANGED <<world, result, lookups>>
        PROVE  UNCHANGED AtomicCache!abstractVars
    BY <2>2 DEF AtomicCache!abstractVars, answers
  <2>3. ASSUME NEW r \in Requests, NEW outcome \in Outcomes, NEW object \in Nat,
               NEW status \in Statuses \cup {"none"}, pc[r] # "done",
               Finish(r, outcome, object, status)
        PROVE  AtomicCache!Answer(r, outcome, object)
    <3>1. result[r] = Pending
      BY <1>2, <2>3 DEF IInv, ResultsAreFinal
    <3>2. answers[r] = AtomicCache!Unanswered
      BY <3>1 DEF answers, Pending, AtomicCache!Unanswered
    <3>3. answers' = [answers EXCEPT ![r] = [outcome |-> outcome, object |-> object]]
      BY <2>1, <2>3 DEF answers, Finish, TypeOK
    <3>4. lookups' = [lookups EXCEPT ![r] = AtomicCache!Never]
      BY <2>1, <2>3 DEF lookups, Finish, TypeOK, HitPhases, AtomicCache!Never
    <3> QED
      BY <3>2, <3>3, <3>4 DEF AtomicCache!Answer
  <2>4. ASSUME NEW r \in Requests, NEW p \in Phases, pc[r] \notin HitPhases,
               p \notin HitPhases, pc' = [pc EXCEPT ![r] = p],
               \A q \in Requests \ {r} : at'[q] = at[q]
        PROVE  UNCHANGED lookups
    BY <2>1, <2>4 DEF lookups, TypeOK
  <2>11. ASSUME NEW r \in Requests, Moves(r)
         PROVE  UNCHANGED <<world, result, lookups>>
    BY <2>1, <2>4, <2>11, MovesFrame
  <2>12. ASSUME NEW r \in Requests, Hit(r) \/ HitDeliver(r)
         PROVE  AtomicCache!Next \/ UNCHANGED AtomicCache!abstractVars
    <3>1. UNCHANGED <<world, result, at>>
      BY <2>12 DEF Hit, HitDeliver, Continue
    <3>2. PICK p \in Phases : pc' = [pc EXCEPT ![r] = p]
      BY <2>12 DEF Hit, HitDeliver, Continue, Phases
    <3>3. pc[r] \in HitPhases
      BY <2>12 DEF Hit, HitDeliver, Runs, HitPhases
    <3>4. CASE p \in HitPhases
      <4>1. UNCHANGED lookups
        BY <2>1, <3>1, <3>2, <3>3, <3>4 DEF lookups, TypeOK
      <4> QED
        BY <2>2, <3>1, <4>1
    <3>5. CASE p \notin HitPhases
      <4>1. lookups' = [lookups EXCEPT ![r] = AtomicCache!Never]
        BY <2>1, <3>1, <3>2, <3>5 DEF lookups, TypeOK, AtomicCache!Never
      <4>2. AtomicCache!GiveUp(r)
        BY <3>1, <4>1 DEF AtomicCache!GiveUp, answers
      <4> QED
        BY <4>2 DEF AtomicCache!Next
    <3> QED
      BY <3>4, <3>5
  <2>5. ASSUME NEW r \in Requests, Settles(r) PROVE AtomicCache!Next
    <3>1. PICK outcome \in Outcomes \ {"hit", "hit-stale"},
               status \in Statuses \cup {"none"} : Finish(r, outcome, 0, status)
      BY <2>1, <2>5, SettlesFrame DEF TypeOK
    <3>2. pc[r] # "done"
      BY <2>5 DEF Settles, Upgrade, Log, ErrorDeliver, LimitError, Reject, Runs,
                  SubroutinePhases
    <3>3. AtomicCache!Answer(r, outcome, 0)
      BY <2>3, <3>1, <3>2
    <3>4. UNCHANGED world
      BY <2>5, SettlesFrame
    <3> QED
      BY <3>3, <3>4 DEF AtomicCache!Next, AtomicCache!ServeOther, AtomicCache!Misses,
                        Outcomes
  <2>6. ASSUME NEW r \in Requests, Lookup(r)
        PROVE  AtomicCache!Next \/ UNCHANGED AtomicCache!abstractVars
    <3>1. /\ UNCHANGED <<now, objects, result>>
          /\ pc[r] = "hash"
      BY <2>6 DEF Lookup, Continue, Runs
    <3>2. CASE /\ UNCHANGED cache
               /\ at' = [at EXCEPT ![r] = now]
               /\ pc' = [pc EXCEPT ![r] = "hit"]
      <4>1. answers[r] = AtomicCache!Unanswered
        BY <1>2, <3>1 DEF IInv, ResultsAreFinal, answers, Pending, AtomicCache!Unanswered
      <4>2. lookups[r] = AtomicCache!Never
        BY <3>1 DEF lookups, HitPhases, AtomicCache!Never
      <4>3. lookups' = [lookups EXCEPT ![r] = now]
        BY <2>1, <3>2 DEF lookups, TypeOK, HitPhases
      <4>4. AtomicCache!Look(r)
        BY <3>1, <3>2, <4>1, <4>2, <4>3 DEF AtomicCache!Look, answers
      <4> QED
        BY <4>4 DEF AtomicCache!Next
    <3>3. CASE UNCHANGED at /\ pc' = [pc EXCEPT ![r] = "miss"]
      <4>1. UNCHANGED lookups
        BY <2>4, <3>1, <3>3 DEF HitPhases, Phases
      <4>2. CASE UNCHANGED cache
        BY <2>2, <3>1, <4>1, <4>2
      <4>3. ASSUME NEW k \in Keys, cache[k] # NoEntry,
                   ~(IsFresh(cache[k], now) \/ IsStale(cache[k], now)),
                   cache' = [cache EXCEPT ![k] = NoEntry]
            PROVE  AtomicCache!Expire(k)
        <5>1. cache[k].expires \in Int /\ cache[k].staleUntil \in Int /\ now \in Nat
          BY <2>1, <4>3 DEF TypeOK, Entry
        <5> QED
          BY <3>1, <4>1, <4>3, <5>1
             DEF AtomicCache!Expire, AtomicCache!Remove, IsFresh, IsStale, answers
      <4>4. \/ UNCHANGED cache
            \/ \E k \in Keys : /\ cache[k] # NoEntry
                               /\ ~(IsFresh(cache[k], now) \/ IsStale(cache[k], now))
                               /\ cache' = [cache EXCEPT ![k] = NoEntry]
        BY <2>1, <2>6 DEF Lookup, TypeOK
      <4> QED
        BY <4>2, <4>3, <4>4 DEF AtomicCache!Next
    <3> QED
      BY <2>6, <3>2, <3>3 DEF Lookup, Continue
  <2>7. ASSUME NEW r \in Requests, HitLog(r) PROVE AtomicCache!Next
    <3>1. /\ cached[r] # NoEntry /\ cache[key[r]] = cached[r] /\ key[r] \in Keys
          /\ cached[r].created <= at[r]
          /\ at[r] < cached[r].expires \/ at[r] < cached[r].staleUntil
          /\ at[r] <= now
      BY <1>2, <2>7 DEF IInv, HitHasKey, HitIsLive, HitPhases, HitLog, Runs
    <3>2. /\ cached[r].id \in Nat /\ cached[r].created \in Nat
          /\ cached[r].expires \in Int /\ cached[r].staleUntil \in Int
          /\ at[r] \in Nat /\ now \in Nat
      BY <2>1, <3>1 DEF TypeOK, Entry
    <3>3. pc[r] # "done" /\ UNCHANGED <<now, objects>> /\ lookups[r] = at[r]
      BY <2>7 DEF HitLog, Runs, lookups, HitPhases
    <3>4. CASE /\ IsStale(cached[r], at[r])
               /\ cache' = [cache EXCEPT ![key[r]] = NoEntry]
               /\ Finish(r, "hit-stale", cached[r].id, "none")
      <4>1. AtomicCache!Answer(r, "hit-stale", cached[r].id)
        BY <2>3, <3>2, <3>3, <3>4 DEF Outcomes
      <4>2. cache[key[r]].expires <= at[r] /\ at[r] < cache[key[r]].staleUntil
        BY <3>1, <3>2, <3>4 DEF IsStale, IsFresh
      <4>3. AtomicCache!ServeStale(r, key[r])
        BY <3>1, <3>2, <3>3, <3>4, <4>1, <4>2
           DEF AtomicCache!ServeStale, AtomicCache!Remove
      <4> QED
        BY <3>1, <4>3 DEF AtomicCache!Next
    <3>5. CASE /\ ~IsStale(cached[r], at[r])
               /\ Finish(r, "hit", cached[r].id, "none")
               /\ UNCHANGED cache
      <4>1. AtomicCache!Answer(r, "hit", cached[r].id)
        BY <2>3, <3>2, <3>3, <3>5 DEF Outcomes
      <4>2. cache[key[r]].created <= at[r] /\ at[r] < cache[key[r]].expires
        BY <3>1, <3>2, <3>5 DEF IsStale, IsFresh
      <4>3. AtomicCache!ServeFresh(r, key[r])
        BY <3>1, <3>2, <3>3, <3>5, <4>1, <4>2 DEF AtomicCache!ServeFresh
      <4> QED
        BY <3>1, <4>3 DEF AtomicCache!Next
    <3> QED
      BY <2>7, <3>4, <3>5 DEF HitLog
  <2>8. ASSUME NEW r \in Requests, Deliver(r)
        PROVE  AtomicCache!Next \/ UNCHANGED AtomicCache!abstractVars
    <3>0. pc[r] = "deliver" /\ \E p \in {"restart", "log"} : pc' = [pc EXCEPT ![r] = p]
      BY <2>8 DEF Deliver, Continue, Runs
    <3>1. UNCHANGED <<now, result, lookups>>
      <4>1. UNCHANGED <<now, result, at>>
        BY <2>8 DEF Deliver, Continue
      <4> QED
        BY <2>4, <3>0, <4>1 DEF HitPhases, Phases
    <3>2. CASE UNCHANGED <<cache, objects>>
      BY <2>2, <3>1, <3>2
    <3>3. ASSUME NEW t \in Int, NEW w \in Int, Storable(r, t), objects' = objects + 1,
                 cache' = [cache EXCEPT ![key[r]] =
                   [id |-> objects + 1, created |-> now, expires |-> now + t,
                    staleUntil |-> now + t + w]]
          PROVE  AtomicCache!Next
      <4> DEFINE e == [id |-> objects + 1, created |-> now, expires |-> now + t,
                       staleUntil |-> now + t + w]
      <4>1. key[r] \in Keys /\ t > 0
        BY <2>1, <3>3 DEF TypeOK, Storable
      <4>2. e \in Entry /\ e.id = objects + 1 /\ e.created = now /\ now < e.expires
        BY <2>1, <4>1 DEF TypeOK, Beresp, Entry
      <4>3. cache' = [cache EXCEPT ![key[r]] = e]
        BY <3>3
      <4> HIDE DEF e
      <4>4. cache'[key[r]] = e
        BY <2>1, <4>1, <4>3 DEF TypeOK
      <4>5. AtomicCache!Store(key[r])
        BY <3>1, <3>3, <4>2, <4>3, <4>4 DEF AtomicCache!Store, answers
      <4> QED
        BY <4>1, <4>5 DEF AtomicCache!Next
    <3>4. PICK t \in Int, w \in Int :
            IF Storable(r, t)
              THEN /\ objects' = objects + 1
                   /\ cache' = [cache EXCEPT ![key[r]] =
                        [id |-> objects + 1, created |-> now, expires |-> now + t,
                         staleUntil |-> now + t + w]]
              ELSE UNCHANGED <<cache, objects>>
      BY <2>1, <2>8, PipelineAssumption DEF Deliver, TypeOK, Beresp
    <3> QED
      BY <3>2, <3>3, <3>4
  <2>9. CASE Tick
    BY <2>9 DEF Tick, AtomicCache!Next, AtomicCache!Tick, answers, lookups
  <2>10. CASE UNCHANGED vars
    BY <2>2, <2>10 DEF vars, lookups
  <2> QED
    BY <1>2, <2>2, <2>5, <2>6, <2>7, <2>8, <2>9, <2>10, <2>11, <2>12, NextCases
<1> QED
  BY <1>1, <1>2, Invariance, PTL
     DEF Spec, ImplementsAtomicCache, AtomicCache!Spec

=============================================================================
