----------------------------- MODULE Simulation -----------------------------
(***************************************************************************)
(* runBrowserSimulation (src/src/runtime/browser.ts): every simulation has *)
(* a platform of its own (clock, randomness, log), which it makes the      *)
(* default platform of the process until it is over.  It awaits its        *)
(* pipeline, so simulations that a page starts together take turns.        *)
(*                                                                         *)
(* What a subroutine does reaches the platform by two ways: its context's  *)
(* (std.log and the trace) and the default one (randomness, warnings and   *)
(* errors, clocks of counters).                                            *)
(***************************************************************************)
EXTENDS Integers, SequencesExt

CONSTANTS
  Sims,      \* simulations: each stands for its platform, too
  Base,      \* the platform registered before, or
  NoBase,    \* none
  MaxTurns   \* bound of the model: the turns of a simulation

VARIABLES
  platform,  \* defaultPlatform
  previous,  \* what each simulation found
  phase,     \* "idle", "running" or "over"
  turns,     \* its turns so far
  used,      \* the default platforms its turns have met
  outer,     \* history: those that ran when it began
  crossed    \* history: a simulation ended before one it began after

simVars == <<platform, previous, phase, turns, used, outer, crossed>>

ASSUME SimulationAssumption ==
  MaxTurns \in Nat /\ {Base, NoBase} \cap Sims = {} /\ Base # NoBase

RunningSims == {s \in Sims : phase[s] = "running"}

SimInit ==
  /\ platform \in {Base, NoBase}
  /\ previous = [s \in Sims |-> NoBase]
  /\ phase = [s \in Sims |-> "idle"]
  /\ turns = [s \in Sims |-> 0]
  /\ used = [s \in Sims |-> {}]
  /\ outer = [s \in Sims |-> {}]
  /\ crossed = FALSE

(* Everything up to the first await.                                        *)
Start(s) ==
  /\ phase[s] = "idle"
  /\ previous' = [previous EXCEPT ![s] = platform]
  /\ platform' = s
  /\ phase' = [phase EXCEPT ![s] = "running"]
  /\ used' = [used EXCEPT ![s] = {s}]
  /\ outer' = [outer EXCEPT ![s] = RunningSims]
  /\ UNCHANGED <<turns, crossed>>

(* A turn between two awaits: random bytes, warnings, clocks.               *)
Turn(s) ==
  /\ phase[s] = "running" /\ turns[s] < MaxTurns
  /\ turns' = [turns EXCEPT ![s] = @ + 1]
  /\ used' = [used EXCEPT ![s] = @ \cup {platform}]
  /\ UNCHANGED <<platform, previous, phase, outer, crossed>>

(* Mutant of Restore: the platform stays.                                   *)
RestoreNothing(s) == platform

(* finally: what was found, unless nothing was.                             *)
Restore(s) == IF previous[s] = NoBase THEN platform ELSE previous[s]

(* The result is there, an exception has become one, or the program did not *)
(* load.                                                                    *)
EndSimulation(s) ==
  /\ phase[s] = "running"
  /\ platform' = Restore(s)
  /\ phase' = [phase EXCEPT ![s] = "over"]
  /\ crossed' = (crossed \/ \E r \in RunningSims : s \in outer[r])
  /\ UNCHANGED <<previous, turns, used, outer>>

SimNext == \E s \in Sims : Start(s) \/ Turn(s) \/ EndSimulation(s)

SimSpec == SimInit /\ [][SimNext]_simVars

-----------------------------------------------------------------------------
(* Properties.                                                              *)

SimTypeOK ==
  /\ platform \in Sims \cup {Base, NoBase}
  /\ \A s \in Sims : phase[s] = "running" => turns[s] <= MaxTurns

(* As long as simulations end in the reverse of the order they began in,    *)
(* the default platform is that of the innermost one running, one that no   *)
(* other began within has met only its own, and what was registered before  *)
(* is back when all are over.                                               *)
PlatformNests ==
  ~crossed =>
    /\ \A s \in RunningSims : (\A r \in RunningSims : s \notin outer[r]) => platform = s
    /\ \A s \in Sims :
         phase[s] # "idle" /\ (\A r \in Sims : s \notin outer[r]) => used[s] = {s}
    /\ RunningSims = {} /\ (\E s \in Sims : previous[s] = Base) => platform = Base
=============================================================================
