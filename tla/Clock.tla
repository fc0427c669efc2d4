-------------------------------- MODULE Clock --------------------------------
(* The clock of the host, platform.now(), that rate limits are read from.   *)
(* It moves between any two calls.                                          *)
EXTENDS Integers

CONSTANT MaxTime  \* bound of the model: the clock stops

ASSUME ClockAssumption == MaxTime \in Nat

VARIABLE now

Advance ==
  /\ now < MaxTime
  /\ now' = now + 1
=============================================================================
