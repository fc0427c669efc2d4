----------------------------- MODULE MCPipeline -----------------------------
(* Instances of Pipeline for TLC.                                           *)
EXTENDS Pipeline, TLC

CONSTANTS r1, r2, k1, k2

TtlChoices == {-1, 0, 1}

Symmetry == Permutations(Requests) \cup Permutations(Keys)
=============================================================================
