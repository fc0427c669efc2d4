------------------------------ MODULE MCShared ------------------------------
(* What outlives a request or is shared by several: rate counters, token    *)
(* buckets, the server's backends and directors, and the default platform   *)
(* of a page's simulations.  None reads what another one keeps, so a        *)
(* behaviour is of one of them.                                             *)
EXTENDS RateLimit, TokenBucket, Backends, Simulation

CONSTANTS
  Explored,  \* the components a run looks at
  r1, r2

VARIABLE component

backendVars == vars

sharedVars == <<component, counterVars, buckets, requested, backendVars, simVars>>

MCInit ==
  /\ component \in Explored
  /\ CountersInit
  /\ BucketInit
  /\ Init
  /\ SimInit
  /\ component # "platform" => platform = NoBase

(* No request for a token, or no turn of a simulation, is left in the model.*)
BoundsReached ==
  /\ \/ component = "buckets" /\ now = MaxTime /\ Cardinality(requested) = MaxRequests
     \/ component = "platform" /\ \A s \in Sims : phase[s] = "over"
  /\ UNCHANGED sharedVars

MCNext ==
  \/ /\ component = "counters"
     /\ CountersNext
     /\ UNCHANGED <<component, buckets, requested, backendVars, simVars>>
  \/ /\ component = "buckets"
     /\ BucketNext
     /\ UNCHANGED <<component, counters, boxes, charges, backendVars, simVars>>
  \/ /\ component = "backends"
     /\ Next
     /\ UNCHANGED <<component, counterVars, buckets, requested, simVars>>
  \/ /\ component = "platform"
     /\ SimNext
     /\ UNCHANGED <<component, counterVars, buckets, requested, backendVars>>
  \/ BoundsReached

MCSpec == MCInit /\ [][MCNext]_sharedVars

(* Counters, boxes, buckets, backends, requests and the default platform    *)
(* hold what the code may put there.                                        *)
SharedTypeOK == CountersTypeOK /\ BucketTypeOK /\ TypeOK /\ SimTypeOK

Symmetry == Permutations({r1, r2})

OneClient == {<<"c1">>}

TwoClients == {<<"c1">>, <<"c2">>}

WindowPairs == {<<1, 2>>, <<1, 1>>}
=============================================================================
