------------------------------ MODULE CallTree ------------------------------
(***************************************************************************)
(* The limit on inlined calls (checkCallTreeLimit of src/src/vcl-limits.ts)*)
(* that a program must pass to be loaded: a walk over the subroutines in   *)
(* the order of their names that remembers what each expands to, and the   *)
(* ones being visited.  The recursion of cost() is a stack of frames.      *)
(***************************************************************************)
EXTENDS Interpreter, SequencesExt

CONSTANTS
  Graphs,  \* what may be loaded: functions from names to statement lists
  MaxTree, \* MAX_SUBROUTINE_CALL_TREE: 25000
  NoCost   \* undefined: not in the memo

VARIABLES
  code,    \* the subroutines
  names,   \* those not yet reported on, in name order
  visits,  \* the activations of cost(): [sub, at, total]
  costs,   \* the memo
  ruling   \* "walking", "accepted" or "rejected"

treeVars == <<code, names, visits, costs, ruling>>

ASSUME CallTreeAssumption ==
  /\ MaxTree \in Nat
  /\ NoCost \notin Nat
  /\ \A g \in Graphs : IsFiniteSet(DOMAIN g) /\ \A s \in DOMAIN g : WellFormed(g[s])

(* collectCallStatements: the calls of a body, those of an if and a switch  *)
(* included, those of a block not.                                          *)
Collected(body) ==
  LET blocked(i) == \E j \in 1 .. (i - 1) : body[j].kind = "block" /\ i <= EndOf(body, j)
      at(i)      == body[i].kind = "call" /\ ~blocked(i)
  IN [n \in 1 .. Cardinality({i \in DOMAIN body : at(i)}) |->
        body[CHOOSE i \in DOMAIN body :
               at(i) /\ Cardinality({j \in 1 .. i : at(j)}) = n].arg]

TreeInit ==
  /\ code \in Graphs
  /\ names \in SetToSeqs(DOMAIN code)
  /\ visits = <<>>
  /\ costs = [s \in DOMAIN code |-> NoCost]
  /\ ruling = "walking"

Visiting == {visits[i].sub : i \in DOMAIN visits}

Visit(sub) == Append(visits, [sub |-> sub, at |-> 1, total |-> 0])

(* The loop of cost() after a call that costs so much.                      *)
Passed(visit, cost) ==
  [sub |-> visit.sub, at |-> visit.at + 1, total |-> visit.total + 1 + cost]

(* The cost of the next name is known: report it, or reject the program.    *)
Report ==
  /\ ruling = "walking" /\ visits = <<>> /\ names # <<>>
  /\ costs[Head(names)] # NoCost
  /\ names' = Tail(names)
  /\ ruling' = IF costs[Head(names)] > MaxTree THEN "rejected" ELSE "walking"
  /\ UNCHANGED <<code, visits, costs>>

Begin ==
  /\ ruling = "walking" /\ visits = <<>> /\ names # <<>>
  /\ costs[Head(names)] = NoCost
  /\ visits' = Visit(Head(names))
  /\ UNCHANGED <<code, names, costs, ruling>>

(* The next call of the body under way, whose callee has a cost already, is *)
(* unknown or is being visited (both cost nothing), or is visited now.      *)
FollowCall ==
  /\ ruling = "walking" /\ visits # <<>>
  /\ LET top    == Last(visits)
         calls  == Collected(code[top.sub])
         callee == calls[top.at]
         plus(n) == Append(Front(visits), Passed(top, n))
     IN /\ top.at <= Len(calls)
        /\ visits' = IF callee \notin DOMAIN code THEN plus(0)
                     ELSE IF costs[callee] # NoCost THEN plus(costs[callee])
                     ELSE IF callee \in Visiting THEN plus(0)
                     ELSE Visit(callee)
  /\ UNCHANGED <<code, names, costs, ruling>>

(* Mutant of EndVisit: the caller adds the callee's cost without the call.  *)
EndVisitFree ==
  /\ ruling = "walking" /\ visits # <<>>
  /\ Last(visits).at > Len(Collected(code[Last(visits).sub]))
  /\ costs' = [costs EXCEPT ![Last(visits).sub] = Last(visits).total]
  /\ visits' = IF Len(visits) = 1 THEN <<>>
               ELSE [Front(visits) EXCEPT ![Len(visits) - 1] = Passed(@, Last(visits).total - 1)]
  /\ UNCHANGED <<code, names, ruling>>

(* A body is done: its cost is remembered, and added to the caller's.       *)
EndVisit ==
  /\ ruling = "walking" /\ visits # <<>>
  /\ Last(visits).at > Len(Collected(code[Last(visits).sub]))
  /\ costs' = [costs EXCEPT ![Last(visits).sub] = Last(visits).total]
  /\ visits' = IF Len(visits) = 1 THEN <<>>
               ELSE [Front(visits) EXCEPT ![Len(visits) - 1] = Passed(@, Last(visits).total)]
  /\ UNCHANGED <<code, names, ruling>>

Accept ==
  /\ ruling = "walking" /\ visits = <<>> /\ names = <<>>
  /\ ruling' = "accepted"
  /\ UNCHANGED <<code, names, visits, costs>>

TreeNext == Report \/ Begin \/ FollowCall \/ EndVisit \/ Accept

TreeSpec == TreeInit /\ [][TreeNext]_treeVars

-----------------------------------------------------------------------------
(* Properties.                                                              *)

(* The calls a subroutine makes itself, and what each is worth when sizes   *)
(* tells the calls its callee makes.                                        *)
CallsIn(graph, sub) == {i \in DOMAIN graph[sub] : graph[sub][i].kind = "call"}

Worth(graph, sub, sizes) ==
  [i \in DOMAIN graph[sub] |->
     1 + IF graph[sub][i].arg \in DOMAIN graph THEN sizes[graph[sub][i].arg] ELSE 0]

(* The calls a subroutine makes after n rounds of inlining, counted on its  *)
(* statements.                                                              *)
Inlined(graph) ==
  LET made[n \in Nat] ==
        [s \in DOMAIN graph |->
           IF n = 0 THEN 0
           ELSE MapThenSumSet(LAMBDA i : Worth(graph, s, made[n - 1])[i], CallsIn(graph, s))]
  IN made

(* No recursion (one more round adds nothing), and no block.                *)
Acyclic(graph) ==
  LET n == Cardinality(DOMAIN graph)
  IN /\ Inlined(graph)[n + 1] = Inlined(graph)[n]
     /\ \A s \in DOMAIN graph : \A i \in DOMAIN graph[s] : graph[s][i].kind # "block"

TreeTypeOK ==
  /\ IsInjective([i \in DOMAIN visits |-> visits[i].sub])
  /\ \A s \in DOMAIN code : costs[s] \in Nat \cup {NoCost}
  /\ ruling \in {"walking", "accepted", "rejected"}

(* In a program without recursion the memo holds what each subroutine       *)
(* expands to when all calls are inlined, whichever subroutine the walk     *)
(* came from, and the program is loaded exactly when none exceeds the limit.*)
VerdictExact ==
  LET size == Inlined(code)[Cardinality(DOMAIN code)]
  IN Acyclic(code) =>
       /\ \A s \in DOMAIN code : costs[s] \in {NoCost, size[s]}
       /\ ruling = "accepted" => \A s \in DOMAIN code : size[s] <= MaxTree
       /\ ruling = "rejected" => \E s \in DOMAIN code : size[s] > MaxTree
=============================================================================
