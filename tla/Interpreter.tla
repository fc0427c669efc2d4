----------------------------- MODULE Interpreter -----------------------------
(***************************************************************************)
(* The statement interpreter of src/src/vcl-compiler.ts: one run of a      *)
(* vcl_* subroutine (compileSubroutine), with if and switch, goto, calls   *)
(* of custom subroutines, typed subroutines called in expressions, return, *)
(* error and restart, scope checks, and exceptions.                        *)
(*                                                                         *)
(* The recursion of executeStatement is a stack of frames, one per loop    *)
(* over a statement list.  A statement that returns a string raises a      *)
(* signal, which each enclosing loop passes on, consumes or drops: that is *)
(* where the loops differ.                                                 *)
(*                                                                         *)
(* The statements of a subroutine stand in source order, nested ones after *)
(* the statement they belong to: `cases' of an if or a switch gives the    *)
(* offset of the last statement of each branch.                            *)
(***************************************************************************)
EXTENDS Integers, Sequences, FiniteSets

CONSTANTS
  Programs,  \* what the parser may hand over: [root, code, typed], code a
             \* function from subroutine names to statement lists
  MaxDepth,  \* the loops JavaScript's call stack has room for
  MaxEvals   \* calls of typed subroutines that may be under way (100)

VARIABLES
  program,  \* the loaded program and the subroutine that is run
  stack,    \* the loops under way, innermost last
  signal,   \* the string a statement has returned, or none
  outcome,  \* what the run returned
  raised    \* history: an error statement was reached outside expressions

vars == <<program, stack, signal, outcome, raised>>

-----------------------------------------------------------------------------
(* Statements: [kind, arg, value, cases].  `arg' is the label of a goto or  *)
(* label, the name a call or eval calls, the action of a return; `value' is *)
(* set for return <expr>; `cases' lists the branches of a compound one:     *)
(* [to, tested, through], the offset of the last statement, FALSE for a     *)
(* default, TRUE for a fallthrough.                                         *)

Compound == {"if", "switch", "block"}

Kinds == Compound \cup {"set", "call", "eval", "goto", "label", "return",
                        "error", "restart", "synthetic", "esi"}

Roots == {"vcl_recv", "vcl_hash", "vcl_hit", "vcl_miss", "vcl_pass", "vcl_fetch",
          "vcl_deliver", "vcl_error", "vcl_log"}

SourceCases == [to : Nat, tested : BOOLEAN, through : BOOLEAN]

(* The arg "none" is no statement's: it is the outcome of a run not over.   *)
SourceStatements ==
  [kind : Kinds, arg : STRING \ {"none"}, value : BOOLEAN, cases : Seq(SourceCases)]

(* The last statement that belongs to the statement at i.                   *)
EndOf(code, i) ==
  IF code[i].kind \in Compound THEN i + code[i].cases[Len(code[i].cases)].to ELSE i

(* The branches of a compound statement follow one another, inside its code *)
(* and each with its own statements whole.                                  *)
WellFormed(code) ==
  /\ code \in Seq(SourceStatements)
  /\ \A i \in DOMAIN code : code[i].kind \in Compound =>
       LET cases == code[i].cases
       IN /\ cases # <<>>
          /\ \A n \in DOMAIN cases :
               /\ cases[n].to \in 0 .. (Len(code) - i)
               /\ n > 1 => cases[n - 1].to <= cases[n].to
               /\ \A j \in (i + 1) .. (i + cases[n].to) : EndOf(code, j) <= i + cases[n].to

ASSUME InterpreterAssumption ==
  /\ MaxDepth \in Nat \ {0}
  /\ MaxEvals \in Nat
  /\ \A p \in Programs : /\ p.root \in Roots \cap DOMAIN p.code
                         /\ p.typed \subseteq DOMAIN p.code
                         /\ \A s \in DOMAIN p.code :
                              /\ WellFormed(p.code[s])
                              /\ \A i \in DOMAIN p.code[s] :
                                   p.code[s][i].kind = "eval" => p.code[s][i].arg \in p.typed

(* The labels of a subroutine: those inside compound statements are none.   *)
Labels(code, label) ==
  {j \in DOMAIN code : /\ code[j].kind = "label"
                       /\ code[j].arg = label
                       /\ \A i \in 1 .. (j - 1) : EndOf(code, i) < j}

(* Mutant of ValidGotos: the label may be anywhere.                         *)
GotosNamed(code) ==
  \A i \in DOMAIN code : code[i].kind = "goto" => Labels(code, code[i].arg) # {}

(* Every goto has a label after it.                                         *)
ValidGotos(code) ==
  \A i \in DOMAIN code : code[i].kind = "goto" =>
    \E j \in Labels(code, code[i].arg) : j > i

(* Mutant of LabelAt: the first label of that name wins.                    *)
FirstLabelAt(code, label) ==
  CHOOSE j \in Labels(code, label) : \A k \in Labels(code, label) : k >= j

(* The jump table of a run: the last label of that name wins.               *)
LabelAt(code, label) ==
  CHOOSE j \in Labels(code, label) : \A k \in Labels(code, label) : k <= j

(* Mutant of Branches: a branch runs on into the statement after it.        *)
BranchesTooLong(code, i) ==
  LET cases == code[i].cases
      first(n) == i + 1 + (IF n = 1 THEN 0 ELSE cases[n - 1].to)
  IN {<<first(n), i + cases[n].to + 1>> : n \in DOMAIN cases}

(* The statements an if, a switch or a block may run: those of one branch,  *)
(* and of the next ones while they fall through; none in a switch without   *)
(* default.                                                                 *)
Branches(code, i) ==
  LET cases == code[i].cases
      first(n) == i + 1 + (IF n = 1 THEN 0 ELSE cases[n - 1].to)
      stops(n) == {m \in n .. Len(cases) : /\ \A j \in n .. (m - 1) : cases[j].through
                                           /\ ~cases[m].through \/ m = Len(cases)}
      ranges   == UNION {{<<first(n), i + cases[m].to>> : m \in stops(n)} :
                           n \in DOMAIN cases}
  IN IF code[i].kind = "switch" /\ \A n \in DOMAIN cases : cases[n].tested
       THEN ranges \cup {<<i + 1, i>>}
       ELSE ranges

-----------------------------------------------------------------------------
(* Loops, signals and outcomes.                                             *)

(* "sub" is the loop of compileSubroutine, "call" that of a call statement, *)
(* "eval" that of executeFunctionalSub, "raise" that of an error statement  *)
(* over vcl_error's body, "block" that of a branch.                         *)
FrameKinds == {"sub", "call", "eval", "raise", "block"}

Frame(kind, sub, from, to) == [kind |-> kind, sub |-> sub, at |-> from, last |-> to]

NoSignal == [kind |-> "none", arg |-> ""]

Goto(label) == [kind |-> "goto", arg |-> label]

Action(name) == [kind |-> "action", arg |-> name]

(* "__typed_return__": return <expr>; under a typed subroutine.             *)
TypedReturn == [kind |-> "typed", arg |-> ""]

(* Mutant of CallPropagates: error is not in the list.                      *)
CallPropagatesButError ==
  {"deliver", "pass", "lookup", "fetch", "restart", "pipe", "hash",
   "deliver_stale", "hit_for_pass"}

(* The actions executeCallStatement passes on to the caller.                *)
CallPropagates == {"deliver", "pass", "lookup", "fetch", "error", "restart", "pipe",
                   "hash", "deliver_stale", "hit_for_pass"}

(* STATEMENT_SCOPES.                                                        *)
Allowed(kind) ==
  CASE kind = "error"     -> {"vcl_recv", "vcl_hit", "vcl_miss", "vcl_pass", "vcl_fetch"}
    [] kind = "restart"   -> {"vcl_recv", "vcl_hit", "vcl_fetch", "vcl_error", "vcl_deliver"}
    [] kind = "synthetic" -> {"vcl_error"}
    [] kind = "esi"       -> {"vcl_fetch"}
    [] OTHER              -> Roots

(* What a run that reaches its end returns, ...                             *)
DefaultReturn(root) ==
  CASE root = "vcl_recv" -> "lookup"
    [] root = "vcl_hash" -> "hash"
    [] root \in {"vcl_miss", "vcl_pass"} -> "fetch"
    [] root \in {"vcl_hit", "vcl_fetch", "vcl_deliver", "vcl_error"} -> "deliver"
    [] OTHER -> ""

(* ... and what one that an exception ends returns.                         *)
ErrorReturn(root) ==
  CASE root \in {"vcl_deliver", "vcl_error"} -> "deliver"
    [] root = "vcl_log" -> ""
    [] OTHER -> "error"

Running == stack # <<>>
Top     == stack[Len(stack)]
Code(f) == program.code[f.sub]
Here    == Code(Top)[Top.at]
Depth(kind) == Cardinality({i \in DOMAIN stack : stack[i].kind = kind})

(* The innermost loop is about to run a statement of one of these kinds.    *)
At(kinds) ==
  /\ Running
  /\ signal = NoSignal
  /\ Top.at <= Top.last
  /\ Here.kind \in kinds

(* requireScope: custom subroutines have the scope of the run.              *)
InScope == program.root \in Allowed(Here.kind)

(* The stack once the innermost loop is past its statement, or over.        *)
Advanced == [stack EXCEPT ![Len(stack)].at = EndOf(Code(Top), Top.at) + 1]
Pop      == SubSeq(stack, 1, Len(stack) - 1)

(* The run is over.                                                         *)
Stop(result) ==
  /\ stack' = <<>>
  /\ signal' = NoSignal
  /\ outcome' = result
  /\ UNCHANGED program

(* An exception unwinds every loop, up to compileSubroutine's catch.        *)
Throw == Stop(ErrorReturn(program.root))

Proceed(loops, s) ==
  /\ stack' = loops
  /\ signal' = s
  /\ UNCHANGED <<program, outcome>>

(* The innermost loop enters another, unless JavaScript's stack overflows.  *)
Enter(frame) ==
  IF Len(stack) < MaxDepth THEN Proceed(Append(Advanced, frame), NoSignal) ELSE Throw

WholeBody(kind, sub) == Frame(kind, sub, 1, Len(program.code[sub]))

-----------------------------------------------------------------------------
(* Loading: compile rejects a program with a goto that leads nowhere.       *)

Init ==
  /\ program \in {p \in Programs : \A s \in DOMAIN p.code : ValidGotos(p.code[s])}
  /\ stack = <<WholeBody("sub", program.root)>>
  /\ signal = NoSignal
  /\ outcome = "none"
  /\ raised = FALSE

-----------------------------------------------------------------------------
(* Statements.                                                              *)

(* Statements that return nothing (set stands for all without a scope).     *)
Simple ==
  /\ At({"set", "label", "synthetic", "esi"})
  /\ InScope
  /\ Proceed(Advanced, NoSignal)
  /\ UNCHANGED raised

Branch ==
  /\ At(Compound)
  /\ \E range \in Branches(Code(Top), Top.at) :
       Enter(Frame("block", Top.sub, range[1], range[2]))
  /\ UNCHANGED raised

(* call: an unknown subroutine is logged and skipped.                       *)
Call ==
  /\ At({"call"})
  /\ IF Here.arg \in DOMAIN program.code
       THEN Enter(WholeBody("call", Here.arg))
       ELSE Proceed(Advanced, NoSignal)
  /\ UNCHANGED raised

(* An expression that calls a typed subroutine: too deep, its value is null.*)
Eval ==
  /\ At({"eval"})
  /\ IF Depth("eval") <= MaxEvals
       THEN Enter(WholeBody("eval", Here.arg))
       ELSE Proceed(Advanced, NoSignal)
  /\ UNCHANGED raised

GotoLabel ==
  /\ At({"goto"})
  /\ Proceed(Advanced, Goto(Here.arg))
  /\ UNCHANGED raised

(* return <expr> is evaluated only under a typed subroutine.                *)
ReturnsValue == At({"return"}) /\ Here.value /\ Depth("eval") > 0

(* return: under a typed subroutine a value is kept for the expression;     *)
(* otherwise the action is the result, and the empty string is no result.   *)
Return ==
  /\ At({"return"})
  /\ Proceed(Advanced, IF ReturnsValue THEN TypedReturn
                       ELSE IF Here.arg # "" THEN Action(Here.arg) ELSE NoSignal)
  /\ UNCHANGED raised

(* error: vcl_error's body runs right here, then "error" is returned.       *)
Error ==
  /\ At({"error"})
  /\ InScope
  /\ raised' = (raised \/ Depth("eval") = 0)
  /\ IF "vcl_error" \in DOMAIN program.code
       THEN Enter(WholeBody("raise", "vcl_error"))
       ELSE Proceed(Advanced, Action("error"))

Restart ==
  /\ At({"restart"})
  /\ InScope
  /\ Proceed(Advanced, Action("restart"))
  /\ UNCHANGED raised

(* A statement outside its scope throws, and so may any expression.         *)
Fault ==
  /\ \/ At({"set", "if", "switch", "call", "eval", "error", "synthetic"})
     \/ At({"restart", "esi"}) /\ ~InScope
     \/ ReturnsValue
  /\ Throw
  /\ UNCHANGED raised

(* Past the workspace limit, or for a feature the platform lacks, the       *)
(* exception goes through compileSubroutine too.                            *)
Reject ==
  /\ \/ At({"set", "if", "switch", "call", "eval", "error", "synthetic"}) /\ InScope
     \/ ReturnsValue
  /\ Stop("rejected")
  /\ UNCHANGED raised

-----------------------------------------------------------------------------
(* The end of a loop, and what each loop does with a signal.                *)

EndOfLoop ==
  /\ Running
  /\ signal = NoSignal
  /\ Top.at > Top.last
  /\ CASE Top.kind = "sub"   -> Stop(DefaultReturn(program.root))
       [] Top.kind = "raise" -> Proceed(Pop, Action("error"))
       [] OTHER              -> Proceed(Pop, NoSignal)
  /\ UNCHANGED raised

Signalled(kind) ==
  /\ Running
  /\ signal # NoSignal
  /\ Top.kind = kind

(* Mutant of Leaves: a goto leaves the called subroutine too.               *)
LeavesOrJumps == signal.kind = "goto" \/ signal.arg \in CallPropagates

Leaves == signal.kind = "action" /\ signal.arg \in CallPropagates

BlockPasses ==
  /\ Signalled("block")
  /\ Proceed(Pop, signal)
  /\ UNCHANGED raised

CallPasses ==
  /\ Signalled("call")
  /\ Leaves
  /\ Proceed(Pop, signal)
  /\ UNCHANGED raised

(* A call keeps any other result: a typed subroutine ends with it, any      *)
(* other goes on with its next statement.                                   *)
CallKeeps ==
  /\ Signalled("call")
  /\ ~Leaves
  /\ Proceed(IF Top.sub \in program.typed THEN Pop ELSE stack, NoSignal)
  /\ UNCHANGED raised

(* An expression's value, if any, is all that is left of a typed run.       *)
EvalKeeps ==
  /\ Signalled("eval")
  /\ Proceed(Pop, NoSignal)
  /\ UNCHANGED raised

(* The error statement ignores what vcl_error's statements return.          *)
RaiseIgnores ==
  /\ Signalled("raise")
  /\ Proceed(stack, NoSignal)
  /\ UNCHANGED raised

Jump ==
  /\ Signalled("sub")
  /\ signal.kind = "goto"
  /\ Proceed([stack EXCEPT ![Len(stack)].at = LabelAt(Code(Top), signal.arg) + 1],
             NoSignal)
  /\ UNCHANGED raised

Exit ==
  /\ Signalled("sub")
  /\ signal.kind # "goto"
  /\ Stop(signal.arg)
  /\ UNCHANGED raised

Over ==
  /\ ~Running
  /\ UNCHANGED vars

Statement ==
  \/ Simple \/ Branch \/ Call \/ Eval \/ GotoLabel \/ Return \/ Error \/ Restart
  \/ Fault \/ Reject

Loop ==
  \/ EndOfLoop \/ BlockPasses \/ CallPasses \/ CallKeeps \/ EvalKeeps
  \/ RaiseIgnores \/ Jump \/ Exit

Next == Statement \/ Loop \/ Over

(* A run is synchronous code: it goes on until it is over.                  *)
Spec == Init /\ [][Next]_vars /\ WF_vars(Statement \/ Loop)

-----------------------------------------------------------------------------
(* Properties.                                                              *)

TypeOK ==
  /\ \A n \in DOMAIN stack :
       /\ stack[n].kind \in FrameKinds
       /\ (stack[n].kind = "sub") = (n = 1)
       /\ stack[n].sub \in DOMAIN program.code
       /\ stack[n].last \in 0 .. Len(Code(stack[n]))
       /\ stack[n].at \in 1 .. (stack[n].last + 1)
  /\ Len(stack) <= MaxDepth
  /\ Running = (outcome = "none")
  /\ signal.kind \in {"none", "goto", "action", "typed"}
  /\ raised \in BOOLEAN

(* Control only moves forward: no step, and no goto, takes a loop back to a *)
(* statement it has passed (what validateGotos is for).                     *)
ForwardOnly ==
  [][\A n \in DOMAIN stack \cap DOMAIN stack' : stack[n].at <= stack'[n].at]_vars

(* A goto that reaches the subroutine's own loop finds its label there, so  *)
(* the "is not defined" exception of the jump is never thrown.              *)
GotosLand ==
  signal.kind = "goto" =>
    \E n \in DOMAIN stack : /\ \A m \in n + 1 .. Len(stack) : stack[m].kind = "block"
                            /\ stack[n].kind # "block"
                            /\ Labels(Code(stack[n]), signal.arg) # {}

(* Once an error statement has run outside expressions, the run returns     *)
(* error whatever follows in vcl_error's body, its callers and the labels   *)
(* on the way (unless the whole request is rejected).                       *)
ErrorStatementWins == raised /\ ~Running => outcome \in {"error", "rejected"}

(* Every run ends: no goto, recursion or typed recursion keeps it going.    *)
Terminates == <>(~Running)

(* A bare return ends the custom subroutine it stands in.                   *)
BareReturnExits ==
  [][At({"return"}) /\ Here.arg = "" /\ Top.kind = "call" =>
       \/ Len(stack') < Len(stack)
       \/ Top'.at > Top'.last]_vars
=============================================================================
