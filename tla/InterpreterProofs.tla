-------------------------- MODULE InterpreterProofs --------------------------
(***************************************************************************)
(* An error statement decides what a run returns, for any programs, depth   *)
(* of JavaScript's stack and calls of typed subroutines.                    *)
(*                                                                         *)
(* The first part needs the kinds of the loops only; the second says where  *)
(* in its statements each loop is, which is what gotos are about.           *)
(***************************************************************************)
EXTENDS Interpreter, Sums, SequenceTheorems

Fields == {"kind", "sub", "at", "last"}

(* A stack of loops: the outermost is the subroutine's.                     *)
Stacked(loops) ==
  /\ \E S : loops \in Seq(S)
  /\ \A n \in 1 .. Len(loops) :
       /\ Fields \subseteq DOMAIN loops[n]
       /\ loops[n].kind \in FrameKinds
       /\ (loops[n].kind = "sub") <=> (n = 1)

NoEval(loops, n) == \A m \in 1 .. n : loops[m].kind # "eval"

(* The body of vcl_error is under way for an error statement that is not in *)
(* an expression.                                                           *)
Erring(loops) ==
  \E n \in 1 .. Len(loops) : loops[n].kind = "raise" /\ NoEval(loops, n - 1)

(* It is over, and the string "error" is on its way out.                    *)
Passing(loops, s) == s = Action("error") /\ NoEval(loops, Len(loops))

ErrorHolds ==
  raised =>
    /\ program.root \in Allowed("error")
    /\ Running => Erring(stack) \/ Passing(stack, signal)
    /\ ~Running => outcome \in {"error", "rejected"}

IInv == Stacked(stack) /\ ErrorHolds

(* The same loops, wherever they are.                                       *)
SameKinds(loops) ==
  /\ Len(loops) = Len(stack)
  /\ \A n \in 1 .. Len(stack) : loops[n].kind = stack[n].kind

-----------------------------------------------------------------------------
(* What becomes of the stack.                                               *)

LEMMA MovedStack ==
  ASSUME Stacked(stack), stack # <<>>, NEW v
  PROVE  /\ Stacked([stack EXCEPT ![Len(stack)].at = v])
         /\ SameKinds([stack EXCEPT ![Len(stack)].at = v])
PROOF
  <1> DEFINE n == Len(stack)
             top == [stack[n] EXCEPT !.at = v]
             moved == [stack EXCEPT ![n].at = v]
  <1>1. PICK S : stack \in Seq(S) BY DEF Stacked
  <1>2. n \in 1 .. Len(stack) BY <1>1
  <1>3. stack \in Seq(S \cup {top}) /\ top \in S \cup {top} BY <1>1
  <1>4. moved = [stack EXCEPT ![n] = top] BY <1>1
  <1>5. Fields \subseteq DOMAIN stack[n] BY <1>2 DEF Stacked
  <1>6. top.kind = stack[n].kind /\ Fields \subseteq DOMAIN top BY <1>5 DEF Fields
  <1> HIDE DEF top
  <1>7. /\ moved \in Seq(S \cup {top}) /\ Len(moved) = Len(stack)
        /\ \A j \in 1 .. Len(stack) : moved[j] = IF j = n THEN top ELSE stack[j]
    BY <1>2, <1>3, <1>4, ExceptSeq
  <1> HIDE DEF moved, n
  <1>8. QED BY <1>6, <1>7 DEF Stacked, SameKinds, moved, n

LEMMA PoppedStack ==
  ASSUME Stacked(stack), stack # <<>>
  PROVE  /\ Stacked(Pop)
         /\ Len(Pop) = Len(stack) - 1
         /\ \A n \in 1 .. Len(stack) - 1 : Pop[n] = stack[n]
PROOF
  <1>1. PICK S : stack \in Seq(S) BY DEF Stacked
  <1>2. Len(stack) \in Nat \ {0} BY <1>1
  <1>3. /\ Pop \in Seq(S) /\ Len(Pop) = Len(stack) - 1
        /\ \A n \in 1 .. Len(stack) - 1 : Pop[n] = stack[n]
    <2> DEFINE n == Len(stack) - 1
    <2>1. n \in Nat /\ \A i \in 1 .. n : stack[i] \in S BY <1>1, <1>2
    <2> HIDE DEF n
    <2>2. /\ SubSeq(stack, 1, n) \in Seq(S)
          /\ Len(SubSeq(stack, 1, n)) = IF 1 <= n THEN n - 1 + 1 ELSE 0
          /\ \A i \in 1 .. n - 1 + 1 : SubSeq(stack, 1, n)[i] = stack[1 + i - 1]
      BY <2>1, SubSeqProperties
    <2>3. /\ Len(SubSeq(stack, 1, n)) = n
          /\ \A i \in 1 .. n : SubSeq(stack, 1, n)[i] = stack[i]
      BY <2>1, <2>2
    <2>4. QED BY <2>2, <2>3 DEF Pop, n
  <1>4. QED BY <1>2, <1>3 DEF Stacked

LEMMA PushedStack ==
  ASSUME NEW loops, Stacked(loops), loops # <<>>,
         NEW kind \in FrameKinds \ {"sub"}, NEW sub, NEW from, NEW to
  PROVE  LET frame  == Frame(kind, sub, from, to)
             pushed == Append(loops, frame)
         IN /\ Stacked(pushed)
            /\ Len(pushed) = Len(loops) + 1
            /\ \A n \in 1 .. Len(loops) : pushed[n] = loops[n]
            /\ pushed[Len(loops) + 1].kind = kind
PROOF
  <1> DEFINE frame == Frame(kind, sub, from, to)
             pushed == Append(loops, frame)
  <1>1. PICK S : loops \in Seq(S) BY DEF Stacked
  <1>2. loops \in Seq(S \cup {frame}) /\ frame \in S \cup {frame} BY <1>1
  <1>3. frame.kind = kind /\ Fields \subseteq DOMAIN frame BY DEF Frame, Fields
  <1> HIDE DEF frame
  <1>4. /\ pushed \in Seq(S \cup {frame}) /\ Len(pushed) = Len(loops) + 1
        /\ \A i \in 1 .. Len(loops) : pushed[i] = loops[i]
        /\ pushed[Len(loops) + 1] = frame
    BY <1>2, AppendProperties
  <1>5. Len(loops) \in Nat \ {0} BY <1>1
  <1> HIDE DEF pushed
  <1>6. Stacked(pushed) BY <1>3, <1>4, <1>5 DEF Stacked
  <1>7. QED BY <1>3, <1>4, <1>6 DEF frame, pushed

LEMMA TopIsTop ==
  ASSUME Stacked(stack), stack # <<>>
  PROVE  /\ Len(stack) \in Nat \ {0}
         /\ Top.kind \in FrameKinds
         /\ (Top.kind = "sub") <=> (Len(stack) = 1)
PROOF
  <1>1. PICK S : stack \in Seq(S) BY DEF Stacked
  <1>2. Len(stack) \in Nat \ {0} BY <1>1
  <1>3. Len(stack) \in 1 .. Len(stack) BY <1>2
  <1>4. Top = stack[Len(stack)] BY DEF Top
  <1>5. QED BY <1>2, <1>3, <1>4 DEF Stacked

LEMMA NoEvals ==
  ASSUME Stacked(stack), Depth("eval") = 0
  PROVE  NoEval(stack, Len(stack))
PROOF
  <1> DEFINE evals == {i \in DOMAIN stack : stack[i].kind = "eval"}
  <1>1. PICK S : stack \in Seq(S) BY DEF Stacked
  <1>2. DOMAIN stack = 1 .. Len(stack) /\ Len(stack) \in Nat BY <1>1
  <1>3. IsFiniteSet(DOMAIN stack) BY <1>2, FS_Interval
  <1>4. IsFiniteSet(evals) BY <1>3, FS_Subset
  <1>5. evals = {} BY <1>4, FS_EmptySet DEF Depth
  <1>6. QED BY <1>2, <1>5 DEF NoEval

LEMMA ErringStays ==
  ASSUME NEW loops, Stacked(stack), Erring(stack), Len(loops) \in Nat, Len(loops) >= Len(stack),
         \A n \in 1 .. Len(stack) : loops[n].kind = stack[n].kind
  PROVE  Erring(loops)
PROOF
  <1>1. Len(stack) \in Nat BY DEF Stacked
  <1>2. QED BY <1>1 DEF Erring, NoEval

(* Any loop but an error statement's own may end.                           *)
LEMMA ErringPops ==
  ASSUME Stacked(stack), stack # <<>>, Erring(stack), Top.kind # "raise"
  PROVE  Erring(Pop)
PROOF
  <1>1. Len(stack) \in Nat \ {0} BY TopIsTop
  <1>2. PICK n \in 1 .. Len(stack) : stack[n].kind = "raise" /\ NoEval(stack, n - 1) BY DEF Erring
  <1>3. n # Len(stack) BY <1>2 DEF Top
  <1>4. n \in 1 .. Len(stack) - 1 BY <1>1, <1>3
  <1>5. QED BY <1>1, <1>2, <1>4, PoppedStack DEF Erring, NoEval

-----------------------------------------------------------------------------
(* What a step does.                                                        *)

LEMMA ThrowIsError ==
  ASSUME NEW root \in Allowed("error")
  PROVE  ErrorReturn(root) = "error"
PROOF BY DEF Allowed, ErrorReturn

LEMMA StopIInv ==
  ASSUME NEW result, Stop(result),
         raised' => program.root \in Allowed("error") /\ result \in {"error", "rejected"}
  PROVE  IInv'
PROOF
  <1>1. stack' = <<>> /\ outcome' = result /\ program' = program BY DEF Stop
  <1>2. Stacked(stack)'
    <2>1. <<>> \in Seq({}) /\ Len(<<>>) = 0 OBVIOUS
    <2>2. QED BY <1>1, <2>1 DEF Stacked
  <1>3. QED BY <1>1, <1>2 DEF IInv, ErrorHolds, Running

(* The loops under way stay, with or without another one.                   *)
LEMMA GoOn ==
  ASSUME IInv, stack # <<>>, UNCHANGED <<program, raised>>,
         Stacked(stack'), Len(stack') >= Len(stack),
         \A n \in 1 .. Len(stack) : stack'[n].kind = stack[n].kind,
         raised => Erring(stack)
  PROVE  IInv'
PROOF
  <1>1. Len(stack) \in Nat \ {0} BY TopIsTop DEF IInv
  <1>2. Len(stack') \in Nat BY DEF Stacked
  <1>3. raised' => Erring(stack') BY <1>2, ErringStays DEF IInv
  <1>4. stack' # <<>> BY <1>1
  <1>5. QED BY <1>3, <1>4 DEF IInv, ErrorHolds, Running

LEMMA EnterGoesOn ==
  ASSUME IInv, stack # <<>>, UNCHANGED raised, raised => Erring(stack),
         NEW kind \in FrameKinds \ {"sub"}, NEW sub, NEW from, NEW to,
         Enter(Frame(kind, sub, from, to))
  PROVE  IInv'
PROOF
  <1>1. CASE Throw
    BY <1>1, StopIInv, ThrowIsError DEF Throw, IInv, ErrorHolds
  <1>2. CASE Proceed(Append(Advanced, Frame(kind, sub, from, to)), NoSignal)
    <2>1. Stacked(Advanced) /\ SameKinds(Advanced) BY MovedStack DEF Advanced, IInv
    <2>2. Advanced # <<>> /\ Len(stack) \in Nat \ {0}
      BY <2>1, TopIsTop DEF SameKinds, IInv
    <2>3. stack' = Append(Advanced, Frame(kind, sub, from, to)) /\ program' = program
      BY <1>2 DEF Proceed
    <2>4. /\ Stacked(stack') /\ Len(stack') = Len(stack) + 1
          /\ \A n \in 1 .. Len(stack) : stack'[n].kind = stack[n].kind
      BY <2>1, <2>2, <2>3, PushedStack DEF SameKinds
    <2>5. QED BY <2>2, <2>3, <2>4, GoOn
  <1>3. QED BY <1>1, <1>2 DEF Enter

LEMMA AdvanceGoesOn ==
  ASSUME IInv, stack # <<>>, UNCHANGED raised, raised => Erring(stack),
         NEW s, NEW v, Proceed([stack EXCEPT ![Len(stack)].at = v], s)
  PROVE  IInv'
PROOF
  <1>1. /\ Stacked([stack EXCEPT ![Len(stack)].at = v])
        /\ SameKinds([stack EXCEPT ![Len(stack)].at = v])
    BY MovedStack DEF IInv
  <1>2. stack' = [stack EXCEPT ![Len(stack)].at = v] /\ program' = program BY DEF Proceed
  <1>3. Len(stack) \in Nat BY TopIsTop DEF IInv
  <1>4. QED BY <1>1, <1>2, <1>3, GoOn DEF SameKinds

(* A loop ends, other than an error statement's.                            *)
LEMMA PopGoesOn ==
  ASSUME IInv, stack # <<>>, UNCHANGED raised, NEW s, Proceed(Pop, s), Top.kind \notin {"raise", "sub"},
         raised => Erring(stack) \/ (Passing(stack, signal) /\ s = signal)
  PROVE  IInv'
PROOF
  <1>1. stack' = Pop /\ signal' = s /\ program' = program BY DEF Proceed
  <1>2. Len(stack) \in Nat \ {0, 1} BY TopIsTop DEF IInv
  <1>3. /\ Stacked(Pop) /\ Len(Pop) = Len(stack) - 1
        /\ \A n \in 1 .. Len(stack) - 1 : Pop[n] = stack[n]
    BY PoppedStack DEF IInv
  <1>4. Erring(stack) => Erring(Pop) BY ErringPops DEF IInv
  <1>5. Passing(stack, signal) => Passing(Pop, signal) BY <1>2, <1>3 DEF Passing, NoEval
  <1>6. stack' # <<>> BY <1>1, <1>2, <1>3
  <1>7. QED BY <1>1, <1>3, <1>4, <1>5, <1>6 DEF IInv, ErrorHolds, Running

LEMMA SilentMeansErring ==
  ASSUME IInv, stack # <<>>, signal = NoSignal, raised
  PROVE  Erring(stack)
PROOF BY DEF IInv, ErrorHolds, Running, Passing, NoSignal, Action

LEMMA StatementIInv == IInv /\ Statement => IInv'
PROOF
  <1> SUFFICES ASSUME IInv, Statement PROVE IInv' OBVIOUS
  <1>1. stack # <<>> /\ signal = NoSignal
    BY DEF Statement, Simple, Branch, Call, Eval, GotoLabel, Return, Error, Restart, Fault,
           Reject, ReturnsValue, At, Running
  <1>2. raised => Erring(stack) BY <1>1, SilentMeansErring
  <1> DEFINE v == EndOf(Code(Top), Top.at) + 1
  <1>3. ASSUME NEW s, Proceed(Advanced, s), UNCHANGED raised PROVE IInv'
    BY <1>1, <1>2, <1>3, AdvanceGoesOn DEF Advanced
  <1>4. CASE Simple BY <1>3, <1>4 DEF Simple
  <1>5. CASE Branch
    <2>1. PICK range \in Branches(Code(Top), Top.at) :
            Enter(Frame("block", Top.sub, range[1], range[2]))
      BY <1>5 DEF Branch
    <2>2. "block" \in FrameKinds \ {"sub"} /\ UNCHANGED raised BY <1>5 DEF Branch, FrameKinds
    <2>3. QED BY <1>1, <1>2, <2>1, <2>2, EnterGoesOn
  <1>6. CASE Call
    <2>1. "call" \in FrameKinds \ {"sub"} /\ UNCHANGED raised BY <1>6 DEF Call, FrameKinds
    <2>2. QED BY <1>1, <1>2, <1>3, <1>6, <2>1, EnterGoesOn DEF Call, WholeBody
  <1>7. CASE Eval
    <2>1. "eval" \in FrameKinds \ {"sub"} /\ UNCHANGED raised BY <1>7 DEF Eval, FrameKinds
    <2>2. QED BY <1>1, <1>2, <1>3, <1>7, <2>1, EnterGoesOn DEF Eval, WholeBody
  <1>8. CASE GotoLabel BY <1>3, <1>8 DEF GotoLabel
  <1>9. CASE Return BY <1>3, <1>9 DEF Return
  <1>10. CASE Error
    <2>1. program.root \in Allowed("error") /\ raised' = (raised \/ Depth("eval") = 0)
      BY <1>10 DEF Error, At, InScope
    <2>2. Stacked(Advanced) /\ SameKinds(Advanced) BY <1>1, MovedStack DEF Advanced, IInv
    <2>3. Advanced # <<>> /\ Len(stack) \in Nat \ {0} /\ Len(Advanced) = Len(stack)
      BY <1>1, <2>2, TopIsTop DEF SameKinds, IInv
    <2>4. ~raised /\ raised' => NoEval(Advanced, Len(Advanced))
      BY <2>1, <2>2, <2>3, NoEvals DEF IInv, SameKinds, NoEval
    <2>5. raised => Erring(Advanced)
      BY <1>2, <2>2, <2>3, ErringStays DEF IInv, SameKinds
    <2>6. CASE Throw BY <2>1, <2>6, StopIInv, ThrowIsError DEF Throw
    <2>7. CASE Proceed(Advanced, Action("error"))
      <3>1. stack' = Advanced /\ signal' = Action("error") /\ program' = program
        BY <2>7 DEF Proceed
      <3>2. raised' => Erring(stack') \/ Passing(stack', signal')
        BY <2>4, <2>5, <3>1 DEF Passing
      <3>3. QED BY <2>1, <2>2, <2>3, <3>1, <3>2 DEF IInv, ErrorHolds, Running
    <2>8. CASE Proceed(Append(Advanced, WholeBody("raise", "vcl_error")), NoSignal)
      <3> DEFINE frame == Frame("raise", "vcl_error", 1, Len(program.code["vcl_error"]))
      <3>1. stack' = Append(Advanced, frame) /\ program' = program
        BY <2>8 DEF Proceed, WholeBody
      <3>2. "raise" \in FrameKinds \ {"sub"} BY DEF FrameKinds
      <3>3. /\ Stacked(stack') /\ Len(stack') = Len(stack) + 1
            /\ \A n \in 1 .. Len(stack) : stack'[n] = Advanced[n]
            /\ stack'[Len(stack) + 1].kind = "raise"
        BY <2>2, <2>3, <3>1, <3>2, PushedStack
      <3>4. raised => Erring(stack')
        BY <1>2, <2>2, <2>3, <3>3, ErringStays DEF IInv, SameKinds
      <3>5. ~raised /\ raised' => Erring(stack') BY <2>3, <2>4, <3>3 DEF Erring, NoEval
      <3>6. stack' # <<>> BY <2>3, <3>3
      <3>7. QED BY <2>1, <3>1, <3>3, <3>4, <3>5, <3>6 DEF IInv, ErrorHolds, Running
    <2>9. QED BY <1>10, <2>6, <2>7, <2>8 DEF Error, Enter
  <1>11. CASE Restart BY <1>3, <1>11 DEF Restart
  <1>12. CASE Fault
    BY <1>12, StopIInv, ThrowIsError DEF Fault, Throw, IInv, ErrorHolds
  <1>13. CASE Reject BY <1>13, StopIInv DEF Reject, IInv, ErrorHolds
  <1>14. QED
    BY <1>4, <1>5, <1>6, <1>7, <1>8, <1>9, <1>10, <1>11, <1>12, <1>13 DEF Statement

LEMMA LoopIInv == IInv /\ Loop => IInv'
PROOF
  <1> SUFFICES ASSUME IInv, Loop PROVE IInv' OBVIOUS
  <1>1. stack # <<>> /\ UNCHANGED raised
    BY DEF Loop, EndOfLoop, BlockPasses, CallPasses, CallKeeps, EvalKeeps, RaiseIgnores, Jump,
           Exit, Signalled, Running
  <1>2. /\ Len(stack) \in Nat \ {0} /\ Top.kind \in FrameKinds
        /\ (Top.kind = "sub") <=> (Len(stack) = 1)
    BY <1>1, TopIsTop DEF IInv
  <1>3. Top = stack[Len(stack)] BY DEF Top
  <1>4. raised => Erring(stack) \/ Passing(stack, signal) BY <1>1 DEF IInv, ErrorHolds, Running
  <1>5. Top.kind = "sub" => ~Erring(stack)
    <2> SUFFICES ASSUME Len(stack) = 1, NEW n \in 1 .. Len(stack) PROVE stack[n].kind # "raise"
      BY <1>2 DEF Erring
    <2>1. n = 1 OBVIOUS
    <2>2. QED BY <2>1 DEF IInv, Stacked
  <1>6. raised => program.root \in Allowed("error") BY DEF IInv, ErrorHolds
  <1>7. CASE EndOfLoop
    <2>1. raised => Erring(stack) BY <1>1, <1>7, SilentMeansErring DEF EndOfLoop
    <2>2. CASE Top.kind = "sub"
      <3>1. Stop(DefaultReturn(program.root)) /\ ~raised BY <1>5, <1>7, <2>1, <2>2 DEF EndOfLoop
      <3>2. QED BY <1>1, <3>1, StopIInv
    <2>3. CASE Top.kind = "raise"
      <3>1. Proceed(Pop, Action("error")) BY <1>7, <2>3 DEF EndOfLoop
      <3>2. stack' = Pop /\ signal' = Action("error") /\ program' = program BY <3>1 DEF Proceed
      <3>3. /\ Stacked(Pop) /\ Len(Pop) = Len(stack) - 1
            /\ \A n \in 1 .. Len(stack) - 1 : Pop[n] = stack[n]
        BY <1>1, PoppedStack DEF IInv
      <3>4. raised => Erring(Pop) \/ Passing(Pop, signal')
        <4> SUFFICES ASSUME raised PROVE Erring(Pop) \/ Passing(Pop, signal') OBVIOUS
        <4>1. PICK n \in 1 .. Len(stack) : stack[n].kind = "raise" /\ NoEval(stack, n - 1)
          BY <2>1 DEF Erring
        <4>2. CASE n = Len(stack) BY <1>2, <3>2, <3>3, <4>1, <4>2 DEF Passing, NoEval
        <4>3. CASE n # Len(stack)
          <5>1. n \in 1 .. Len(stack) - 1 BY <1>2, <4>3
          <5>2. QED BY <1>2, <3>3, <4>1, <5>1 DEF Erring, NoEval
        <4>4. QED BY <4>2, <4>3
      <3>5. stack' # <<>> BY <1>2, <2>3, <3>2, <3>3
      <3>6. QED BY <1>1, <1>6, <3>2, <3>3, <3>4, <3>5 DEF IInv, ErrorHolds, Running
    <2>4. CASE Top.kind \notin {"sub", "raise"}
      <3>1. Proceed(Pop, NoSignal) BY <1>7, <2>4 DEF EndOfLoop
      <3>2. QED BY <1>1, <2>1, <2>4, <3>1, PopGoesOn
    <2>5. QED BY <2>2, <2>3, <2>4
  <1>8. CASE BlockPasses
    BY <1>1, <1>4, <1>8, PopGoesOn DEF BlockPasses, Signalled
  <1>9. CASE CallPasses
    BY <1>1, <1>4, <1>9, PopGoesOn DEF CallPasses, Signalled
  <1>10. CASE CallKeeps
    <2>1. raised => Erring(stack)
      BY <1>4, <1>10 DEF CallKeeps, Leaves, Passing, Action, CallPropagates
    <2>2. CASE Proceed(Pop, NoSignal)
      BY <1>1, <1>10, <2>1, <2>2, PopGoesOn DEF CallKeeps, Signalled
    <2>3. CASE Proceed(stack, NoSignal)
      BY <1>1, <1>2, <2>1, <2>3, GoOn DEF Proceed, IInv
    <2>4. QED BY <1>10, <2>2, <2>3 DEF CallKeeps
  <1>11. CASE EvalKeeps
    <2>1. Top.kind = "eval" /\ Proceed(Pop, NoSignal) BY <1>11 DEF EvalKeeps, Signalled
    <2>2. ~NoEval(stack, Len(stack)) BY <1>2, <1>3, <2>1 DEF NoEval
    <2>3. QED BY <1>1, <1>4, <2>1, <2>2, PopGoesOn DEF Passing
  <1>12. CASE RaiseIgnores
    <2>1. Top.kind = "raise" /\ Proceed(stack, NoSignal) BY <1>12 DEF RaiseIgnores, Signalled
    <2>2. Passing(stack, signal) => Erring(stack)
      BY <1>2, <1>3, <2>1 DEF Passing, Erring, NoEval
    <2>3. QED BY <1>1, <1>2, <1>4, <2>1, <2>2, GoOn DEF Proceed, IInv
  <1>13. CASE Jump
    <2>1. ~raised BY <1>4, <1>5, <1>13 DEF Jump, Signalled, Passing, Action
    <2>2. PICK v : Proceed([stack EXCEPT ![Len(stack)].at = v], NoSignal) BY <1>13 DEF Jump
    <2>3. QED BY <1>1, <2>1, <2>2, AdvanceGoesOn
  <1>14. CASE Exit
    <2>1. raised => signal.arg = "error" BY <1>4, <1>5, <1>14 DEF Exit, Signalled, Passing, Action
    <2>2. QED BY <1>1, <1>6, <1>14, <2>1, StopIInv DEF Exit
  <1>15. QED
    BY <1>7, <1>8, <1>9, <1>10, <1>11, <1>12, <1>13, <1>14 DEF Loop

LEMMA InitIInv == Init => IInv
PROOF
  <1> SUFFICES ASSUME Init PROVE IInv OBVIOUS
  <1> DEFINE frame == WholeBody("sub", program.root)
  <1>1. stack = <<frame>> /\ raised = FALSE BY DEF Init
  <1>2. frame.kind = "sub" /\ Fields \subseteq DOMAIN frame BY DEF WholeBody, Frame, Fields
  <1>3. <<frame>> \in Seq({frame}) /\ Len(<<frame>>) = 1 /\ <<frame>>[1] = frame OBVIOUS
  <1> HIDE DEF frame
  <1>4. Stacked(stack)
    <2>1. \E S : stack \in Seq(S) BY <1>1, <1>3
    <2>2. ASSUME NEW n \in 1 .. Len(stack)
          PROVE  /\ Fields \subseteq DOMAIN stack[n]
                 /\ stack[n].kind \in FrameKinds
                 /\ (stack[n].kind = "sub") <=> (n = 1)
      <3>1. n = 1 /\ stack[n] = frame BY <1>1, <1>3
      <3>2. QED BY <1>2, <3>1 DEF FrameKinds
    <2>3. QED BY <2>1, <2>2 DEF Stacked
  <1>5. QED BY <1>1, <1>4 DEF IInv, ErrorHolds

LEMMA NextIInv == IInv /\ [Next]_vars => IInv'
PROOF
  <1> SUFFICES ASSUME IInv, [Next]_vars PROVE IInv' OBVIOUS
  <1>1. CASE Statement BY <1>1, StatementIInv
  <1>2. CASE Loop BY <1>2, LoopIInv
  <1>3. CASE UNCHANGED vars
    BY <1>3 DEF vars, IInv, ErrorHolds, Running
  <1>4. QED BY <1>1, <1>2, <1>3 DEF Next, Over

(* Once an error statement has run outside expressions, the run returns     *)
(* error whatever follows in vcl_error's body, its callers and the labels   *)
(* on the way, unless the request is rejected (executeErrorStatement).      *)
THEOREM ErrorsWin == Spec => []ErrorStatementWins
PROOF
<1>1. IInv => ErrorStatementWins BY DEF IInv, ErrorHolds, ErrorStatementWins
<1>2. QED BY <1>1, InitIInv, NextIInv, PTL DEF Spec

-----------------------------------------------------------------------------
(* Where in its statements each loop is.                                    *)

(* The statements from one to another are whole.                            *)
Whole(code, from, to) == \A j \in from .. to : EndOf(code, j) <= to

(* A loop is inside its statements, ...                                     *)
InPlace(f) ==
  LET code == program.code[f.sub]
  IN /\ f.sub \in DOMAIN program.code
     /\ f.at \in Nat \ {0} /\ f.last \in Nat
     /\ f.at <= f.last + 1 /\ f.last <= Len(code)
     /\ Whole(code, f.at, f.last)
     /\ f.kind # "block" => f.last = Len(code)

(* ... and one over a branch stems from a compound statement that the loop  *)
(* around it is just past.                                                  *)
Stems(f, around) ==
  LET code == program.code[f.sub]
  IN /\ f.sub = around.sub
     /\ \E c \in DOMAIN code : c < f.at /\ EndOf(code, c) + 1 = around.at

Placed(loops) ==
  \A n \in 1 .. Len(loops) :
    /\ InPlace(loops[n])
    /\ loops[n].kind = "block" => n > 1 /\ Stems(loops[n], loops[n - 1])

(* The label of a goto is still ahead.                                      *)
GotoAhead ==
  signal.kind = "goto" =>
    /\ stack # <<>>
    /\ \E j \in Labels(Code(Top), signal.arg) : Top.at <= j

Loaded ==
  /\ program \in Programs
  /\ \A s \in DOMAIN program.code : ValidGotos(program.code[s])

Bounded ==
  /\ Len(stack) <= MaxDepth
  /\ (stack # <<>>) <=> (outcome = "none")
  /\ signal.kind \in {"none", "goto", "action", "typed"}
  /\ signal.arg # "none"

PInv == Stacked(stack) /\ Loaded /\ Placed(stack) /\ GotoAhead /\ Bounded

Forward == \A n \in DOMAIN stack \cap DOMAIN stack' : stack[n].at <= stack'[n].at

-----------------------------------------------------------------------------
(* Code.                                                                    *)

LEMMA CodeIsWellFormed ==
  ASSUME Loaded, NEW s \in DOMAIN program.code
  PROVE  /\ WellFormed(program.code[s]) /\ ValidGotos(program.code[s])
         /\ program.code[s] \in Seq(SourceStatements)
PROOF BY InterpreterAssumption DEF Loaded, WellFormed

LEMMA CasesOfStatement ==
  ASSUME NEW code, WellFormed(code), NEW i \in DOMAIN code
  PROVE  /\ code[i].cases \in Seq(SourceCases)
         /\ DOMAIN code[i].cases = 1 .. Len(code[i].cases) /\ Len(code[i].cases) \in Nat
         /\ \A k \in DOMAIN code[i].cases : code[i].cases[k].to \in Nat
PROOF
  <1> DEFINE statement == code[i]
             cases == statement.cases
  <1>1. statement \in SourceStatements BY DEF WellFormed
  <1> HIDE DEF statement
  <1>2. cases \in Seq(SourceCases) BY <1>1 DEF SourceStatements
  <1> HIDE DEF cases
  <1>3. DOMAIN cases = 1 .. Len(cases) /\ Len(cases) \in Nat BY <1>2
  <1>4. \A k \in DOMAIN cases : cases[k] \in SourceCases BY <1>2, <1>3
  <1>5. QED BY <1>2, <1>3, <1>4 DEF SourceCases, cases, statement

LEMMA EndIsInside ==
  ASSUME NEW code, WellFormed(code), NEW i \in DOMAIN code
  PROVE  /\ i \in Nat \ {0} /\ EndOf(code, i) \in Nat
         /\ i <= EndOf(code, i) /\ EndOf(code, i) <= Len(code)
PROOF
  <1>1. code \in Seq(SourceStatements) BY DEF WellFormed
  <1>2. i \in Nat \ {0} /\ i <= Len(code) /\ Len(code) \in Nat BY <1>1
  <1>3. CASE code[i].kind \in Compound
    <2> DEFINE cases == code[i].cases
    <2>1. cases \in Seq(SourceCases) BY CasesOfStatement
    <2>2. cases # <<>> BY <1>3 DEF WellFormed
    <2>3. Len(cases) \in DOMAIN cases BY <2>1, <2>2
    <2>4. cases[Len(cases)].to \in 0 .. (Len(code) - i) BY <1>3, <2>3 DEF WellFormed
    <2>5. EndOf(code, i) = i + cases[Len(cases)].to BY <1>3 DEF EndOf
    <2>6. QED BY <1>2, <2>4, <2>5
  <1>4. CASE code[i].kind \notin Compound BY <1>2, <1>4 DEF EndOf
  <1>5. QED BY <1>3, <1>4

LEMMA BodyIsWhole ==
  ASSUME NEW code, WellFormed(code)
  PROVE  Len(code) \in Nat /\ Whole(code, 1, Len(code))
PROOF
  <1>1. code \in Seq(SourceStatements) BY DEF WellFormed
  <1>2. QED BY <1>1, EndIsInside DEF Whole

(* Later branches end later.                                                *)
LEMMA BranchesRise ==
  ASSUME NEW code, WellFormed(code), NEW i \in DOMAIN code, code[i].kind \in Compound,
         NEW n \in DOMAIN code[i].cases, NEW m \in n .. Len(code[i].cases)
  PROVE  code[i].cases[n].to <= code[i].cases[m].to
PROOF
  <1> DEFINE cases == code[i].cases
             T == {k \in n .. Len(cases) : ~(cases[n].to <= cases[k].to)}
  <1>1. /\ DOMAIN cases = 1 .. Len(cases) /\ Len(cases) \in Nat
        /\ \A k \in DOMAIN cases : cases[k].to \in Nat
    BY CasesOfStatement
  <1>2. /\ n \in 1 .. Len(cases) /\ Len(cases) \in Nat
        /\ \A k \in 1 .. Len(cases) : cases[k].to \in Nat
        /\ \A k \in 1 .. Len(cases) : k > 1 => cases[k - 1].to <= cases[k].to
    <2>1. \A k \in DOMAIN cases : k > 1 => cases[k - 1].to <= cases[k].to BY DEF WellFormed
    <2> HIDE DEF cases
    <2>2. QED BY <1>1, <2>1 DEF cases
  <1> HIDE DEF cases
  <1> SUFFICES ASSUME T # {} PROVE FALSE BY DEF cases
  <1>3. T \in SUBSET Nat BY <1>2
  <1>4. PICK k \in T : \A j \in T : k <= j
    <2> HIDE DEF T
    <2>1. QED BY <1>3, LeastNat
  <1>5. k # n BY <1>2
  <1>6. k - 1 \in n .. Len(cases) /\ k - 1 \notin T BY <1>2, <1>4, <1>5
  <1>7. cases[n].to <= cases[k - 1].to /\ cases[k - 1].to <= cases[k].to BY <1>2, <1>6
  <1>8. k \in 1 .. Len(cases) /\ k - 1 \in 1 .. Len(cases) BY <1>2, <1>6
  <1>9. ~(cases[n].to <= cases[k].to) BY <1>4
  <1> HIDE DEF T
  <1>10. QED BY <1>2, <1>7, <1>8, <1>9

(* What a branch runs lies inside its compound statement.                   *)
LEMMA BranchIsInside ==
  ASSUME NEW code, WellFormed(code), NEW i \in DOMAIN code, code[i].kind \in Compound,
         NEW range \in Branches(code, i)
  PROVE  /\ range[1] \in Nat /\ range[2] \in Nat
         /\ i < range[1] /\ range[1] <= range[2] + 1 /\ range[2] <= Len(code)
         /\ Whole(code, range[1], range[2])
PROOF
  <1> DEFINE cases == code[i].cases
             first(n) == i + 1 + (IF n = 1 THEN 0 ELSE cases[n - 1].to)
  <1>1. /\ DOMAIN cases = 1 .. Len(cases) /\ Len(cases) \in Nat
        /\ \A k \in DOMAIN cases : cases[k].to \in Nat
        /\ code \in Seq(SourceStatements)
    BY CasesOfStatement DEF WellFormed
  <1>2. i \in Nat \ {0} /\ i <= Len(code) /\ Len(code) \in Nat BY <1>1
  <1>3. \/ range = <<i + 1, i>>
        \/ \E n \in DOMAIN cases, m \in DOMAIN cases :
             m \in n .. Len(cases) /\ range = <<first(n), i + cases[m].to>>
    <2> SUFFICES ASSUME range # <<i + 1, i>>
                 PROVE  \E n \in DOMAIN cases, m \in DOMAIN cases :
                          m \in n .. Len(cases) /\ range = <<first(n), i + cases[m].to>>
      OBVIOUS
    <2> DEFINE stops(n) == {m \in n .. Len(cases) :
                               /\ \A j \in n .. (m - 1) : cases[j].through
                               /\ ~cases[m].through \/ m = Len(cases)}
               ends(n) == {<<first(n), i + cases[m].to>> : m \in stops(n)}
               ranges == UNION {ends(n) : n \in DOMAIN cases}
    <2>1. range \in ranges
      <3>1. Branches(code, i) = IF code[i].kind = "switch" /\ \A n \in DOMAIN cases : cases[n].tested
                                  THEN ranges \cup {<<i + 1, i>>} ELSE ranges
        BY Zenon DEF Branches
      <3> HIDE DEF ranges
      <3>2. QED BY <3>1
    <2>2. PICK n \in DOMAIN cases : range \in ends(n) BY <2>1
    <2>3. PICK m \in stops(n) : range = <<first(n), i + cases[m].to>> BY <2>2
    <2>4. m \in n .. Len(cases) OBVIOUS
    <2>5. m \in DOMAIN cases BY <1>1, <2>4
    <2>6. QED BY <2>3, <2>4, <2>5
  <1>4. CASE range = <<i + 1, i>>
    <2>1. range[1] = i + 1 /\ range[2] = i BY <1>4
    <2>2. Whole(code, i + 1, i) BY <1>2 DEF Whole
    <2>3. QED BY <1>2, <2>1, <2>2
  <1>5. ASSUME NEW n \in DOMAIN cases, NEW m \in DOMAIN cases, m \in n .. Len(cases),
               range = <<first(n), i + cases[m].to>>
        PROVE  /\ range[1] \in Nat /\ range[2] \in Nat
               /\ i < range[1] /\ range[1] <= range[2] + 1 /\ range[2] <= Len(code)
               /\ Whole(code, range[1], range[2])
    <2>1. cases[m].to \in 0 .. (Len(code) - i) BY DEF WellFormed
    <2>2. \A j \in (i + 1) .. (i + cases[m].to) : EndOf(code, j) <= i + cases[m].to BY DEF WellFormed
    <2>3. n \in 1 .. Len(cases) /\ Len(cases) \in Nat BY <1>1
    <2>4. first(n) \in Nat /\ i < first(n) /\ first(n) <= i + cases[m].to + 1
      <3>1. CASE n = 1 BY <1>2, <2>1, <3>1
      <3>2. CASE n # 1
        <4>1. n - 1 \in DOMAIN cases /\ m \in n - 1 .. Len(cases) BY <1>1, <1>5, <2>3, <3>2
        <4>2. cases[n - 1].to <= cases[m].to BY <4>1, BranchesRise
        <4>3. cases[n - 1].to \in Nat BY <1>1, <4>1
        <4>4. QED BY <1>2, <2>1, <3>2, <4>2, <4>3
      <3>3. QED BY <3>1, <3>2
    <2>5. range[1] = first(n) /\ range[2] = i + cases[m].to BY <1>5
    <2> HIDE DEF first
    <2>6. Whole(code, first(n), i + cases[m].to) BY <1>2, <2>1, <2>2, <2>4 DEF Whole
    <2>7. QED BY <1>2, <2>1, <2>4, <2>5, <2>6
  <1> HIDE DEF cases, first
  <1>6. QED BY <1>3, <1>4, <1>5

LEMMA LabelIsLast ==
  ASSUME NEW code, WellFormed(code), NEW label, Labels(code, label) # {}
  PROVE  /\ LabelAt(code, label) \in Labels(code, label)
         /\ \A j \in Labels(code, label) : j <= LabelAt(code, label)
PROOF
  <1> DEFINE L == Labels(code, label)
  <1>1. code \in Seq(SourceStatements) BY DEF WellFormed
  <1>2. L \subseteq 1 .. Len(code) /\ Len(code) \in Nat BY <1>1 DEF Labels
  <1>3. IsFiniteSet(1 .. Len(code)) BY <1>2, FS_Interval
  <1>4. IsFiniteSet(L) /\ L \subseteq Nat BY <1>2, <1>3, FS_Subset
  <1> HIDE DEF L
  <1>5. Max(L) \in L /\ \A j \in L : j <= Max(L) BY <1>4, MaxIsLargest DEF L
  <1>6. \E j \in L : \A k \in L : k <= j BY <1>5
  <1>7. QED BY <1>6 DEF LabelAt, L

-----------------------------------------------------------------------------
(* What becomes of where the loops are.                                     *)

LEMMA MovedTop ==
  ASSUME Stacked(stack), stack # <<>>, NEW v
  PROVE  LET moved == [stack EXCEPT ![Len(stack)].at = v]
         IN /\ Len(moved) = Len(stack)
            /\ \A n \in 1 .. Len(stack) :
                 /\ moved[n].kind = stack[n].kind /\ moved[n].sub = stack[n].sub
                 /\ moved[n].last = stack[n].last
                 /\ moved[n].at = IF n = Len(stack) THEN v ELSE stack[n].at
PROOF
  <1> DEFINE k == Len(stack)
             top == [stack[k] EXCEPT !.at = v]
             moved == [stack EXCEPT ![k].at = v]
  <1>1. PICK S : stack \in Seq(S) BY DEF Stacked
  <1>2. k \in 1 .. Len(stack) BY <1>1
  <1>3. stack \in Seq(S \cup {top}) /\ top \in S \cup {top} BY <1>1
  <1>4. moved = [stack EXCEPT ![k] = top] BY <1>1
  <1>5. Fields \subseteq DOMAIN stack[k] BY <1>2 DEF Stacked
  <1>6. top.kind = stack[k].kind /\ top.sub = stack[k].sub /\ top.last = stack[k].last /\ top.at = v
    BY <1>5 DEF Fields
  <1> HIDE DEF top
  <1>7. /\ Len(moved) = Len(stack)
        /\ \A j \in 1 .. Len(stack) : moved[j] = IF j = k THEN top ELSE stack[j]
    BY <1>2, <1>3, <1>4, ExceptSeq
  <1> HIDE DEF moved, k
  <1>8. QED BY <1>6, <1>7 DEF moved, k

LEMMA TopIsPlaced ==
  ASSUME PInv, stack # <<>>
  PROVE  /\ Len(stack) \in 1 .. Len(stack) /\ Top = stack[Len(stack)]
         /\ Top.sub \in DOMAIN program.code
         /\ Top.at \in Nat \ {0} /\ Top.last \in Nat
         /\ Top.at <= Top.last + 1 /\ Top.last <= Len(Code(Top))
         /\ Whole(Code(Top), Top.at, Top.last)
         /\ Top.kind # "block" => Top.last = Len(Code(Top))
         /\ WellFormed(Code(Top)) /\ ValidGotos(Code(Top))
PROOF
  <1>1. Len(stack) \in 1 .. Len(stack) BY TopIsTop DEF PInv
  <1>2. Top = stack[Len(stack)] BY DEF Top
  <1>3. /\ Top.sub \in DOMAIN program.code
        /\ Top.at \in Nat \ {0} /\ Top.last \in Nat
        /\ Top.at <= Top.last + 1 /\ Top.last <= Len(Code(Top))
        /\ Whole(Code(Top), Top.at, Top.last)
        /\ Top.kind # "block" => Top.last = Len(Code(Top))
    BY <1>1, <1>2 DEF PInv, Placed, InPlace, Code
  <1>4. QED BY <1>1, <1>2, <1>3, CodeIsWellFormed DEF PInv, Code

(* The innermost loop goes on inside its statements.                        *)
LEMMA PlacedMoved ==
  ASSUME PInv, stack # <<>>, NEW v \in Nat, Top.at <= v, v <= Top.last + 1
  PROVE  Placed([stack EXCEPT ![Len(stack)].at = v])
PROOF
  <1> DEFINE moved == [stack EXCEPT ![Len(stack)].at = v]
             k == Len(stack)
  <1>1. /\ Len(moved) = k
        /\ \A n \in 1 .. k : /\ moved[n].kind = stack[n].kind /\ moved[n].sub = stack[n].sub
                             /\ moved[n].last = stack[n].last
                             /\ moved[n].at = IF n = k THEN v ELSE stack[n].at
    BY MovedTop DEF PInv
  <1>2. /\ k \in Nat \ {0} /\ Top = stack[k] /\ Top.at \in Nat \ {0} /\ Top.last \in Nat
    BY TopIsPlaced
  <1> HIDE DEF moved, k
  <1> SUFFICES ASSUME NEW n \in 1 .. k
               PROVE  /\ InPlace(moved[n])
                      /\ moved[n].kind = "block" => n > 1 /\ Stems(moved[n], moved[n - 1])
    BY <1>1 DEF Placed, moved
  <1> DEFINE code == program.code[stack[n].sub]
  <1>3. /\ InPlace(stack[n])
        /\ stack[n].kind = "block" => n > 1 /\ Stems(stack[n], stack[n - 1])
    BY DEF PInv, Placed, k
  <1>4. WellFormed(code) BY <1>3, CodeIsWellFormed DEF PInv, InPlace
  <1>5. stack[n].at <= moved[n].at /\ moved[n].at \in Nat \ {0} /\ moved[n].at <= stack[n].last + 1
    BY <1>1, <1>2, <1>3 DEF InPlace
  <1>6. Whole(code, moved[n].at, stack[n].last) BY <1>3, <1>5 DEF Whole, InPlace
  <1>7. InPlace(moved[n]) BY <1>1, <1>3, <1>5, <1>6 DEF InPlace
  <1>8. ASSUME stack[n].kind = "block"
        PROVE  n > 1 /\ Stems(moved[n], moved[n - 1])
    <2>1. n - 1 \in 1 .. k /\ n - 1 # k BY <1>2, <1>3, <1>8
    <2>2. PICK c \in DOMAIN code : c < stack[n].at /\ EndOf(code, c) + 1 = stack[n - 1].at
      BY <1>3, <1>8 DEF Stems
    <2>3. c \in Nat BY <1>4, EndIsInside
    <2>4. c < moved[n].at BY <1>3, <1>5, <2>2, <2>3 DEF InPlace
    <2>5. QED BY <1>1, <1>3, <1>8, <2>1, <2>2, <2>4 DEF Stems
  <1>9. QED BY <1>1, <1>7, <1>8

LEMMA PlacedPopped ==
  ASSUME PInv, stack # <<>>
  PROVE  Placed(Pop)
PROOF
  <1>1. /\ Len(Pop) = Len(stack) - 1
        /\ \A n \in 1 .. Len(stack) - 1 : Pop[n] = stack[n]
        /\ Len(stack) \in Nat
    BY PoppedStack, TopIsTop DEF PInv
  <1>2. ASSUME NEW n \in 1 .. Len(stack) - 1
        PROVE  /\ InPlace(Pop[n])
               /\ Pop[n].kind = "block" => n > 1 /\ Stems(Pop[n], Pop[n - 1])
    <2>1. n \in 1 .. Len(stack) /\ (n > 1 => n - 1 \in 1 .. Len(stack) - 1) BY <1>1
    <2>2. /\ InPlace(stack[n])
          /\ stack[n].kind = "block" => n > 1 /\ Stems(stack[n], stack[n - 1])
      BY <2>1 DEF PInv, Placed
    <2>3. QED BY <1>1, <2>1, <2>2
  <1>3. QED BY <1>1, <1>2 DEF Placed

(* Another loop is entered.                                                 *)
LEMMA PlacedPushed ==
  ASSUME NEW loops, Stacked(loops), loops # <<>>, Placed(loops),
         NEW kind \in FrameKinds \ {"sub"}, NEW sub, NEW from, NEW to,
         InPlace(Frame(kind, sub, from, to)),
         kind = "block" => Stems(Frame(kind, sub, from, to), loops[Len(loops)])
  PROVE  Placed(Append(loops, Frame(kind, sub, from, to)))
PROOF
  <1> DEFINE frame == Frame(kind, sub, from, to)
             pushed == Append(loops, frame)
             k == Len(loops)
  <1>1. PICK S : loops \in Seq(S) BY DEF Stacked
  <1>2. loops \in Seq(S \cup {frame}) /\ frame \in S \cup {frame} BY <1>1
  <1>3. frame.kind = kind BY DEF Frame
  <1> HIDE DEF frame
  <1>4. /\ Len(pushed) = k + 1
        /\ \A i \in 1 .. k : pushed[i] = loops[i]
        /\ pushed[k + 1] = frame
    BY <1>2, AppendProperties
  <1>5. k \in Nat \ {0} BY <1>1
  <1> HIDE DEF pushed, k
  <1>6. ASSUME NEW n \in 1 .. k + 1
        PROVE  /\ InPlace(pushed[n])
               /\ pushed[n].kind = "block" => n > 1 /\ Stems(pushed[n], pushed[n - 1])
    <2>1. CASE n \in 1 .. k
      <3>1. /\ InPlace(loops[n])
            /\ loops[n].kind = "block" => n > 1 /\ Stems(loops[n], loops[n - 1])
        BY <2>1 DEF Placed, k
      <3>2. n > 1 => n - 1 \in 1 .. k BY <1>5, <2>1
      <3>3. QED BY <1>4, <2>1, <3>1, <3>2
    <2>2. CASE n = k + 1
      <3>1. n > 1 /\ n - 1 = k /\ k \in 1 .. k BY <1>5, <2>2
      <3>2. pushed[n] = frame /\ pushed[n - 1] = loops[k] BY <1>4, <2>2, <3>1
      <3>3. QED BY <1>3, <3>1, <3>2 DEF k, frame
    <2>3. QED BY <1>5, <2>1, <2>2
  <1>7. QED BY <1>4, <1>6 DEF Placed, pushed, frame
-----------------------------------------------------------------------------
(* What a step does to where the loops are.                                 *)

LEMMA DomainIsInterval ==
  ASSUME NEW loops, Stacked(loops)
  PROVE  DOMAIN loops = 1 .. Len(loops) /\ Len(loops) \in Nat
PROOF BY DEF Stacked

LEMMA LoadedStays ==
  ASSUME Loaded, program' = program
  PROVE  /\ Loaded' /\ \A loops : Placed(loops) => Placed(loops)'
PROOF BY DEF Loaded, Placed, InPlace, Stems

LEMMA StopPlaced ==
  ASSUME PInv, NEW result, result # "none", Stop(result)
  PROVE  PInv' /\ Forward
PROOF
  <1>1. stack' = <<>> /\ signal' = NoSignal /\ outcome' = result /\ program' = program BY DEF Stop
  <1>2. <<>> \in Seq({}) /\ Len(<<>>) = 0 /\ DOMAIN <<>> = {} OBVIOUS
  <1>3. Stacked(stack') BY <1>1, <1>2 DEF Stacked
  <1>4. Placed(stack') BY <1>1, <1>2 DEF Placed
  <1>5. Loaded' /\ Placed(stack)' BY <1>1, <1>4, LoadedStays DEF PInv, Placed, InPlace, Stems
  <1>6. signal'.kind = "none" /\ signal'.arg # "none" BY <1>1 DEF NoSignal
  <1>7. GotoAhead' BY <1>6 DEF GotoAhead
  <1>8. Bounded'
    <2>1. Len(stack') <= MaxDepth BY <1>1, <1>2, InterpreterAssumption
    <2>2. QED BY <1>1, <1>6, <2>1 DEF Bounded
  <1>9. QED BY <1>1, <1>2, <1>3, <1>5, <1>7, <1>8 DEF PInv, Stacked, Forward

(* The innermost loop goes on.                                              *)
LEMMA MovePlaced ==
  ASSUME PInv, stack # <<>>, NEW v \in Nat, Top.at <= v, v <= Top.last + 1,
         NEW s, s.kind \in {"none", "goto", "action", "typed"}, s.arg # "none",
         s.kind = "goto" => \E j \in Labels(Code(Top), s.arg) : v <= j,
         Proceed([stack EXCEPT ![Len(stack)].at = v], s)
  PROVE  PInv' /\ Forward
PROOF
  <1> DEFINE moved == [stack EXCEPT ![Len(stack)].at = v]
             k == Len(stack)
  <1>1. stack' = moved /\ signal' = s /\ outcome' = outcome /\ program' = program BY DEF Proceed
  <1>2. Stacked(moved) BY MovedStack DEF PInv
  <1>3. Placed(moved) BY PlacedMoved
  <1>4. /\ Len(moved) = k
        /\ \A n \in 1 .. k : moved[n].sub = stack[n].sub
                             /\ moved[n].at = IF n = k THEN v ELSE stack[n].at
    BY MovedTop DEF PInv
  <1>5. k \in 1 .. k /\ Top = stack[k] BY TopIsPlaced
  <1> HIDE DEF moved
  <1>6. moved # <<>> BY <1>4, <1>5 DEF k
  <1>7. Loaded' /\ Placed(stack)' BY <1>1, <1>3, LoadedStays DEF PInv, Placed, InPlace, Stems
  <1>8. Top' = moved[k] /\ Code(Top)' = Code(Top) BY <1>1, <1>4, <1>5 DEF Top, Code
  <1>9. GotoAhead' BY <1>1, <1>4, <1>5, <1>6, <1>8 DEF GotoAhead
  <1>10. Bounded' BY <1>1, <1>4, <1>6 DEF PInv, Bounded
  <1>11. Forward
    <2> SUFFICES ASSUME NEW n \in 1 .. k PROVE stack[n].at <= moved[n].at
      BY <1>1, <1>2, DomainIsInterval DEF PInv, Forward
    <2>1. stack[n].at \in Nat BY DEF PInv, Placed, InPlace
    <2>2. QED BY <1>4, <1>5, <2>1
  <1>12. QED BY <1>1, <1>2, <1>7, <1>9, <1>10, <1>11 DEF PInv, Stacked

(* The innermost loop is past its statement.                                *)
LEMMA PastStatement ==
  ASSUME PInv, stack # <<>>, Top.at <= Top.last
  PROVE  /\ Top.at \in DOMAIN Code(Top)
         /\ EndOf(Code(Top), Top.at) + 1 \in Nat
         /\ Top.at < EndOf(Code(Top), Top.at) + 1
         /\ EndOf(Code(Top), Top.at) + 1 <= Top.last + 1
PROOF
  <1>1. /\ Top.at \in Nat \ {0} /\ Top.last \in Nat /\ Top.last <= Len(Code(Top))
        /\ Whole(Code(Top), Top.at, Top.last) /\ WellFormed(Code(Top))
    BY TopIsPlaced
  <1>2. Code(Top) \in Seq(SourceStatements) BY <1>1 DEF WellFormed
  <1>3. Top.at \in DOMAIN Code(Top) BY <1>1, <1>2
  <1>4. EndOf(Code(Top), Top.at) \in Nat /\ Top.at <= EndOf(Code(Top), Top.at)
    BY <1>1, <1>3, EndIsInside
  <1>5. EndOf(Code(Top), Top.at) <= Top.last BY <1>1 DEF Whole
  <1>6. QED BY <1>1, <1>3, <1>4, <1>5

LEMMA AdvancePlaced ==
  ASSUME PInv, stack # <<>>, Top.at <= Top.last,
         NEW s, s.kind \in {"none", "goto", "action", "typed"}, s.arg # "none",
         s.kind = "goto" => \E j \in Labels(Code(Top), s.arg) : EndOf(Code(Top), Top.at) + 1 <= j,
         Proceed(Advanced, s)
  PROVE  PInv' /\ Forward
PROOF
  <1> DEFINE v == EndOf(Code(Top), Top.at) + 1
  <1>1. v \in Nat /\ Top.at <= v /\ v <= Top.last + 1
    <2>1. Top.at \in Nat BY TopIsPlaced
    <2>2. QED BY <2>1, PastStatement
  <1>2. Proceed([stack EXCEPT ![Len(stack)].at = v], s) BY DEF Advanced
  <1>3. s.kind = "goto" => \E j \in Labels(Code(Top), s.arg) : v <= j OBVIOUS
  <1> HIDE DEF v
  <1>4. QED BY <1>1, <1>2, <1>3, MovePlaced

LEMMA ThrowPlaced ==
  ASSUME PInv, Throw
  PROVE  PInv' /\ Forward
PROOF
  <1>1. ErrorReturn(program.root) # "none" BY DEF ErrorReturn
  <1>2. QED BY <1>1, StopPlaced DEF Throw

LEMMA EnterPlaced ==
  ASSUME PInv, stack # <<>>, Top.at <= Top.last,
         NEW kind \in FrameKinds \ {"sub"}, NEW sub, NEW from, NEW to,
         InPlace(Frame(kind, sub, from, to)),
         kind = "block" => sub = Top.sub /\ Top.at < from,
         Enter(Frame(kind, sub, from, to))
  PROVE  PInv' /\ Forward
PROOF
  <1> DEFINE frame == Frame(kind, sub, from, to)
             v == EndOf(Code(Top), Top.at) + 1
             pushed == Append(Advanced, frame)
             k == Len(stack)
  <1>1. CASE Throw BY <1>1, ThrowPlaced
  <1>2. CASE Len(stack) < MaxDepth /\ Proceed(pushed, NoSignal)
    <2>1. /\ v \in Nat /\ Top.at <= v /\ v <= Top.last + 1 /\ Top.at \in DOMAIN Code(Top)
      <3>1. Top.at \in Nat BY TopIsPlaced
      <3>2. QED BY <3>1, PastStatement
    <2>2. Advanced = [stack EXCEPT ![Len(stack)].at = v] BY DEF Advanced
    <2> HIDE DEF v
    <2>3. Stacked(Advanced) BY <2>2, MovedStack DEF PInv
    <2>4. Placed(Advanced) BY <2>1, <2>2, PlacedMoved
    <2>5. /\ Len(Advanced) = k
          /\ \A n \in 1 .. k : Advanced[n].sub = stack[n].sub
                               /\ Advanced[n].at = IF n = k THEN v ELSE stack[n].at
      BY <2>2, MovedTop DEF PInv
    <2>6. k \in 1 .. k /\ Top = stack[k] BY TopIsPlaced
    <2>7. Advanced # <<>> BY <2>5, <2>6
    <2>8. kind = "block" => Stems(frame, Advanced[Len(Advanced)])
      <3> SUFFICES ASSUME kind = "block" PROVE Stems(frame, Advanced[k]) BY <2>5
      <3>1. frame.sub = sub /\ frame.at = from BY DEF Frame
      <3>2. Advanced[k].sub = Top.sub /\ Advanced[k].at = v BY <2>5, <2>6
      <3>3. program.code[frame.sub] = Code(Top) BY <3>1 DEF Code
      <3> HIDE DEF frame
      <3>4. QED BY <2>1, <3>1, <3>2, <3>3 DEF Stems, v
    <2>9. Placed(pushed) BY <2>3, <2>4, <2>7, <2>8, PlacedPushed
    <2>10. /\ Stacked(pushed) /\ Len(pushed) = k + 1
           /\ \A n \in 1 .. k : pushed[n] = Advanced[n]
      BY <2>3, <2>5, <2>7, PushedStack
    <2> HIDE DEF pushed
    <2>11. stack' = pushed /\ signal' = NoSignal /\ outcome' = outcome /\ program' = program
      BY <1>2 DEF Proceed
    <2>12. Loaded' /\ Placed(stack)' BY <2>9, <2>11, LoadedStays DEF PInv, Placed, InPlace, Stems
    <2>13. GotoAhead' BY <2>11 DEF GotoAhead, NoSignal
    <2>14. pushed # <<>> /\ Len(pushed) <= MaxDepth
      BY <1>2, <2>6, <2>10, InterpreterAssumption
    <2>15. Bounded' BY <2>11, <2>14 DEF PInv, Bounded, NoSignal
    <2>16. Forward
      <3> SUFFICES ASSUME NEW n \in 1 .. k PROVE stack[n].at <= pushed[n].at
        BY <2>10, <2>11, DomainIsInterval DEF PInv, Forward
      <3>1. stack[n].at \in Nat BY DEF PInv, Placed, InPlace
      <3>2. QED BY <2>1, <2>5, <2>6, <2>10, <3>1
    <2>17. QED BY <2>10, <2>11, <2>12, <2>13, <2>15, <2>16 DEF PInv, Stacked
  <1>3. QED BY <1>1, <1>2 DEF Enter

(* A loop ends; only a block passes a goto on.                              *)
LEMMA PopPlaced ==
  ASSUME PInv, stack # <<>>, Top.kind # "sub", NEW s, Proceed(Pop, s),
         \/ s.kind \in {"none", "action", "typed"} /\ s.arg # "none"
         \/ s = signal /\ Top.kind = "block"
  PROVE  PInv' /\ Forward
PROOF
  <1> DEFINE k == Len(stack)
  <1>1. stack' = Pop /\ signal' = s /\ outcome' = outcome /\ program' = program BY DEF Proceed
  <1>2. k \in Nat \ {0, 1} /\ Top = stack[k] BY TopIsTop DEF PInv, Top
  <1>3. Stacked(Pop) /\ Len(Pop) = k - 1 /\ \A n \in 1 .. k - 1 : Pop[n] = stack[n]
    BY PoppedStack DEF PInv
  <1>4. Placed(Pop) BY PlacedPopped
  <1>5. Pop # <<>> BY <1>2, <1>3
  <1>6. Loaded' /\ Placed(stack)' BY <1>1, <1>4, LoadedStays DEF PInv, Placed, InPlace, Stems
  <1>7. GotoAhead'
    <2> SUFFICES ASSUME s = signal, Top.kind = "block", signal.kind = "goto"
                 PROVE  \E j \in Labels(Code(Top'), signal.arg) : Top'.at <= j
      BY <1>1, <1>5 DEF GotoAhead, Code
    <2>1. Top' = stack[k - 1] BY <1>1, <1>2, <1>3 DEF Top
    <2>2. Stems(stack[k], stack[k - 1]) /\ InPlace(stack[k]) BY <1>2 DEF PInv, Placed
    <2>3. Top'.sub = Top.sub /\ Code(Top') = Code(Top) BY <1>2, <2>1, <2>2 DEF Stems, Code
    <2>4. PICK j \in Labels(Code(Top), signal.arg) : Top.at <= j BY DEF PInv, GotoAhead
    <2>5. PICK c \in DOMAIN Code(Top) : c < Top.at /\ EndOf(Code(Top), c) + 1 = Top'.at
      BY <1>2, <2>1, <2>2 DEF Stems, Code
    <2>6. WellFormed(Code(Top)) /\ Top.at \in Nat BY TopIsPlaced
    <2>7. c \in Nat \ {0} /\ EndOf(Code(Top), c) \in Nat BY <2>6, EndIsInside
    <2>8. j \in DOMAIN Code(Top) /\ \A i \in 1 .. (j - 1) : EndOf(Code(Top), i) < j BY DEF Labels
    <2>9. j \in Nat BY <2>6, <2>8, EndIsInside
    <2>10. EndOf(Code(Top), c) < j BY <2>4, <2>5, <2>6, <2>7, <2>8, <2>9
    <2>11. QED BY <2>3, <2>5, <2>7, <2>9, <2>10
  <1>8. Bounded'
    <2>1. Len(Pop) <= MaxDepth
      BY <1>2, <1>3, InterpreterAssumption DEF PInv, Bounded
    <2>2. QED BY <1>1, <1>5, <2>1 DEF PInv, Bounded
  <1>9. Forward
    <2> SUFFICES ASSUME NEW n \in 1 .. k - 1 PROVE stack[n].at <= Pop[n].at
      BY <1>1, <1>2, <1>3, DomainIsInterval DEF PInv, Forward
    <2>1. n \in 1 .. k BY <1>2
    <2>2. stack[n].at \in Nat BY <2>1 DEF PInv, Placed, InPlace
    <2>3. QED BY <1>3, <2>2
  <1>10. QED BY <1>1, <1>3, <1>6, <1>7, <1>8, <1>9 DEF PInv, Stacked

(* Nothing moves.                                                           *)
LEMMA StillPlaced ==
  ASSUME PInv, stack # <<>>, Proceed(stack, NoSignal)
  PROVE  PInv' /\ Forward
PROOF
  <1>1. stack' = stack /\ signal' = NoSignal /\ outcome' = outcome /\ program' = program
    BY DEF Proceed
  <1>2. signal'.kind = "none" /\ signal'.arg # "none" BY <1>1 DEF NoSignal
  <1>3. Loaded' /\ Placed(stack)' BY <1>1, LoadedStays DEF PInv, Placed, InPlace, Stems
  <1>4. GotoAhead' BY <1>2 DEF GotoAhead
  <1>5. Bounded' BY <1>1, <1>2 DEF PInv, Bounded
  <1>6. Forward
    <2> SUFFICES ASSUME NEW n \in 1 .. Len(stack) PROVE stack[n].at <= stack[n].at
      BY <1>1, DomainIsInterval DEF PInv, Forward
    <2>1. stack[n].at \in Nat BY DEF PInv, Placed, InPlace
    <2>2. QED BY <2>1
  <1>7. QED BY <1>1, <1>3, <1>4, <1>5, <1>6 DEF PInv, Stacked

LEMMA BodyInPlace ==
  ASSUME PInv, NEW kind \in FrameKinds \ {"block"}, NEW s \in DOMAIN program.code
  PROVE  InPlace(Frame(kind, s, 1, Len(program.code[s])))
PROOF
  <1> DEFINE f == Frame(kind, s, 1, Len(program.code[s]))
  <1>1. WellFormed(program.code[s]) BY CodeIsWellFormed DEF PInv
  <1>2. Len(program.code[s]) \in Nat /\ Whole(program.code[s], 1, Len(program.code[s]))
    BY <1>1, BodyIsWhole
  <1>3. f.kind = kind /\ f.sub = s /\ f.at = 1 /\ f.last = Len(program.code[s]) BY DEF Frame
  <1> HIDE DEF f
  <1>4. QED BY <1>2, <1>3 DEF InPlace, f

LEMMA HereIsStatement ==
  ASSUME PInv, stack # <<>>, Top.at <= Top.last
  PROVE  /\ Here \in SourceStatements /\ Here = Code(Top)[Top.at]
         /\ Here.kind \in Kinds /\ Here.arg # "none" /\ Here.value \in BOOLEAN
PROOF
  <1>1. Top.at \in DOMAIN Code(Top) BY PastStatement
  <1>2. Code(Top) \in Seq(SourceStatements) BY TopIsPlaced DEF WellFormed
  <1>3. Here = Code(Top)[Top.at] BY DEF Here
  <1>4. Here \in SourceStatements BY <1>1, <1>2, <1>3
  <1> HIDE DEF Here
  <1>5. QED BY <1>3, <1>4 DEF SourceStatements

LEMMA StatementPlaced == PInv /\ Statement => PInv' /\ Forward
PROOF
  <1> SUFFICES ASSUME PInv, Statement PROVE PInv' /\ Forward OBVIOUS
  <1>1. stack # <<>> /\ signal = NoSignal /\ Top.at <= Top.last
    BY DEF Statement, Simple, Branch, Call, Eval, GotoLabel, Return, Error, Restart, Fault,
           Reject, ReturnsValue, At, Running, PInv
  <1>2. /\ Here \in SourceStatements /\ Here = Code(Top)[Top.at] /\ Here.arg # "none"
    BY <1>1, HereIsStatement
  <1>3. ASSUME NEW s, s.kind \in {"none", "action", "typed"}, s.arg # "none", Proceed(Advanced, s)
        PROVE  PInv' /\ Forward
    BY <1>1, <1>3, AdvancePlaced
  <1>4. NoSignal.kind = "none" /\ NoSignal.arg # "none" BY DEF NoSignal
  <1>5. \A name : Action(name).kind = "action" /\ Action(name).arg = name BY DEF Action
  <1>6. ASSUME NEW kind \in FrameKinds \ {"sub", "block"}, NEW s \in DOMAIN program.code,
               Enter(WholeBody(kind, s))
        PROVE  PInv' /\ Forward
    <2>1. InPlace(Frame(kind, s, 1, Len(program.code[s]))) BY BodyInPlace
    <2>2. Enter(Frame(kind, s, 1, Len(program.code[s]))) BY <1>6 DEF WholeBody
    <2>3. kind # "block" /\ kind \in FrameKinds \ {"sub"} OBVIOUS
    <2>4. QED BY <1>1, <2>1, <2>2, <2>3, EnterPlaced
  <1>7. CASE Simple BY <1>3, <1>4, <1>7 DEF Simple
  <1>8. CASE Branch
    <2>1. PICK range \in Branches(Code(Top), Top.at) :
            Enter(Frame("block", Top.sub, range[1], range[2]))
      BY <1>8 DEF Branch
    <2>2. Code(Top)[Top.at].kind \in Compound BY <1>2, <1>8 DEF Branch, At
    <2>3. WellFormed(Code(Top)) /\ Top.at \in DOMAIN Code(Top)
      BY <1>1, TopIsPlaced, PastStatement
    <2>4. /\ range[1] \in Nat /\ range[2] \in Nat
          /\ Top.at < range[1] /\ range[1] <= range[2] + 1 /\ range[2] <= Len(Code(Top))
          /\ Whole(Code(Top), range[1], range[2])
      BY <2>2, <2>3, BranchIsInside
    <2>5. Top.sub \in DOMAIN program.code /\ Code(Top) = program.code[Top.sub]
          /\ Top.at \in Nat
      BY <1>1, TopIsPlaced DEF Code
    <2>6. InPlace(Frame("block", Top.sub, range[1], range[2]))
      <3> DEFINE f == Frame("block", Top.sub, range[1], range[2])
      <3>1. f.kind = "block" /\ f.sub = Top.sub /\ f.at = range[1] /\ f.last = range[2]
        BY DEF Frame
      <3> HIDE DEF f
      <3>2. range[1] \in Nat \ {0} BY <2>4, <2>5
      <3>3. QED BY <2>4, <2>5, <3>1, <3>2 DEF InPlace, f
    <2>7. "block" \in FrameKinds \ {"sub"} BY DEF FrameKinds
    <2>8. QED BY <1>1, <2>1, <2>4, <2>6, <2>7, EnterPlaced
  <1>9. CASE Call
    <2>1. "call" \in FrameKinds \ {"sub", "block"} BY DEF FrameKinds
    <2>2. QED BY <1>3, <1>4, <1>6, <1>9, <2>1 DEF Call
  <1>10. CASE Eval
    <2>1. "eval" \in FrameKinds \ {"sub", "block"} BY DEF FrameKinds
    <2>2. Top.at \in DOMAIN Code(Top) /\ Top.sub \in DOMAIN program.code
      BY <1>1, TopIsPlaced, PastStatement
    <2>3. Code(Top)[Top.at].kind = "eval" BY <1>2, <1>10 DEF Eval, At
    <2>4. Here.arg \in DOMAIN program.code
      BY <1>2, <2>2, <2>3, InterpreterAssumption DEF PInv, Loaded, Code
    <2>5. QED BY <1>3, <1>4, <1>6, <1>10, <2>1, <2>4 DEF Eval
  <1>11. CASE GotoLabel
    <2>1. /\ Top.at \in DOMAIN Code(Top) /\ Top.at \in Nat
          /\ WellFormed(Code(Top)) /\ ValidGotos(Code(Top))
      BY <1>1, TopIsPlaced, PastStatement
    <2>2. Code(Top)[Top.at].kind = "goto" BY <1>2, <1>11 DEF GotoLabel, At
    <2>3. PICK j \in Labels(Code(Top), Here.arg) : j > Top.at
      BY <1>2, <2>1, <2>2 DEF ValidGotos
    <2>4. EndOf(Code(Top), Top.at) = Top.at BY <2>2 DEF EndOf, Compound
    <2>5. j \in Nat BY <2>1, EndIsInside DEF Labels
    <2>6. EndOf(Code(Top), Top.at) + 1 <= j BY <2>1, <2>3, <2>4, <2>5
    <2>7. Goto(Here.arg).kind = "goto" /\ Goto(Here.arg).arg = Here.arg BY DEF Goto
    <2>8. Proceed(Advanced, Goto(Here.arg)) BY <1>11 DEF GotoLabel
    <2> DEFINE s == Goto(Here.arg)
    <2> HIDE DEF s
    <2>9. s.kind = "goto" /\ s.arg = Here.arg /\ Proceed(Advanced, s) BY <2>7, <2>8 DEF s
    <2>10. QED BY <1>1, <1>2, <2>3, <2>6, <2>9, AdvancePlaced
  <1>12. CASE Return
    <2>1. TypedReturn.kind = "typed" /\ TypedReturn.arg # "none" BY DEF TypedReturn
    <2>2. \/ Proceed(Advanced, TypedReturn)
          \/ Proceed(Advanced, Action(Here.arg))
          \/ Proceed(Advanced, NoSignal)
      BY <1>12 DEF Return
    <2>3. QED BY <1>2, <1>3, <1>4, <1>5, <2>1, <2>2
  <1>13. CASE Error
    <2>1. "raise" \in FrameKinds \ {"sub", "block"} BY DEF FrameKinds
    <2>2. \/ "vcl_error" \in DOMAIN program.code /\ Enter(WholeBody("raise", "vcl_error"))
          \/ Proceed(Advanced, Action("error"))
      BY <1>13 DEF Error
    <2>3. QED BY <1>3, <1>5, <1>6, <2>1, <2>2
  <1>14. CASE Restart BY <1>3, <1>5, <1>14 DEF Restart
  <1>15. CASE Fault BY <1>15, ThrowPlaced DEF Fault
  <1>16. CASE Reject BY <1>16, StopPlaced DEF Reject
  <1>17. QED
    BY <1>7, <1>8, <1>9, <1>10, <1>11, <1>12, <1>13, <1>14, <1>15, <1>16 DEF Statement

LEMMA LoopPlaced == PInv /\ Loop => PInv' /\ Forward
PROOF
  <1> SUFFICES ASSUME PInv, Loop PROVE PInv' /\ Forward OBVIOUS
  <1>1. stack # <<>>
    BY DEF Loop, EndOfLoop, BlockPasses, CallPasses, CallKeeps, EvalKeeps, RaiseIgnores, Jump,
           Exit, Signalled, Running
  <1>2. signal.kind \in {"none", "goto", "action", "typed"} /\ signal.arg # "none"
    BY DEF PInv, Bounded
  <1>3. NoSignal.kind = "none" /\ NoSignal.arg # "none" BY DEF NoSignal
  <1>4. CASE EndOfLoop
    <2>1. CASE Top.kind = "sub"
      <3>1. DefaultReturn(program.root) # "none" BY DEF DefaultReturn
      <3>2. QED BY <1>4, <2>1, <3>1, StopPlaced DEF EndOfLoop
    <2>2. CASE Top.kind # "sub"
      <3>1. Action("error").kind = "action" /\ Action("error").arg # "none" BY DEF Action
      <3>2. Proceed(Pop, Action("error")) \/ Proceed(Pop, NoSignal)
        BY <1>4, <2>2 DEF EndOfLoop
      <3>3. QED BY <1>1, <1>3, <2>2, <3>1, <3>2, PopPlaced
    <2>3. QED BY <2>1, <2>2
  <1>5. CASE BlockPasses
    <2>1. Top.kind = "block" /\ Proceed(Pop, signal) BY <1>5 DEF BlockPasses, Signalled
    <2>2. QED BY <1>1, <2>1, PopPlaced
  <1>6. CASE CallPasses
    <2>1. Top.kind = "call" /\ Proceed(Pop, signal) /\ signal.kind = "action"
      BY <1>6 DEF CallPasses, Signalled, Leaves
    <2>2. QED BY <1>1, <1>2, <2>1, PopPlaced
  <1>7. CASE CallKeeps
    <2>1. Top.kind = "call" /\ (Proceed(Pop, NoSignal) \/ Proceed(stack, NoSignal))
      BY <1>7 DEF CallKeeps, Signalled
    <2>2. QED BY <1>1, <1>3, <2>1, PopPlaced, StillPlaced
  <1>8. CASE EvalKeeps
    <2>1. Top.kind = "eval" /\ Proceed(Pop, NoSignal) BY <1>8 DEF EvalKeeps, Signalled
    <2>2. QED BY <1>1, <1>3, <2>1, PopPlaced
  <1>9. CASE RaiseIgnores BY <1>1, <1>9, StillPlaced DEF RaiseIgnores
  <1>10. CASE Jump
    <2> DEFINE label == LabelAt(Code(Top), signal.arg)
    <2>1. PICK j \in Labels(Code(Top), signal.arg) : Top.at <= j
      BY <1>10 DEF PInv, GotoAhead, Jump
    <2>2. /\ WellFormed(Code(Top)) /\ Top.at \in Nat /\ Top.last \in Nat
          /\ Top.last = Len(Code(Top))
      BY <1>1, <1>10, TopIsPlaced DEF Jump, Signalled
    <2>3. label \in Labels(Code(Top), signal.arg) /\ j <= label BY <2>1, <2>2, LabelIsLast
    <2>4. label \in Nat /\ label <= Len(Code(Top)) /\ j \in Nat
      <3>1. label \in DOMAIN Code(Top) /\ j \in DOMAIN Code(Top) BY <2>1, <2>3 DEF Labels
      <3>2. Code(Top) \in Seq(SourceStatements) BY <2>2 DEF WellFormed
      <3> HIDE DEF label
      <3>3. QED BY <3>1, <3>2
    <2>5. Proceed([stack EXCEPT ![Len(stack)].at = label + 1], NoSignal) BY <1>10 DEF Jump
    <2> HIDE DEF label
    <2>6. label + 1 \in Nat /\ Top.at <= label + 1 /\ label + 1 <= Top.last + 1
      BY <2>1, <2>2, <2>3, <2>4
    <2>7. QED BY <1>1, <1>3, <2>5, <2>6, MovePlaced
  <1>11. CASE Exit BY <1>2, <1>11, StopPlaced DEF Exit
  <1>12. QED BY <1>4, <1>5, <1>6, <1>7, <1>8, <1>9, <1>10, <1>11 DEF Loop

LEMMA InitPlaced == Init => PInv
PROOF
  <1> SUFFICES ASSUME Init PROVE PInv OBVIOUS
  <1> DEFINE f == Frame("sub", program.root, 1, Len(program.code[program.root]))
  <1>1. stack = <<f>> /\ signal = NoSignal /\ outcome = "none" BY DEF Init, WholeBody
  <1>2. Stacked(stack) BY InitIInv DEF IInv
  <1>3. Loaded BY DEF Init, Loaded
  <1>4. program.root \in DOMAIN program.code BY <1>3, InterpreterAssumption DEF Loaded
  <1>5. WellFormed(program.code[program.root]) BY <1>3, <1>4, CodeIsWellFormed
  <1>6. /\ Len(program.code[program.root]) \in Nat
        /\ Whole(program.code[program.root], 1, Len(program.code[program.root]))
    BY <1>5, BodyIsWhole
  <1>7. f.kind = "sub" /\ f.sub = program.root /\ f.at = 1
        /\ f.last = Len(program.code[program.root])
    BY DEF Frame
  <1> HIDE DEF f
  <1>8. InPlace(f) BY <1>4, <1>6, <1>7 DEF InPlace
  <1>9. Len(stack) = 1 /\ stack[1] = f /\ stack # <<>> BY <1>1
  <1>10. Placed(stack)
    <2> SUFFICES ASSUME NEW n \in 1 .. Len(stack)
                 PROVE  InPlace(stack[n]) /\ stack[n].kind # "block"
      BY DEF Placed
    <2>1. n = 1 BY <1>9
    <2>2. QED BY <1>7, <1>8, <1>9, <2>1
  <1>11. signal.kind = "none" /\ signal.arg # "none" BY <1>1 DEF NoSignal
  <1>12. GotoAhead BY <1>11 DEF GotoAhead
  <1>13. Bounded BY <1>1, <1>9, <1>11, InterpreterAssumption DEF Bounded
  <1>14. QED BY <1>2, <1>3, <1>10, <1>12, <1>13 DEF PInv

LEMMA NextPlaced == PInv /\ [Next]_vars => PInv'
PROOF
  <1> SUFFICES ASSUME PInv, [Next]_vars PROVE PInv' OBVIOUS
  <1>1. CASE Statement BY <1>1, StatementPlaced
  <1>2. CASE Loop BY <1>2, LoopPlaced
  <1>3. CASE UNCHANGED vars
    BY <1>3 DEF vars, PInv, Stacked, Loaded, Placed, InPlace, Stems, GotoAhead, Bounded, Code, Top
  <1>4. QED BY <1>1, <1>2, <1>3 DEF Next, Over

-----------------------------------------------------------------------------
(* The loop a goto belongs to.                                              *)

(* Loops over branches run the code of the loop they stem from.             *)
LEMMA SameCode ==
  ASSUME PInv, NEW n \in 1 .. Len(stack),
         \A m \in n + 1 .. Len(stack) : stack[m].kind = "block"
  PROVE  \A m \in n .. Len(stack) : stack[m].sub = stack[n].sub
PROOF
  <1> DEFINE T == {m \in n .. Len(stack) : stack[m].sub # stack[n].sub}
  <1> SUFFICES ASSUME T # {} PROVE FALSE OBVIOUS
  <1>1. Len(stack) \in Nat BY DomainIsInterval DEF PInv
  <1>2. T \in SUBSET Nat BY <1>1
  <1>3. PICK k \in T : \A j \in T : k <= j
    <2> HIDE DEF T
    <2>1. QED BY <1>2, LeastNat
  <1>4. k \in n + 1 .. Len(stack) /\ k - 1 \in n .. Len(stack) /\ k - 1 \notin T
    BY <1>1, <1>3
  <1>5. stack[k - 1].sub = stack[n].sub BY <1>4
  <1>6. k \in 1 .. Len(stack) /\ stack[k].kind = "block" BY <1>1, <1>4
  <1>7. stack[k].sub = stack[k - 1].sub BY <1>6 DEF PInv, Placed, Stems
  <1>8. QED BY <1>3, <1>5, <1>7

LEMMA GotoHasLoop == PInv => GotosLand
PROOF
  <1> SUFFICES ASSUME PInv, signal.kind = "goto" PROVE GotosLand BY DEF GotosLand
  <1>1. stack # <<>> /\ Labels(Code(Top), signal.arg) # {} BY DEF PInv, GotoAhead
  <1>2. /\ DOMAIN stack = 1 .. Len(stack) /\ Len(stack) \in Nat \ {0} /\ Top = stack[Len(stack)]
    BY <1>1, DomainIsInterval, TopIsPlaced DEF PInv
  <1> DEFINE T == {n \in 1 .. Len(stack) : stack[n].kind # "block"}
  <1>3. IsFiniteSet(1 .. Len(stack)) BY <1>2, FS_Interval
  <1>4. IsFiniteSet(T) /\ T \subseteq Nat BY <1>2, <1>3, FS_Subset
  <1>5. 1 \in T BY <1>2 DEF PInv, Stacked
  <1> DEFINE n == Max(T)
  <1>6. n \in T /\ \A m \in T : m <= n
    <2> HIDE DEF T
    <2>1. QED BY <1>4, <1>5, MaxIsLargest
  <1> HIDE DEF n
  <1>7. n \in 1 .. Len(stack) /\ stack[n].kind # "block" BY <1>6
  <1>8. \A m \in n + 1 .. Len(stack) : stack[m].kind = "block"
    <2> SUFFICES ASSUME NEW m \in n + 1 .. Len(stack), stack[m].kind # "block" PROVE FALSE OBVIOUS
    <2>1. m \in T BY <1>2, <1>7
    <2>2. QED BY <1>2, <1>6, <1>7, <2>1
  <1>9. stack[Len(stack)].sub = stack[n].sub
    <2>1. Len(stack) \in n .. Len(stack) BY <1>2, <1>7
    <2>2. QED BY <1>7, <1>8, <2>1, SameCode
  <1>10. Code(stack[n]) = Code(Top) BY <1>2, <1>9 DEF Code
  <1>11. QED BY <1>1, <1>2, <1>7, <1>8, <1>10 DEF GotosLand

Noted == raised \in BOOLEAN

LEMMA PlacedIsTyped == PInv /\ Noted => TypeOK
PROOF
  <1> SUFFICES ASSUME PInv, Noted PROVE TypeOK OBVIOUS
  <1>1. DOMAIN stack = 1 .. Len(stack) /\ Len(stack) \in Nat BY DomainIsInterval DEF PInv
  <1>2. ASSUME NEW n \in 1 .. Len(stack)
        PROVE  /\ stack[n].kind \in FrameKinds
               /\ (stack[n].kind = "sub") = (n = 1)
               /\ stack[n].sub \in DOMAIN program.code
               /\ stack[n].last \in 0 .. Len(Code(stack[n]))
               /\ stack[n].at \in 1 .. (stack[n].last + 1)
    <2>1. InPlace(stack[n]) BY DEF PInv, Placed
    <2>2. /\ stack[n].kind \in FrameKinds
          /\ (stack[n].kind = "sub") = (n = 1)
      BY Zenon DEF PInv, Stacked
    <2>3. WellFormed(program.code[stack[n].sub]) BY <2>1, CodeIsWellFormed DEF PInv, InPlace
    <2>4. Len(Code(stack[n])) \in Nat BY <2>3, BodyIsWhole DEF Code
    <2>5. stack[n].last <= Len(Code(stack[n])) BY <2>1 DEF InPlace, Code
    <2>6. /\ stack[n].sub \in DOMAIN program.code
          /\ stack[n].at \in Nat \ {0} /\ stack[n].last \in Nat
          /\ stack[n].at <= stack[n].last + 1
      BY <2>1 DEF InPlace
    <2>7. stack[n].last \in 0 .. Len(Code(stack[n])) BY <2>4, <2>5, <2>6
    <2>8. stack[n].at \in 1 .. (stack[n].last + 1) BY <2>6
    <2>9. QED BY <2>2, <2>6, <2>7, <2>8
  <1>3. (stack # <<>>) = (outcome = "none") BY Zenon DEF PInv, Bounded
  <1>4. /\ Len(stack) <= MaxDepth
        /\ signal.kind \in {"none", "goto", "action", "typed"}
    BY DEF PInv, Bounded
  <1>5. QED BY <1>1, <1>2, <1>3, <1>4, Zenon DEF TypeOK, Running, Noted

LEMMA NextNoted == Noted /\ [Next]_vars => Noted'
PROOF
  <1> SUFFICES ASSUME Noted, [Next]_vars PROVE Noted' OBVIOUS
  <1>1. CASE Error BY <1>1 DEF Error, Noted
  <1>2. CASE ~Error
    BY <1>2 DEF Noted, Next, Statement, Simple, Branch, Call, Eval, GotoLabel, Return, Restart,
       Fault, Reject, Loop, EndOfLoop, BlockPasses, CallPasses, CallKeeps, EvalKeeps,
       RaiseIgnores, Jump, Exit, Over, vars
  <1>3. QED BY <1>1, <1>2

(* The interpreter's state is always well formed: every loop is inside the  *)
(* statements it runs, only the outermost is the subroutine's own, and the  *)
(* run has a result exactly when no loop is left (compileSubroutine).       *)
THEOREM LoopsTyped == Spec => []TypeOK
PROOF
<1>1. PInv /\ Noted => TypeOK BY PlacedIsTyped
<1>2. Init => Noted BY DEF Init, Noted
<1>3. QED BY <1>1, <1>2, InitPlaced, NextPlaced, NextNoted, PTL DEF Spec

(* While a goto is on its way out of branches, its label is one of the body *)
(* they are in, so that a goto which reaches the subroutine's own loop      *)
(* finds its label there: the jump of compileSubroutine never fails for a   *)
(* program that validateGotos accepts.                                      *)
THEOREM GotosFindLabels == Spec => []GotosLand
PROOF
<1>1. PInv => GotosLand BY GotoHasLoop
<1>2. QED BY <1>1, InitPlaced, NextPlaced, PTL DEF Spec

(* No step, and no goto, takes a loop back to a statement it has passed     *)
(* (validateGotos; executeStatements).                                      *)
THEOREM LoopsMoveForward == Spec => ForwardOnly
PROOF
<1>1. PInv /\ [Next]_vars
        => [\A n \in DOMAIN stack \cap DOMAIN stack' : stack[n].at <= stack'[n].at]_vars
  <2> SUFFICES ASSUME PInv, Next
               PROVE  [\A n \in DOMAIN stack \cap DOMAIN stack' : stack[n].at <= stack'[n].at]_vars
    OBVIOUS
  <2>1. CASE Statement BY <2>1, StatementPlaced DEF Forward
  <2>2. CASE Loop BY <2>2, LoopPlaced DEF Forward
  <2>3. CASE Over BY <2>3 DEF Over
  <2>4. QED BY <2>1, <2>2, <2>3 DEF Next
<1>2. QED BY <1>1, InitPlaced, NextPlaced, PTL DEF Spec, ForwardOnly
=============================================================================
