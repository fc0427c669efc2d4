------------------------------- MODULE Locals -------------------------------
(***************************************************************************)
(* Local variables (src/src/vcl-compiler.ts): one table per request, which *)
(* every subroutine writes to; declare, set and unset; the parameters of   *)
(* called subroutines and of typed ones, which are locals for the time of  *)
(* the call; typed variables and the compound operators on integers.       *)
(*                                                                         *)
(* Control flow is module Interpreter's: any statement may come next here. *)
(***************************************************************************)
EXTENDS Values

CONSTANTS
  LocalNames,   \* names of locals and parameters
  Params,       \* subroutine -> its parameters: a sequence of names
  Constants,    \* values of literals
  Operators,    \* the operators of set that are looked at
  MaxFrames,    \* bound of the model: calls under way
  MaxSets,      \* bound of the model: statements executed
  MaxText       \* bound of the model: length of a variable's text

VARIABLES
  locals,   \* context.locals: name -> value or Absent
  types,    \* context.localTypes: name -> type or Absent
  calls,    \* the calls under way: their parameters and what these shadow
  sets,     \* statements so far
  combined  \* history: the last compound assignment to an integer

localVars == <<locals, types, calls, sets, combined>>

Types == {"STRING", "INTEGER", "BOOL"}

NoneCombined == [op |-> "none"]

ASSUME LocalsAssumption ==
  /\ \A s \in DOMAIN Params :
       /\ Params[s] \in Seq(LocalNames)
       /\ IsInjective(Params[s])
  /\ MaxFrames \in Nat /\ MaxSets \in Nat /\ MaxText \in Nat

LocalsInit ==
  /\ locals = [x \in LocalNames |-> Absent]
  /\ types = [x \in LocalNames |-> Absent]
  /\ calls = <<>>
  /\ sets = 0
  /\ combined = NoneCombined

-----------------------------------------------------------------------------
(* Expressions: a literal, a variable, two of them concatenated.            *)

ReadLocal(table, x) == IF table[x] \in {Absent, Null} THEN NotSet ELSE table[x]

Expressions == [var : LocalNames] \cup [value : Constants]

ValueIn(table, e) == IF "var" \in DOMAIN e THEN ReadLocal(table, e.var) ELSE e.value

RightHandSides ==
  LET atoms == {ValueIn(locals, e) : e \in Expressions}
  IN atoms \cup {Concatenated(v, NotSet) : v \in atoms}

Goes == sets < MaxSets /\ sets' = sets + 1

-----------------------------------------------------------------------------
(* What runs: a body's statements, or the arguments of the innermost call,  *)
(* in which nothing but typed subroutines can run.                          *)

InBody(call) == call.bound = Len(call.names)

Runs == calls # <<>> => InBody(Last(calls))

Evaluates == ~Runs => Last(calls).bound < Last(calls).given

-----------------------------------------------------------------------------
(* Statements.                                                              *)

(* LOCAL_TYPE_DEFAULTS                                                      *)
TypeDefault(type) ==
  CASE type = "INTEGER" -> Num(0)
    [] type = "BOOL"    -> Bool(FALSE)
    [] OTHER            -> NotSet

(* coerceLocalValue                                                         *)
ForType(type, v) == IF type = "INTEGER" THEN Coerced(type, v) ELSE v

(* declare local var.x TYPE, with or without a value.                       *)
Declare(x, type) ==
  /\ Runs /\ Goes
  /\ types' = [types EXCEPT ![x] = type]
  /\ \E v \in {TypeDefault(type)} \cup {ForType(type, w) : w \in RightHandSides} :
       locals' = [locals EXCEPT ![x] = v]
  /\ combined' = NoneCombined
  /\ UNCHANGED calls

(* What a local keeps of a value: not set is the empty string.              *)
Stored(v) ==
  CASE v.kind = "concat" -> VCLText(ForLocal(v))
    [] v = NotSet        -> VCLText(<<>>)
    [] v.kind = "raw"    -> VCLText(v.text)
    [] OTHER             -> v

(* The finally of a call is entered with its body: until then there is      *)
(* nothing to give back, though parameters may be bound.                    *)
GivenBack(call) == IF InBody(call) THEN DOMAIN call.saved ELSE {}

(* Mutant of Restored: names that were no locals before are not deleted.    *)
RestoredExisting(table, call) ==
  [x \in LocalNames |-> IF x \in GivenBack(call) /\ call.saved[x] # Absent
                          THEN call.saved[x] ELSE table[x]]

Restored(table, call) ==
  [x \in LocalNames |-> IF x \in GivenBack(call) THEN call.saved[x] ELSE table[x]]

(* An exception unwinds all calls, the innermost first.                     *)
Unwound(table, left) == FoldRight(LAMBDA call, t : Restored(t, call), left, table)

Fails ==
  /\ locals' = Unwound(locals, calls)
  /\ calls' = <<>>
  /\ combined' = NoneCombined
  /\ UNCHANGED types

(* set var.x op expression                                                  *)
SetLocal(x, op, operand) ==
  LET rhs     == IF op # "=" /\ operand.kind = "concat" THEN Raw(ForLocal(operand)) ELSE operand
      current == IF locals[x] = Absent THEN Null ELSE locals[x]
      value   == Combine(op, current, rhs)
      stored  == ForType(types[x], Stored(value))
  IN /\ Runs /\ Goes
     /\ IF value = Thrown THEN Fails
        ELSE /\ Len(TextOf(stored)) <= MaxText
             /\ stored.kind = "int" => stored.n \in -9 .. 9
             /\ locals' = [locals EXCEPT ![x] = stored]
             /\ combined' = IF {current.kind, rhs.kind, stored.kind} = {"int"}
                              THEN [op |-> op, from |-> current.n, by |-> rhs.n, to |-> stored.n]
                              ELSE NoneCombined
             /\ UNCHANGED <<types, calls>>

UnsetLocal(x) ==
  /\ Runs /\ Goes
  /\ locals' = [locals EXCEPT ![x] = Absent]
  /\ combined' = NoneCombined
  /\ UNCHANGED <<types, calls>>

-----------------------------------------------------------------------------
(* Calls.                                                                   *)

(* A call statement binds as many parameters as there are arguments; a      *)
(* typed subroutine in an expression all of them.                           *)
NewCall(sub, given, typed) ==
  [names |-> IF typed THEN Params[sub] ELSE SubSeq(Params[sub], 1, given),
   given |-> given, typed |-> typed, bound |-> 0, saved |-> <<>>, before |-> <<>>]

Put(f, x, v) == [y \in DOMAIN f \cup {x} |-> IF y = x THEN v ELSE f[y]]

(* What the next parameter shadows is saved; "before" is history.           *)
Save(call, table) ==
  LET x == call.names[call.bound + 1]
  IN [call EXCEPT !.saved = Put(@, x, table[x]), !.before = Put(@, x, table[x])]

(* A typed subroutine saves before an argument is evaluated, a call         *)
(* statement after that.                                                    *)
Turn(call, table) == IF call.typed /\ ~InBody(call) THEN Save(call, table) ELSE call

EnterSub(sub, given, typed) ==
  /\ ~Runs => typed /\ Evaluates
  /\ Goes
  /\ Len(calls) < MaxFrames
  /\ calls' = Append(calls, Turn(NewCall(sub, given, typed), locals))
  /\ combined' = NoneCombined
  /\ UNCHANGED <<locals, types>>

(* The next argument has its value, the parameter takes it.  Parameters of  *)
(* a typed subroutine without an argument are undefined.                    *)
BindNext(v) ==
  LET call  == Last(calls)
      saver == IF call.typed THEN call ELSE Save(call, locals)
      table == [locals EXCEPT ![call.names[call.bound + 1]] = v]
  IN /\ ~Runs
     /\ call.bound >= call.given => v = Null
     /\ locals' = table
     /\ calls' = [calls EXCEPT ![Len(calls)] = Turn([saver EXCEPT !.bound = @ + 1], table)]
     /\ combined' = NoneCombined
     /\ UNCHANGED <<types, sets>>

(* The body is over, or was left by a return.                               *)
Leave ==
  /\ calls # <<>> /\ Runs
  /\ locals' = Restored(locals, Last(calls))
  /\ calls' = Front(calls)
  /\ combined' = NoneCombined
  /\ UNCHANGED <<types, sets>>

(* An exception, in a body or in an argument, leaves every call.            *)
ThrowOut == calls # <<>> /\ Evaluates /\ Fails /\ UNCHANGED sets

LocalsNext ==
  \/ \E x \in LocalNames :
       \/ \E type \in Types : Declare(x, type)
       \/ \E op \in Operators, operand \in RightHandSides : SetLocal(x, op, operand)
       \/ UnsetLocal(x)
  \/ \E sub \in DOMAIN Params, typed \in BOOLEAN :
       \E given \in 0 .. Len(Params[sub]) : EnterSub(sub, given, typed)
  \/ \E v \in {ValueIn(locals, e) : e \in Expressions} \cup {Null} : BindNext(v)
  \/ Leave
  \/ ThrowOut

LocalsSpec == LocalsInit /\ [][LocalsNext]_localVars

-----------------------------------------------------------------------------
(* Properties.                                                              *)

LocalsTypeOK ==
  /\ \A x \in LocalNames : types[x] = Absent \/ types[x] \in Types
  /\ \A x \in LocalNames : locals[x] = Absent \/ TextOf(locals[x]) \in Seq(STRING)
  /\ Len(calls) <= MaxFrames
  /\ \A n \in DOMAIN calls : calls[n].bound <= Len(calls[n].names)
  /\ sets \in 0 .. MaxSets

(* The calls that a step ends leave these names of theirs as their callers  *)
(* knew them; where calls share a name, the outermost one's caller counts.  *)
MeanAsBefore(given) ==
  \A n \in Len(calls') + 1 .. Len(calls) : \A x \in given[n] :
    (\A m \in Len(calls') + 1 .. n - 1 : x \notin given[m]) => locals'[x] = calls[n].before[x]

(* A call whose body has begun may end as it likes, and whatever was        *)
(* declared, set, unset or called meanwhile, also while its arguments were  *)
(* evaluated: all its parameters' names mean to the caller what they meant  *)
(* before they were bound (the finally blocks of executeCallStatement and   *)
(* executeFunctionalSub).                                                   *)
ParametersRestored ==
  [][MeanAsBefore([n \in DOMAIN calls |->
       IF InBody(calls[n]) THEN ToSet(calls[n].names) ELSE {}])]_localVars

(* What the comment at vcl-compiler.ts:1980 and docs/reference/             *)
(* vcl-variables.md:558 say: a parameter is not seen outside its            *)
(* subroutine, also if the call ends before the body has begun.             *)
ParametersLocal ==
  [][MeanAsBefore([n \in DOMAIN calls |->
       {calls[n].names[i] : i \in 1 .. calls[n].bound}])]_localVars

(* Bit i of a shifted or rotated integer is the bit the operator moves      *)
(* there; what comes in is zero, the sign, or what went out on the other    *)
(* side.  (Two's complement of IntBits bits, counts of any size.)           *)
BitsMove ==
  LET b == combined.by
      moved(i) ==
        CASE combined.op = "<<=" -> i - b \in 0 .. IntBits - 1 /\ Bit(combined.from, i - b)
          [] combined.op = ">>=" -> IF i + b \in 0 .. IntBits - 1 THEN Bit(combined.from, i + b)
                                    ELSE combined.from < 0
          [] combined.op = "rol=" -> Bit(combined.from, (i - b) % IntBits)
          [] combined.op = "ror=" -> Bit(combined.from, (i + b) % IntBits)
  IN combined.op \in {"<<=", ">>=", "rol=", "ror="} =>
       /\ Signed(combined.to) = combined.to
       /\ \A i \in 0 .. IntBits - 1 : Bit(combined.to, i) = moved(i)
=============================================================================
