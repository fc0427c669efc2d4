--------------------------- MODULE MCInterpreter ---------------------------
(* Programs for TLC: bodies of vcl_* subroutines put together from a few    *)
(* snippets, over a custom subroutine c, a typed one f, and vcl_error.      *)
EXTENDS Interpreter

Stmt(kind, arg) == [kind |-> kind, arg |-> arg, value |-> FALSE, cases |-> <<>>]

Case(to, tested, through) == [to |-> to, tested |-> tested, through |-> through]

With(kind, cases, nested) == <<[Stmt(kind, "") EXCEPT !.cases = cases]>> \o nested

Set      == <<Stmt("set", "")>>
CallC    == <<Stmt("call", "c")>>
EvalF    == <<Stmt("eval", "f")>>
GotoA    == <<Stmt("goto", "a")>>
LabelA   == <<Stmt("label", "a")>>
Bare     == <<Stmt("return", "")>>
Ret(v)   == <<Stmt("return", v)>>
Value    == <<[Stmt("return", "x") EXCEPT !.value = TRUE]>>
Err      == <<Stmt("error", "")>>
Again    == <<Stmt("restart", "")>>
Synth    == <<Stmt("synthetic", "")>>
Esi      == <<Stmt("esi", "")>>
Unknown  == <<Stmt("call", "nobody")>>

(* if (...) { a } else { b }                                                *)
IfElse(a, b) ==
  With("if", <<Case(Len(a), TRUE, FALSE), Case(Len(a) + Len(b), TRUE, FALSE)>>, a \o b)

Block(a) == With("block", <<Case(Len(a), FALSE, FALSE)>>, a)

(* switch with a first case that falls through into the second.             *)
Switch(a, b, default) ==
  With("switch", <<Case(Len(a), TRUE, TRUE),
                   Case(Len(a) + Len(b), ~default, FALSE)>>, a \o b)

(* Two or three snippets in a row: control flow of one subroutine.          *)
Snippets == {LabelA, GotoA, Set, IfElse(GotoA, Set), IfElse(Block(LabelA), Ret("pass")),
             Switch(Set, GotoA, FALSE), Switch(GotoA, Err, TRUE), Err, CallC}

Mains == {a \o b \o c : a \in Snippets, b \in Snippets, c \in Snippets \cup {<<>>}}

(* ... and of several.                                                      *)
Callers == {CallC, EvalF \o CallC, Err \o LabelA, IfElse(GotoA \o CallC, EvalF) \o LabelA,
            Switch(CallC, Again, TRUE), CallC \o Err}

CalleeBodies == {Bare \o Set, Ret("pass"), Ret("purge") \o Set, Value, GotoA \o Set \o LabelA,
                 IfElse(Err, Block(GotoA)) \o Again \o LabelA, CallC, EvalF \o Ret("pass"), Synth}

TypedBodies == {IfElse(Value, CallC), EvalF \o Value, Err, GotoA \o Value \o LabelA}

ErrorBodies == {Set, Err, IfElse(GotoA, Ret("deliver")) \o Synth \o LabelA \o CallC}

Program(root, main, c, f, e) ==
  [root  |-> root,
   typed |-> {"f"},
   code  |-> [s \in {root, "c", "f", "vcl_error"} |->
                CASE s = root -> main
                  [] s = "c"  -> c
                  [] s = "f"  -> f
                  [] OTHER    -> e]]

WithoutErrorSub(p) == [p EXCEPT !.code = [s \in DOMAIN p.code \ {"vcl_error"} |-> p.code[s]]]

(* A typed subroutine that is called, and a call that leads nowhere.        *)
TypedCall ==
  {[Program("vcl_hash", CallC \o Unknown, c, Value, Set) EXCEPT !.typed = {"c", "f"}] :
     c \in {Value, Ret("pass"), Bare, Ret("purge")}}

MCPrograms ==
  LET flow == {Program("vcl_recv", m, IfElse(Ret("pass"), Set), Value, Set) : m \in Mains}
  IN UNION {
       flow,
       {WithoutErrorSub(p) : p \in flow},
       {Program(r, m, c, f, e) : r \in {"vcl_recv", "vcl_deliver"}, m \in Callers,
                                 c \in CalleeBodies, f \in TypedBodies, e \in ErrorBodies},
       {Program(r, m, c, Value, Set) : r \in Roots, m \in {Set, Err, Again, Synth, Esi, CallC},
                                       c \in CalleeBodies},
       TypedCall}
=============================================================================
