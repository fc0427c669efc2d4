------------------------------ MODULE Printer ------------------------------
(***************************************************************************)
(* A reference printer for the parser: the shortest text of a program by   *)
(* the precedence table of docs/reference/vcl-operators.md, with as few    *)
(* parentheses as it allows.  A source is parsed; the program is printed,  *)
(* and what was printed is parsed in its turn.                             *)
(***************************************************************************)
EXTENDS Parser

CONSTANT Programs  \* programs to print and parse

VARIABLE origin  \* the program that was printed, or <<>>

printerVars == <<parseVars, origin>>

K(word) == <<<<"K", word>>>>
I(word) == <<<<"I", word>>>>
S(text) == <<<<"S", text>>>>
O(sign) == <<<<"O", sign>>>>
P(sign) == <<<<"P", sign>>>>
N(sign, number) == (IF sign = "" THEN <<>> ELSE O(sign)) \o <<<<"N", number>>>>

(* What is printed for each member, one after the other.                    *)
All(Text(_), nodes) == FlattenSeq([n \in DOMAIN nodes |-> Text(nodes[n])])

(* With commas between them.                                                *)
Commas(Text(_), nodes) ==
  FlattenSeq([n \in DOMAIN nodes |->
                (IF n = 1 THEN <<>> ELSE P(",")) \o Text(nodes[n])])

-----------------------------------------------------------------------------
(* Expressions: the higher the rank the tighter.                            *)

Rank(op) ==
  CASE op = " " -> 8
    [] op \in {"*", "/", "%"} -> 7
    [] op \in {"+", "-"} -> 6
    [] op \in {"~", "!~"} -> 5
    [] op \in {"<", ">", "<=", ">="} -> 4
    [] op \in {"==", "!="} -> 3
    [] op = "&&" -> 2
    [] op = "||" -> 1

RECURSIVE Shown(_, _), ShownStatement(_)

ShownList(nodes) == Commas(LAMBDA e : Shown(e, 1), nodes)

(* In parentheses if it is looser than what stands around it.               *)
Shown(e, rank) ==
  LET body ==
        CASE e[1] = "binary" ->
               Shown(e[3], Rank(e[2])) \o (IF e[2] = " " THEN <<>> ELSE O(e[2]))
                 \o Shown(e[4], Rank(e[2]) + 1)
          [] e[1] = "unary" ->
               O(e[2]) \o (IF e[3][1] = "number" THEN P("(") \o Shown(e[3], 1) \o P(")")
                                                 ELSE Shown(e[3], 9))
          [] e[1] = "number" -> N(e[2], e[3])
          [] e[1] = "string" -> S(e[2])
          [] e[1] = "id" -> I(e[2])
          [] e[1] = "bool" -> K(e[2])
          [] e[1] = "call" -> I(e[2]) \o P("(") \o ShownList(e[3]) \o P(")")
          [] e[1] = "member" -> Shown(e[2], 9) \o P(".") \o I(e[3])
          [] e[1] = "ternary" -> K("if") \o P("(") \o ShownList(Tail(e)) \o P(")")
  IN IF e[1] = "binary" /\ Rank(e[2]) < rank THEN P("(") \o body \o P(")") ELSE body

-----------------------------------------------------------------------------
(* Statements and declarations.                                             *)

Body(nodes) == P("{") \o All(ShownStatement, nodes) \o P("}")

End == P(";")

(* An expression that may be missing.                                       *)
Given(nodes) == All(LAMBDA e : Shown(e, 1), nodes)

ShownCase(c) ==
  (CASE c[1] = "exact" -> K("case") \o S(c[2])
     [] c[1] = "regex" -> K("case") \o O("~") \o S(c[2])
     [] c[1] = "default" -> K("default"))
    \o P(":") \o All(ShownStatement, c[3]) \o K(c[4]) \o End

Named(word) == IF word = "" THEN <<>> ELSE I(word)

Signed(sign) == IF sign = "" THEN <<>> ELSE O(sign)

ShownOperator(op) ==
  IF op \in {"rol=", "ror="} THEN I(IF op = "rol=" THEN "rol" ELSE "ror") \o O("=")
                             ELSE O(op)

Action(word) == IF word \in ReturnActions THEN K(word) ELSE I(word)

ShownStatement(s) ==
  CASE s[1] = "set" -> K("set") \o I(s[2]) \o
         ShownOperator(s[3]) \o Shown(s[4], 1) \o End
    [] s[1] = "add" -> K("add") \o I(s[2]) \o O("=") \o Shown(s[3], 1) \o End
    [] s[1] = "assign" -> I(s[2]) \o O("=") \o Shown(s[3], 1) \o End
    [] s[1] \in {"unset", "remove"} -> K(s[1]) \o I(s[2]) \o Signed(s[3]) \o End
    [] s[1] = "call" -> K("call") \o I(s[2]) \o P("(") \o ShownList(s[3]) \o P(")") \o End
    [] s[1] \in {"esi", "restart"} -> K(s[1]) \o End
    [] s[1] = "goto" -> K("goto") \o I(s[2]) \o End
    [] s[1] = "label" -> I(s[2]) \o P(":")
    [] s[1] = "hash_data" -> K(s[1]) \o P("(") \o Shown(s[2], 1) \o P(")") \o End
    [] s[1] \in {"log", "synthetic"} -> K(s[1]) \o Shown(s[2], 1) \o End
    [] s[1] = "synthetic.base64" -> I(s[1]) \o Shown(s[2], 1) \o End
    [] s[1] = "return" ->
         K("return") \o (IF s[2] = "" THEN <<>> ELSE P("(") \o Action(s[2]) \o P(")")) \o End
    [] s[1] = "return value" -> K("return") \o Shown(s[2], 1) \o End
    [] s[1] = "error" -> K("error") \o Given(Tail(s)) \o End
    [] s[1] = "declare" -> I("declare") \o I("local") \o I(s[2]) \o I(s[3])
         \o (IF s[4] = <<>> THEN <<>> ELSE O("=") \o Given(s[4])) \o End
    [] s[1] = "expression" -> Shown(s[2], 1) \o End
    [] s[1] = "empty" -> K("pragma") \o End
    [] s[1] = "block" -> Body(s[2])
    [] s[1] = "if" -> K("if") \o P("(") \o Shown(s[2], 1) \o P(")") \o Body(s[3])
         \o (IF s[4] = <<>> THEN <<>> ELSE K("else") \o Body(s[4][1]))
    [] s[1] = "switch" -> K("switch") \o P("(") \o Shown(s[2], 1) \o P(")")
         \o P("{") \o All(ShownCase, s[3]) \o P("}")

ShownEntry(e) ==
  (IF e[1] THEN O("!") ELSE <<>>) \o S(e[2])
    \o (IF e[3] = NoLength THEN <<>>
        ELSE O("/") \o <<<<"N", CHOOSE n \in DOMAIN Lengths : Lengths[n] = e[3]>>>>)
    \o End

ShownRow(r) ==
  S(r[1]) \o P(":") \o (IF r[2] = "-" THEN N("-", r[3]) ELSE S(r[3])) \o P(",")

(* Adjacent strings are one value.                                          *)
Strung(texts) == All(S, texts)

ShownSetting(f) == P(".") \o I(f[2]) \o O("=") \o Strung(f[3]) \o End

ShownField(f) ==
  P(".") \o I(f[2]) \o O("=")
    \o (IF f[1] = "probe" THEN P("{") \o All(ShownSetting, f[3]) \o P("}") ELSE S(f[3]))
    \o End

ShownMember(m) ==
  IF m[1] = "option" THEN ShownField(m)
  ELSE P("{") \o P(".") \o I("backend") \o O("=") \o I(m[2]) \o End
         \o (IF m[3] = "" THEN <<>>
             ELSE P(".") \o I("weight") \o O("=") \o N("", m[3]) \o End)
         \o P("}")

ShownParam(p) == I(p[1]) \o I(p[2])

ShownParams(params) ==
  IF params = <<>> THEN <<>> ELSE P("(") \o Commas(ShownParam, params) \o P(")")

Braced(Text(_), nodes) == P("{") \o All(Text, nodes) \o P("}")

ShownDeclaration(d) ==
  CASE d[1] = "sub" -> K("sub") \o I(d[2]) \o ShownParams(d[3]) \o Named(d[4])
         \o Braced(ShownStatement, d[5])
    [] d[1] = "acl" -> K("acl") \o I(d[2]) \o Braced(ShownEntry, d[3])
    [] d[1] = "include" -> K("include") \o S(d[2]) \o End
    [] d[1] = "import" -> K("import") \o I(d[2]) \o End
    [] d[1] = "table" -> K("table") \o I(d[2]) \o Named(d[3]) \o Braced(ShownRow, d[4])
    [] d[1] = "backend" -> K("backend") \o I(d[2]) \o Braced(ShownField, d[3])
    [] d[1] = "director" -> K("director") \o I(d[2]) \o I(d[3]) \o Braced(ShownMember, d[4])
    [] d[1] \in {"penaltybox", "ratecounter"} -> K(d[1]) \o I(d[2]) \o P("{") \o P("}")
    [] d[1] = "comment" -> <<<<"C", d[2]>>>>

Printed(declarations) == All(ShownDeclaration, declarations)

-----------------------------------------------------------------------------
(* A source is parsed, or a program is printed and then parsed; an accepted *)
(* source is printed and parsed again.                                      *)

PrinterInit ==
  \/ ParseInit /\ origin = <<>>
  \/ ParseStart /\ origin \in Programs /\ source = Printed(origin)

Again ==
  /\ parsing = "done"
  /\ origin = <<>>
  /\ origin' = program
  /\ source' = Printed(program)
  /\ current' = 1
  /\ program' = <<>>
  /\ parsing' = "on"

(* An error is thrown, or the second program is there.                      *)
Answered ==
  /\ parsing \in {"done", "failed"}
  /\ parsing = "failed" \/ origin # <<>>
  /\ UNCHANGED printerVars

PrinterNext ==
  \/ ParseNext /\ UNCHANGED origin
  \/ Again
  \/ Answered

-----------------------------------------------------------------------------
(* Type invariant: the parser stands at a token or behind the last one, and *)
(* every declaration has a kind.                                            *)
ParseTypeOK ==
  /\ current \in 1..Len(source) + 1
  /\ parsing \in {"on", "done", "failed"}
  /\ parsing = "done" => current = Len(source) + 1
  /\ \A n \in DOMAIN program : program[n][1] \in Declarations \cup {"comment"}

(* Precedence and associativity are the ones of docs/reference/             *)
(* vcl-operators.md, an else belongs to its if, a body to its case, and no  *)
(* construct takes a token of the next one: what is printed of a program,   *)
(* written by hand or accepted from any source, is accepted, and is that    *)
(* program again.                                                           *)
RoundTrip ==
  /\ parsing = "done" /\ origin # <<>> => program = origin
  /\ parsing = "failed" => origin = <<>>

(* Names, values and operators, in order.                                   *)
Words(text) == SelectSeq(text, LAMBDA t : t[1] \in {"I", "S", "N", "O"})

Spelled(text) == [n \in DOMAIN Words(text) |-> Words(text)[n][2]]

(* Constructs of which the parser drops words.                              *)
Lossy == {"declare", "std.log", "add", "acl", "backend", "director", "table", "vcl",
          "pragma", "include", "penaltybox", "ratecounter"}

(* Outside these constructs an accepted source keeps all of its words: no   *)
(* statement, branch, operand or argument is lost, or moved.                *)
WordsKept ==
  \/ parsing # "done"
  \/ origin # <<>>
  \/ \E n \in DOMAIN source : source[n][2] \in Lossy
  \/ Spelled(source) = Spelled(Printed(program))
=============================================================================
