------------------------------- MODULE Parser -------------------------------
(***************************************************************************)
(* VCLParser of src/src/vcl-parser-impl.ts: from tokens to the program.    *)
(*                                                                         *)
(* A token is <<type, value>>: K(eyword), I(dentifier), S(tring), N(umber),*)
(* O(perator), P(unctuation) or C(omment).  The grammar is kept as data: a *)
(* construct is a sequence of items, and what its parse function leaves in *)
(* the tree are the parts that its items leave, in order.  Locations and   *)
(* the raw text of subroutines are left out, and so are branches for       *)
(* tokens the lexer never makes: "?", REGEX, and identifiers that begin    *)
(* with a dot.                                                             *)
(***************************************************************************)
EXTENDS Integers, SequencesExt, FiniteSetsExt

CONSTANTS
  Sources,   \* sets of sequences of tokens to parse
  Headers,   \* the identifiers of headers, ...
  Variables, \* ... those that begin with "var.", ...
  Dotted,    \* ... and all that hold a dot
  Addresses, \* the family and prefix length a string gives in an ACL
  Lengths,   \* the prefix lengths of numbers, as integers
  NoLength,
  Big        \* the number 2^63

VARIABLES
  source,
  current,
  program,  \* the declarations, in one list and in order
  parsing   \* "on", "done", or "failed" once an error is thrown

parseVars == <<source, current, program, parsing>>

Peek(i) == IF i <= Len(source) THEN source[i] ELSE <<"EOF", "">>

Is(i, type) == Peek(i)[1] = type

(* What a parse function returns: a node, and the place behind it; none if  *)
(* it throws.                                                               *)
Fail == [node |-> <<>>, next |-> 0]

Got(node, next) == [node |-> node, next |-> next]

Failed(r) == r.next = 0

(* What r is followed by.                                                   *)
Then(r, More(_)) == IF Failed(r) THEN Fail ELSE More(r)

(* r, and after it any punctuation.                                         *)
Closed(r) ==
  IF Failed(r) \/ ~Is(r.next, "P") THEN Fail ELSE Got(r.node, r.next + 1)

(* The place behind an optional token.                                      *)
Behind(i, token) == IF Peek(i) = token THEN i + 1 ELSE i

-----------------------------------------------------------------------------
(* Expressions.                                                             *)

RECURSIVE Binary(_, _), Chain(_, _), Concat(_), Primary(_), List(_, _), Members(_),
          Construct(_, _, _)

(* Mutant of Levels: as in C, ~ binds looser than < and ==.                 *)
LevelsOfC == <<{"||"}, {"&&"}, {"~", "!~"}, {"==", "!="}, {"<", ">", "<=", ">="},
               {"+", "-"}, {"*", "/", "%"}>>

(* From loose to tight; implicit concatenation is tighter, and unary        *)
(* operators are tighter still.                                             *)
Levels == <<{"||"}, {"&&"}, {"==", "!="}, {"<", ">", "<=", ">="}, {"~", "!~"},
            {"+", "-"}, {"*", "/", "%"}>>

Expression(i) == Binary(1, i)

Binary(level, i) ==
  IF level > Len(Levels) THEN Concat(Primary(i))
                         ELSE Chain(level, Binary(level + 1, i))

(* A header equals no number.                                               *)
Mismatch(op, left, right) ==
  op \in {"==", "!="} /\ left[1] = "id" /\ left[2] \in Headers /\ right[1] = "number"

(* Operators of a level associate to the left.                              *)
Chain(level, left) ==
  LET op == Peek(left.next)[2]
  IN IF Failed(left) \/ ~Is(left.next, "O") \/ op \notin Levels[level] THEN left
     ELSE Then(Binary(level + 1, left.next + 1), LAMBDA right :
            IF Mismatch(op, left.node, right.node) THEN Fail
            ELSE Chain(level, Got(<<"binary", op, left.node, right.node>>, right.next)))

IsIf(i) == Peek(i) = <<"K", "if">> /\ Peek(i + 1)[2] = "("

StartsValue(i) ==
  \/ Peek(i)[1] \in {"S", "N"}
  \/ Is(i, "I") /\ Peek(i)[2] # "declare"
  \/ IsIf(i)

Concat(left) ==
  IF Failed(left) \/ ~StartsValue(left.next) THEN left
  ELSE Then(Primary(left.next), LAMBDA right :
         Concat(Got(<<"binary", " ", left.node, right.node>>, right.next)))

(* An integer literal fits 64 bits; -2^63 does only as one literal.         *)
NumberLiteral(i, sign) ==
  IF sign = "" /\ Peek(i)[2] = Big THEN Fail
                                   ELSE Got(<<"number", sign, Peek(i)[2]>>, i + 1)

(* Expressions between commas; what follows the last one is not looked at.  *)
List(i, nodes) ==
  Then(Expression(i), LAMBDA r :
    IF Peek(r.next) = <<"P", ",">> THEN List(r.next + 1, Append(nodes, r.node))
                                   ELSE Got(Append(nodes, r.node), r.next))

(* Members of a call: ".name", any number of them.                          *)
Members(r) ==
  IF Failed(r) \/ Peek(r.next) # <<"P", ".">> THEN r
  ELSE IF ~Is(r.next + 1, "I") THEN Fail
  ELSE Members(Got(<<"member", r.node, Peek(r.next + 1)[2]>>, r.next + 2))

(* i is at the "(".                                                         *)
Arguments(i) ==
  Closed(IF Peek(i + 1) = <<"P", ")">> THEN Got(<<>>, i + 1) ELSE List(i + 1, <<>>))

FunctionCall(name, i) ==
  Then(Arguments(i), LAMBDA args : Members(Got(<<"call", name, args.node>>, args.next)))

IfCallShape == <<"(", "expr", ",", "expr", ",", "expr", ")">>

Unary(i) ==
  IF Peek(i) = <<"O", "-">> /\ Is(i + 1, "N") THEN NumberLiteral(i + 1, "-")
  ELSE Then(Primary(i + 1), LAMBDA r : Got(<<"unary", Peek(i)[2], r.node>>, r.next))

Primary(i) ==
  CASE Peek(i) = <<"P", "(">> -> Closed(Expression(i + 1))
    [] Is(i, "S") -> Got(<<"string", Peek(i)[2]>>, i + 1)
    [] Is(i, "N") -> NumberLiteral(i, "")
    [] Is(i, "I") -> IF Peek(i + 1) = <<"P", "(">> THEN FunctionCall(Peek(i)[2], i + 1)
                                                   ELSE Got(<<"id", Peek(i)[2]>>, i + 1)
    [] Peek(i) \in {<<"K", "true">>, <<"K", "false">>} -> Got(<<"bool", Peek(i)[2]>>, i + 1)
    [] IsIf(i) -> Construct("ternary", IfCallShape, i + 1)
    [] Peek(i) \in {<<"O", "!">>, <<"O", "-">>} -> Unary(i)
    [] OTHER -> Fail

-----------------------------------------------------------------------------
(* Constructs as sequences of items.  An item that is a mark stands for any *)
(* punctuation, and "=" for any operator: consume looks at the type of the  *)
(* token only.                                                              *)

Signs == {"(", ")", "{", "}", ";", ":", ","}

SetShape         == <<"id", "assign", "expr", ";">>
UnsetShape       == <<"id", "star", ";">>
AddShape         == <<"id", "=", "expr", ";">>
RemoveShape      == <<"id", "star", ";">>
CallShape        == <<"id", "args", ";">>
SyntheticShape   == <<"expr", ";">>
Base64Shape      == <<"expr", ";">>
HashDataShape    == <<"(", "expr", ")", ";">>
LogShape         == <<"expr", ";">>
StdLogShape      == <<"(", "expr", ")", ";">>
EsiShape         == <<";">>
GotoShape        == <<"id", ";">>
RestartShape     == <<";">>
DeclareShape     == <<"local", "variable", "id", "init", ";">>
AssignShape      == <<"=", "expr", ";">>
IfShape          == <<"(", "expr", ")", "block", "else">>
SwitchShape      == <<"(", "expr", ")", "{", "cases", "}">>
BlockShape       == <<"statements", "}">>

SubShape         == <<"name", "params", "type", "{", "statements", "}">>
AclShape         == <<"name", "{", "entries", "}">>
IncludeShape     == <<"text", "end">>
ImportShape      == <<"id", "end">>
TableShape       == <<"name", "type", "{", "rows", "}">>
BackendShape     == <<"name", "{", "properties", "}">>
PropertyShape    == <<"name", "=", "value", "end">>
ProbeShape       == <<"name", "=", "{", "settings", "}", "end">>
SettingShape     == <<"name", "=", "values", "end">>
DirectorShape    == <<"name", "name", "{", "members", "}">>
OptionShape      == <<"name", "=", "quorum", "end">>
BackendOfShape   == <<"name", "=", "name", "end">>
WeightShape      == <<"name", "=", "number", "end">>
PenaltyboxShape  == <<"name", "{", "anything", "}">>
RatecounterShape == <<"name", "{", "anything", "}">>

Simple == [
  set |-> SetShape, unset |-> UnsetShape, add |-> AddShape, remove |-> RemoveShape,
  call |-> CallShape, synthetic |-> SyntheticShape, hash_data |-> HashDataShape,
  log |-> LogShape, esi |-> EsiShape, goto |-> GotoShape, restart |-> RestartShape,
  if |-> IfShape]

RECURSIVE Items(_, _, _), Item(_, _), Many(_, _, _, _), CaseBody(_, _, _, _)

Construct(kind, shape, i) ==
  Then(Items(shape, i, <<>>), LAMBDA r : Got(<<kind>> \o r.node, r.next))

Items(shape, i, parts) ==
  IF shape = <<>> THEN Got(parts, i)
  ELSE Then(Item(Head(shape), i), LAMBDA r : Items(Tail(shape), r.next, parts \o r.node))

(* The place of the first token from i on that is not of the type.          *)
Leave(i, type) == Min({j \in i..Len(source) + 1 : ~Is(j, type)})

(* Mutant of Through: it goes one too far at the end.                       *)
ThroughOver(i) ==
  Min({j \in i..Len(source) : Peek(j) = <<"P", ";">>} \cup {Len(source) + 1}) + 1

(* Skip through the next semicolon, or to the end.                          *)
Through(i) ==
  Behind(Min({j \in i..Len(source) : Peek(j) = <<"P", ";">>} \cup {Len(source) + 1}),
         <<"P", ";">>)

Take(i, types) == IF Peek(i)[1] \in types THEN Got(<<Peek(i)[2]>>, i + 1) ELSE Fail

Drop(i, type) == IF Is(i, type) THEN Got(<<>>, i + 1) ELSE Fail

(* What r leaves, as one part.                                              *)
Part(r) == IF Failed(r) THEN Fail ELSE Got(<<r.node>>, r.next)

(* The nodes of repeated constructs, up to one of the stops or the end.     *)
Until(kind, stops, i) == Many(kind, stops \cup {<<"EOF", "">>}, i, <<>>)

(* Mutant of Many: the last node comes first.                               *)
ManyBackwards(kind, stops, i, nodes) ==
  IF Peek(i) \in stops THEN Got(<<nodes>>, i)
  ELSE Then(Item(kind, i), LAMBDA r : Many(kind, stops, r.next, r.node \o nodes))

Many(kind, stops, i, nodes) ==
  IF Peek(i) \in stops THEN Got(<<nodes>>, i)
  ELSE Then(Item(kind, i), LAMBDA r : Many(kind, stops, r.next, nodes \o r.node))

Brace == {<<"P", "}">>}

-----------------------------------------------------------------------------
(* Statements.                                                              *)

AssignmentOperators == {"=", "+=", "-=", "*=", "/=", "%=", "&&=", "||=", "&=", "|=",
                        "^=", "<<=", ">>="}

Rotations == [rol |-> "rol=", ror |-> "ror="]

Assignment(i) ==
  IF Is(i, "O") /\ Peek(i)[2] \in AssignmentOperators THEN Take(i, {"O"})
  ELSE IF Is(i, "I") /\ Peek(i)[2] \in DOMAIN Rotations /\ Peek(i + 1)[2] = "="
    THEN Got(<<Rotations[Peek(i)[2]]>>, i + 2)
    ELSE Fail

(* Without braces the statements go on to an else, or to the end.           *)
Block(i) ==
  IF Peek(i) = <<"P", "{">>
    THEN Closed(Until("statement", Brace \cup {<<"K", "else">>}, i + 1))
    ELSE Until("statement", {<<"K", "else">>}, i)

(* Comments before an else are dropped, and so they are if there is none.   *)
Else(i) ==
  LET at == Leave(i, "C")
  IN CASE Peek(at) \in {<<"K", "elseif">>, <<"K", "elsif">>} ->
            Part(Part(Part(Construct("if", IfShape, at + 1))))
       [] Peek(at) = <<"K", "else">> /\ Peek(at + 1) = <<"K", "if">> ->
            Part(Part(Part(Construct("if", IfShape, at + 2))))
       [] Peek(at) = <<"K", "else">> /\ Peek(at + 1) # <<"K", "if">> ->
            Part(Block(at + 1))
       [] OTHER -> Got(<<<<>>>>, at)

ReturnActions == {"lookup", "pass", "pipe", "error", "restart", "hash", "deliver",
                  "deliver_stale", "fetch", "purge", "hit_for_pass", "upgrade"}

Return(i) ==
  CASE Peek(i) = <<"P", ";">> -> Got(<<"return", "">>, i + 1)
    [] Is(i, "K") /\ Peek(i)[2] \in ReturnActions /\ Peek(i + 1)[2] = ";" ->
         Got(<<"return", Peek(i)[2]>>, i + 2)
    [] Peek(i) = <<"P", "(">> -> Construct("return", <<"(", "name", ")", ";">>, i)
    [] OTHER -> Construct("return value", <<"expr", ";">>, i)

ErrorStatus(i) ==
  CASE Is(i, "N") -> Got(<<"number", "", Peek(i)[2]>>, i + 1)
    [] Is(i, "I") -> Primary(i)
    [] OTHER -> Fail

Error(i) ==
  IF Peek(i) = <<"P", ";">> THEN Got(<<"error">>, i + 1)
  ELSE Then(ErrorStatus(i), LAMBDA status :
         IF Peek(status.next) = <<"P", ";">>
           THEN Got(<<"error", status.node>>, status.next + 1)
           ELSE Then(Construct("error", <<"expr", ";">>, status.next), LAMBDA r :
                  Got(<<"error", status.node, r.node[2]>>, r.next)))

(* A case: how it matches, its label, its body, and whether it falls on.    *)
Case(i) ==
  LET label == Behind(i + 1, <<"O", "~">>)
      kind  == IF label = i + 1 THEN "exact" ELSE "regex"
  IN CASE Is(i, "C") -> Got(<<>>, i + 1)
       [] Peek(i) = <<"K", "case">> /\ Is(label, "S") /\ Is(label + 1, "P") ->
            CaseBody(kind, Peek(label)[2], label + 2, <<>>)
       [] Peek(i) = <<"K", "default">> /\ Is(i + 1, "P") ->
            CaseBody("default", "", i + 2, <<>>)
       [] OTHER -> Fail

CaseBody(kind, label, i, body) ==
  CASE Is(i, "C") -> CaseBody(kind, label, i + 1, body)
    [] Peek(i) \in {<<"K", "break">>, <<"K", "fallthrough">>} ->
         Closed(Got(<<<<kind, label, body, Peek(i)[2]>>>>, i + 1))
    [] Peek(i) \in {<<"K", "case">>, <<"K", "default">>, <<"EOF", "">>} \cup Brace -> Fail
    [] OTHER ->
         Then(Item("statement", i), LAMBDA r : CaseBody(kind, label, r.next, body \o r.node))

SwitchOk(cases) ==
  /\ cases # <<>>
  /\ Last(cases)[4] = "break"
  /\ \A a, b \in DOMAIN cases :
       cases[a][1] = cases[b][1] /\ cases[a][2] = cases[b][2] => a = b

Switch(i) ==
  Then(Construct("switch", SwitchShape, i), LAMBDA r :
    IF SwitchOk(r.node[3]) THEN r ELSE Fail)

KeywordStatement(word, i) ==
  CASE word \in DOMAIN Simple -> Construct(word, Simple[word], i)
    [] word = "return" -> Return(i)
    [] word = "error" -> Error(i)
    [] word = "switch" -> Switch(i)
    [] word = "include" -> IF Is(i, "S") THEN Got(<<"empty">>, Behind(i + 1, <<"P", ";">>))
                                         ELSE Fail
    [] word = "pragma" -> Got(<<"empty">>, Through(i))
    [] OTHER -> Fail

(* A std.log without parentheses skips to its semicolon, which must come.   *)
StdLog(i) ==
  IF Peek(i) = <<"P", "(">> THEN Construct("log", StdLogShape, i)
  ELSE IF Peek(Through(i) - 1) # <<"P", ";">> THEN Fail
  ELSE Got(<<"log", <<"string", "Log message">>>>, Through(i))

IdentifierStatement(word, i) ==
  CASE word = "declare" -> Construct("declare", DeclareShape, i)
    [] word = "synthetic.base64" -> Construct(word, Base64Shape, i)
    [] word = "std.log" -> StdLog(i)
    [] word \in Dotted /\ Peek(i) = <<"O", "=">> ->
         Then(Construct(word, AssignShape, i), LAMBDA r : Got(<<"assign">> \o r.node, r.next))
    [] OTHER ->
         IF Peek(i) # <<"P", "(">> THEN Fail
         ELSE Then(Closed(FunctionCall(word, i)), LAMBDA r :
                Got(<<"expression", r.node>>, r.next))

Statement(i) ==
  CASE Is(i, "I") /\ Peek(i + 1) = <<"P", ":">> -> Got(<<"label", Peek(i)[2]>>, i + 2)
    [] Is(i, "C") -> Got(<<"empty">>, i + 1)
    [] Peek(i) = <<"P", "{">> -> Construct("block", BlockShape, i + 1)
    [] Is(i, "K") -> KeywordStatement(Peek(i)[2], i + 1)
    [] Is(i, "I") /\ Peek(i + 1) # <<"P", ":">> -> IdentifierStatement(Peek(i)[2], i + 1)
    [] OTHER -> Fail

-----------------------------------------------------------------------------
(* Declarations.                                                            *)

(* ".name = value" as the shape says; any other token is skipped.           *)
Field(kind, shape, i) ==
  IF Peek(i) = <<"P", ".">> THEN Part(Construct(kind, shape, i + 1))
                            ELSE Got(<<>>, i + 1)

Property(i) ==
  IF Peek(i + 3) = <<"P", "{">> THEN Field("probe", ProbeShape, i)
                                ELSE Field("property", PropertyShape, i)

ChoiceShape(name) ==
  CASE name = "backend" -> BackendOfShape
    [] name = "weight" -> WeightShape
    [] OTHER -> PropertyShape

(* The last value of the name, if it has one.                               *)
LastOf(fields, name) ==
  LET named == SelectSeq(fields, LAMBDA f : f[2] = name)
  IN IF named = <<>> THEN "" ELSE Last(named)[3]

(* A backend of a director, or an option; a block without a backend, and    *)
(* any token before a block or a dot, leaves nothing.                       *)
Member(i) ==
  IF Peek(i) # <<"P", "{">> THEN Field("option", OptionShape, i)
  ELSE Then(Closed(Until("choice", Brace, i + 1)), LAMBDA r :
         Got(LET backend == LastOf(r.node[1], "backend")
             IN IF backend = "" THEN <<>>
                ELSE <<<<"member", backend, LastOf(r.node[1], "weight")>>>>, r.next))

(* The prefix lengths of a family; localhost takes none.                    *)
PrefixLengths == [v4 |-> 0..32, v6 |-> 0..128, localhost |-> {}]

(* An entry of an ACL; "!" and a token that is no string leave nothing.     *)
Entry(i) ==
  LET at     == Behind(i, <<"O", "!">>)
      slash  == Behind(at + 1, <<"O", "/">>)
      sized  == slash > at + 1 /\ Is(slash, "N")
      known  == Addresses[Peek(at)[2]]
      length == IF sized THEN Lengths[Peek(slash)[2]] ELSE known.length
      end    == IF sized THEN slash + 1 ELSE slash
  IN IF ~Is(at, "S") THEN Got(<<>>, at + 1)
     ELSE IF \/ Peek(at)[2] \notin DOMAIN Addresses
             \/ length \notin PrefixLengths[known.family] \cup {NoLength}
             \/ known.family = "localhost" /\ slash > at + 1
       THEN Fail
     ELSE Closed(Got(<<<<at > i, known.ip, length>>>>, end))

(* A row of a table; a minus before a word is dropped.                      *)
Row(i) ==
  LET at    == Behind(i + 2, <<"O", "-">>)
      sign  == IF at > i + 2 /\ Is(at, "N") THEN "-" ELSE ""
      value == Take(at, IF at > i + 2 THEN {"N", "I", "K"} ELSE {"S", "N", "I", "K"})
  IN CASE Is(i, "C") -> Got(<<>>, i + 1)
       [] Is(i, "S") /\ Is(i + 1, "P") /\ ~Failed(value) ->
            Got(<<<<Peek(i)[2], sign, Peek(at)[2]>>>>, Behind(at + 1, <<"P", ",">>))
       [] OTHER -> Fail

Param(i) ==
  Then(Part(Items(<<"id", "id">>, i, <<>>)), LAMBDA r :
    IF Peek(r.next) = <<"P", ")">> THEN r ELSE Closed(r))

-----------------------------------------------------------------------------
(* What an item takes, and the parts it leaves.                             *)

Values == {"S", "N", "I", "K"}

Stars == {"*", "-*"}

Repeated == [
  statements |-> "statement", cases |-> "case", entries |-> "entry", rows |-> "row",
  properties |-> "property", settings |-> "setting", members |-> "member",
  anything |-> "token"]

(* A token that may be missing leaves its value or "".                      *)
Maybe(i, types) == IF Peek(i)[1] \in types THEN Take(i, types) ELSE Got(<<"">>, i)

(* Adjacent strings make one value.                                         *)
Strings(i) ==
  Got(<<[j \in 1..Leave(i, "S") - i |-> Peek(i + j - 1)[2]]>>, Leave(i, "S"))

Item(item, i) ==
  CASE item \in Signs -> Drop(i, "P")
    [] item = "=" -> Drop(i, "O")
    [] item = "end" -> Got(<<>>, Behind(i, <<"P", ";">>))
    [] item = "local" -> Got(<<>>, IF Is(i, "I") THEN i + 1 ELSE i)
    [] item = "id" -> Take(i, {"I"})
    [] item = "name" -> Take(i, {"I", "K"})
    [] item = "text" -> Take(i, {"S"})
    [] item = "number" -> Take(i, {"N"})
    [] item = "variable" -> IF Peek(i)[2] \in Variables THEN Take(i, {"I"}) ELSE Fail
    [] item = "type" -> Maybe(i, {"I"})
    [] item = "star" -> IF Peek(i)[2] \in Stars THEN Take(i, {"O"}) ELSE Got(<<"">>, i)
    [] item = "value" -> Maybe(i, Values)
    [] item = "values" -> IF Is(i, "S") THEN Strings(i) ELSE Part(Maybe(i, Values))
    [] item = "quorum" ->
         IF Is(i, "N") THEN Got(<<Peek(i)[2]>>, Behind(i + 1, <<"O", "%">>))
                       ELSE Maybe(i, Values)
    [] item = "assign" -> Assignment(i)
    [] item = "expr" -> Part(Expression(i))
    [] item = "init" ->
         IF Peek(i) = <<"O", "=">> THEN Part(Part(Expression(i + 1))) ELSE Got(<<<<>>>>, i)
    [] item = "args" ->
         IF Peek(i) = <<"P", "(">> THEN Part(Arguments(i)) ELSE Got(<<<<>>>>, i)
    [] item = "params" ->
         IF Peek(i) = <<"P", "(">> THEN Closed(Until("param", {<<"P", ")">>}, i + 1))
                                   ELSE Got(<<<<>>>>, i)
    [] item = "block" -> Block(i)
    [] item = "else" -> Else(i)
    [] item \in DOMAIN Repeated -> Until(Repeated[item], Brace, i)
    [] item = "statement" -> Part(Statement(i))
    [] item = "case" -> Case(i)
    [] item = "entry" -> Entry(i)
    [] item = "row" -> Row(i)
    [] item = "property" -> Property(i)
    [] item = "setting" -> Field("setting", SettingShape, i)
    [] item = "member" -> Member(i)
    [] item = "choice" -> Field("choice", ChoiceShape(Peek(i + 1)[2]), i)
    [] item = "param" -> Param(i)
    [] item = "token" -> Got(<<>>, i + 1)

-----------------------------------------------------------------------------
(* The program: one declaration after the other.                            *)

ParseStart ==
  /\ current = 1
  /\ program = <<>>
  /\ parsing = "on"

ParseInit == ParseStart /\ \E some \in Sources : source \in some

ThrowError ==
  /\ parsing' = "failed"
  /\ UNCHANGED <<source, current, program>>

Add(r) ==
  \/ Failed(r) /\ ThrowError
  \/ /\ ~Failed(r)
     /\ current' = r.next
     /\ program' = Append(program, r.node)
     /\ UNCHANGED <<source, parsing>>

Declare(word, shape) ==
  /\ parsing = "on"
  /\ Peek(current) = <<"K", word>>
  /\ Add(Construct(word, shape, current + 1))

ParseSubroutine  == Declare("sub", SubShape)
ParseACL         == Declare("acl", AclShape)
ParseInclude     == Declare("include", IncludeShape)
ParseImport      == Declare("import", ImportShape)
ParseTable       == Declare("table", TableShape)
ParseBackend     == Declare("backend", BackendShape)
ParseDirector    == Declare("director", DirectorShape)
ParsePenaltybox  == Declare("penaltybox", PenaltyboxShape)
ParseRatecounter == Declare("ratecounter", RatecounterShape)

ParseComment ==
  /\ parsing = "on"
  /\ Is(current, "C")
  /\ current' = current + 1
  /\ program' = Append(program, <<"comment", Peek(current)[2]>>)
  /\ UNCHANGED <<source, parsing>>

IsControl(token) ==
  \/ token = <<"K", "pragma">>
  \/ token[1] \notin {"K", "C"} /\ token[2] = "vcl"

(* Pragmas and the version of the language leave nothing.                   *)
SkipControl ==
  /\ parsing = "on"
  /\ IsControl(Peek(current))
  /\ current' = Through(current + 1)
  /\ UNCHANGED <<source, program, parsing>>

Declarations == {"sub", "acl", "include", "import", "table", "backend", "director",
                 "penaltybox", "ratecounter"}

Unexpected ==
  /\ parsing = "on"
  /\ Peek(current)[1] \notin {"C", "EOF"}
  /\ ~IsControl(Peek(current))
  /\ Is(current, "K") => Peek(current)[2] \notin Declarations
  /\ ThrowError

ParseEnd ==
  /\ parsing = "on"
  /\ Is(current, "EOF")
  /\ parsing' = "done"
  /\ UNCHANGED <<source, current, program>>

ParseNext ==
  \/ ParseSubroutine
  \/ ParseACL
  \/ ParseInclude
  \/ ParseImport
  \/ ParseTable
  \/ ParseBackend
  \/ ParseDirector
  \/ ParsePenaltybox
  \/ ParseRatecounter
  \/ ParseComment
  \/ SkipControl
  \/ Unexpected
  \/ ParseEnd
=============================================================================
