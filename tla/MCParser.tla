------------------------------ MODULE MCParser ------------------------------
(* Programs and sources for the parser: all small expressions, and all      *)
(* short sequences of tokens and phrases that interact, in their place.     *)
EXTENDS Printer

Addressed(ip, family, length) == [ip |-> ip, family |-> family, length |-> length]

AddressTexts ==
  ("ip4" :> Addressed("ip4", "v4", NoLength)) @@
  ("net4" :> Addressed("ip4", "v4", 8)) @@
  ("ip6" :> Addressed("ip6", "v6", NoLength)) @@
  ("localhost" :> Addressed("localhost", "localhost", NoLength))

NumberLengths == ("8" :> 8) @@ ("40" :> 40) @@ ("129" :> 129)

-----------------------------------------------------------------------------
Leaves == {<<"id", "a">>, <<"string", "s">>, <<"number", "-", "8">>,
           <<"unary", "!", <<"id", "b">>>>, <<"call", "a", <<<<"id", "b">>, <<"bool", "true">>>>>>}

Operands == {<<"id", "a">>, <<"string", "s">>}

(* A value that is added on without an operator stands alone.               *)
Combined(L, R) ==
  {<<"binary", op, l, r>> :
     op \in {"||", "&&", "==", "<", "~", "+", "-", "*"}, l \in L, r \in R}
    \cup {<<"binary", " ", l, r>> : l \in L, r \in Operands}

One == Combined(Operands, Operands)

Nested == Leaves \cup Combined(Leaves, Leaves) \cup Combined(One, Leaves)
            \cup Combined(Leaves, One) \cup Combined(Combined({<<"id", "a">>}, Operands), One)

Whole == Nested \cup {<<"ternary", a, b, c>> : a, b, c \in Leaves}
           \cup {<<"unary", "-", e>> : e \in One}
           \cup {<<"member", <<"call", "a", <<e>>>>, "b">> : e \in One}

Choosing(test, yes, no) == <<"if", test, yes, no>>

Esi == <<"esi">>

Ifs == {Choosing(<<"id", "a">>, yes, no) :
          yes \in {<<>>, <<Esi>>}, no \in {<<>>, <<<<>>>>, <<<<Esi>>>>}}

Nests == {Choosing(<<"id", "b">>, yes, no) :
            yes \in {<<s>> : s \in Ifs} \cup {<<s, Esi>> : s \in Ifs},
            no \in {<<>>} \cup {<<<<s>>>> : s \in Ifs}}

Sub(body) == <<<<"sub", "f", <<>>, "", body>>>>

Errors == {<<"error">>, <<"error", <<"id", "a">>>>, <<"error", <<"id", "a">>, <<"string", "s">>>>}

PrintedPrograms ==
  {Sub(<<<<"set", "h", "=", e>>>>) : e \in Whole} \cup {Sub(<<s, Esi>>) : s \in Nests \cup Errors}

-----------------------------------------------------------------------------
RECURSIVE UpTo(_, _)

UpTo(phrases, n) ==
  IF n = 0 THEN {<<>>}
           ELSE {<<>>} \cup {p \o s : p \in phrases, s \in UpTo(phrases, n - 1)}

(* Up to n phrases between two ends.                                        *)
Between(left, phrases, n, right) == {left \o s \o right : s \in UpTo(phrases, n)}

InSub == K("sub") \o I("f") \o P("{")
Close == P("}")

Test == P("(") \o I("a") \o P(")")

SetIt == InSub \o K("set") \o I("h") \o O("=")

Heads == {K("set") \o I("h"), K("unset") \o I("h"), K("add") \o I("h"), K("call") \o I("g"),
          K("synthetic"), K("hash_data"), K("log"), K("goto"), K("return"), K("error"),
          K("restart"), I("declare"), I("std.log"), I("synthetic.base64"), I("a.b")}

StatementSources == {
  Between(SetIt, {I("h"), S("s"), N("", "8"), N("", "2^63"), O("-"), O("!"), O("=="), O("+"),
                  P("("), P(")"), K("if")}, 4, End \o Close),
  Between(SetIt, {I("a"), P("("), P(")"), P(","), P(".")}, 6, End \o Close),
  UNION {Between(InSub \o head,
                 {I("a"), I("var.a"), I("rol"), N("", "8"), O("="), O("*"), P("("), P(")"),
                  P(";"), K("pass")}, 3, End \o Close) : head \in Heads},
  Between(InSub, {K("if") \o Test, K("else"), K("elseif") \o Test, P("{") \o K("esi") \o End \o Close,
                  <<<<"C", "#">>>>, K("esi") \o End, I("l") \o P(":"), K("pragma") \o End}, 4, Close),
  Between(InSub \o K("switch") \o Test \o P("{"),
          {K("case") \o S("s") \o P(":"), K("case") \o O("~") \o S("s") \o P(":"),
           K("default") \o P(":"), K("break") \o End, K("fallthrough") \o End,
           K("esi") \o End, <<<<"C", "#">>>>}, 5, Close \o Close)}

DeclarationSources == {
  Between(K("acl") \o I("f") \o P("{"),
          {S("ip4"), S("net4"), S("ip6"), S("localhost"), O("!"), O("/"), N("", "8"),
           N("", "40"), N("", "129"), P(";"), <<<<"C", "#">>>>}, 4, Close),
  Between(K("table") \o I("f") \o I("T") \o P("{"),
          {S("s"), P(":"), P(","), N("", "8"), O("-"), I("a"), <<<<"C", "#">>>>}, 5, Close),
  Between(K("backend") \o I("f") \o P("{"),
          {P(".") \o I("n") \o O("="), S("s"), N("", "8"), P("{"), P("}"), P(";")}, 5, Close),
  Between(K("director") \o I("f") \o K("hash") \o P("{"),
          {P("{"), P("}"), P(".") \o I("backend") \o O("="), P(".") \o I("weight") \o O("="),
           P(".") \o I("n") \o O("="), I("b"), N("", "8"), O("%")}, 4, Close \o Close),
  Between(K("sub") \o I("f"), {P("("), P(")"), P(","), I("T") \o I("a"), I("T")}, 5, P("{") \o Close),
  Between(<<>>, {K("include"), K("import"), S("s"), I("m"), P(";"), I("vcl"), K("pragma"),
                 <<<<"C", "#">>>>, K("set"), K("ratecounter") \o I("r") \o P("{") \o Close}, 4,
          K("penaltybox") \o I("p") \o P("{") \o Close)}

TokenSources == StatementSources \cup DeclarationSources

HeaderNames == {"h"}
VariableNames == {"var.a"}
DottedNames == {"var.a", "a.b"}
=============================================================================
