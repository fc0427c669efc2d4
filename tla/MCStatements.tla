---------------------------- MODULE MCStatements ----------------------------
(* What one request's VCL does, and what is checked before it runs: control *)
(* flow, headers, locals, predefined variables, access control lists, query *)
(* strings and the limit on inlined calls.  A behaviour is of one of these  *)
(* components; the others rest.                                             *)
EXTENDS MCInterpreter, Headers, Locals, Predefined, CallTree, Acl, QueryString

CONSTANT Explored  \* the components a run looks at

VARIABLE component

statementVars ==
  <<component, vars, headerVars, localVars, predefinedVars, treeVars, aclVars, queryVars>>

InterpreterRests ==
  /\ program = CHOOSE p \in Programs : TRUE
  /\ stack = <<>>
  /\ signal = NoSignal
  /\ outcome = "rests"
  /\ raised = FALSE

HeadersRest ==
  /\ http = [s \in Scopes |-> [n \in Names |-> Absent]]
  /\ workspace = BaseOverhead
  /\ groups = Absent
  /\ verdict = "running"
  /\ ran = 0
  /\ charged = {}
  /\ last = Other

TreeRests ==
  /\ code = CHOOSE g \in Graphs : TRUE
  /\ names = <<>>
  /\ visits = <<>>
  /\ costs = [s \in DOMAIN code |-> NoCost]
  /\ ruling = "accepted"

AclRests ==
  /\ list = <<>>
  /\ query = Junk
  /\ pc = "rests"
  /\ row = 1 /\ part = 1
  /\ seen = {}
  /\ best = NoEntry
  /\ edits = 0

QueryRests == url = <<>> /\ matchers = <<>> /\ changes = 0 /\ change = NoChange

MCInit ==
  /\ component \in Explored
  /\ IF component = "interpreter" THEN Init ELSE InterpreterRests
  /\ IF component = "headers" THEN HeadersInit ELSE HeadersRest
  /\ LocalsInit
  /\ PredefinedInit
  /\ IF component = "calls" THEN TreeInit ELSE TreeRests
  /\ IF component = "acl" THEN AclInit ELSE AclRests
  /\ IF component = "query" THEN QueryInit ELSE QueryRests

MCNext ==
  \/ /\ component = "interpreter"
     /\ Next
     /\ UNCHANGED <<component, headerVars, localVars, predefinedVars, treeVars, aclVars, queryVars>>
  \/ /\ component = "headers"
     /\ HeadersNext
     /\ UNCHANGED <<component, vars, localVars, predefinedVars, treeVars, aclVars, queryVars>>
  \/ /\ component = "locals"
     /\ LocalsNext
     /\ UNCHANGED <<component, vars, headerVars, predefinedVars, treeVars, aclVars, queryVars>>
  \/ /\ component = "predefined"
     /\ PredefinedNext
     /\ UNCHANGED <<component, vars, headerVars, localVars, treeVars, aclVars, queryVars>>
  \/ /\ component = "calls"
     /\ TreeNext
     /\ UNCHANGED <<component, vars, headerVars, localVars, predefinedVars, aclVars, queryVars>>
  \/ /\ component = "acl"
     /\ AclNext
     /\ UNCHANGED <<component, vars, headerVars, localVars, predefinedVars, treeVars, queryVars>>
  \/ /\ component = "query"
     /\ QueryNext
     /\ UNCHANGED <<component, vars, headerVars, localVars, predefinedVars, treeVars, aclVars>>

MCSpec == MCInit /\ [][MCNext]_statementVars /\ WF_vars(Statement \/ Loop)

(* Every component's state is of the shape the code gives it; a branch of   *)
(* the interpreter lies within its body, one visit at a time is open per    *)
(* subroutine, and typed variables read as values of their types.           *)
StatementsTypeOK ==
  /\ TypeOK
  /\ HeadersTypeOK
  /\ LocalsTypeOK
  /\ component = "predefined" => PredefinedTypeOK
  /\ TreeTypeOK
  /\ component = "acl" => AclTypeOK
  /\ QueryTypeOK

-----------------------------------------------------------------------------
(* Headers: one name in two spellings, with and without subfields.          *)

MCNames == {<<"A">>, <<"a">>}

MCKeys == {<<"x">>, <<"y">>}

MCLiterals == {<<>>, <<"x", ",", "y", "=", "1">>}

MCSeparators == {<<",", " ">>}

MCInbound ==
  {[n \in MCNames |-> IF n = <<"A">> THEN text ELSE Absent] :
     text \in {Absent, <<"x", "=", "1", ",", "y">>}}

-----------------------------------------------------------------------------
(* Locals: two subroutines that share a parameter's name.                   *)

MCParams == [f |-> <<"p", "q">>, g |-> <<"q">>]

MCConstants == {Num(3), Raw(<<"x">>)}

-----------------------------------------------------------------------------
(* Predefined variables.                                                    *)

MCDeclared == {Word("default"), Word("b1")}

MCAssigned ==
  {<<"=", Raw(<<"/", "api", "/", "x", ".", "css", "?", "q">>)>>, <<"=", NotSet>>,
   <<"=", Num(7)>>, <<"=", Bool(TRUE)>>, <<"=", Rtime(5)>>, <<"=", Backend(Word("b1"))>>,
   <<"+=", VCLText(<<"2", "m">>)>>, <<"+=", Rtime(5)>>}

-----------------------------------------------------------------------------
(* Calls among three subroutines.                                           *)

Calling(s) == <<Stmt("call", s)>>

MCBodies ==
  {<<>>, Calling("a"), Calling("b"), Calling("c"), Calling("b") \o Calling("c"),
   IfElse(Calling("b"), Calling("c") \o Calling("c")), Unknown, Block(Calling("c"))}

MCGraphs == [{"a", "b", "c"} -> MCBodies]

-----------------------------------------------------------------------------
(* Access control lists: bytes of two bits, two of them in an IPv4 address. *)

MCBytes == [ipv4 |-> 2, ipv6 |-> 1]

V4(a, b) == [family |-> "ipv4", bytes |-> <<a, b>>]
V6(a)    == [family |-> "ipv6", bytes |-> <<a>>]

MCLoopbacks == <<V4(1, 1), V6(1)>>

Given(ip, subnet, negated) == [ip |-> ip, subnet |-> subnet, negated |-> negated]

MCEntries ==
  {Given(ip, subnet, negated) : ip \in {V4(1, 1), V4(1, 2)}, subnet \in {0, 1, 3, NoMask},
                                negated \in BOOLEAN}
    \cup {Given(Localhost, NoMask, FALSE), Given(V6(1), 1, TRUE), Given(V6(0), 2, FALSE),
          Given(Junk, 1, FALSE)}

MCLists == UNION {[1 .. n -> MCEntries] : n \in 0 .. 2}

MCAdded == {Given(V4(1, 1), 3, TRUE), Given(V4(1, 2), NoMask, TRUE)}

MCQueries == {V4(1, 1), V4(1, 3), V4(2, 0), V6(1), Junk}

-----------------------------------------------------------------------------
(* Query strings: repeated, bare and empty names, and escapes.              *)

Url(text) == <<"p">> \o text

MCUrls ==
  {Url(<<>>),
   Url(<<"?", "a", "&", "b", "=", "1", "&", "a", "=", "%26">>),
   Url(<<"?", "b", "=", "+", "&", "=", "2", "&", "a", "=", "=", "&", "b", "=", "3", "&", "a">>),
   Url(<<"?", "&", "b", "%26", "a", "=", "1">>),
   Url(<<"?", "a", "=", "%", "&", "b">>)}

MCParamNames == {<<"a">>, <<"b">>, <<>>}

MCParamValues == {<<>>, <<"1">>, <<"&", "b">>, <<"+", " ">>}

MCBytewise == <<" ", "%", "&", "+", "1", "2", "3", "=", "?", "a", "b", "p">>

MCGlobs ==
  [p \in {"a*", "?"} |-> IF p = "a*" THEN {<<"a">>, <<"a", "&">>} ELSE {<<"a">>, <<"b">>, <<>>}]
=============================================================================
