------------------------------ MODULE Headers ------------------------------
(***************************************************************************)
(* The headers of one request while its subroutines run: set, unset and    *)
(* add statements on headers and on their subfields, the header functions, *)
(* std.collect, regular expression matches, conditions over headers, and   *)
(* the workspace that writes to req.http are charged to                    *)
(* (src/src/vcl-compiler.ts, vcl-header.ts and vcl-limits.ts).             *)
(***************************************************************************)
EXTENDS Values

CONSTANTS
  Scopes,        \* "req", and others, which are alike
  Names,         \* header names: texts, and spellings of one name among them
  Inbound,       \* the header tables a request may come in with
  Literals,      \* texts an expression may be
  Keys,          \* subfields: texts
  Separators,    \* second arguments of std.collect
  BaseOverhead,  \* BASE_REQUEST_WORKSPACE_OVERHEAD: 10240
  MaxWorkspace,  \* MAX_REQUEST_WORKSPACE_SIZE: 262144
  MaxStatements  \* bound of the model: the statements a request runs

VARIABLES
  http,      \* scope -> name -> text
  workspace, \* context.workspaceBytes
  groups,    \* context.re: what the last match found, Absent before
  verdict,   \* "running", or "rejected" by the workspace limit
  ran,       \* statements so far
  charged,   \* history: the req headers statements have paid for in full
  last       \* history: the last statement, if on a subfield or a condition

headerVars == <<http, workspace, groups, verdict, ran, charged, last>>

Whole == <<>>   \* no subfield

Other == [kind |-> "other"]

(* What each header costs, and all of `names'.                              *)
Costs(headers) ==
  [n \in Names |-> IF headers[n] = Absent THEN 0 ELSE WorkspaceCost(n, headers[n])]

Total(headers, names) == MapThenSumSet(LAMBDA n : Costs(headers)[n], names)

(* seedRequestWorkspace                                                     *)
Seed(headers) == BaseOverhead + Total(headers, Names)

(* A subfield's name is what the lexer takes into an identifier.            *)
Marks == {" ", ",", "=", "LF"}

ASSUME HeadersAssumption ==
  /\ "req" \in Scopes
  /\ IsFiniteSet(Names)
  /\ Names \cup Keys \cup Literals \cup Separators \subseteq Seq(Characters)
  /\ Inbound \subseteq [Names -> Seq(Characters) \cup {Absent}]
  /\ \A key \in Keys : ToSet(key) \cap Marks = {}
  /\ BaseOverhead \in Nat
  /\ MaxWorkspace \in Nat
  /\ MaxStatements \in Nat
  /\ <<>> \notin Keys \cup Names
  /\ \A text \in Literals : Len(Lines(text)) = 1
  /\ \A h \in Inbound, n \in Names : h[n] # Absent => Len(Lines(h[n])) = 1

HeadersInit ==
  /\ http \in {[s \in Scopes |-> IF s = "req" THEN headers ELSE [n \in Names |-> Absent]] :
                 headers \in Inbound}
  /\ workspace = Seed(http.req)
  /\ groups = Absent
  /\ verdict = "running"
  /\ ran = 0
  /\ charged = {n \in Names : http.req[n] # Absent}
  /\ last = Other

-----------------------------------------------------------------------------
(* Expressions: a text, a header or one of its subfields, the text of the   *)
(* last match, and a concatenation with what is not set.                    *)

ReadWhole(held) == IF held = Absent THEN NotSet ELSE Raw(FirstLine(held))

ReadSubfield(held, key) ==
  LET v == DictGet(FirstLine(held), key)
  IN IF held \in {Absent, <<>>} THEN NotSet ELSE IF v = Absent THEN NotSet ELSE Raw(v)

Read(headers, name, key) ==
  IF key = Whole THEN ReadWhole(headers[name]) ELSE ReadSubfield(headers[name], key)

Atoms ==
  {Raw(t) : t \in Literals} \cup {IF groups = Absent THEN NotSet ELSE Raw(groups)}
    \cup {Read(http[s], n, k) : s \in Scopes, n \in Names, k \in {Whole} \cup Keys}

(* The values an expression may have in the present state.                  *)
Operands ==
  Atoms \cup {Concatenated(v, NotSet) : v \in Atoms}

-----------------------------------------------------------------------------
(* The workspace.                                                           *)

Serving == verdict = "running" /\ ran < MaxStatements

(* chargeRequestWorkspace: after the write; other scopes are free, and the  *)
(* total only grows.                                                        *)
Charge(scope, name, text) ==
  LET total == workspace + WorkspaceCost(name, text)
  IN IF scope = "req"
       THEN /\ workspace' = total
            /\ verdict' = IF total > MaxWorkspace THEN "rejected" ELSE verdict
       ELSE UNCHANGED <<workspace, verdict>>

(* A statement writes a header: the cost is that of `paid'.                 *)
Write(scope, name, text, paid) ==
  /\ http' = [http EXCEPT ![scope][name] = text]
  /\ Charge(scope, name, paid)
  /\ charged' = IF scope = "req" /\ text = paid THEN charged \cup {name} ELSE charged
  /\ ran' = ran + 1
  /\ UNCHANGED groups

(* A header function, or unset: nothing is paid.                            *)
Replace(scope, headers, unpaid) ==
  /\ http' = [http EXCEPT ![scope] = headers]
  /\ charged' = IF scope = "req" THEN charged \ unpaid ELSE charged
  /\ ran' = ran + 1
  /\ UNCHANGED <<workspace, groups, verdict>>

-----------------------------------------------------------------------------
(* Statements.                                                              *)

(* The value a set statement writes: a concatenation as headers show it.    *)
ToWrite(op, current, operand) ==
  LET flat(v) == IF v.kind = "concat" THEN ForHeader(v) ELSE v
  IN flat(IF op = "=" THEN operand ELSE Combine(op, current, flat(operand)))

(* set req.http.N op expression: not set means unset.                       *)
SetHeader(scope, name, op, operand) ==
  LET held  == http[scope][name]
      value == ToWrite(op, IF held = Absent THEN Null ELSE Raw(FirstLine(held)), operand)
  IN /\ Serving
     /\ IF value \in {NotSet, Null}
          THEN Replace(scope, [http[scope] EXCEPT ![name] = Absent], {name})
          ELSE Write(scope, name, TextOf(value), TextOf(value))

(* set req.http.N:key op expression: reads the first line, writes them all. *)
SetSubfield(scope, name, key, op, operand) ==
  LET held    == IF http[scope][name] = Absent THEN <<>> ELSE http[scope][name]
      before  == DictGet(FirstLine(held), key)
      value   == ToWrite(op, Raw(IF before = Absent THEN <<>> ELSE before), operand)
      text    == IF value = NotSet THEN <<>> ELSE TextOf(value)
      written == DictSet(held, key, text)
  IN /\ Serving
     /\ Write(scope, name, written, written)
     /\ last' = [kind |-> "subfield", scope |-> scope, name |-> name, key |-> key,
                 text |-> text, before |-> http[scope][name]]

UnsetHeader(scope, name) ==
  Serving /\ Replace(scope, [http[scope] EXCEPT ![name] = Absent], {name})

(* unset req.http.N:key: a header left empty goes.                          *)
UnsetSubfield(scope, name, key) ==
  LET held == IF http[scope][name] = Absent THEN <<>> ELSE http[scope][name]
      left == DictUnset(held, key)
  IN /\ Serving
     /\ Replace(scope, [http[scope] EXCEPT ![name] = IF left = <<>> THEN Absent ELSE left], {})
     /\ last' = [kind |-> "subfield", scope |-> scope, name |-> name, key |-> key,
                 text |-> Absent, before |-> http[scope][name]]

(* unset req.http.N*: a pattern, and case does not matter.                  *)
UnsetWild(scope, prefix) ==
  LET gone == {n \in Names : IsPrefix(Lower(prefix), Lower(n))}
  IN /\ Serving
     /\ Replace(scope, [n \in Names |-> IF n \in gone THEN Absent ELSE http[scope][n]], gone)

(* Mutant of Add: a line after the first is free.                           *)
AddFree(scope, name, operand) ==
  LET held == http[scope][name]
      text == TextOf(operand)
  IN /\ Serving
     /\ IF held \in {Absent, <<>>} THEN Write(scope, name, text, text)
        ELSE Replace(scope, [http[scope] EXCEPT ![name] = held \o <<"LF">> \o text], {})

(* add req.http.N = expression: one more line, paid for by itself.          *)
Add(scope, name, operand) ==
  LET held == http[scope][name]
      text == TextOf(operand)
  IN /\ Serving
     /\ Write(scope, name,
              IF held \in {Absent, <<>>} THEN text ELSE held \o <<"LF">> \o text, text)

-----------------------------------------------------------------------------
(* Functions on headers.                                                    *)

(* std.collect: the lines become one.                                       *)
Collect(scope, name, sep) ==
  /\ Serving
  /\ http[scope][name] # Absent
  /\ Replace(scope, [http[scope] EXCEPT ![name] = Joined(Lines(@), sep)], {})

(* findHeaderKey: the name in any spelling.                                 *)
Spelled(scope, name) ==
  {n \in Names : http[scope][n] # Absent /\ Lower(n) = Lower(name)}

(* header.set: one spelling of the name (the oldest key: any one here)      *)
(* makes room for the other.                                                *)
HeaderSet(scope, name, operand) ==
  LET text == IF operand.kind = "concat" THEN Display(operand) ELSE TextOf(operand)
      with(old) == [n \in Names |-> IF n = name THEN text
                                    ELSE IF n = old THEN Absent ELSE http[scope][n]]
  IN /\ Serving
     /\ IF Spelled(scope, name) = {} THEN Replace(scope, with(name), {name})
        ELSE \E old \in Spelled(scope, name) : Replace(scope, with(old), {name, old})

(* header.unset leaves an empty header under the name it was given.         *)
HeaderUnset(scope, name) ==
  LET with(old) == [n \in Names |-> IF n = name THEN <<>>
                                    ELSE IF n = old THEN Absent ELSE http[scope][n]]
  IN /\ Serving
     /\ IF Spelled(scope, name) = {} THEN Replace(scope, with(name), {name})
        ELSE \E old \in Spelled(scope, name) : Replace(scope, with(old), {name, old})

(* header.filter and header.filter_except empty headers instead of removing *)
(* them.                                                                    *)
HeaderFilter(scope, names, except) ==
  LET listed == {n \in Names : \E m \in names : Lower(m) = Lower(n)}
      gone   == {n \in IF except THEN Names \ listed ELSE listed : http[scope][n] # Absent}
  IN /\ Serving
     /\ Replace(scope, [n \in Names |-> IF n \in gone THEN <<>> ELSE http[scope][n]], gone)

(* The ~ operator: a match is remembered, a failure leaves the last one.    *)
MatchHeader(scope, name, pattern) ==
  LET value == RawText(Read(http[scope], name, Whole))
  IN /\ Serving
     /\ groups' = IF \E i \in 0 .. Len(value) : IsPrefix(pattern, SubSeq(value, i + 1, Len(value)))
                    THEN pattern ELSE groups
     /\ ran' = ran + 1
     /\ UNCHANGED <<http, workspace, verdict, charged>>

(* A condition of two headers: an if takes the operator's value for true or *)
(* not.                                                                     *)
Test(op, l, r) ==
  /\ Serving
  /\ last' = [kind  |-> "test",
              op    |-> op,
              left  |-> Truthy(l),
              right |-> Truthy(r),
              held  |-> Truthy(CASE op = "&&" -> And(l, r)
                                 [] op = "||" -> Or(l, r)
                                 [] op = "==" -> Bool(Equal(l, r)))]
  /\ ran' = ran + 1
  /\ UNCHANGED <<http, workspace, groups, verdict, charged>>

WriteStatement(scope, name, operand) ==
  \/ \E op \in {"=", "+="} : SetHeader(scope, name, op, operand)
  \/ Add(scope, name, operand)
  \/ HeaderSet(scope, name, operand)

OtherStatement(scope, name) ==
  \/ UnsetHeader(scope, name)
  \/ UnsetWild(scope, name)
  \/ \E sep \in Separators : Collect(scope, name, sep)
  \/ HeaderUnset(scope, name)
  \/ \E except \in BOOLEAN : HeaderFilter(scope, {name}, except)
  \/ \E pattern \in Literals : MatchHeader(scope, name, pattern)

HeadersNext ==
  \/ \E operand \in Operands, scope \in Scopes, name \in Names :
       \/ WriteStatement(scope, name, operand) /\ last' = Other
       \/ \E key \in Keys, op \in {"=", "+="} : SetSubfield(scope, name, key, op, operand)
  \/ \E scope \in Scopes, name \in Names :
       \/ OtherStatement(scope, name) /\ last' = Other
       \/ \E key \in Keys : UnsetSubfield(scope, name, key)
  \/ \E l, r \in Atoms, op \in {"&&", "||", "=="} : Test(op, l, r)

HeadersSpec == HeadersInit /\ [][HeadersNext]_headerVars

-----------------------------------------------------------------------------
(* Properties.                                                              *)

HeadersTypeOK ==
  /\ workspace \in Nat
  /\ charged \subseteq Names
  /\ ran \in 0 .. MaxStatements
  /\ \A s \in Scopes, n \in Names : http[s][n] # Absent => Len(http[s][n]) \in Nat
  /\ verdict = "running" => workspace <= MaxWorkspace

(* The account covers the request: what came in and what statements have    *)
(* written fits in the bytes charged, across add, collect and subfields,    *)
(* and a request that goes on has not passed the limit.                     *)
AccountCoversHeaders ==
  /\ workspace >= BaseOverhead + Total(http.req, charged)
  /\ verdict = "running" => workspace <= MaxWorkspace

(* A statement on a subfield of a header of one line gives the key its      *)
(* value (a text without commas and line feeds), or none, and every other   *)
(* key reads what it read before.                                           *)
SubfieldsApart ==
  last.kind = "subfield" /\ (last.before = Absent \/ Len(Lines(last.before)) = 1) =>
    LET now(key) == ReadSubfield(http[last.scope][last.name], key)
    IN /\ last.text = Absent => now(last.key) = NotSet
       /\ last.text # Absent /\ ToSet(last.text) \cap {",", "LF"} = {} =>
            now(last.key) = Raw(Trim(last.text))
       /\ last.text = Absent \/ ToSet(last.text) \cap {",", "LF"} = {} =>
            \A key \in Keys \ {last.key} : now(key) = ReadSubfield(last.before, key)

(* A condition A && B holds when both are true, A || B when one of them is. *)
LogicalMeansBoth ==
  last.kind = "test" =>
    /\ last.op = "&&" => last.held = (last.left /\ last.right)
    /\ last.op = "||" => last.held = (last.left \/ last.right)
=============================================================================
