---------------------------- MODULE QueryString ----------------------------
(***************************************************************************)
(* The querystring.* functions (src/src/vcl-querystring.ts) on one URL:    *)
(* parsed into an ordered list of parameters, changed, written back.       *)
(*                                                                         *)
(* A URL is the sequence of its characters; an escape such as %26 is one   *)
(* character here, "%" alone begins none.  Names are decoded when parsed   *)
(* and written as they are, values are encoded again.                      *)
(***************************************************************************)
EXTENDS Texts

CONSTANTS
  Unset,         \* null: no value, no parameter
  Urls,          \* the URLs looked at
  ParamNames,    \* arguments: names and values, texts
  ParamValues,
  Globs,         \* pattern of globfilter or regfilter -> the names it matches
  Bytewise,      \* the characters of names and values, in the order of their bytes
  MaxMatchers,   \* MATCHER_CACHE_MAX: 1000
  MaxChanges     \* bound of the model: the calls made

VARIABLES
  url,       \* what the last call returned
  matchers,  \* compiled patterns: pattern -> names
  changes,   \* calls so far
  change     \* history: the last call

queryVars == <<url, matchers, changes, change>>

NoChange == [kind |-> "none"]

Escapes == [c \in {"&", "=", "+", "?", "%"} |->
              CASE c = "&" -> "%26" [] c = "=" -> "%3D" [] c = "+" -> "%2B"
                [] c = "?" -> "%3F" [] c = "%" -> "%25"]

Unescaped(c) ==
  IF c = "%20" THEN " "
  ELSE IF \E d \in DOMAIN Escapes : Escapes[d] = c THEN CHOOSE d \in DOMAIN Escapes : Escapes[d] = c
  ELSE c

(* percentUnescape, with "+" for a space; a bare "%" is an error.           *)
Valid(text) == \A n \in DOMAIN text : text[n] # "%"

Decoded(text) == [n \in DOMAIN text |-> IF text[n] = "+" THEN " " ELSE Unescaped(text[n])]

(* Mutant of Encoded: reserved characters are written as they are.          *)
EncodedSpaces(text) == [n \in DOMAIN text |-> IF text[n] = " " THEN "+" ELSE text[n]]

(* queryEscape                                                              *)
Encoded(text) ==
  [n \in DOMAIN text |-> IF text[n] = " " THEN "+"
                         ELSE IF text[n] \in DOMAIN Escapes THEN Escapes[text[n]] ELSE text[n]]

(* What names and values are made of, and what is written of it.            *)
Signs == ToSet(Bytewise)

Codes == {Escapes[c] : c \in DOMAIN Escapes} \cup {"%20"}

ASSUME QueryStringAssumption ==
  /\ Bytewise \in Seq(STRING)
  /\ DOMAIN Escapes \cup {" "} \subseteq Signs
  /\ Signs \cap Codes = {}
  /\ Urls \subseteq Seq(Signs \cup Codes)
  /\ ParamNames \cup ParamValues \subseteq Seq(Signs)
  /\ \A name \in ParamNames : Valid(name)
  /\ Unset \notin Seq(Signs \cup Codes) \cup Seq(Seq(Signs))
  /\ MaxMatchers \in Nat \ {0}
  /\ MaxChanges \in Nat

Found(text, c) == SelectInSeq(text, LAMBDA d : d = c)

Prefix(text) ==
  IF Found(text, "?") = 0 THEN text ELSE SubSeq(text, 1, Found(text, "?") - 1)

Parts(text) ==
  IF Found(text, "?") = 0 THEN <<>>
  ELSE Split(SubSeq(text, Found(text, "?") + 1, Len(text)), "&")

NamePart(part)  == IF Found(part, "=") = 0 THEN part ELSE SubSeq(part, 1, Found(part, "=") - 1)
ValuePart(part) == SubSeq(part, Found(part, "=") + 1, Len(part))

-----------------------------------------------------------------------------
(* The ordered list of parameters: [key, value], value Unset for a bare     *)
(* name, else all the values of that name.                                  *)

(* Query.add                                                                *)
AddTo(items, name, value) ==
  LET n == SelectInSeq(items, LAMBDA item : item.key = name)
  IN IF n = 0 THEN Append(items, [key |-> name, value |-> <<value>>])
     ELSE [items EXCEPT ![n].value = IF @ = Unset THEN <<value>> ELSE Append(@, value)]

(* Query.set                                                                *)
SetIn(items, name, value) ==
  LET n == SelectInSeq(items, LAMBDA item : item.key = name)
  IN IF n = 0 THEN Append(items, [key |-> name, value |-> <<value>>])
     ELSE [items EXCEPT ![n].value = <<value>>]

(* Query.parse, part by part                                                *)
PartAdded(items, part) ==
  IF Found(part, "=") = 0 THEN Append(items, [key |-> Decoded(part), value |-> Unset])
  ELSE AddTo(items, Decoded(NamePart(part)), Decoded(ValuePart(part)))

ItemsOf(parts) ==
  LET first[n \in 0 .. Len(parts)] == IF n = 0 THEN <<>> ELSE PartAdded(first[n - 1], parts[n])
  IN first[Len(parts)]

Items(text) == ItemsOf(Parts(text))

(* Query.toString                                                           *)
Pairs(item) ==
  IF item.value = Unset THEN <<item.key>>
  ELSE [n \in DOMAIN item.value |-> item.key \o <<"=">> \o Encoded(item.value[n])]

ToText(prefix, items) ==
  LET body == Joined(FlattenSeq([n \in DOMAIN items |-> Pairs(items[n])]), <<"&">>)
  IN IF body = <<>> THEN prefix ELSE prefix \o <<"?">> \o body

(* QueryStringModule.get: the raw value of the first parameter that is      *)
(* written as the name would be, a space as %20.                            *)
Get(text, name) ==
  LET wanted == [n \in DOMAIN name |-> IF name[n] = " " THEN "%20" ELSE Encoded(name)[n]]
      n == SelectInSeq(Parts(text), LAMBDA part : Found(part, "=") > 1 /\ NamePart(part) = wanted)
  IN IF n = 0 THEN Unset ELSE ValuePart(Parts(text)[n])

QueryInit ==
  /\ url \in Urls
  /\ matchers = <<>>
  /\ changes = 0
  /\ change = NoChange

-----------------------------------------------------------------------------
(* Calls.  An escape that is none is an exception: the URL stays.           *)

Parses == \A n \in DOMAIN Parts(url) : Valid(Parts(url)[n])

Changed(kind, name, value, items) ==
  /\ changes < MaxChanges /\ Parses
  /\ url' = ToText(Prefix(url), items)
  /\ changes' = changes + 1
  /\ change' = [kind |-> kind, name |-> name, value |-> value, before |-> url]

SetParam(name, value) ==
  Changed("set", name, value, SetIn(Items(url), name, value)) /\ UNCHANGED matchers

AddParam(name, value) ==
  Changed("add", name, value, AddTo(Items(url), name, value)) /\ UNCHANGED matchers

OnlyThese(names) == Keep(Items(url), {n \in DOMAIN Items(url) : Items(url)[n].key \in names})

AllBut(names) == Keep(Items(url), {n \in DOMAIN Items(url) : Items(url)[n].key \notin names})

Clean == Changed("clean", <<>>, <<>>, AllBut({<<>>})) /\ UNCHANGED matchers

(* filter and filter_except, with the names the list gives.                 *)
Filter(names, except) ==
  /\ Changed("filter", <<>>, <<>>, IF except THEN OnlyThese(names) ELSE AllBut(names))
  /\ UNCHANGED matchers

(* cached: a full cache is emptied before a pattern is added.  (Globs and   *)
(* regular expressions have a cache each; this is either.)                  *)
Compiled(pattern) ==
  IF pattern \in DOMAIN matchers THEN matchers
  ELSE IF Cardinality(DOMAIN matchers) >= MaxMatchers THEN [p \in {pattern} |-> Globs[p]]
  ELSE [p \in DOMAIN matchers \cup {pattern} |-> Globs[p]]

(* globfilter, regfilter and their _except: compiled before the URL is      *)
(* parsed.                                                                  *)
PatternFilter(pattern, except) ==
  /\ matchers' = Compiled(pattern)
  /\ LET names == Compiled(pattern)[pattern]
     IN Changed("filter", <<>>, <<>>, IF except THEN OnlyThese(names) ELSE AllBut(names))

(* compareBytes                                                             *)
Precedes(a, b) ==
  LET rank(text, n) == IF n > Len(text) THEN 0 ELSE Found(Bytewise, text[n])
  IN \E n \in 1 .. Len(b) : /\ rank(a, n) < rank(b, n)
                            /\ \A m \in 1 .. n - 1 : rank(a, m) = rank(b, m)

(* Query.sort: by name, equal names in reversed order.                      *)
Sort ==
  /\ LET items == Items(url)
         rank(n) == Cardinality({m \in DOMAIN items :
                                   IF items[m].key = items[n].key THEN m >= n
                                   ELSE Precedes(items[m].key, items[n].key)})
     IN Changed("sort", <<>>, <<>>,
                [k \in DOMAIN items |-> items[CHOOSE n \in DOMAIN items : rank(n) = k]])
  /\ UNCHANGED matchers

(* remove: all of it, parsed or not.                                        *)
RemoveQuery ==
  /\ changes < MaxChanges
  /\ url' = Prefix(url)
  /\ changes' = changes + 1
  /\ change' = NoChange
  /\ UNCHANGED matchers

QueryNext ==
  \/ \E name \in ParamNames, value \in ParamValues : SetParam(name, value) \/ AddParam(name, value)
  \/ Clean \/ Sort \/ RemoveQuery
  \/ \E name \in ParamNames, except \in BOOLEAN : Filter({name}, except)
  \/ \E pattern \in DOMAIN Globs, except \in BOOLEAN : PatternFilter(pattern, except)

QuerySpec == QueryInit /\ [][QueryNext]_queryVars

-----------------------------------------------------------------------------
(* Properties.                                                              *)

(* Names that read the same when they are written as they are.              *)
PlainNames(items) ==
  \A n \in DOMAIN items : \A m \in DOMAIN items[n].key :
    items[n].key[m] \notin DOMAIN Escapes \cup {" "}

(* What the functions see of a name: its decoded value.                     *)
ReadAs(text, name) == IF Get(text, name) = Unset THEN Unset ELSE Decoded(Get(text, name))

QueryTypeOK ==
  /\ Cardinality(DOMAIN matchers) <= MaxMatchers
  /\ changes \in 0 .. MaxChanges

(* A name that is set reads as its value, whatever characters it has; one   *)
(* that is added reads as its value if it had none; every other name, and   *)
(* every one that a filter keeps, reads as before.                          *)
OthersRead ==
  change.kind # "none" /\ PlainNames(Items(change.before)) /\ PlainNames(Items(url)) =>
    LET before(name) == ReadAs(change.before, name)
    IN /\ change.kind = "set" /\ change.name # <<>> => ReadAs(url, change.name) = change.value
       /\ change.kind = "add" /\ change.name # <<>> =>
            ReadAs(url, change.name) =
              IF before(change.name) = Unset THEN change.value ELSE before(change.name)
       /\ \A name \in ParamNames \ {change.name} :
            \/ ReadAs(url, name) = before(name)
            \/ change.kind = "filter" /\ ~\E n \in DOMAIN Items(url) : Items(url)[n].key = name
=============================================================================
