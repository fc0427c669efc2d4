------------------------------- MODULE Texts -------------------------------
(***************************************************************************)
(* Strings as the interpreter handles them: lines of a header, subfields   *)
(* of a line, and what a header costs.  A text is the sequence of its      *)
(* characters, of which only those the code tells apart are written out:   *)
(* "LF" is the line feed, a number is one character, letters are their own.*)
(***************************************************************************)
EXTENDS Integers, SequencesExt

CONSTANT Absent   \* undefined: no such header, subfield or variable

(* Those written out, and all others.                                       *)
Characters == {"LF", " ", ",", "=", ":", "(", "n", "u", "l", ")"} \cup STRING

ASSUME TextsAssumption == Absent \notin Seq(Characters)

Split(text, sep) ==
  LET ends   == {i \in DOMAIN text : text[i] = sep} \cup {Len(text) + 1}
      end(k) == CHOOSE i \in ends : Cardinality({j \in ends : j <= i}) = k
  IN [k \in 1 .. Cardinality(ends) |->
        SubSeq(text, IF k = 1 THEN 1 ELSE end(k - 1) + 1, end(k) - 1)]

Joined(parts, sep) ==
  FlattenSeq([i \in DOMAIN parts |-> IF i = 1 THEN parts[i] ELSE sep \o parts[i]])

(* The elements at these places, in their order.                            *)
Keep(seq, places) ==
  FlattenSeq([i \in DOMAIN seq |-> IF i \in places THEN <<seq[i]>> ELSE <<>>])

Trim(text) ==
  LET ink == {i \in DOMAIN text : text[i] \notin {" ", "LF"}}
  IN IF ink = {} THEN <<>> ELSE SubSeq(text, Min(ink), Max(ink))

(* Names that differ in case only are one name to the header functions.     *)
Lower(text) ==
  LET low == [A |-> "a", B |-> "b", C |-> "c"]
  IN [i \in DOMAIN text |-> IF text[i] \in DOMAIN low THEN low[text[i]] ELSE text[i]]

-----------------------------------------------------------------------------
(* The lines of a header: one per add statement.                            *)

Lines(text) == Split(text, "LF")

FirstLine(text) ==
  LET lf == SelectInSeq(text, LAMBDA c : c = "LF")
  IN IF lf = 0 THEN text ELSE SubSeq(text, 1, lf - 1)

(* headerWorkspaceCost: name without subfield, value and three bytes,       *)
(* rounded up to eight.                                                     *)
WorkspaceCost(name, text) ==
  ((Len(Split(name, ":")[1]) + Len(text) + 3 + 7) \div 8) * 8

-----------------------------------------------------------------------------
(* A header as a dictionary: key=value, key=value, ...                      *)

Entry(text) ==
  LET eq == SelectInSeq(text, LAMBDA c : c = "=")
  IN IF eq = 0 THEN [key |-> Trim(text), val |-> Absent]
     ELSE [key |-> Trim(SubSeq(text, 1, eq - 1)),
           val |-> Trim(SubSeq(text, eq + 1, Len(text)))]

Entries(text) ==
  LET parts == IF text = <<>> THEN <<>> ELSE Split(text, ",")
  IN [i \in DOMAIN parts |-> Entry(parts[i])]

(* dictGet: the first entry of that key; a bare key has the empty value.    *)
DictGet(text, key) ==
  LET entries == Entries(text)
      i == SelectInSeq(entries, LAMBDA e : e.key = key)
  IN IF i = 0 THEN Absent ELSE IF entries[i].val = Absent THEN <<>> ELSE entries[i].val

(* Mutant of DictSet: what the key had is kept, too.                        *)
DictAppend(text, key, value) ==
  IF text = <<>> THEN key \o <<"=">> \o value ELSE text \o <<",">> \o key \o <<"=">> \o value

(* dictSet: the key moves to the end, entries without a key are dropped, an *)
(* empty value leaves a bare key.                                           *)
DictSet(text, key, value) ==
  LET held == Entries(text)
      kept == Keep(held, {i \in DOMAIN held : held[i].key \notin {key, <<>>}})
      all  == Append(kept, [key |-> key, val |-> IF value = <<>> THEN Absent ELSE value])
      shown(e) == IF e.val = Absent THEN e.key ELSE e.key \o <<"=">> \o e.val
  IN Joined([i \in DOMAIN all |-> shown(all[i])], <<",">>)

DictUnset(text, key) ==
  LET parts == Split(text, ",")
  IN IF text = <<>> THEN <<>>
     ELSE Joined(Keep(parts, {i \in DOMAIN parts : Entry(parts[i]).key # key}), <<",">>)
=============================================================================
