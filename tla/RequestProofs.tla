--------------------------- MODULE RequestProofs ---------------------------
(***************************************************************************)
(* Theorems about what the statements of a request write: its headers, its *)
(* predefined variables and its URL, for every set of names, texts, values *)
(* and limits.                                                             *)
(*                                                                         *)
(* Headers: the workspace that is charged covers what the headers hold,    *)
(* and a statement on one subfield leaves the others as they were.         *)
(* Charges are paid for what a statement writes, and not paid back;        *)
(* std.collect pays nothing and may lengthen a header, by at most the      *)
(* separator's length for each line feed it takes out.  So the inductive   *)
(* invariant Covered gives each paid header a pot of its cost and of what  *)
(* its line feeds may still become, and says the pots fit in what was      *)
(* charged.                                                                *)
(*                                                                         *)
(* Predefined variables: whatever is assigned to whichever of them, each   *)
(* reads as the last value of its type it was set to.                      *)
(*                                                                         *)
(* URLs: a query parameter that is set reads as its value, and the others  *)
(* as before.  What the parts of a query say of a name is what the list    *)
(* parsed from them holds, and the parts written from a list say again     *)
(* what it holds, as long as names are written as they are.                *)
(***************************************************************************)
EXTENDS Headers, Predefined, QueryString, TextProofs

-----------------------------------------------------------------------------
(* The values of expressions over headers: texts of one line.               *)

Line == {t \in Seq(C) : Count("LF", t) = 0}

PartForms == [text : Line, notset : BOOLEAN]

Flat == {NotSet} \cup {Raw(t) : t \in Line}

Given == Flat \cup {Concat(p) : p \in Seq(PartForms)}

LEMMA CombineAdd ==
  ASSUME NEW c, NEW n, n.kind \in Strings
  PROVE  Combine("+=", c, n) =
           Raw((IF c \in {Null, NotSet} THEN <<>> ELSE TextOf(c)) \o DisplayText(n))
PROOF BY DEF Combine, Plain

LEMMA LineJoin == <<>> \in Line /\ \A s, t \in Line : s \o t \in Line
PROOF
  <1>1. <<>> \in Line BY EmptyText, CountNone DEF Line
  <1>2. \A s, t \in Seq(C) : s \o t \in Seq(C) BY Concat2
  <1>3. \A s, t \in Seq(C) : \A c : Count(c, s \o t) = Count(c, s) + Count(c, t) BY CountConcat
  <1>4. ASSUME NEW s \in Line, NEW t \in Line PROVE s \o t \in Line
    <2>1. s \in Seq(C) /\ t \in Seq(C) /\ Count("LF", s) = 0 /\ Count("LF", t) = 0 BY DEF Line
    <2>2. Count("LF", s \o t) = 0 + 0 BY <1>3, <2>1
    <2>3. QED BY <1>2, <2>1, <2>2 DEF Line
  <1>5. QED BY <1>1, <1>4

LEMMA NullLine == NullText \in Line
PROOF
  <1>1. {"(", "n", "u", "l", ")"} \subseteq C BY DEF C, Characters
  <1>2. NullText \in Seq(C) /\ Len(NullText) = 6
    <2> HIDE DEF C
    <2>1. QED BY <1>1 DEF NullText
  <1>3. \A i \in 1 .. 6 : NullText[i] # "LF" BY DEF NullText
  <1>4. Count("LF", NullText) = 0 BY <1>2, <1>3, CountIs
  <1>5. QED BY <1>2, <1>4 DEF Line

(* A concatenation, whatever its parts, is one line.                        *)
LEMMA FlattenLines ==
  ASSUME NEW p \in Seq(Line)
  PROVE  FlattenSeq(p) \in Line
PROOF
  <1> DEFINE T == {s \in Bodies(C) : s \in Seq(Line) /\ FlattenSeq(s) \notin Line}
  <1> SUFFICES ASSUME T # {} PROVE FALSE
    <2>1. Line \subseteq Seq(C) BY DEF Line
    <2>2. p \in Bodies(C) BY <2>1 DEF Bodies
    <2>3. QED BY <2>2
  <1>1. <<>> \notin T BY FlattenNone, LineJoin
  <1>2. PICK s \in Bodies(C), x \in Seq(C) : s \notin T /\ Append(s, x) \in T
    <2>1. T \in SUBSET Bodies(C) OBVIOUS
    <2> HIDE DEF T
    <2>2. QED BY <1>1, <2>1, LeastBody
  <1>3. s \in Seq(Line) /\ x \in Line
    <2> DEFINE t == Append(s, x)
    <2>1. t \in Seq(Line) BY <1>2
    <2>2. /\ Len(s) \in Nat /\ Len(t) = Len(s) + 1 /\ t[Len(s) + 1] = x
          /\ \A k \in 1 .. Len(s) : t[k] = s[k]
      BY BodiesAre
    <2> HIDE DEF t
    <2>3. \A k \in 1 .. Len(s) + 1 : t[k] \in Line BY <2>1, <2>2
    <2>4. x \in Line /\ \A k \in 1 .. Len(s) : s[k] \in Line BY <2>2, <2>3
    <2>5. s \in Seq(Seq(C)) BY DEF Bodies
    <2>6. QED BY <2>4, <2>5
  <1>4. FlattenSeq(s) \in Line BY <1>2, <1>3
  <1>5. FlattenSeq(Append(s, x)) = FlattenSeq(s) \o x BY FlattenSnocBodies
  <1>6. FlattenSeq(Append(s, x)) \in Line BY <1>3, <1>4, <1>5, LineJoin
  <1>7. QED BY <1>2, <1>6

LEMMA DisplayLine ==
  ASSUME NEW p \in Seq(PartForms)
  PROVE  Display(Concat(p)) \in Line
PROOF
  <1> DEFINE b == [i \in DOMAIN p |-> IF p[i].notset THEN NullText ELSE p[i].text]
             n == Len(p)
  <1>1. n \in Nat /\ DOMAIN p = 1 .. n /\ \A i \in 1 .. n : p[i] \in PartForms OBVIOUS
  <1> HIDE DEF n
  <1>2. b \in [1 .. n -> Line] BY <1>1, NullLine DEF PartForms
  <1> HIDE DEF b
  <1>3. b \in Seq(Line) BY <1>1, <1>2, FunctionIsSeq
  <1>4. FlattenSeq(b) \in Line BY <1>3, FlattenLines
  <1>5. Concat(p).parts = p BY DEF Concat
  <1>6. Display(Concat(p)) = FlattenSeq(b) BY <1>5 DEF Display, b
  <1>7. QED BY <1>4, <1>6

LEMMA Kinds ==
  /\ NotSet.kind = "notset" /\ Null.kind = "null"
  /\ \A t : Raw(t).kind = "raw" /\ Raw(t).text = t /\ Raw(t) # NotSet /\ Raw(t) # Null
  /\ \A p : Concat(p).kind = "concat" /\ Concat(p).parts = p
PROOF BY DEF NotSet, Null, Raw, Concat

LEMMA TextLine == \A v \in Given : TextOf(v) \in Line
PROOF
  <1> SUFFICES ASSUME NEW v \in Given PROVE TextOf(v) \in Line OBVIOUS
  <1>1. CASE v = NotSet BY <1>1, NullLine, Kinds DEF TextOf
  <1>2. ASSUME NEW t \in Line, v = Raw(t) PROVE TextOf(v) \in Line BY <1>2, Kinds DEF TextOf
  <1>3. ASSUME NEW p \in Seq(PartForms), v = Concat(p) PROVE TextOf(v) \in Line
    <2>1. TextOf(v) = Display(v) BY <1>3, Kinds DEF TextOf
    <2>2. QED BY <1>3, <2>1, DisplayLine
  <1>4. QED BY <1>1, <1>2, <1>3 DEF Given, Flat

LEMMA ForHeaderFlat == \A p \in Seq(PartForms) : ForHeader(Concat(p)) \in Flat
PROOF BY DisplayLine DEF ForHeader, Flat

LEMMA ConcatenatedGiven == \A v \in Flat : Concatenated(v, NotSet) \in Given
PROOF
  <1> SUFFICES ASSUME NEW v \in Flat PROVE Concatenated(v, NotSet) \in Given OBVIOUS
  <1>1. PartOf(NotSet) = [text |-> <<>>, notset |-> TRUE] BY Kinds DEF PartOf
  <1>2. PartOf(NotSet) \in PartForms BY <1>1, LineJoin DEF PartForms
  <1>3. PartOf(v) \in PartForms /\ v.kind # "concat"
    <2>1. CASE v = NotSet BY <1>2, <2>1, Kinds
    <2>2. ASSUME NEW t \in Line, v = Raw(t)
          PROVE  PartOf(v) \in PartForms /\ v.kind # "concat"
      <3>1. TextOf(v) = t BY <2>2, Kinds DEF TextOf
      <3>2. PartOf(v) = [text |-> t, notset |-> FALSE] BY <2>2, <3>1, Kinds DEF PartOf
      <3>3. QED BY <2>2, <3>2, Kinds DEF PartForms
    <2>3. QED BY <2>1, <2>2 DEF Flat
  <1> DEFINE l == PartOf(v)  r == PartOf(NotSet)
  <1>4. Concatenated(v, NotSet) = Concat(<<l>> \o <<r>>) BY <1>3, Kinds DEF Concatenated
  <1>5. l \in PartForms /\ r \in PartForms BY <1>2, <1>3
  <1> HIDE DEF l, r
  <1>6. <<l>> \o <<r>> \in Seq(PartForms)
    <2>1. <<l>> \in Seq(PartForms) /\ <<r>> \in Seq(PartForms)
      <3> HIDE DEF PartForms
      <3>1. QED BY <1>5
    <2>2. QED BY <2>1, Concat2
  <1>7. QED BY <1>4, <1>6 DEF Given

LEMMA ToWriteFlat ==
  ASSUME NEW op \in {"=", "+="}, NEW current \in {Null} \cup {Raw(t) : t \in Line},
         NEW operand \in Given
  PROVE  ToWrite(op, current, operand) \in Flat
PROOF
  <1> DEFINE flat(v) == IF v.kind = "concat" THEN ForHeader(v) ELSE v
             f == flat(operand)
  <1>1. \A v \in Flat : flat(v) = v BY Kinds DEF Flat
  <1>2. f \in Flat
    <2>1. CASE operand \in Flat BY <1>1, <2>1
    <2>2. ASSUME NEW p \in Seq(PartForms), operand = Concat(p) PROVE f \in Flat
      BY <2>2, Kinds, ForHeaderFlat
    <2>3. QED BY <2>1, <2>2 DEF Given
  <1>3. CASE op = "="
    <2>1. ToWrite(op, current, operand) = f BY <1>3 DEF ToWrite
    <2>2. QED BY <1>2, <2>1
  <1>4. CASE op = "+="
    <2>1. f.kind \in Strings BY <1>2, Kinds DEF Flat, Strings
    <2>2. ToWrite(op, current, operand) = flat(Combine("+=", current, f))
      <3>1. op # "=" BY <1>4
      <3>2. QED BY <1>4, <3>1 DEF ToWrite
    <2> DEFINE u == IF current \in {Null, NotSet} THEN <<>> ELSE TextOf(current)
               w == DisplayText(f)
    <2>3. u \in Line
      <3>1. CASE current = Null BY <3>1, LineJoin
      <3>2. ASSUME NEW t \in Line, current = Raw(t) PROVE u \in Line
        <4>1. TextOf(current) = t BY <3>2, Kinds DEF TextOf
        <4>2. QED BY <3>2, <4>1, LineJoin
      <3>3. QED BY <3>1, <3>2
    <2>4. w \in Line
      <3>1. f.kind \notin {"null", "bool"} BY <1>2, Kinds DEF Flat
      <3>2. w = TextOf(f) BY <3>1 DEF DisplayText
      <3>3. QED BY <1>2, <3>2, TextLine DEF Given
    <2>5. Combine("+=", current, f) = Raw(u \o w) BY <2>1, CombineAdd
    <2> HIDE DEF f, u, w
    <2>6. u \o w \in Line BY <2>3, <2>4, LineJoin
    <2>7. Raw(u \o w) \in Flat BY <2>6 DEF Flat
    <2> HIDE DEF flat
    <2>8. QED BY <1>1, <2>2, <2>5, <2>7
  <1>5. QED BY <1>3, <1>4

-----------------------------------------------------------------------------
(* What the constants are.                                                  *)

LEMMA OneLine ==
  ASSUME NEW text \in Seq(C)
  PROVE  Len(Lines(text)) = 1 <=> Count("LF", text) = 0
PROOF
  <1> DEFINE E == Ends(text, "LF")
             n == Cardinality(E)
             f == [k \in 1 .. n |-> Between(text, E, k)]
  <1>1. Split(text, "LF") = f /\ n = Count("LF", text) + 1 BY SplitIs
  <1>2. Count("LF", text) \in Nat BY CountIs
  <1> HIDE DEF E, n
  <1>3. n \in Nat BY <1>1, <1>2
  <1> DEFINE X == {f[k] : k \in 1 .. n}
  <1>4. f \in [1 .. n -> X] OBVIOUS
  <1> HIDE DEF X, f
  <1>5. Len(f) = n BY <1>3, <1>4, FunctionIsSeq
  <1>6. Lines(text) = f BY <1>1 DEF Lines
  <1>7. Len(Lines(text)) = Count("LF", text) + 1 BY <1>1, <1>5, <1>6
  <1>8. QED BY <1>2, <1>7

LEMMA ToSetCount ==
  ASSUME NEW text \in Seq(C), NEW c
  PROVE  c \notin ToSet(text) <=> Count(c, text) = 0
PROOF
  <1>1. DOMAIN text = 1 .. Len(text) OBVIOUS
  <1>2. Count(c, text) = 0 <=> \A i \in 1 .. Len(text) : text[i] # c BY CountIs
  <1>3. QED BY <1>1, <1>2 DEF ToSet

LEMMA KeysPlain == \A key \in Keys : key \in Seq(C) /\ key # <<>> /\ PlainKey(key)
PROOF
  <1> SUFFICES ASSUME NEW key \in Keys
               PROVE  key \in Seq(C) /\ key # <<>> /\ PlainKey(key)
    OBVIOUS
  <1>1. key \in Seq(C) /\ key # <<>> BY HeadersAssumption DEF C
  <1>2. ToSet(key) \cap Marks = {} BY HeadersAssumption
  <1>3. \A c \in Marks : c \notin ToSet(key) BY <1>2
  <1>4. \A c \in Marks : Count(c, key) = 0 BY <1>1, <1>3, ToSetCount
  <1>5. PlainKey(key) BY <1>1, <1>4 DEF PlainKey, Marks
  <1>6. QED BY <1>1, <1>5

LEMMA LiteralsLine == Literals \subseteq Line
PROOF
  <1> SUFFICES ASSUME NEW t \in Literals PROVE t \in Line OBVIOUS
  <1>1. t \in Seq(C) BY HeadersAssumption DEF C
  <1>3. Len(Lines(t)) = 1 BY HeadersAssumption
  <1>4. QED BY <1>1, <1>3, OneLine DEF Line

HeaderTexts == Seq(C) \cup {Absent}

Tables == [Names -> HeaderTexts]

LEMMA InboundTyped ==
  /\ Inbound \subseteq Tables
  /\ \A h \in Inbound, n \in Names : h[n] \in Line \cup {Absent}
PROOF
  <1>1. Inbound \subseteq Tables BY HeadersAssumption DEF Tables, HeaderTexts, C
  <1>2. ASSUME NEW h \in Inbound, NEW n \in Names, h[n] # Absent PROVE h[n] \in Line
    <2>1. h[n] \in Seq(C) BY <1>1, <1>2 DEF Tables, HeaderTexts
    <2>2. Len(Lines(h[n])) = 1 BY <1>2, HeadersAssumption
    <2>3. QED BY <2>1, <2>2, OneLine DEF Line
  <1>3. QED BY <1>1, <1>2

-----------------------------------------------------------------------------
(* What is read is one line.                                                *)

LEMMA FirstLineLine == \A t \in Seq(C) : FirstLine(t) \in Line
PROOF BY FirstLineIs DEF Line

LEMMA PartsLines ==
  ASSUME NEW text \in Line
  PROVE  \A i \in 1 .. Len(PartsOf(text)) : PartsOf(text)[i] \in Line
PROOF
  <1> DEFINE S == C \ {"LF"}
             p == PartsOf(text)
  <1>1. text \in Seq(S)
    <2>1. text \in Seq(C) /\ \A i \in 1 .. Len(text) : text[i] # "LF" BY CountIs DEF Line
    <2> HIDE DEF C
    <2>2. QED BY <2>1
  <1>2. "," \in S BY Written
  <1> HIDE DEF S
  <1>3. p \in Seq(Seq(S)) BY <1>1, <1>2, SplitTyped DEF PartsOf
  <1> HIDE DEF p
  <1>4. \A i \in 1 .. Len(p) : p[i] \in Seq(S) BY <1>3
  <1>5. \A t \in Seq(S) : t \in Line
    <2> SUFFICES ASSUME NEW t \in Seq(S) PROVE t \in Line OBVIOUS
    <2>1. \A i \in 1 .. Len(t) : t[i] \in S OBVIOUS
    <2>2. S \subseteq C /\ "LF" \notin S BY DEF S
    <2>3. t \in Seq(C) BY <2>1, <2>2
    <2>4. Count("LF", t) = 0 BY <2>1, <2>2, <2>3, CountIs
    <2>5. QED BY <2>3, <2>4 DEF Line
  <1>6. QED BY <1>4, <1>5 DEF p

LEMMA EntryLine ==
  ASSUME NEW t \in Line
  PROVE  ValueIn(Entry(t)) \in Line
PROOF
  <1>1. t \in Seq(C) /\ Count("LF", t) = 0 BY DEF Line
  <1>2. CASE Entry(t) = [key |-> Trim(t), val |-> Absent] BY <1>2, LineJoin DEF ValueIn
  <1>3. ASSUME NEW u \in Seq(C), NEW v \in Seq(C), t = u \o <<"=">> \o v,
               Entry(t) = [key |-> Trim(u), val |-> Trim(v)]
        PROVE  ValueIn(Entry(t)) \in Line
    <2>1. /\ Count("LF", t) = Count("LF", u) + Count("LF", <<"=">>) + Count("LF", v)
          /\ Count("LF", u) \in Nat /\ Count("LF", <<"=">>) \in Nat /\ Count("LF", v) \in Nat
      BY <1>3, EqualsCount
    <2>2. Count("LF", v) = 0 BY <1>1, <2>1
    <2>3. Trim(v) \in Seq(C) /\ Count("LF", Trim(v)) <= Count("LF", v) BY TrimFacts
    <2>4. Count("LF", Trim(v)) \in Nat BY <2>3, CountIs
    <2>5. Count("LF", Trim(v)) = 0 BY <2>2, <2>3, <2>4
    <2>6. Entry(t).val = Trim(v) BY <1>3
    <2>7. QED BY <2>3, <2>5, <2>6, LineJoin DEF ValueIn, Line
  <1>4. QED BY <1>1, <1>2, <1>3, EntryParsed

LEMMA ParsedLen ==
  ASSUME NEW p \in Bodies(C)
  PROVE  Len(Parsed(p)) = Len(p)
PROOF
  <1> DEFINE X == Seq(C)
             f == ParseOf
             n == Len(p)
             b == Image(f, p)
  <1>1. f \in [X -> EntryForms] BY EntryFacts DEF ParseOf
  <1>2. p \in Seq(X) BY DEF Bodies
  <1> HIDE DEF X, f
  <1>3. n \in Nat /\ DOMAIN p = 1 .. n /\ \A i \in 1 .. n : p[i] \in X BY <1>2
  <1> HIDE DEF n
  <1>4. b \in [1 .. n -> EntryForms] BY <1>1, <1>3 DEF Image
  <1> HIDE DEF b
  <1>5. Len(b) = n BY <1>3, <1>4, FunctionIsSeq
  <1>6. QED BY <1>5 DEF b, n, f, Parsed

LEMMA DictGetLine ==
  ASSUME NEW text \in Line, NEW k, k # <<>>
  PROVE  DictGet(text, k) \in Line \cup {Absent}
PROOF
  <1> DEFINE p == PartsOf(text)
             es == Parsed(p)
             i == KeyAt(es, k)
  <1>1. text \in Seq(C) BY DEF Line
  <1>2. DictGet(text, k) = ValueOf(es, k) BY <1>1, DictGetIs DEF PartsOf
  <1>3. p \in Bodies(C) /\ \A j \in 1 .. Len(p) : p[j] \in Line BY <1>1, PartsAre, PartsLines
  <1> HIDE DEF p
  <1>4. es \in Seq(EntryForms) /\ Len(es) = Len(p) /\ \A j \in 1 .. Len(p) : es[j] = Entry(p[j])
    <2> DEFINE X == Seq(C)
    <2>1. ParseOf \in [X -> EntryForms] BY EntryFacts DEF ParseOf
    <2>2. p \in Seq(X) BY <1>3 DEF Bodies
    <2> HIDE DEF X
    <2>3. es \in Seq(EntryForms) /\ Len(es) = Len(p)
      <3>1. es \in Seq(EntryForms) BY <1>3, EmptyEntry, ParsedSnoc
      <3>2. QED BY <1>3, <3>1, ParsedLen
    <2>4. DOMAIN p = 1 .. Len(p) BY <2>2
    <2>5. \A j \in 1 .. Len(p) : es[j] = ParseOf[p[j]] BY <2>4 DEF Parsed, Image
    <2>6. \A j \in 1 .. Len(p) : ParseOf[p[j]] = Entry(p[j]) BY <1>3 DEF ParseOf, Line
    <2>7. QED BY <2>3, <2>5, <2>6
  <1> HIDE DEF es
  <1>5. i \in 0 .. Len(es) BY <1>4, KeyAtIs
  <1> HIDE DEF i
  <1>6. i # 0 => ValueIn(es[i]) \in Line
    <2>1. i # 0 => i \in 1 .. Len(p) BY <1>4, <1>5
    <2>2. QED BY <1>3, <1>4, <2>1, EntryLine
  <1>7. QED BY <1>2, <1>6 DEF ValueOf, i

LEMMA ReadWholeFlat == \A held \in HeaderTexts : ReadWhole(held) \in Flat
PROOF BY FirstLineLine, NotAbsent DEF ReadWhole, HeaderTexts, Flat

LEMMA ReadSubfieldFlat == \A held \in HeaderTexts, key \in Keys : ReadSubfield(held, key) \in Flat
PROOF BY FirstLineLine, DictGetLine, KeysPlain DEF ReadSubfield, HeaderTexts, Flat

LEMMA ReadFlat ==
  \A h \in Tables, n \in Names, key \in Keys \cup {Whole} : Read(h, n, key) \in Flat
PROOF
  <1> SUFFICES ASSUME NEW h \in Tables, NEW n \in Names, NEW key \in Keys \cup {Whole}
               PROVE  Read(h, n, key) \in Flat
    OBVIOUS
  <1>1. h[n] \in HeaderTexts BY DEF Tables
  <1>2. QED BY <1>1, ReadWholeFlat, ReadSubfieldFlat DEF Read

HeadersTyped ==
  /\ http \in [Scopes -> Tables]
  /\ groups \in Line \cup {Absent}

LEMMA OperandsGiven ==
  ASSUME HeadersTyped
  PROVE  Operands \subseteq Given
PROOF
  <1>1. Atoms \subseteq Flat
    <2>1. {Raw(t) : t \in Literals} \subseteq Flat BY LiteralsLine DEF Flat
    <2>2. (IF groups = Absent THEN NotSet ELSE Raw(groups)) \in Flat BY DEF HeadersTyped, Flat
    <2>3. \A s \in Scopes : http[s] \in Tables BY DEF HeadersTyped
    <2>4. {Read(http[s], n, k) : s \in Scopes, n \in Names, k \in {Whole} \cup Keys} \subseteq Flat
      BY <2>3, ReadFlat
    <2>5. QED BY <2>1, <2>2, <2>4 DEF Atoms
  <1>2. QED BY <1>1, ConcatenatedGiven DEF Operands, Given

-----------------------------------------------------------------------------
(* Costs.                                                                   *)

Ceil8(x) == ((x + 7) \div 8) * 8

LEMMA Ceil8Nat == \A x \in Nat : Ceil8(x) \in Nat /\ x <= Ceil8(x)
PROOF BY DEF Ceil8

LEMMA Ceil8Grows == \A x, y \in Nat : x <= y => Ceil8(x) <= Ceil8(y)
PROOF BY DEF Ceil8

LEMMA Ceil8Sum == \A x, y \in Nat : Ceil8(x + y) <= Ceil8(x) + Ceil8(y)
PROOF BY DEF Ceil8

LEMMA Ceil8None == Ceil8(0) = 0
PROOF BY DEF Ceil8

Bare(name) == Len(Split(name, ":")[1])

LEMMA BareNat == \A n \in Names : Bare(n) \in Nat
PROOF
  <1> SUFFICES ASSUME NEW n \in Names PROVE Bare(n) \in Nat OBVIOUS
  <1>1. n \in Seq(C) /\ ":" \in C
    <2>1. ":" \in C BY Written
    <2>2. Names \subseteq Seq(C) BY HeadersAssumption DEF C
    <2>3. QED BY <2>1, <2>2
  <1> DEFINE p == Split(n, ":")
             X == Seq(C)
  <1>2. p \in Seq(X) /\ p # <<>> BY <1>1, SplitTyped
  <1> HIDE DEF p, X
  <1>3. p[1] \in X BY <1>2
  <1>4. QED BY <1>3 DEF Bare, p, X

LEMMA CostIs ==
  ASSUME NEW n \in Names, NEW t \in Seq(C)
  PROVE  WorkspaceCost(n, t) = Ceil8(Bare(n) + 3 + Len(t))
PROOF
  <1>1. Bare(n) \in Nat /\ Len(t) \in Nat BY BareNat
  <1>2. WorkspaceCost(n, t) = ((Bare(n) + Len(t) + 3 + 7) \div 8) * 8 BY DEF WorkspaceCost, Bare
  <1>3. Bare(n) + Len(t) + 3 + 7 = (Bare(n) + 3 + Len(t)) + 7 BY <1>1
  <1>4. QED BY <1>2, <1>3 DEF Ceil8

-----------------------------------------------------------------------------
(* A line feed of a header may become a separator: what that may add.       *)

Debt(n, t) == Count("LF", t) * (Bare(n) + 2)

LEMMA Product ==
  /\ \A k, m \in Nat : k * m \in Nat
  /\ \A k, l, m \in Nat : k <= l => k * m <= l * m
  /\ \A k, l, m \in Nat : k <= l => m * k <= m * l
  /\ \A k, m \in Nat : (k + 1) * m = k * m + m
  /\ \A m \in Nat : 0 * m = 0
PROOF OBVIOUS

LEMMA DebtIs ==
  ASSUME NEW n \in Names, NEW t \in Seq(C)
  PROVE  /\ Debt(n, t) \in Nat
         /\ Count("LF", t) = 0 => Debt(n, t) = 0
         /\ \A s \in Seq(C) : Count("LF", s) <= Count("LF", t) => Debt(n, s) <= Debt(n, t)
PROOF
  <1>1. Bare(n) + 2 \in Nat /\ \A s \in Seq(C) : Count("LF", s) \in Nat BY BareNat, CountIs
  <1>2. QED BY <1>1, Product DEF Debt

(* What a header is worth to the account: all it may become, once paid for. *)
Pot(n, t, paid) ==
  IF t = Absent THEN 0
  ELSE Ceil8(Debt(n, t) + IF paid THEN Bare(n) + 3 + Len(t) ELSE 0)

LEMMA PotNat ==
  ASSUME NEW n \in Names, NEW t \in HeaderTexts, NEW paid \in BOOLEAN
  PROVE  Pot(n, t, paid) \in Nat
PROOF
  <1>1. CASE t = Absent BY <1>1 DEF Pot
  <1>2. CASE t # Absent
    <2>1. t \in Seq(C) BY <1>2 DEF HeaderTexts
    <2>2. Debt(n, t) \in Nat /\ Bare(n) \in Nat /\ Len(t) \in Nat BY <2>1, DebtIs, BareNat
    <2> DEFINE x == Debt(n, t) + IF paid THEN Bare(n) + 3 + Len(t) ELSE 0
    <2>3. x \in Nat BY <2>2
    <2>4. Pot(n, t, paid) = Ceil8(x) BY <1>2 DEF Pot
    <2> HIDE DEF x
    <2>5. QED BY <2>3, <2>4, Ceil8Nat
  <1>3. QED BY <1>1, <1>2

(* Nothing to pay: a header that goes, that is one line nobody pays for, or *)
(* that is no longer than it may have become.                               *)
LEMMA PotFalls ==
  ASSUME NEW n \in Names, NEW t \in HeaderTexts, NEW u \in HeaderTexts,
         NEW p \in BOOLEAN, NEW q \in BOOLEAN,
         \/ u = Absent
         \/ u \in Line /\ ~q
         \/ /\ t # Absent /\ u # Absent /\ (q => p)
            /\ Debt(n, u) <= Debt(n, t)
            /\ Len(u) + Debt(n, u) <= Len(t) + Debt(n, t)
  PROVE  Pot(n, u, q) <= Pot(n, t, p)
PROOF
  <1>1. Pot(n, t, p) \in Nat BY PotNat
  <1>2. CASE u = Absent BY <1>1, <1>2 DEF Pot
  <1>3. CASE u \in Line /\ ~q
    <2>1. u \in Seq(C) /\ Count("LF", u) = 0 BY <1>3 DEF Line
    <2>2. Debt(n, u) = 0 BY <2>1, DebtIs
    <2>3. u # Absent BY <2>1, NotAbsent
    <2>4. Pot(n, u, q) = Ceil8(0 + 0) BY <1>3, <2>2, <2>3 DEF Pot
    <2>5. Pot(n, u, q) = 0 BY <2>4, Ceil8None
    <2>6. QED BY <1>1, <2>5
  <1>4. CASE /\ t # Absent /\ u # Absent /\ (q => p)
             /\ Debt(n, u) <= Debt(n, t)
             /\ Len(u) + Debt(n, u) <= Len(t) + Debt(n, t)
    <2>1. t \in Seq(C) /\ u \in Seq(C) BY <1>4 DEF HeaderTexts
    <2>2. Len(t) \in Nat /\ Len(u) \in Nat /\ Debt(n, t) \in Nat /\ Debt(n, u) \in Nat
          /\ Bare(n) \in Nat
      BY <2>1, DebtIs, BareNat
    <2> DEFINE x == Debt(n, u) + IF q THEN Bare(n) + 3 + Len(u) ELSE 0
               y == Debt(n, t) + IF p THEN Bare(n) + 3 + Len(t) ELSE 0
    <2>3. x \in Nat /\ y \in Nat /\ x <= y BY <1>4, <2>2
    <2>4. Pot(n, u, q) = Ceil8(x) /\ Pot(n, t, p) = Ceil8(y) BY <1>4 DEF Pot
    <2> HIDE DEF x, y
    <2>5. QED BY <2>3, <2>4, Ceil8Grows
  <1>5. QED BY <1>2, <1>3, <1>4

(* A header paid for in full, of no more lines than before.                 *)
LEMMA PotWritten ==
  ASSUME NEW n \in Names, NEW t \in HeaderTexts, NEW u \in Seq(C), NEW p \in BOOLEAN,
         NEW q \in BOOLEAN, Count("LF", u) <= IF t = Absent THEN 0 ELSE Count("LF", t)
  PROVE  Pot(n, u, q) <= Pot(n, t, p) + WorkspaceCost(n, u)
PROOF
  <1> DEFINE d == Debt(n, u)
             w == Bare(n) + 3 + Len(u)
  <1>1. d \in Nat /\ w \in Nat BY DebtIs, BareNat
  <1> DEFINE z == d + IF q THEN w ELSE 0
  <1>2. Pot(n, u, q) = Ceil8(z) BY NotAbsent DEF Pot
  <1>9. z \in Nat /\ d + w \in Nat /\ z <= d + w
    <2> HIDE DEF d, w
    <2>1. QED BY <1>1
  <1>3. WorkspaceCost(n, u) = Ceil8(w) BY CostIs
  <1>4. Ceil8(d) <= Pot(n, t, p)
    <2>1. CASE t = Absent
      <3>1. Count("LF", u) = 0 BY <2>1, CountIs
      <3>2. d = 0 BY <3>1, DebtIs
      <3>3. QED BY <2>1, <3>2, Ceil8None DEF Pot
    <2>2. CASE t # Absent
      <3>1. t \in Seq(C) BY <2>2 DEF HeaderTexts
      <3>2. d <= Debt(n, t) BY <2>2, <3>1, DebtIs
      <3> DEFINE x == Debt(n, t) + IF p THEN Bare(n) + 3 + Len(t) ELSE 0
      <3>3. Debt(n, t) \in Nat /\ Bare(n) \in Nat /\ Len(t) \in Nat BY <3>1, DebtIs, BareNat
      <3>4. x \in Nat /\ d <= x
        <4> HIDE DEF d
        <4>1. QED BY <1>1, <3>2, <3>3
      <3>5. Pot(n, t, p) = Ceil8(x) BY <2>2 DEF Pot
      <3> HIDE DEF x, d
      <3>6. QED BY <1>1, <3>4, <3>5, Ceil8Grows
    <2>3. QED BY <2>1, <2>2
  <1>5. Pot(n, t, p) \in Nat BY PotNat
  <1> HIDE DEF d, w, z
  <1>6. Ceil8(d + w) <= Ceil8(d) + Ceil8(w) BY <1>1, Ceil8Sum
  <1>7. Ceil8(d) \in Nat /\ Ceil8(w) \in Nat /\ Ceil8(d + w) \in Nat /\ Ceil8(z) \in Nat
    BY <1>1, <1>9, Ceil8Nat
  <1>10. Ceil8(z) <= Ceil8(d + w) BY <1>9, Ceil8Grows
  <1>8. QED BY <1>2, <1>3, <1>4, <1>5, <1>6, <1>7, <1>10

(* One more line, paid for by itself.                                       *)
LEMMA PotAdded ==
  ASSUME NEW n \in Names, NEW t \in Seq(C), NEW u \in Line, NEW p \in BOOLEAN
  PROVE  Pot(n, t \o <<"LF">> \o u, p) <= Pot(n, t, p) + WorkspaceCost(n, u)
PROOF
  <1> DEFINE v == t \o <<"LF">> \o u
             a == Bare(n)  d == Debt(n, t)  l == Len(t)  m == Len(u)
  <1>1. u \in Seq(C) /\ Count("LF", u) = 0 BY DEF Line
  <1>2. v \in Seq(C) /\ Len(v) = l + 1 + m /\ Count("LF", v) = Count("LF", t) + 1
    <2> DEFINE q == <<"LF">>
               w == t \o q
    <2>1. q \in Seq(C) /\ Len(q) = 1 /\ Count("LF", q) = 1
      <3>1. "LF" \in C BY Written
      <3>2. \A x \in C : <<x>> \in Seq(C)
        <4> HIDE DEF C
        <4>1. QED OBVIOUS
      <3>3. QED BY <3>1, <3>2, CountOne
    <2> HIDE DEF q
    <2>2. w \in Seq(C) /\ Len(w) = l + 1 BY <2>1, Concat2
    <2>3. Count("LF", w) = Count("LF", t) + Count("LF", q) BY <2>1, CountConcat
    <2> HIDE DEF w
    <2>4. w \o u \in Seq(C) /\ Len(w \o u) = Len(w) + m BY <1>1, <2>2, Concat2
    <2>5. Count("LF", w \o u) = Count("LF", w) + Count("LF", u) BY <1>1, <2>2, CountConcat
    <2>6. l \in Nat /\ m \in Nat /\ Count("LF", t) \in Nat BY <1>1, CountIs
    <2>7. v = w \o u BY DEF w, q
    <2> HIDE DEF v
    <2>8. QED BY <1>1, <2>1, <2>2, <2>3, <2>4, <2>5, <2>6, <2>7
  <1>3. a \in Nat /\ d \in Nat /\ l \in Nat /\ m \in Nat BY <1>1, BareNat, DebtIs
  <1> HIDE DEF v
  <1>4. Debt(n, v) = d + (a + 2)
    <2>1. Count("LF", t) \in Nat /\ a + 2 \in Nat BY <1>3, CountIs
    <2>2. QED BY <1>2, <2>1, Product DEF Debt
  <1>5. WorkspaceCost(n, u) = Ceil8(a + 3 + m) BY <1>1, CostIs
  <1>6. t # Absent /\ v # Absent BY <1>2, NotAbsent
  <1>7. Pot(n, t, p) = Ceil8(d + IF p THEN a + 3 + l ELSE 0) BY <1>6 DEF Pot
  <1>8. Pot(n, v, p) = Ceil8(d + (a + 2) + IF p THEN a + 3 + (l + 1 + m) ELSE 0)
    BY <1>2, <1>4, <1>6 DEF Pot
  <1> HIDE DEF a, d, l, m
  <1>9. CASE p
    <2> DEFINE x == d + (a + 3 + l)  y == a + 3 + m
    <2>1. x \in Nat /\ y \in Nat /\ d + (a + 2) + (a + 3 + (l + 1 + m)) = x + y BY <1>3
    <2>2. Ceil8(x + y) <= Ceil8(x) + Ceil8(y) BY <2>1, Ceil8Sum
    <2>3. Pot(n, t, p) = Ceil8(x) /\ Pot(n, v, p) = Ceil8(x + y) BY <1>7, <1>8, <1>9, <2>1
    <2>4. QED BY <1>5, <2>2, <2>3 DEF v
  <1>10. CASE ~p
    <2> DEFINE y == a + 3 + m
    <2>1. d + (a + 2) + 0 \in Nat /\ d + y \in Nat /\ y \in Nat
          /\ d + (a + 2) + 0 <= d + y /\ d + 0 = d
      BY <1>3
    <2>2. Ceil8(d + y) <= Ceil8(d) + Ceil8(y) BY <1>3, <2>1, Ceil8Sum
    <2>3. Ceil8(d + (a + 2) + 0) <= Ceil8(d + y) BY <2>1, Ceil8Grows
    <2>4. Pot(n, t, p) = Ceil8(d) /\ Pot(n, v, p) = Ceil8(d + (a + 2) + 0)
      BY <1>7, <1>8, <1>10, <2>1
    <2>5. Ceil8(d) \in Nat /\ Ceil8(y) \in Nat /\ Ceil8(d + y) \in Nat
          /\ Ceil8(d + (a + 2) + 0) \in Nat
      BY <1>3, <2>1, Ceil8Nat
    <2> HIDE DEF y
    <2>6. Ceil8(d + (a + 2) + 0) <= Ceil8(d) + Ceil8(y) BY <2>2, <2>3, <2>5
    <2>7. QED BY <1>5, <2>4, <2>6 DEF v, y
  <1>11. QED BY <1>9, <1>10

-----------------------------------------------------------------------------
(* Statements: each writes one header and pays for it, or replaces headers  *)
(* and pays nothing, or leaves the headers alone.                           *)

(* A separator that fits in the bytes one more line pays for.               *)
ShortSeparators ==
  \A sep \in Separators : Count("LF", sep) = 0 /\ \A n \in Names : Len(sep) <= Bare(n) + 3

Pays(scope, name, text, paid) ==
  /\ text \in Seq(C) /\ paid \in Seq(C)
  /\ Pot(name, text, name \in charged \/ text = paid)
       <= Pot(name, http[scope][name], name \in charged) + WorkspaceCost(name, paid)

Frees(scope, headers, unpaid) ==
  /\ headers \in Tables
  /\ ShortSeparators =>
       \A n \in Names :
         Pot(n, headers[n], n \in charged \ unpaid) <= Pot(n, http[scope][n], n \in charged)

Writes == \E scope, name, text, paid :
            /\ scope \in Scopes /\ name \in Names
            /\ Write(scope, name, text, paid) /\ Pays(scope, name, text, paid)

Replaces == \E scope, headers, unpaid :
              scope \in Scopes /\ Replace(scope, headers, unpaid) /\ Frees(scope, headers, unpaid)

Passes == /\ UNCHANGED <<http, workspace, verdict, charged>>
          /\ groups' \in Line \cup {Absent}
          /\ ran' = ran + 1

LEMMA HeldTyped ==
  ASSUME HeadersTyped, NEW s \in Scopes
  PROVE  http[s] \in Tables /\ \A n \in Names : http[s][n] \in HeaderTexts
PROOF BY DEF HeadersTyped, Tables

LEMMA PaysLine ==
  ASSUME HeadersTyped, NEW s \in Scopes, NEW n \in Names, NEW u \in Seq(C),
         Count("LF", u) <= IF http[s][n] = Absent THEN 0 ELSE Count("LF", http[s][n])
  PROVE  Pays(s, n, u, u)
PROOF
  <1> DEFINE t == http[s][n]  p == n \in charged  q == n \in charged \/ u = u
  <1>1. t \in HeaderTexts /\ p \in BOOLEAN /\ q \in BOOLEAN BY HeldTyped
  <1>2. Count("LF", u) <= IF t = Absent THEN 0 ELSE Count("LF", t) OBVIOUS
  <1> HIDE DEF t, p, q
  <1>3. Pot(n, u, q) <= Pot(n, t, p) + WorkspaceCost(n, u) BY <1>1, <1>2, PotWritten
  <1>4. QED BY <1>3 DEF Pays, t, p, q

LEMMA PaysOneLine ==
  ASSUME HeadersTyped, NEW s \in Scopes, NEW n \in Names, NEW u \in Line
  PROVE  Pays(s, n, u, u)
PROOF
  <1> DEFINE t == http[s][n]
  <1>1. u \in Seq(C) /\ Count("LF", u) = 0 BY DEF Line
  <1>2. t \in HeaderTexts BY HeldTyped
  <1> HIDE DEF t
  <1>3. t # Absent => Count("LF", t) \in Nat BY <1>2, CountIs DEF HeaderTexts
  <1>4. Count("LF", u) <= IF t = Absent THEN 0 ELSE Count("LF", t) BY <1>1, <1>3
  <1>5. QED BY <1>1, <1>4, PaysLine DEF t

LEMMA PaysMore ==
  ASSUME HeadersTyped, NEW s \in Scopes, NEW n \in Names, NEW u \in Line,
         http[s][n] \notin {Absent, <<>>}
  PROVE  Pays(s, n, http[s][n] \o <<"LF">> \o u, u)
PROOF
  <1> DEFINE t == http[s][n]
             v == t \o <<"LF">> \o u
             p == n \in charged
             q == n \in charged \/ v = u
  <1>1. t \in Seq(C) /\ u \in Seq(C) /\ p \in BOOLEAN BY HeldTyped DEF HeaderTexts, Line
  <1>2. v \in Seq(C) /\ Len(v) > Len(u)
    <2> DEFINE w == t \o <<"LF">>  l == <<"LF">>
    <2>1. l \in Seq(C) /\ Len(l) = 1
      <3>1. "LF" \in C BY Written
      <3>2. \A x \in C : <<x>> \in Seq(C)
        <4> HIDE DEF C
        <4>1. QED OBVIOUS
      <3>3. QED BY <3>1, <3>2
    <2> HIDE DEF l
    <2>2. t \o l \in Seq(C) /\ Len(t \o l) = Len(t) + Len(l) BY <1>1, <2>1, Concat2
    <2>3. (t \o l) \o u \in Seq(C) /\ Len((t \o l) \o u) = Len(t \o l) + Len(u)
      BY <1>1, <2>2, Concat2
    <2>4. Len(t) \in Nat /\ Len(u) \in Nat BY <1>1
    <2> HIDE DEF t
    <2>5. v = (t \o l) \o u BY DEF l
    <2> HIDE DEF v
    <2>6. QED BY <2>1, <2>2, <2>3, <2>4, <2>5
  <1>3. v # u
    <2>1. Len(u) \in Nat BY <1>1
    <2> HIDE DEF v
    <2>2. QED BY <1>2, <2>1
  <1>4. Pot(n, v, p) <= Pot(n, t, p) + WorkspaceCost(n, u)
    <2> HIDE DEF t, p
    <2>1. QED BY <1>1, PotAdded
  <1>5. q = p BY <1>3
  <1> HIDE DEF v, q
  <1>6. Pays(s, n, v, u)
    <2>1. Pot(n, v, q) <= Pot(n, t, p) + WorkspaceCost(n, u) BY <1>4, <1>5
    <2>2. QED BY <1>1, <1>2, <2>1 DEF Pays, q
  <1>7. QED BY <1>6 DEF v

(* Headers that go, that others do not pay for, or that stay.               *)
LEMMA FreesOnly ==
  ASSUME HeadersTyped, NEW s \in Scopes, NEW headers \in Tables, NEW unpaid,
         \A n \in Names : \/ headers[n] = Absent
                          \/ headers[n] \in Line /\ n \in unpaid
                          \/ headers[n] = http[s][n]
  PROVE  Frees(s, headers, unpaid)
PROOF
  <1> SUFFICES ASSUME NEW n \in Names
               PROVE  Pot(n, headers[n], n \in charged \ unpaid)
                        <= Pot(n, http[s][n], n \in charged)
    BY DEF Frees
  <1> DEFINE t == http[s][n]  u == headers[n]
             p == n \in charged  q == n \in charged \ unpaid
  <1>1. t \in HeaderTexts /\ u \in HeaderTexts BY HeldTyped DEF Tables
  <1>2. p \in BOOLEAN /\ q \in BOOLEAN /\ (q => p) OBVIOUS
  <1>3. u = Absent \/ (u \in Line /\ ~q) \/ u = t OBVIOUS
  <1>4. t # Absent => Debt(n, t) <= Debt(n, t) /\ Len(t) + Debt(n, t) <= Len(t) + Debt(n, t)
    <2>1. t # Absent => t \in Seq(C) BY <1>1 DEF HeaderTexts
    <2> HIDE DEF t
    <2>2. t # Absent => Debt(n, t) \in Nat /\ Len(t) \in Nat BY <2>1, DebtIs
    <2>3. QED BY <2>2
  <1> HIDE DEF t, u, p, q
  <1>5. Pot(n, u, q) <= Pot(n, t, p) BY <1>1, <1>2, <1>3, <1>4, PotFalls
  <1>6. QED BY <1>5 DEF t, u, p, q

(* One header that has become no longer than it might.                      *)
LEMMA FreesOne ==
  ASSUME HeadersTyped, NEW s \in Scopes, NEW m \in Names, http[s][m] # Absent,
         NEW text \in Seq(C),
         ShortSeparators =>
           /\ Debt(m, text) <= Debt(m, http[s][m])
           /\ Len(text) + Debt(m, text) <= Len(http[s][m]) + Debt(m, http[s][m])
  PROVE  Frees(s, [http[s] EXCEPT ![m] = text], {})
PROOF
  <1> DEFINE headers == [http[s] EXCEPT ![m] = text]
  <1>1. http[s] \in Tables /\ text \in HeaderTexts BY HeldTyped DEF HeaderTexts
  <1>2. headers \in Tables BY <1>1 DEF Tables
  <1>3. headers[m] = text /\ \A n \in Names : n # m => headers[n] = http[s][n] BY <1>1 DEF Tables
  <1> HIDE DEF headers
  <1>4. ASSUME ShortSeparators, NEW n \in Names
        PROVE  Pot(n, headers[n], n \in charged \ {}) <= Pot(n, http[s][n], n \in charged)
    <2> DEFINE t == http[s][n]  u == headers[n]
               p == n \in charged  q == n \in charged \ {}
    <2>1. t \in HeaderTexts /\ u \in HeaderTexts BY <1>2, HeldTyped DEF Tables
    <2>2. p \in BOOLEAN /\ q \in BOOLEAN /\ (q => p) OBVIOUS
    <2>3. \/ u = Absent
          \/ /\ t # Absent /\ u # Absent
             /\ Debt(n, u) <= Debt(n, t)
             /\ Len(u) + Debt(n, u) <= Len(t) + Debt(n, t)
      <3>1. CASE n = m BY <1>3, <1>4, <3>1, NotAbsent
      <3>2. CASE n # m
        <4>1. u = t BY <1>3, <3>2
        <4>2. t # Absent => t \in Seq(C) BY <2>1 DEF HeaderTexts
        <4> HIDE DEF t
        <4>3. t # Absent => Debt(n, t) \in Nat /\ Len(t) \in Nat BY <4>2, DebtIs
        <4> HIDE DEF u
        <4>4. QED BY <4>1, <4>3
      <3>3. QED BY <3>1, <3>2
    <2> HIDE DEF t, u, p, q
    <2>4. Pot(n, u, q) <= Pot(n, t, p) BY <2>1, <2>2, <2>3, PotFalls
    <2>5. QED BY <2>4 DEF t, u, p, q
  <1>5. QED BY <1>2, <1>4 DEF Frees, headers

-----------------------------------------------------------------------------
(* Every statement is of one of the three forms.                            *)

HeaderStep == Writes \/ Replaces \/ Passes

LEMMA SetHeaderStep ==
  ASSUME HeadersTyped, NEW s \in Scopes, NEW n \in Names, NEW op \in {"=", "+="},
         NEW operand \in Operands, SetHeader(s, n, op, operand)
  PROVE  HeaderStep
PROOF
  <1> DEFINE held == http[s][n]
             current == IF held = Absent THEN Null ELSE Raw(FirstLine(held))
             value == ToWrite(op, current, operand)
             headers == [http[s] EXCEPT ![n] = Absent]
  <1>1. held \in HeaderTexts /\ http[s] \in Tables BY HeldTyped
  <1>2. current \in {Null} \cup {Raw(t) : t \in Line}
    BY <1>1, FirstLineLine DEF HeaderTexts
  <1>3. operand \in Given BY OperandsGiven
  <1>4. IF value \in {NotSet, Null} THEN Replace(s, headers, {n})
        ELSE Write(s, n, TextOf(value), TextOf(value))
    BY DEF SetHeader
  <1> HIDE DEF current
  <1>5. value \in Flat BY <1>2, <1>3, ToWriteFlat
  <1>6. value \in Given BY <1>5 DEF Given
  <1> HIDE DEF value
  <1>7. CASE value \in {NotSet, Null}
    <2>1. headers \in Tables BY <1>1 DEF Tables, HeaderTexts
    <2>2. \A m \in Names : headers[m] = Absent \/ headers[m] = http[s][m]
      BY <1>1 DEF Tables
    <2> HIDE DEF headers
    <2>3. Frees(s, headers, {n}) BY <2>1, <2>2, FreesOnly
    <2>4. QED BY <1>4, <1>7, <2>3 DEF HeaderStep, Replaces
  <1>8. CASE value \notin {NotSet, Null}
    <2>1. TextOf(value) \in Line BY <1>6, TextLine
    <2>2. Pays(s, n, TextOf(value), TextOf(value)) BY <2>1, PaysOneLine
    <2>3. QED BY <1>4, <1>8, <2>2 DEF HeaderStep, Writes
  <1>9. QED BY <1>7, <1>8

LEMMA AddStep ==
  ASSUME HeadersTyped, NEW s \in Scopes, NEW n \in Names, NEW operand \in Operands,
         Add(s, n, operand)
  PROVE  HeaderStep
PROOF
  <1> DEFINE held == http[s][n]
             text == TextOf(operand)
             more == held \o <<"LF">> \o text
  <1>1. operand \in Given BY OperandsGiven
  <1>2. text \in Line BY <1>1, TextLine
  <1>3. Write(s, n, IF held \in {Absent, <<>>} THEN text ELSE more, text) BY DEF Add
  <1>4. CASE held \in {Absent, <<>>}
    <2>1. Pays(s, n, text, text) BY <1>2, PaysOneLine
    <2>2. Write(s, n, text, text) BY <1>3, <1>4
    <2>3. QED BY <2>1, <2>2 DEF HeaderStep, Writes
  <1>5. CASE held \notin {Absent, <<>>}
    <2>1. Pays(s, n, more, text) BY <1>2, <1>5, PaysMore
    <2>2. Write(s, n, more, text) BY <1>3, <1>5
    <2> HIDE DEF more
    <2>3. QED BY <2>1, <2>2 DEF HeaderStep, Writes
  <1>6. QED BY <1>4, <1>5

(* The text a key is given is one line.                                     *)
SubfieldText(s, n, key, op, operand) ==
  LET held   == IF http[s][n] = Absent THEN <<>> ELSE http[s][n]
      before == DictGet(FirstLine(held), key)
      value  == ToWrite(op, Raw(IF before = Absent THEN <<>> ELSE before), operand)
  IN IF value = NotSet THEN <<>> ELSE TextOf(value)

HeldText(s, n) == IF http[s][n] = Absent THEN <<>> ELSE http[s][n]

LEMMA HeldTextTyped ==
  ASSUME HeadersTyped, NEW s \in Scopes, NEW n \in Names
  PROVE  HeldText(s, n) \in Seq(C)
PROOF BY HeldTyped, EmptyText DEF HeldText, HeaderTexts

LEMMA SubfieldTextLine ==
  ASSUME HeadersTyped, NEW s \in Scopes, NEW n \in Names, NEW key \in Keys,
         NEW op \in {"=", "+="}, NEW operand \in Operands
  PROVE  SubfieldText(s, n, key, op, operand) \in Line
PROOF
  <1> DEFINE before == DictGet(FirstLine(HeldText(s, n)), key)
             current == Raw(IF before = Absent THEN <<>> ELSE before)
             value == ToWrite(op, current, operand)
  <1>1. FirstLine(HeldText(s, n)) \in Line BY HeldTextTyped, FirstLineLine
  <1>2. before \in Line \cup {Absent} BY <1>1, KeysPlain, DictGetLine
  <1> HIDE DEF before
  <1>3. current \in {Null} \cup {Raw(t) : t \in Line} BY <1>2, LineJoin
  <1>4. operand \in Given BY OperandsGiven
  <1>5. SubfieldText(s, n, key, op, operand) = IF value = NotSet THEN <<>> ELSE TextOf(value)
    BY DEF SubfieldText, HeldText, before
  <1> HIDE DEF current
  <1>6. value \in Flat BY <1>3, <1>4, ToWriteFlat
  <1>7. value \in Given BY <1>6 DEF Given
  <1> HIDE DEF value
  <1>8. QED BY <1>5, <1>7, TextLine, LineJoin

SetText(s, n, key, op, operand) ==
  DictSet(HeldText(s, n), key, SubfieldText(s, n, key, op, operand))

LEMMA SetSubfieldIs ==
  ASSUME NEW s, NEW n, NEW key, NEW op, NEW operand, SetSubfield(s, n, key, op, operand)
  PROVE  LET written == SetText(s, n, key, op, operand)
         IN /\ Write(s, n, written, written)
            /\ last' = [kind |-> "subfield", scope |-> s, name |-> n, key |-> key,
                        text |-> SubfieldText(s, n, key, op, operand), before |-> http[s][n]]
PROOF BY DEF SetSubfield, SetText, HeldText, SubfieldText

LEMMA SetSubfieldStep ==
  ASSUME HeadersTyped, NEW s \in Scopes, NEW n \in Names, NEW key \in Keys,
         NEW op \in {"=", "+="}, NEW operand \in Operands, SetSubfield(s, n, key, op, operand)
  PROVE  HeaderStep
PROOF
  <1> DEFINE held == HeldText(s, n)
             text == SubfieldText(s, n, key, op, operand)
             written == SetText(s, n, key, op, operand)
  <1>1. held \in Seq(C) BY HeldTextTyped
  <1>2. text \in Line /\ text \in Seq(C) /\ Count("LF", text) = 0
    <2>1. text \in Line BY SubfieldTextLine
    <2> HIDE DEF text
    <2>2. QED BY <2>1 DEF Line
  <1>3. written = DictSet(held, key, text) BY DEF SetText
  <1>4. Write(s, n, written, written) BY SetSubfieldIs
  <1>5. http[s][n] = Absent => held = <<>> BY DEF HeldText
  <1>6. http[s][n] # Absent => held = http[s][n] BY DEF HeldText
  <1> HIDE DEF held, text, written
  <1>7. written \in Seq(C) /\ Count("LF", written) <= Count("LF", held)
    BY <1>1, <1>2, <1>3, KeysPlain, DictSetFacts
  <1>8. Count("LF", written) <= IF http[s][n] = Absent THEN 0 ELSE Count("LF", http[s][n])
    BY <1>5, <1>6, <1>7, CountNone
  <1>9. Pays(s, n, written, written) BY <1>7, <1>8, PaysLine
  <1>10. QED BY <1>4, <1>9 DEF HeaderStep, Writes

UnsetText(s, n, key) ==
  LET left == DictUnset(HeldText(s, n), key) IN IF left = <<>> THEN Absent ELSE left

LEMMA UnsetSubfieldIs ==
  ASSUME NEW s, NEW n, NEW key, UnsetSubfield(s, n, key)
  PROVE  /\ Replace(s, [http[s] EXCEPT ![n] = UnsetText(s, n, key)], {})
         /\ last' = [kind |-> "subfield", scope |-> s, name |-> n, key |-> key,
                     text |-> Absent, before |-> http[s][n]]
PROOF BY DEF UnsetSubfield, UnsetText, HeldText

LEMMA UnsetSubfieldStep ==
  ASSUME HeadersTyped, NEW s \in Scopes, NEW n \in Names, NEW key \in Keys,
         UnsetSubfield(s, n, key)
  PROVE  HeaderStep
PROOF
  <1> DEFINE text == UnsetText(s, n, key)
             headers == [http[s] EXCEPT ![n] = text]
  <1>1. Replace(s, headers, {}) BY UnsetSubfieldIs
  <1>2. http[s] \in Tables BY HeldTyped
  <1> HIDE DEF text
  <1>3. CASE text = Absent
    <2>1. headers \in Tables BY <1>2, <1>3 DEF Tables, HeaderTexts
    <2>2. \A m \in Names : headers[m] = Absent \/ headers[m] = http[s][m]
      BY <1>2, <1>3 DEF Tables
    <2> HIDE DEF headers
    <2>3. Frees(s, headers, {}) BY <2>1, <2>2, FreesOnly
    <2>4. QED BY <1>1, <2>3 DEF HeaderStep, Replaces
  <1>4. CASE text # Absent
    <2> DEFINE held == HeldText(s, n)
               left == DictUnset(held, key)
    <2>1. held \in Seq(C) BY HeldTextTyped
    <2>2. text = left /\ left # <<>> BY <1>4 DEF text, UnsetText
    <2>3. http[s][n] # Absent /\ held = http[s][n]
      <3>1. DictUnset(<<>>, key) = <<>> BY DEF DictUnset
      <3>2. held # <<>> BY <2>2, <3>1
      <3>3. QED BY <3>2 DEF HeldText
    <2> HIDE DEF held
    <2>4. left \in Seq(C) /\ Len(left) <= Len(held) /\ Count("LF", left) <= Count("LF", held)
      BY <2>1, DictUnsetFacts
    <2> HIDE DEF left
    <2>5. Debt(n, left) <= Debt(n, held) BY <2>1, <2>4, DebtIs
    <2>6. Debt(n, left) \in Nat /\ Debt(n, held) \in Nat /\ Len(left) \in Nat /\ Len(held) \in Nat
      BY <2>1, <2>4, DebtIs
    <2>7. Len(left) + Debt(n, left) <= Len(held) + Debt(n, held) BY <2>4, <2>5, <2>6
    <2>8. Frees(s, [http[s] EXCEPT ![n] = left], {}) BY <2>3, <2>4, <2>5, <2>7, FreesOne
    <2> HIDE DEF headers
    <2>9. Frees(s, headers, {}) BY <2>2, <2>8 DEF headers
    <2>10. QED BY <1>1, <2>9 DEF HeaderStep, Replaces
  <1>5. QED BY <1>3, <1>4

LEMMA IntProduct == \A k \in Nat, x, y \in Int : x <= y => k * x \in Int /\ k * x <= k * y
PROOF OBVIOUS

LEMMA CollectStep ==
  ASSUME HeadersTyped, NEW s \in Scopes, NEW n \in Names, NEW sep \in Separators,
         Collect(s, n, sep)
  PROVE  HeaderStep
PROOF
  <1> DEFINE held == http[s][n]
             text == Joined(Split(held, "LF"), sep)
             headers == [http[s] EXCEPT ![n] = text]
             k == Count("LF", held)
             a == Bare(n)
             w == Len(sep)
  <1>1. Replace(s, headers, {}) /\ held # Absent BY DEF Collect, Lines
  <1>2. held \in Seq(C) BY <1>1, HeldTyped DEF HeaderTexts
  <1>3. sep \in Seq(C) /\ "LF" \in C
    <2>1. Separators \subseteq Seq(C) BY HeadersAssumption DEF C
    <2>2. QED BY <2>1, Written
  <1> HIDE DEF headers
  <1>4. Split(held, "LF") \in Bodies(C)
        /\ \A i \in 1 .. Len(Split(held, "LF")) : Count("LF", Split(held, "LF")[i]) = 0
    <2> HIDE DEF held
    <2>1. QED BY <1>2, <1>3, SplitTyped DEF Bodies
  <1>5. text \in Seq(C)
    <2> DEFINE p == Split(held, "LF")
    <2>1. p \in Bodies(C) BY <1>4
    <2> HIDE DEF p
    <2>2. Joined(p, sep) \in Seq(C) BY <1>3, <2>1, JoinedTyped
    <2>3. QED BY <2>2 DEF p
  <1>6. k \in Nat /\ a \in Nat /\ w \in Nat /\ Len(held) \in Nat /\ Debt(n, held) \in Nat
    <2> HIDE DEF held
    <2>1. QED BY <1>2, <1>3, CountIs, BareNat, DebtIs
  <1>7. Len(text) = Len(held) + k * (w - 1)
    <2> HIDE DEF held
    <2>1. QED BY <1>2, <1>3, Rejoined
  <1>8. ASSUME ShortSeparators
        PROVE  Debt(n, text) = 0 /\ Len(text) <= Len(held) + Debt(n, held)
    <2>1. Count("LF", sep) = 0 /\ w <= a + 3 BY <1>8 DEF ShortSeparators
    <2>2. Count("LF", text) = 0
      <3> DEFINE p == Split(held, "LF")
      <3>1. p \in Bodies(C) /\ \A i \in 1 .. Len(p) : Count("LF", p[i]) = 0 BY <1>4
      <3> HIDE DEF p
      <3>2. Count("LF", Joined(p, sep)) = 0 BY <1>3, <2>1, <3>1, JoinedCount
      <3>3. QED BY <3>2 DEF p
    <2>3. Debt(n, held) = k * (a + 2) BY DEF Debt
    <2> HIDE DEF held, text, k, a, w
    <2>4. Debt(n, text) = 0 BY <1>5, <2>2, DebtIs
    <2>5. w - 1 \in Int /\ a + 2 \in Int /\ w - 1 <= a + 2 BY <1>6, <2>1
    <2>6. k * (w - 1) \in Int /\ k * (w - 1) <= k * (a + 2) BY <1>6, <2>5, IntProduct
    <2>7. QED BY <1>6, <1>7, <2>3, <2>4, <2>6
  <1>9. QED
    <2> HIDE DEF text
    <2>1. ShortSeparators => /\ Debt(n, text) <= Debt(n, held)
                             /\ Len(text) + Debt(n, text) <= Len(held) + Debt(n, held)
      <3>1. Len(text) \in Nat BY <1>5
      <3> HIDE DEF held
      <3>2. QED BY <1>6, <1>8, <3>1
    <2>2. Frees(s, [http[s] EXCEPT ![n] = text], {}) BY <1>1, <1>5, <2>1, FreesOne
    <2>3. QED BY <1>1, <2>2 DEF HeaderStep, Replaces, headers

LEMMA UnsetHeaderStep ==
  ASSUME HeadersTyped, NEW s \in Scopes, NEW n \in Names, UnsetHeader(s, n)
  PROVE  HeaderStep
PROOF
  <1> DEFINE headers == [http[s] EXCEPT ![n] = Absent]
  <1>1. Replace(s, headers, {n}) BY DEF UnsetHeader
  <1>2. http[s] \in Tables BY HeldTyped
  <1>3. headers \in Tables BY <1>2 DEF Tables, HeaderTexts
  <1>4. \A m \in Names : headers[m] = Absent \/ headers[m] = http[s][m] BY <1>2 DEF Tables
  <1> HIDE DEF headers
  <1>5. Frees(s, headers, {n}) BY <1>3, <1>4, FreesOnly
  <1>6. QED BY <1>1, <1>5 DEF HeaderStep, Replaces

LEMMA UnsetWildStep ==
  ASSUME HeadersTyped, NEW s \in Scopes, NEW prefix, UnsetWild(s, prefix)
  PROVE  HeaderStep
PROOF
  <1> DEFINE gone == {n \in Names : IsPrefix(Lower(prefix), Lower(n))}
             headers == [n \in Names |-> IF n \in gone THEN Absent ELSE http[s][n]]
  <1>1. Replace(s, headers, gone) BY DEF UnsetWild
  <1> HIDE DEF gone
  <1>2. headers \in Tables BY HeldTyped DEF Tables, HeaderTexts
  <1>3. \A m \in Names : headers[m] = Absent \/ headers[m] = http[s][m] OBVIOUS
  <1> HIDE DEF headers
  <1>4. Frees(s, headers, gone) BY <1>2, <1>3, FreesOnly
  <1>5. QED BY <1>1, <1>4 DEF HeaderStep, Replaces

LEMMA HeaderFilterStep ==
  ASSUME HeadersTyped, NEW s \in Scopes, NEW names, NEW except, HeaderFilter(s, names, except)
  PROVE  HeaderStep
PROOF
  <1> DEFINE listed == {n \in Names : \E m \in names : Lower(m) = Lower(n)}
             gone == {n \in IF except THEN Names \ listed ELSE listed : http[s][n] # Absent}
             headers == [n \in Names |-> IF n \in gone THEN <<>> ELSE http[s][n]]
  <1>1. Replace(s, headers, gone) BY DEF HeaderFilter
  <1> HIDE DEF gone
  <1>2. <<>> \in Line /\ <<>> \in HeaderTexts BY LineJoin, EmptyText DEF HeaderTexts
  <1>3. headers \in Tables BY <1>2, HeldTyped DEF Tables
  <1>4. \A m \in Names : (headers[m] \in Line /\ m \in gone) \/ headers[m] = http[s][m] BY <1>2
  <1> HIDE DEF headers
  <1>5. Frees(s, headers, gone) BY <1>3, <1>4, FreesOnly
  <1>6. QED BY <1>1, <1>5 DEF HeaderStep, Replaces

(* A header function puts a line under the name it is given, and removes    *)
(* another spelling of it.                                                  *)
LEMMA FreesSpelled ==
  ASSUME HeadersTyped, NEW s \in Scopes, NEW n \in Names, NEW text \in Line, NEW old
  PROVE  Frees(s, [m \in Names |-> IF m = n THEN text
                                   ELSE IF m = old THEN Absent ELSE http[s][m]], {n, old})
PROOF
  <1> DEFINE headers == [m \in Names |-> IF m = n THEN text
                                         ELSE IF m = old THEN Absent ELSE http[s][m]]
  <1>1. text \in HeaderTexts /\ Absent \in HeaderTexts BY DEF Line, HeaderTexts
  <1>2. headers \in Tables BY <1>1, HeldTyped DEF Tables
  <1>3. \A m \in Names : \/ headers[m] = Absent
                         \/ headers[m] \in Line /\ m \in {n, old}
                         \/ headers[m] = http[s][m]
    OBVIOUS
  <1> HIDE DEF headers
  <1>4. Frees(s, headers, {n, old}) BY <1>2, <1>3, FreesOnly
  <1>5. QED BY <1>4 DEF headers

LEMMA HeaderSetStep ==
  ASSUME HeadersTyped, NEW s \in Scopes, NEW n \in Names, NEW operand \in Operands,
         HeaderSet(s, n, operand)
  PROVE  HeaderStep
PROOF
  <1> DEFINE text == IF operand.kind = "concat" THEN Display(operand) ELSE TextOf(operand)
             with(old) == [m \in Names |-> IF m = n THEN text
                                           ELSE IF m = old THEN Absent ELSE http[s][m]]
  <1>1. operand \in Given BY OperandsGiven
  <1>2. text = TextOf(operand) BY DEF TextOf
  <1>3. text \in Line BY <1>1, <1>2, TextLine
  <1>4. \E old : Replace(s, with(old), {n, old})
    <2>1. IF Spelled(s, n) = {} THEN Replace(s, with(n), {n})
          ELSE \E old \in Spelled(s, n) : Replace(s, with(old), {n, old})
      BY DEF HeaderSet
    <2>2. {n} = {n, n} OBVIOUS
    <2> HIDE DEF with
    <2>3. QED BY <2>1, <2>2
  <1> HIDE DEF text
  <1>5. \A old : Frees(s, with(old), {n, old}) BY <1>3, FreesSpelled
  <1> HIDE DEF with
  <1>6. QED BY <1>4, <1>5 DEF HeaderStep, Replaces

LEMMA HeaderUnsetStep ==
  ASSUME HeadersTyped, NEW s \in Scopes, NEW n \in Names, HeaderUnset(s, n)
  PROVE  HeaderStep
PROOF
  <1> DEFINE text == <<>>
             with(old) == [m \in Names |-> IF m = n THEN text
                                           ELSE IF m = old THEN Absent ELSE http[s][m]]
  <1>1. text \in Line BY LineJoin
  <1>2. \E old : Replace(s, with(old), {n, old})
    <2>1. IF Spelled(s, n) = {} THEN Replace(s, with(n), {n})
          ELSE \E old \in Spelled(s, n) : Replace(s, with(old), {n, old})
      BY DEF HeaderUnset
    <2>2. {n} = {n, n} OBVIOUS
    <2> HIDE DEF with
    <2>3. QED BY <2>1, <2>2
  <1> HIDE DEF text
  <1>3. \A old : Frees(s, with(old), {n, old}) BY <1>1, FreesSpelled
  <1> HIDE DEF with
  <1>4. QED BY <1>2, <1>3 DEF HeaderStep, Replaces

LEMMA MatchStep ==
  ASSUME HeadersTyped, NEW s, NEW n, NEW pattern \in Literals, MatchHeader(s, n, pattern)
  PROVE  HeaderStep
PROOF
  <1>1. groups \in Line \cup {Absent} BY DEF HeadersTyped
  <1>2. pattern \in Line BY LiteralsLine
  <1>3. groups' \in {pattern, groups} BY DEF MatchHeader
  <1>4. ran' = ran + 1 /\ UNCHANGED <<http, workspace, verdict, charged>> BY DEF MatchHeader
  <1>5. QED BY <1>1, <1>2, <1>3, <1>4 DEF HeaderStep, Passes

LEMMA TestStep ==
  ASSUME HeadersTyped, NEW op, NEW l, NEW r, Test(op, l, r)
  PROVE  HeaderStep
PROOF BY DEF Test, HeaderStep, Passes, HeadersTyped

LEMMA AllStatements ==
  ASSUME HeadersTyped, HeadersNext
  PROVE  HeaderStep /\ Serving
PROOF
  <1>1. ASSUME NEW operand \in Operands, NEW s \in Scopes, NEW n \in Names,
               WriteStatement(s, n, operand)
        PROVE  HeaderStep /\ Serving
    <2>1. ASSUME NEW op \in {"=", "+="}, SetHeader(s, n, op, operand)
          PROVE  HeaderStep /\ Serving
      BY <2>1, SetHeaderStep DEF SetHeader
    <2>2. CASE Add(s, n, operand) BY <2>2, AddStep DEF Add
    <2>3. CASE HeaderSet(s, n, operand) BY <2>3, HeaderSetStep DEF HeaderSet
    <2>4. QED BY <1>1, <2>1, <2>2, <2>3 DEF WriteStatement
  <1>2. ASSUME NEW operand \in Operands, NEW s \in Scopes, NEW n \in Names, NEW key \in Keys,
               NEW op \in {"=", "+="}, SetSubfield(s, n, key, op, operand)
        PROVE  HeaderStep /\ Serving
    BY <1>2, SetSubfieldStep DEF SetSubfield
  <1>3. ASSUME NEW s \in Scopes, NEW n \in Names, OtherStatement(s, n)
        PROVE  HeaderStep /\ Serving
    <2>1. CASE UnsetHeader(s, n) BY <2>1, UnsetHeaderStep DEF UnsetHeader
    <2>2. CASE UnsetWild(s, n) BY <2>2, UnsetWildStep DEF UnsetWild
    <2>3. ASSUME NEW sep \in Separators, Collect(s, n, sep) PROVE HeaderStep /\ Serving
      BY <2>3, CollectStep DEF Collect
    <2>4. CASE HeaderUnset(s, n) BY <2>4, HeaderUnsetStep DEF HeaderUnset
    <2>5. ASSUME NEW except \in BOOLEAN, HeaderFilter(s, {n}, except)
          PROVE  HeaderStep /\ Serving
      <3>1. Serving BY <2>5 DEF HeaderFilter
      <3>2. HeaderStep BY <2>5, HeaderFilterStep
      <3>3. QED BY <3>1, <3>2
    <2>6. ASSUME NEW pattern \in Literals, MatchHeader(s, n, pattern)
          PROVE  HeaderStep /\ Serving
      BY <2>6, MatchStep DEF MatchHeader
    <2>7. QED BY <1>3, <2>1, <2>2, <2>3, <2>4, <2>5, <2>6 DEF OtherStatement
  <1>4. ASSUME NEW s \in Scopes, NEW n \in Names, NEW key \in Keys, UnsetSubfield(s, n, key)
        PROVE  HeaderStep /\ Serving
    BY <1>4, UnsetSubfieldStep DEF UnsetSubfield
  <1>5. ASSUME NEW l, NEW r, NEW op, Test(op, l, r) PROVE HeaderStep /\ Serving
    BY <1>5, TestStep DEF Test
  <1>6. QED BY <1>1, <1>2, <1>3, <1>4, <1>5 DEF HeadersNext

-----------------------------------------------------------------------------
(* What a step does to the headers.                                         *)

LEMMA WriteIs ==
  ASSUME HeadersTyped, NEW s \in Scopes, NEW n \in Names, NEW text \in Seq(C), NEW paid,
         Write(s, n, text, paid)
  PROVE  /\ HeadersTyped'
         /\ http' = [http EXCEPT ![s][n] = text]
         /\ http'[s] = [http[s] EXCEPT ![n] = text]
         /\ s # "req" => http'.req = http.req
         /\ charged' = IF s = "req" /\ text = paid THEN charged \cup {n} ELSE charged
         /\ ran' = ran + 1
         /\ IF s = "req"
              THEN /\ workspace' = workspace + WorkspaceCost(n, paid)
                   /\ verdict' = IF workspace' > MaxWorkspace THEN "rejected" ELSE verdict
              ELSE UNCHANGED <<workspace, verdict>>
PROOF
  <1>1. http \in [Scopes -> Tables] /\ groups \in Line \cup {Absent} BY DEF HeadersTyped
  <1>2. http[s] \in Tables /\ text \in HeaderTexts BY <1>1 DEF HeaderTexts
  <1>3. "req" \in Scopes BY HeadersAssumption
  <1>4. http' = [http EXCEPT ![s] = [http[s] EXCEPT ![n] = text]] BY DEF Write
  <1> DEFINE table == [http[s] EXCEPT ![n] = text]
  <1>5. table \in Tables BY <1>2 DEF Tables
  <1> HIDE DEF table
  <1>6. http' \in [Scopes -> Tables] /\ http'[s] = table /\ (s # "req" => http'.req = http.req)
    BY <1>1, <1>3, <1>4, <1>5 DEF table
  <1>7. groups' = groups BY DEF Write
  <1>8. HeadersTyped' BY <1>1, <1>6, <1>7 DEF HeadersTyped
  <1>9. charged' = (IF s = "req" /\ text = paid THEN charged \cup {n} ELSE charged)
        /\ ran' = ran + 1
    BY DEF Write
  <1>10. IF s = "req"
           THEN /\ workspace' = workspace + WorkspaceCost(n, paid)
                /\ verdict' = IF workspace' > MaxWorkspace THEN "rejected" ELSE verdict
           ELSE UNCHANGED <<workspace, verdict>>
    BY DEF Write, Charge
  <1>11. http' = [http EXCEPT ![s][n] = text] BY DEF Write
  <1>12. QED BY <1>6, <1>8, <1>9, <1>10, <1>11 DEF table

LEMMA ReplaceIs ==
  ASSUME HeadersTyped, NEW s \in Scopes, NEW headers \in Tables, NEW unpaid,
         Replace(s, headers, unpaid)
  PROVE  /\ HeadersTyped'
         /\ http'[s] = headers
         /\ s # "req" => http'.req = http.req
         /\ charged' = IF s = "req" THEN charged \ unpaid ELSE charged
         /\ ran' = ran + 1
         /\ UNCHANGED <<workspace, verdict>>
PROOF
  <1>1. http \in [Scopes -> Tables] /\ groups \in Line \cup {Absent} BY DEF HeadersTyped
  <1>2. "req" \in Scopes BY HeadersAssumption
  <1>3. http' = [http EXCEPT ![s] = headers] /\ groups' = groups BY DEF Replace
  <1>4. http' \in [Scopes -> Tables] /\ http'[s] = headers /\ (s # "req" => http'.req = http.req)
    BY <1>1, <1>2, <1>3
  <1>5. HeadersTyped' BY <1>1, <1>3, <1>4 DEF HeadersTyped
  <1>6. QED BY <1>4, <1>5 DEF Replace

-----------------------------------------------------------------------------
(* The types.                                                               *)

HeadersInv ==
  /\ HeadersTyped
  /\ workspace \in Nat
  /\ charged \in SUBSET Names
  /\ ran \in 0 .. MaxStatements

LEMMA CostNat == \A n \in Names, t \in Seq(C) : WorkspaceCost(n, t) \in Nat
PROOF
  <1> SUFFICES ASSUME NEW n \in Names, NEW t \in Seq(C) PROVE WorkspaceCost(n, t) \in Nat OBVIOUS
  <1>1. WorkspaceCost(n, t) = Ceil8(Bare(n) + 3 + Len(t)) BY CostIs
  <1>2. Bare(n) + 3 + Len(t) \in Nat BY BareNat
  <1>3. QED BY <1>1, <1>2, Ceil8Nat

LEMMA CostsAre ==
  ASSUME NEW h \in Tables
  PROVE  /\ \A n \in Names : Costs(h)[n] = IF h[n] = Absent THEN 0 ELSE WorkspaceCost(n, h[n])
         /\ \A n \in Names : Costs(h)[n] \in Nat
         /\ \A names \in SUBSET Names : Total(h, names) = SumOf(Costs(h), names)
         /\ \A names \in SUBSET Names : Total(h, names) \in Nat
PROOF
  <1>1. \A n \in Names : Costs(h)[n] = IF h[n] = Absent THEN 0 ELSE WorkspaceCost(n, h[n])
    BY DEF Costs
  <1>2. \A n \in Names : h[n] # Absent => h[n] \in Seq(C) BY DEF Tables, HeaderTexts
  <1>3. \A n \in Names : Costs(h)[n] \in Nat BY <1>1, <1>2, CostNat
  <1>4. \A names : Total(h, names) = SumOf(Costs(h), names) BY DEF Total, SumOf
  <1>5. ASSUME NEW names \in SUBSET Names PROVE SumOf(Costs(h), names) \in Nat
    <2>1. IsFiniteSet(names) BY HeadersAssumption, FS_Subset
    <2>2. \A n \in names : Costs(h)[n] \in Nat BY <1>3
    <2>3. QED BY <2>1, <2>2, SumIsNat
  <1>6. QED BY <1>1, <1>3, <1>4, <1>5

LEMMA InitIs ==
  ASSUME HeadersInit
  PROVE  /\ HeadersInv
         /\ http.req \in Inbound
         /\ workspace = BaseOverhead + SumOf(Costs(http.req), Names)
PROOF
  <1>1. PICK h \in Inbound :
          http = [s \in Scopes |-> IF s = "req" THEN h ELSE [n \in Names |-> Absent]]
    BY DEF HeadersInit
  <1>2. "req" \in Scopes BY HeadersAssumption
  <1>3. http.req = h BY <1>1, <1>2
  <1>4. h \in Tables BY InboundTyped
  <1>5. [n \in Names |-> Absent] \in Tables BY DEF Tables, HeaderTexts
  <1>6. http \in [Scopes -> Tables] BY <1>1, <1>4, <1>5
  <1>7. HeadersTyped BY <1>6 DEF HeadersTyped, HeadersInit
  <1>8. workspace = BaseOverhead + SumOf(Costs(h), Names) BY <1>3, <1>4, CostsAre DEF HeadersInit, Seed
  <1>9. Total(h, Names) \in Nat BY <1>4, CostsAre
  <1>10. workspace \in Nat BY <1>3, <1>9, HeadersAssumption DEF HeadersInit, Seed
  <1>11. charged \in SUBSET Names /\ ran \in 0 .. MaxStatements
    BY HeadersAssumption DEF HeadersInit
  <1>12. QED BY <1>3, <1>7, <1>8, <1>10, <1>11 DEF HeadersInv

LEMMA InvStep ==
  ASSUME HeadersInv, [HeadersNext]_headerVars
  PROVE  HeadersInv'
PROOF
  <1>1. CASE UNCHANGED headerVars BY <1>1 DEF HeadersInv, HeadersTyped, headerVars
  <1>2. CASE HeadersNext
    <2>1. HeadersTyped /\ HeaderStep /\ Serving BY <1>2, AllStatements DEF HeadersInv
    <2>2. ran' = ran + 1 => ran' \in 0 .. MaxStatements
      BY <2>1, HeadersAssumption DEF HeadersInv, Serving
    <2>3. CASE Writes
      <3>1. PICK s, n, text, paid :
              /\ s \in Scopes /\ n \in Names
              /\ Write(s, n, text, paid) /\ Pays(s, n, text, paid)
        BY <2>3 DEF Writes
      <3>2. text \in Seq(C) /\ paid \in Seq(C) BY <3>1 DEF Pays
      <3>3. /\ HeadersTyped'
            /\ charged' = IF s = "req" /\ text = paid THEN charged \cup {n} ELSE charged
            /\ ran' = ran + 1
            /\ workspace' = workspace + WorkspaceCost(n, paid) \/ workspace' = workspace
        BY <2>1, <3>1, <3>2, WriteIs
      <3>4. workspace' \in Nat BY <3>1, <3>2, <3>3, CostNat DEF HeadersInv
      <3>5. charged' \in SUBSET Names BY <3>1, <3>3 DEF HeadersInv
      <3>6. QED BY <2>2, <3>3, <3>4, <3>5 DEF HeadersInv
    <2>4. CASE Replaces
      <3>1. PICK s, headers, unpaid :
              s \in Scopes /\ Replace(s, headers, unpaid) /\ Frees(s, headers, unpaid)
        BY <2>4 DEF Replaces
      <3>2. headers \in Tables BY <3>1 DEF Frees
      <3>3. /\ HeadersTyped'
            /\ charged' = IF s = "req" THEN charged \ unpaid ELSE charged
            /\ ran' = ran + 1
            /\ workspace' = workspace
        BY <2>1, <3>1, <3>2, ReplaceIs
      <3>4. charged' \in SUBSET Names BY <3>3 DEF HeadersInv
      <3>5. QED BY <2>2, <3>3, <3>4 DEF HeadersInv
    <2>5. CASE Passes BY <2>1, <2>2, <2>5 DEF Passes, HeadersInv, HeadersTyped
    <2>6. QED BY <2>1, <2>3, <2>4, <2>5 DEF HeaderStep
  <1>3. QED BY <1>1, <1>2

-----------------------------------------------------------------------------
(* The account.                                                             *)

PotsOf(h, paid) == [n \in Names |-> Pot(n, h[n], n \in paid)]

Covered == workspace >= BaseOverhead + SumOf(PotsOf(http.req, charged), Names)

WithinLimit == verdict = "running" => workspace <= MaxWorkspace

LEMMA PotsAre ==
  ASSUME NEW h \in Tables, NEW paid
  PROVE  /\ \A n \in Names : PotsOf(h, paid)[n] = Pot(n, h[n], n \in paid)
         /\ \A n \in Names : PotsOf(h, paid)[n] \in Nat
         /\ SumOf(PotsOf(h, paid), Names) \in Nat
PROOF
  <1>1. \A n \in Names : PotsOf(h, paid)[n] = Pot(n, h[n], n \in paid) BY DEF PotsOf
  <1>2. ASSUME NEW n \in Names PROVE Pot(n, h[n], n \in paid) \in Nat
    <2> DEFINE t == h[n]  p == n \in paid
    <2>1. t \in HeaderTexts /\ p \in BOOLEAN BY DEF Tables
    <2> HIDE DEF t, p
    <2>2. Pot(n, t, p) \in Nat BY <2>1, PotNat
    <2>3. QED BY <2>2 DEF t, p
  <1>3. \A n \in Names : PotsOf(h, paid)[n] \in Nat BY <1>1, <1>2
  <1>4. IsFiniteSet(Names) BY HeadersAssumption
  <1>5. QED BY <1>1, <1>3, <1>4, SumIsNat

(* What came in is paid for.                                                *)
LEMMA CoveredInit ==
  ASSUME HeadersInit
  PROVE  Covered
PROOF
  <1> DEFINE h == http.req
             d == PotsOf(h, charged)
  <1>1. /\ h \in Inbound /\ workspace = BaseOverhead + SumOf(Costs(h), Names)
        /\ workspace \in Nat
    BY InitIs DEF HeadersInv
  <1>2. h \in Tables /\ \A n \in Names : h[n] \in Line \cup {Absent} BY <1>1, InboundTyped
  <1>3. charged = {n \in Names : h[n] # Absent} BY DEF HeadersInit
  <1> HIDE DEF h
  <1>4. \A n \in Names : d[n] = Costs(h)[n]
    <2> SUFFICES ASSUME NEW n \in Names PROVE d[n] = Costs(h)[n] OBVIOUS
    <2>1. d[n] = Pot(n, h[n], n \in charged) BY <1>2, PotsAre
    <2>2. Costs(h)[n] = IF h[n] = Absent THEN 0 ELSE WorkspaceCost(n, h[n]) BY <1>2, CostsAre
    <2>3. CASE h[n] = Absent BY <2>1, <2>2, <2>3 DEF Pot
    <2>4. CASE h[n] # Absent
      <3> DEFINE t == h[n]  p == n \in charged
      <3>1. t \in Seq(C) /\ Count("LF", t) = 0 /\ p BY <1>2, <1>3, <2>4 DEF Line
      <3>2. d[n] = Pot(n, t, p) BY <2>1
      <3> HIDE DEF t, p
      <3>3. Debt(n, t) = 0 /\ Bare(n) \in Nat /\ Len(t) \in Nat BY <3>1, DebtIs, BareNat
      <3>4. Pot(n, t, p) = Ceil8(0 + (Bare(n) + 3 + Len(t))) BY <3>1, <3>3, NotAbsent DEF Pot
      <3>5. 0 + (Bare(n) + 3 + Len(t)) = Bare(n) + 3 + Len(t) BY <3>3
      <3>6. WorkspaceCost(n, t) = Ceil8(Bare(n) + 3 + Len(t)) BY <3>1, CostIs
      <3>7. QED BY <2>2, <2>4, <3>2, <3>4, <3>5, <3>6 DEF t
    <2>5. QED BY <2>3, <2>4
  <1>5. IsFiniteSet(Names) BY HeadersAssumption
  <1> DEFINE c == Costs(h)
  <1> HIDE DEF d, c
  <1>6. SumOf(d, Names) = SumOf(c, Names) BY <1>4, <1>5, SumSame DEF c
  <1>7. workspace >= BaseOverhead + SumOf(d, Names) BY <1>1, <1>6 DEF c
  <1>8. QED BY <1>7 DEF Covered, d, h

LEMMA CoveredStep ==
  ASSUME ShortSeparators, HeadersInv, Covered, [HeadersNext]_headerVars
  PROVE  Covered'
PROOF
  <1> DEFINE h == http.req
             g == http'.req
             d == PotsOf(h, charged)
             e == PotsOf(g, charged')
  <1>1. CASE UNCHANGED headerVars BY <1>1 DEF Covered, headerVars
  <1>2. CASE HeadersNext
    <2>1. HeadersTyped /\ HeaderStep BY <1>2, AllStatements DEF HeadersInv
    <2>2. HeadersInv' BY InvStep
    <2>3. "req" \in Scopes /\ IsFiniteSet(Names) /\ BaseOverhead \in Nat BY HeadersAssumption
    <2>4. h \in Tables /\ g \in Tables BY <2>1, <2>2, <2>3 DEF HeadersInv, HeadersTyped
    <2>5. workspace \in Nat /\ workspace' \in Nat BY <2>2 DEF HeadersInv
    <2>6. workspace >= BaseOverhead + SumOf(d, Names) BY DEF Covered
    <2>7. SUFFICES workspace' >= BaseOverhead + SumOf(e, Names) BY DEF Covered
    <2>8. /\ \A n \in Names : d[n] \in Nat /\ d[n] = Pot(n, h[n], n \in charged)
          /\ \A n \in Names : e[n] \in Nat /\ e[n] = Pot(n, g[n], n \in charged')
          /\ SumOf(d, Names) \in Nat /\ SumOf(e, Names) \in Nat
      <3> HIDE DEF h, g
      <3>1. QED BY <2>4, PotsAre
    <2>9. ASSUME g = h, charged' = charged, workspace' = workspace
          PROVE  workspace' >= BaseOverhead + SumOf(e, Names)
      <3> HIDE DEF h, g
      <3>1. QED BY <2>6, <2>9
    <2>10. CASE Passes BY <2>9, <2>10 DEF Passes
    <2>11. CASE Replaces
      <3>1. PICK s, headers, unpaid :
              s \in Scopes /\ Replace(s, headers, unpaid) /\ Frees(s, headers, unpaid)
        BY <2>11 DEF Replaces
      <3>2. headers \in Tables BY <3>1 DEF Frees
      <3>3. /\ http'[s] = headers
            /\ s # "req" => http'.req = http.req
            /\ charged' = IF s = "req" THEN charged \ unpaid ELSE charged
            /\ workspace' = workspace
        BY <2>1, <3>1, <3>2, ReplaceIs
      <3>4. CASE s # "req" BY <2>9, <3>3, <3>4
      <3>5. CASE s = "req"
        <4>1. \A n \in Names :
                Pot(n, headers[n], n \in charged \ unpaid) <= Pot(n, h[n], n \in charged)
          BY <3>1, <3>5 DEF Frees
        <4>2. g = headers /\ charged' = charged \ unpaid BY <3>3, <3>5
        <4> HIDE DEF h, g
        <4>3. \A n \in Names : e[n] <= d[n] BY <2>8, <4>1, <4>2
        <4> HIDE DEF d, e
        <4>4. SumOf(e, Names) <= SumOf(d, Names) BY <2>3, <2>8, <4>3, SumFalls
        <4>5. QED BY <2>3, <2>5, <2>6, <2>8, <3>3, <4>4
      <3>6. QED BY <3>4, <3>5
    <2>12. CASE Writes
      <3>1. PICK s, n, text, paid :
              /\ s \in Scopes /\ n \in Names
              /\ Write(s, n, text, paid) /\ Pays(s, n, text, paid)
        BY <2>12 DEF Writes
      <3>2. text \in Seq(C) /\ paid \in Seq(C) BY <3>1 DEF Pays
      <3>3. /\ http'[s] = [http[s] EXCEPT ![n] = text]
            /\ s # "req" => http'.req = http.req
            /\ charged' = IF s = "req" /\ text = paid THEN charged \cup {n} ELSE charged
            /\ IF s = "req" THEN workspace' = workspace + WorkspaceCost(n, paid)
               ELSE workspace' = workspace
        BY <2>1, <3>1, <3>2, WriteIs
      <3>4. CASE s # "req" BY <2>9, <3>3, <3>4
      <3>5. CASE s = "req"
        <4> DEFINE w == WorkspaceCost(n, paid)
        <4>0. n \in Names BY <3>1
        <4>1. w \in Nat BY <3>2, <4>0, CostNat
        <4>2. g[n] = text /\ \A m \in Names \ {n} : g[m] = h[m]
          BY <2>4, <3>3, <3>5, <4>0 DEF Tables
        <4>3. (n \in charged') <=> (n \in charged \/ text = paid) BY <3>3, <3>5
        <4>4. \A m \in Names \ {n} : (m \in charged') <=> (m \in charged) BY <3>3, <3>5
        <4>5. Pot(n, text, n \in charged \/ text = paid) <= Pot(n, h[n], n \in charged) + w
          BY <3>1, <3>5 DEF Pays
        <4>6. workspace' = workspace + w BY <3>3, <3>5
        <4> HIDE DEF h, g, w
        <4>7. e[n] <= d[n] + w
          <5>1. e[n] = Pot(n, text, n \in charged') BY <2>8, <4>0, <4>2
          <5>2. (n \in charged') = (n \in charged \/ text = paid) BY <4>3
          <5>3. e[n] = Pot(n, text, n \in charged \/ text = paid) BY <5>1, <5>2
          <5>4. d[n] = Pot(n, h[n], n \in charged) BY <2>8, <4>0
          <5>5. QED BY <4>5, <5>3, <5>4
        <4>8. \A m \in Names \ {n} : e[m] = d[m]
          <5> SUFFICES ASSUME NEW m \in Names \ {n} PROVE e[m] = d[m] OBVIOUS
          <5>1. (m \in charged') = (m \in charged) BY <4>4
          <5>2. e[m] = Pot(m, h[m], m \in charged') BY <2>8, <4>2
          <5>3. d[m] = Pot(m, h[m], m \in charged) BY <2>8
          <5>4. QED BY <5>1, <5>2, <5>3
        <4> HIDE DEF d, e
        <4>9. SumOf(e, Names) <= SumOf(d, Names) + w BY <2>3, <2>8, <4>0, <4>1, <4>7, <4>8, SumMore
        <4>10. QED BY <2>3, <2>5, <2>6, <2>8, <4>1, <4>6, <4>9
      <3>6. QED BY <3>4, <3>5
    <2>13. QED BY <2>1, <2>10, <2>11, <2>12 DEF HeaderStep
  <1>3. QED BY <1>1, <1>2

LEMMA LimitStep ==
  ASSUME HeadersInv, WithinLimit, [HeadersNext]_headerVars
  PROVE  WithinLimit'
PROOF
  <1>1. CASE UNCHANGED headerVars BY <1>1 DEF WithinLimit, headerVars
  <1>2. CASE HeadersNext
    <2>1. HeadersTyped /\ HeaderStep BY <1>2, AllStatements DEF HeadersInv
    <2>2. workspace' \in Nat /\ MaxWorkspace \in Nat BY InvStep, HeadersAssumption DEF HeadersInv
    <2>3. ASSUME workspace' = workspace, verdict' = verdict PROVE WithinLimit'
      BY <2>3 DEF WithinLimit
    <2>4. CASE Passes BY <2>3, <2>4 DEF Passes
    <2>5. CASE Replaces
      <3>1. PICK s, headers, unpaid : s \in Scopes /\ Replace(s, headers, unpaid) BY <2>5 DEF Replaces
      <3>2. QED BY <2>3, <3>1 DEF Replace
    <2>6. CASE Writes
      <3>1. PICK s, n, text, paid :
              /\ s \in Scopes /\ n \in Names
              /\ Write(s, n, text, paid) /\ Pays(s, n, text, paid)
        BY <2>6 DEF Writes
      <3>2. text \in Seq(C) BY <3>1 DEF Pays
      <3>3. IF s = "req"
              THEN verdict' = IF workspace' > MaxWorkspace THEN "rejected" ELSE verdict
              ELSE UNCHANGED <<workspace, verdict>>
        BY <2>1, <3>1, <3>2, WriteIs
      <3>4. QED BY <2>2, <2>3, <3>3 DEF WithinLimit
    <2>7. QED BY <2>1, <2>4, <2>5, <2>6 DEF HeaderStep
  <1>3. QED BY <1>1, <1>2

(* What the account covers now: the pots of the headers paid for hold them. *)
LEMMA PotsCover ==
  ASSUME HeadersInv, Covered
  PROVE  workspace >= BaseOverhead + Total(http.req, charged)
PROOF
  <1> DEFINE h == http.req
             c == Costs(h)
             d == PotsOf(h, charged)
  <1>1. h \in Tables /\ charged \in SUBSET Names /\ IsFiniteSet(Names)
        /\ BaseOverhead \in Nat /\ workspace \in Nat
    BY HeadersAssumption DEF HeadersInv, HeadersTyped
  <1>2. workspace >= BaseOverhead + SumOf(d, Names) BY DEF Covered
  <1> HIDE DEF h
  <1>3. IsFiniteSet(charged) BY <1>1, FS_Subset
  <1>4. /\ \A n \in Names : c[n] \in Nat /\ c[n] = IF h[n] = Absent THEN 0
                                                   ELSE WorkspaceCost(n, h[n])
        /\ Total(h, charged) = SumOf(c, charged) /\ Total(h, charged) \in Nat
    BY <1>1, CostsAre
  <1>5. /\ \A n \in Names : d[n] \in Nat /\ d[n] = Pot(n, h[n], n \in charged)
        /\ SumOf(d, Names) \in Nat
    BY <1>1, PotsAre
  <1>6. ASSUME NEW n \in charged PROVE c[n] <= d[n]
    <2> DEFINE t == h[n]  p == n \in charged
    <2>1. n \in Names /\ p BY <1>1
    <2>2. CASE t = Absent
      <3>1. c[n] = 0 /\ d[n] \in Nat BY <1>4, <1>5, <2>1, <2>2
      <3>2. QED BY <3>1
    <2>3. CASE t # Absent
      <3>1. t \in Seq(C) BY <1>1, <2>1, <2>3 DEF Tables, HeaderTexts
      <3>2. c[n] = WorkspaceCost(n, t) BY <1>4, <2>1, <2>3
      <3>3. d[n] = Pot(n, t, p) BY <1>5, <2>1
      <3> HIDE DEF t, p
      <3>4. Debt(n, t) \in Nat /\ Bare(n) \in Nat /\ Len(t) \in Nat BY <2>1, <3>1, DebtIs, BareNat
      <3> DEFINE x == Bare(n) + 3 + Len(t)  y == Debt(n, t) + (Bare(n) + 3 + Len(t))
      <3>5. x \in Nat /\ y \in Nat /\ x <= y BY <3>4
      <3>6. Pot(n, t, p) = Ceil8(y) BY <2>1, <3>1, NotAbsent DEF Pot
      <3>7. WorkspaceCost(n, t) = Ceil8(x) BY <2>1, <3>1, CostIs
      <3> HIDE DEF x, y, c, d
      <3>8. QED BY <3>2, <3>3, <3>5, <3>6, <3>7, Ceil8Grows
    <2>4. QED BY <2>2, <2>3
  <1>7. SumOf(c, charged) <= SumOf(d, charged)
    <2> HIDE DEF c, d
    <2>1. \A n \in charged : c[n] \in Nat /\ d[n] \in Nat /\ c[n] <= d[n] BY <1>1, <1>4, <1>5, <1>6
    <2>2. QED BY <1>3, <2>1, SumFalls
  <1>8. SumOf(d, charged) <= SumOf(d, Names)
    <2> HIDE DEF d
    <2>1. QED BY <1>1, <1>5, SumMonotone
  <1>9. SumOf(d, charged) \in Nat
    <2> HIDE DEF d
    <2>1. \A n \in charged : d[n] \in Nat BY <1>1, <1>5
    <2>2. QED BY <1>3, <2>1, SumIsNat
  <1> HIDE DEF c, d
  <1>10. workspace >= BaseOverhead + Total(h, charged)
    BY <1>1, <1>2, <1>4, <1>5, <1>7, <1>8, <1>9
  <1>11. QED BY <1>10 DEF h

-----------------------------------------------------------------------------
(* Theorems.                                                                *)

InboundFits == \A h \in Inbound : Seed(h) <= MaxWorkspace

LEMMA LimitInit ==
  ASSUME InboundFits, HeadersInit
  PROVE  WithinLimit
PROOF
  <1>1. http.req \in Inbound BY InitIs
  <1>2. workspace = Seed(http.req) BY DEF HeadersInit
  <1>3. QED BY <1>1, <1>2 DEF InboundFits, WithinLimit

LEMMA InvAlways == HeadersSpec => []HeadersInv
PROOF
  <1>1. HeadersInit => HeadersInv BY InitIs
  <1>2. HeadersInv /\ [HeadersNext]_headerVars => HeadersInv' BY InvStep
  <1>3. QED BY <1>1, <1>2, PTL DEF HeadersSpec

LEMMA LimitAlways == ASSUME InboundFits PROVE HeadersSpec => []WithinLimit
PROOF
  <1>1. HeadersInit => WithinLimit BY LimitInit
  <1>2. HeadersInv /\ WithinLimit /\ [HeadersNext]_headerVars => WithinLimit' BY LimitStep
  <1>3. HeadersSpec => []HeadersInv BY InvAlways
  <1>4. QED BY <1>1, <1>2, <1>3, PTL DEF HeadersSpec

(* Headers are tables of texts, the account is a number, and a request that *)
(* goes on has not passed the limit, if it was let in below it.             *)
THEOREM HeadersTypes ==
  ASSUME InboundFits
  PROVE  HeadersSpec => []HeadersTypeOK
PROOF
  <1>1. HeadersInv /\ WithinLimit => HeadersTypeOK
    <2> SUFFICES ASSUME HeadersInv, WithinLimit PROVE HeadersTypeOK OBVIOUS
    <2>1. \A s \in Scopes, n \in Names : http[s][n] \in HeaderTexts BY HeldTyped DEF HeadersInv
    <2>2. \A t \in HeaderTexts : t # Absent => Len(t) \in Nat BY DEF HeaderTexts
    <2>3. QED BY <2>1, <2>2 DEF HeadersTypeOK, HeadersInv, WithinLimit
  <1>2. HeadersSpec => []HeadersInv BY InvAlways
  <1>3. HeadersSpec => []WithinLimit BY LimitAlways
  <1>4. QED BY <1>1, <1>2, <1>3, PTL

(* Workspace accounting is sound: at every moment what came in and what     *)
(* statements have written, by set, add, +=, subfields and std.collect,     *)
(* fits in the bytes charged, provided the separators given to std.collect, *)
(* which is free, are no longer than what an add statement pays besides the *)
(* text.                                                                    *)
THEOREM Accounted ==
  ASSUME ShortSeparators, InboundFits
  PROVE  HeadersSpec => []AccountCoversHeaders
PROOF
  <1>1. HeadersInit => Covered BY CoveredInit
  <1>2. HeadersInv /\ Covered /\ [HeadersNext]_headerVars => Covered' BY CoveredStep
  <1>3. HeadersInv /\ Covered /\ WithinLimit => AccountCoversHeaders
    BY PotsCover DEF AccountCoversHeaders, WithinLimit
  <1>4. HeadersSpec => []HeadersInv BY InvAlways
  <1>5. HeadersSpec => []WithinLimit BY LimitAlways
  <1>6. QED BY <1>1, <1>2, <1>3, <1>4, <1>5, PTL DEF HeadersSpec

-----------------------------------------------------------------------------
(* Subfields.                                                               *)

Reading(v) == IF v = Absent THEN NotSet ELSE Raw(v)

LEMMA ReadIs ==
  ASSUME NEW t \in Line, NEW k \in Keys
  PROVE  ReadSubfield(t, k) = Reading(DictGet(t, k))
PROOF
  <1>1. t \in Seq(C) /\ Count("LF", t) = 0 BY DEF Line
  <1>2. FirstLine(t) = t /\ t # Absent /\ k # <<>> BY <1>1, FirstLineIs, NotAbsent, KeysPlain
  <1>3. CASE t = <<>>
    <2>1. DictGet(t, k) = Absent BY <1>2, <1>3, EmptyReads
    <2>2. ReadSubfield(t, k) = NotSet BY <1>3 DEF ReadSubfield
    <2>3. QED BY <2>1, <2>2 DEF Reading
  <1>4. CASE t # <<>> BY <1>2, <1>4 DEF ReadSubfield, Reading
  <1>5. QED BY <1>3, <1>4

LEMMA ReadAbsent == \A k : ReadSubfield(Absent, k) = NotSet
PROOF BY DEF ReadSubfield

LEMMA ReadHeld ==
  ASSUME NEW before \in Line \cup {Absent}, NEW k \in Keys
  PROVE  ReadSubfield(before, k) =
           Reading(DictGet(IF before = Absent THEN <<>> ELSE before, k))
PROOF
  <1>1. CASE before = Absent
    <2>1. DictGet(<<>>, k) = Absent BY KeysPlain, EmptyReads
    <2>2. QED BY <1>1, <2>1, ReadAbsent DEF Reading
  <1>2. CASE before # Absent BY <1>2, ReadIs
  <1>3. QED BY <1>1, <1>2

NoCommas(text) == Count(",", text) = 0

LEMMA DictSetLine ==
  ASSUME NEW held \in Line, NEW key \in Keys, NEW text \in Line
  PROVE  DictSet(held, key, text) \in Line
PROOF
  <1> DEFINE written == DictSet(held, key, text)
  <1>1. held \in Seq(C) /\ Count("LF", held) = 0 BY DEF Line
  <1>2. text \in Seq(C) /\ Count("LF", text) = 0 BY DEF Line
  <1>3. key \in Seq(C) /\ PlainKey(key) BY KeysPlain
  <1>4. written \in Seq(C) BY <1>1, <1>2, <1>3, DictSetFacts
  <1>5. Count("LF", written) <= Count("LF", held)
    <2>1. Count("LF", text) = 0 =>
            Count("LF", DictSet(held, key, text)) <= Count("LF", held)
      BY ONLY <1>1, <1>2, <1>3, DictSetFacts
    <2>2. QED BY <1>2, <2>1
  <1> HIDE DEF written
  <1>6. Count("LF", written) \in Nat BY <1>4, CountIs
  <1>7. QED BY <1>1, <1>4, <1>5, <1>6 DEF Line, written

LEMMA DictSetReads ==
  ASSUME NEW held \in Line, NEW key \in Keys, NEW text \in Line, NoCommas(text),
         NEW k \in Keys
  PROVE  DictGet(DictSet(held, key, text), k) =
           IF k = key THEN Trim(text) ELSE DictGet(held, k)
PROOF
  <1>1. held \in Seq(C) /\ text \in Seq(C) BY DEF Line
  <1>2. key \in Seq(C) /\ PlainKey(key) /\ k # <<>> BY KeysPlain
  <1>3. NoCommas(text) => \A q : q # <<>> => DictGet(DictSet(held, key, text), q) =
                            IF q = key THEN Trim(text) ELSE DictGet(held, q)
    BY ONLY <1>1, <1>2, DictSetFacts DEF NoCommas
  <1>4. QED BY ONLY <1>2, <1>3, NoCommas(text)

(* A set statement on a subfield of a header of one line.                   *)
LEMMA SetReads ==
  ASSUME NEW before \in Line \cup {Absent}, NEW key \in Keys, NEW text \in Line,
         NoCommas(text), NEW written,
         written = DictSet(IF before = Absent THEN <<>> ELSE before, key, text)
  PROVE  /\ ReadSubfield(written, key) = Raw(Trim(text))
         /\ \A k \in Keys \ {key} : ReadSubfield(written, k) = ReadSubfield(before, k)
PROOF
  <1> DEFINE held == IF before = Absent THEN <<>> ELSE before
  <1>1. held \in Line BY EmptyText, CountNone DEF Line
  <1>2. \A k \in Keys : ReadSubfield(before, k) = Reading(DictGet(held, k)) BY ReadHeld
  <1>3. written = DictSet(held, key, text) OBVIOUS
  <1> HIDE DEF held
  <1>4. written \in Line BY <1>1, <1>3, DictSetLine
  <1>5. \A k \in Keys : DictGet(written, k) = IF k = key THEN Trim(text) ELSE DictGet(held, k)
    BY <1>1, <1>3, DictSetReads
  <1>6. Trim(text) # Absent
    <2>1. text \in Seq(C) BY DEF Line
    <2>2. Trim(text) \in Seq(C) BY <2>1, TrimFacts
    <2>3. QED BY <2>2, NotAbsent
  <1>7. \A k \in Keys : ReadSubfield(written, k) = Reading(DictGet(written, k)) BY <1>4, ReadIs
  <1>8. ReadSubfield(written, key) = Raw(Trim(text)) BY ONLY <1>5, <1>6, <1>7, key \in Keys DEF Reading
  <1>9. ASSUME NEW k \in Keys \ {key} PROVE ReadSubfield(written, k) = ReadSubfield(before, k)
    BY ONLY <1>2, <1>5, <1>7, k \in Keys \ {key}
  <1>10. QED BY ONLY <1>8, <1>9

(* An unset statement on one.                                               *)
LEMMA UnsetReads ==
  ASSUME NEW before \in Line \cup {Absent}, NEW key \in Keys, NEW left, NEW text,
         left = DictUnset(IF before = Absent THEN <<>> ELSE before, key),
         text = IF left = <<>> THEN Absent ELSE left
  PROVE  /\ ReadSubfield(text, key) = NotSet
         /\ \A k \in Keys \ {key} : ReadSubfield(text, k) = ReadSubfield(before, k)
PROOF
  <1> DEFINE held == IF before = Absent THEN <<>> ELSE before
  <1>1. held \in Seq(C) /\ Count("LF", held) = 0 BY EmptyText, CountNone DEF Line
  <1>2. \A k \in Keys : k # <<>> BY KeysPlain
  <1>3. \A k \in Keys : ReadSubfield(before, k) = Reading(DictGet(held, k)) BY ReadHeld
  <1>4. left = DictUnset(held, key) OBVIOUS
  <1> HIDE DEF held
  <1>5. /\ left \in Seq(C) /\ Count("LF", left) <= Count("LF", held)
        /\ \A k : k # <<>> => DictGet(left, k) = IF k = key THEN Absent ELSE DictGet(held, k)
    BY <1>1, <1>4, DictUnsetFacts
  <1>6. left \in Line
    <2>1. Count("LF", left) \in Nat BY <1>5, CountIs
    <2>2. Count("LF", left) = 0 BY <1>1, <1>5, <2>1
    <2>3. QED BY <1>5, <2>2 DEF Line
  <1>7. left # Absent BY <1>5, NotAbsent
  <1>8. \A k \in Keys : ReadSubfield(text, k) = Reading(DictGet(left, k))
    <2>1. text \in Line \cup {Absent} BY <1>6
    <2>2. (IF text = Absent THEN <<>> ELSE text) = left BY <1>7
    <2>3. QED BY <2>1, <2>2, ReadHeld
  <1>9. ReadSubfield(text, key) = NotSet BY <1>2, <1>5, <1>8 DEF Reading
  <1>10. ASSUME NEW k \in Keys \ {key} PROVE ReadSubfield(text, k) = ReadSubfield(before, k)
    BY <1>2, <1>3, <1>5, <1>8
  <1>11. QED BY <1>9, <1>10

-----------------------------------------------------------------------------
(* What a statement on a subfield of a header of one line does to it.       *)

Breaks == {",", "LF"}

Kept(now, key, text, before) ==
  before = Absent \/ Len(Lines(before)) = 1 =>
    /\ text = Absent => ReadSubfield(now, key) = NotSet
    /\ text # Absent /\ ToSet(text) \cap Breaks = {} => ReadSubfield(now, key) = Raw(Trim(text))
    /\ text = Absent \/ ToSet(text) \cap Breaks = {} =>
         \A k \in Keys \ {key} : ReadSubfield(now, k) = ReadSubfield(before, k)

LEMMA ApartIs ==
  ASSUME NEW s, NEW n, NEW key, NEW text, NEW before,
         last' = [kind |-> "subfield", scope |-> s, name |-> n, key |-> key,
                  text |-> text, before |-> before],
         Kept(http'[s][n], key, text, before)
  PROVE  SubfieldsApart'
PROOF
  <1>1. /\ last'.scope = s /\ last'.name = n /\ last'.key = key
        /\ last'.text = text /\ last'.before = before
    OBVIOUS
  <1>2. http'[last'.scope][last'.name] = http'[s][n] BY <1>1
  <1>3. QED BY ONLY <1>1, <1>2, Kept(http'[s][n], key, text, before)
            DEF SubfieldsApart, Kept, Breaks

LEMMA ApartElse == ASSUME last'.kind # "subfield" PROVE SubfieldsApart'
PROOF BY DEF SubfieldsApart

LEMMA OneLineIs ==
  ASSUME NEW text \in HeaderTexts, text = Absent \/ Len(Lines(text)) = 1
  PROVE  text \in Line \cup {Absent}
PROOF BY OneLine DEF HeaderTexts, Line

LEMMA NoBreaks ==
  ASSUME NEW text \in Seq(C), ToSet(text) \cap Breaks = {}
  PROVE  NoCommas(text)
PROOF
  <1>1. "," \notin ToSet(text) BY DEF Breaks
  <1>2. QED BY <1>1, ToSetCount DEF NoCommas

LEMMA SetKept ==
  ASSUME NEW before \in HeaderTexts, NEW key \in Keys, NEW text \in Line, NEW now,
         now = DictSet(IF before = Absent THEN <<>> ELSE before, key, text)
  PROVE  Kept(now, key, text, before)
PROOF
  <1> SUFFICES ASSUME before = Absent \/ Len(Lines(before)) = 1
               PROVE  Kept(now, key, text, before)
    BY DEF Kept
  <1>1. before \in Line \cup {Absent} BY OneLineIs
  <1>2. text \in Seq(C) BY DEF Line
  <1>3. text # Absent BY <1>2, NotAbsent
  <1>4. ASSUME ToSet(text) \cap Breaks = {}
        PROVE  /\ ReadSubfield(now, key) = Raw(Trim(text))
               /\ \A k \in Keys \ {key} : ReadSubfield(now, k) = ReadSubfield(before, k)
    <2>1. NoCommas(text) BY <1>2, <1>4, NoBreaks
    <2>2. QED BY <1>1, <2>1, SetReads
  <1>5. QED BY ONLY <1>3, <1>4 DEF Kept

LEMMA UnsetKept ==
  ASSUME NEW before \in HeaderTexts, NEW key \in Keys, NEW left, NEW now,
         left = DictUnset(IF before = Absent THEN <<>> ELSE before, key),
         now = IF left = <<>> THEN Absent ELSE left
  PROVE  Kept(now, key, Absent, before)
PROOF
  <1> SUFFICES ASSUME before = Absent \/ Len(Lines(before)) = 1
               PROVE  Kept(now, key, Absent, before)
    BY DEF Kept
  <1>1. before \in Line \cup {Absent} BY OneLineIs
  <1>2. /\ ReadSubfield(now, key) = NotSet
        /\ \A k \in Keys \ {key} : ReadSubfield(now, k) = ReadSubfield(before, k)
    BY <1>1, UnsetReads
  <1>3. QED BY ONLY <1>2 DEF Kept

LEMMA SetSubfieldApart ==
  ASSUME HeadersTyped, NEW s \in Scopes, NEW n \in Names, NEW key \in Keys,
         NEW op \in {"=", "+="}, NEW operand \in Operands, SetSubfield(s, n, key, op, operand)
  PROVE  SubfieldsApart'
PROOF
  <1> DEFINE before == http[s][n]
             text == SubfieldText(s, n, key, op, operand)
             now == SetText(s, n, key, op, operand)
  <1>1. text \in Line BY SubfieldTextLine
  <1>2. before \in HeaderTexts BY HeldTyped
  <1>3. now = DictSet(IF before = Absent THEN <<>> ELSE before, key, text)
    BY DEF SetText, HeldText
  <1>4. /\ Write(s, n, now, now)
        /\ last' = [kind |-> "subfield", scope |-> s, name |-> n, key |-> key,
                    text |-> text, before |-> before]
    BY SetSubfieldIs
  <1>5. HeldText(s, n) \in Seq(C) BY HeldTextTyped
  <1>6. now \in Seq(C)
    <2>1. text \in Seq(C)
      <3> HIDE DEF text
      <3>1. QED BY <1>1 DEF Line
    <2>2. now = DictSet(HeldText(s, n), key, text) BY DEF SetText
    <2> HIDE DEF text, now
    <2>3. QED BY <1>5, <2>1, <2>2, KeysPlain, DictSetFacts
  <1> HIDE DEF before, text, now
  <1>7. http' = [http EXCEPT ![s][n] = now] /\ http'[s] = [http[s] EXCEPT ![n] = now]
    BY <1>4, <1>6, WriteIs
  <1>8. http[s] \in Tables BY HeldTyped
  <1>9. http'[s][n] = now BY <1>7, <1>8 DEF Tables
  <1>10. Kept(now, key, text, before) BY <1>1, <1>2, <1>3, SetKept
  <1>11. QED BY <1>4, <1>9, <1>10, ApartIs

LEMMA UnsetSubfieldApart ==
  ASSUME HeadersTyped, NEW s \in Scopes, NEW n \in Names, NEW key \in Keys,
         UnsetSubfield(s, n, key)
  PROVE  SubfieldsApart'
PROOF
  <1> DEFINE before == http[s][n]
             left == DictUnset(HeldText(s, n), key)
             now == UnsetText(s, n, key)
             headers == [http[s] EXCEPT ![n] = now]
  <1>1. before \in HeaderTexts BY HeldTyped
  <1>2. /\ left = DictUnset(IF before = Absent THEN <<>> ELSE before, key)
        /\ now = IF left = <<>> THEN Absent ELSE left
    BY DEF UnsetText, HeldText
  <1>3. /\ Replace(s, headers, {})
        /\ last' = [kind |-> "subfield", scope |-> s, name |-> n, key |-> key,
                    text |-> Absent, before |-> before]
    BY UnsetSubfieldIs
  <1> HIDE DEF before, left, now, headers
  <1>4. http \in [Scopes -> Tables] /\ http' = [http EXCEPT ![s] = headers]
    BY <1>3 DEF HeadersTyped, Replace
  <1>5. http[s] \in Tables BY HeldTyped
  <1>6. http'[s] = headers BY <1>4
  <1>7. http'[s][n] = now BY <1>5, <1>6 DEF headers, Tables
  <1>8. Kept(now, key, Absent, before) BY <1>1, <1>2, UnsetKept
  <1>9. QED BY <1>3, <1>7, <1>8, ApartIs

LEMMA ApartStep ==
  ASSUME HeadersInv, SubfieldsApart, [HeadersNext]_headerVars
  PROVE  SubfieldsApart'
PROOF
  <1>1. CASE UNCHANGED headerVars BY <1>1 DEF SubfieldsApart, headerVars
  <1>2. CASE HeadersNext
    <2>1. HeadersTyped BY DEF HeadersInv
    <2>2. CASE last' = Other BY <2>2, ApartElse DEF Other
    <2>3. ASSUME NEW s \in Scopes, NEW n \in Names, NEW key \in Keys,
                 NEW op \in {"=", "+="}, NEW operand \in Operands,
                 SetSubfield(s, n, key, op, operand)
          PROVE  SubfieldsApart'
      BY <2>1, <2>3, SetSubfieldApart
    <2>4. ASSUME NEW s \in Scopes, NEW n \in Names, NEW key \in Keys, UnsetSubfield(s, n, key)
          PROVE  SubfieldsApart'
      BY <2>1, <2>4, UnsetSubfieldApart
    <2>5. ASSUME NEW l, NEW r, NEW op, Test(op, l, r) PROVE SubfieldsApart'
      BY <2>5, ApartElse DEF Test
    <2>6. QED BY ONLY <1>2, <2>2, <2>3, <2>4, <2>5 DEF HeadersNext
  <1>3. QED BY <1>1, <1>2

(* Subfields are independent: once a statement has set or unset a subfield  *)
(* of a header of one line, that subfield reads what was set, or not set,   *)
(* and every other reads what it read before, whatever keys, texts and      *)
(* headers there are.                                                       *)
THEOREM SubfieldsKeptApart == HeadersSpec => []SubfieldsApart
PROOF
  <1>1. ASSUME HeadersInit PROVE SubfieldsApart
    <2>1. last.kind = "other" BY <1>1 DEF HeadersInit, Other
    <2>2. QED BY ONLY <2>1 DEF SubfieldsApart
  <1>2. HeadersInv /\ SubfieldsApart /\ [HeadersNext]_headerVars => SubfieldsApart' BY ApartStep
  <1>3. HeadersSpec => []HeadersInv BY InvAlways
  <1>4. QED BY <1>1, <1>2, <1>3, PTL DEF HeadersSpec

-----------------------------------------------------------------------------
(* Predefined variables: those a reading shows, by their types.             *)

TextVars ==
  {"bereq.method", "bereq.url", "beresp.response", "obj.response", "req.method", "req.url",
   "resp.response", "client.identity"}

CountVars == {"beresp.status", "obj.hits", "obj.status", "req.restarts", "resp.status"}

FlagVars ==
  {"beresp.brotli", "beresp.cacheable", "beresp.do_esi", "beresp.do_stream", "beresp.gzip",
   "beresp.hipaa", "beresp.pci", "req.esi", "req.hash_always_miss", "req.hash_ignore_busy",
   "req.is_ssl"}

TimeVars ==
  {"bereq.between_bytes_timeout", "bereq.connect_timeout", "bereq.fetch_timeout",
   "bereq.first_byte_timeout", "beresp.grace", "beresp.stale_if_error",
   "beresp.stale_while_revalidate", "beresp.ttl", "obj.grace", "obj.ttl", "req.grace",
   "req.max_stale_if_error", "req.max_stale_while_revalidate"}

Readable == TextVars \cup CountVars \cup FlagVars \cup TimeVars \cup {"req.backend"}

LEMMA NamesAre ==
  /\ ReqNames = ReqTypes.BOOL \cup ReqTypes.RTIME \cup ReqTypes.INTEGER
                  \cup ReqTypes.REQBACKEND \cup ReqTypes.STRING
  /\ BereqNames = BereqTypes.RTIME \cup BereqTypes.STRING
  /\ BerespNames = BerespTypes.BOOL \cup BerespTypes.RTIME \cup BerespTypes.INTEGER
                     \cup BerespTypes.STRING \cup BerespTypes.none
  /\ ObjNames = ObjTypes.RTIME \cup ObjTypes.INTEGER \cup ObjTypes.STRING
  /\ NamesIn(RespTypes) = RespTypes.INTEGER \cup RespTypes.STRING
  /\ NamesIn(ClientTypes) = ClientTypes.STRING
PROOF
  <1>1. DOMAIN ReqTypes = {"BOOL", "RTIME", "INTEGER", "REQBACKEND", "STRING"} BY DEF ReqTypes
  <1>2. DOMAIN BereqTypes = {"RTIME", "STRING"} BY DEF BereqTypes
  <1>3. DOMAIN BerespTypes = {"BOOL", "RTIME", "INTEGER", "STRING", "none"} BY DEF BerespTypes
  <1>4. DOMAIN ObjTypes = {"RTIME", "INTEGER", "STRING"} BY DEF ObjTypes
  <1>5. DOMAIN RespTypes = {"INTEGER", "STRING"} BY DEF RespTypes
  <1>6. DOMAIN ClientTypes = {"STRING"} BY DEF ClientTypes
  <1>7. ReqNames = ReqTypes.BOOL \cup ReqTypes.RTIME \cup ReqTypes.INTEGER
                  \cup ReqTypes.REQBACKEND \cup ReqTypes.STRING
    BY <1>1 DEF ReqNames, NamesIn
  <1>8. BereqNames = BereqTypes.RTIME \cup BereqTypes.STRING BY <1>2 DEF BereqNames, NamesIn
  <1>9. BerespNames = BerespTypes.BOOL \cup BerespTypes.RTIME \cup BerespTypes.INTEGER
                     \cup BerespTypes.STRING \cup BerespTypes.none
    BY <1>3 DEF BerespNames, NamesIn
  <1>10. ObjNames = ObjTypes.RTIME \cup ObjTypes.INTEGER \cup ObjTypes.STRING
    BY <1>4 DEF ObjNames, NamesIn
  <1>11. NamesIn(RespTypes) = RespTypes.INTEGER \cup RespTypes.STRING BY <1>5 DEF NamesIn
  <1>12. NamesIn(ClientTypes) = ClientTypes.STRING BY <1>6 DEF NamesIn
  <1>13. QED BY <1>7, <1>8, <1>9, <1>10, <1>11, <1>12

LEMMA VariablesAre == Variables = Readable \cup Unread
PROOF
  <1>1. ReqNames \cup BereqNames =
          {"req.enable_range_on_pass", "req.esi", "req.hash_always_miss", "req.hash_ignore_busy",
           "req.is_ssl", "req.grace", "req.max_stale_if_error", "req.max_stale_while_revalidate",
           "req.restarts", "req.backend", "req.method", "req.request", "req.url",
           "bereq.between_bytes_timeout", "bereq.connect_timeout", "bereq.fetch_timeout",
           "bereq.first_byte_timeout", "bereq.method", "bereq.request", "bereq.url"}
    BY NamesAre DEF ReqTypes, BereqTypes
  <1>2. BerespNames \cup ObjNames =
          {"beresp.brotli", "beresp.cacheable", "beresp.do_esi", "beresp.do_stream",
           "beresp.gzip", "beresp.hipaa", "beresp.pci", "beresp.grace", "beresp.stale_if_error",
           "beresp.stale_while_revalidate", "beresp.ttl", "beresp.status", "beresp.response",
           "beresp.saintmode", "obj.grace", "obj.ttl", "obj.hits", "obj.status", "obj.response"}
    BY NamesAre DEF BerespTypes, ObjTypes
  <1>3. NamesIn(RespTypes) \cup NamesIn(ClientTypes) =
          {"resp.status", "resp.response", "client.identity"}
    BY NamesAre DEF RespTypes, ClientTypes
  <1>4. QED BY <1>1, <1>2, <1>3 DEF Variables, Readable, Unread, TextVars, CountVars, FlagVars, TimeVars

LEMMA TypesAre ==
  /\ Rtimes = TimeVars
  /\ Booleans = FlagVars \cup {"req.enable_range_on_pass"}
  /\ Counts = CountVars
PROOF
  <1>1. Rtimes = TimeVars BY DEF Rtimes, TimeVars, BereqTypes, BerespTypes, ObjTypes, ReqTypes
  <1>2. Booleans = FlagVars \cup {"req.enable_range_on_pass"}
    BY DEF Booleans, FlagVars, BerespTypes, ReqTypes
  <1>3. Counts = BerespTypes.INTEGER \cup ObjTypes.INTEGER \cup ReqTypes.INTEGER
                   \cup RespTypes.INTEGER
    BY DEF Counts
  <1>4. Counts = CountVars BY <1>3 DEF CountVars, BerespTypes, ObjTypes, ReqTypes, RespTypes
  <1>5. QED BY <1>1, <1>2, <1>4

LEMMA Disjoint ==
  /\ \A n \in TimeVars : n \notin FlagVars \cup CountVars \cup TextVars
                         /\ n \notin {"req.enable_range_on_pass", "req.backend", "beresp.saintmode"}
  /\ \A n \in FlagVars : n \notin CountVars \cup TextVars \cup TimeVars
                         /\ n \notin {"req.enable_range_on_pass", "req.backend", "beresp.saintmode"}
  /\ \A n \in CountVars : n \notin TextVars \cup TimeVars \cup FlagVars
                          /\ n \notin {"req.enable_range_on_pass", "req.backend", "beresp.saintmode"}
  /\ \A n \in TextVars : n \notin TimeVars \cup FlagVars \cup CountVars
                         /\ n \notin {"req.enable_range_on_pass", "req.backend", "beresp.saintmode"}
  /\ "req.backend" \notin TextVars \cup TimeVars \cup FlagVars \cup CountVars
PROOF BY DEF TextVars, CountVars, FlagVars, TimeVars

LEMMA TypeOfAre ==
  /\ \A n \in TimeVars : TypeOf(n) = "RTIME"
  /\ \A n \in FlagVars : TypeOf(n) = "BOOL"
  /\ \A n \in CountVars : TypeOf(n) = "INTEGER"
  /\ \A n \in TextVars : TypeOf(n) = "STRING"
  /\ TypeOf("req.backend") = "REQBACKEND"
PROOF
  <1>1. \A n \in TimeVars : TypeOf(n) = "RTIME" BY Disjoint, TypesAre DEF TypeOf
  <1>2. \A n \in FlagVars : TypeOf(n) = "BOOL" BY Disjoint, TypesAre DEF TypeOf
  <1>3. \A n \in CountVars : TypeOf(n) = "INTEGER" BY Disjoint, TypesAre DEF TypeOf
  <1>4. \A n \in TextVars : TypeOf(n) = "STRING" BY Disjoint, TypesAre DEF TypeOf
  <1>5. TypeOf("req.backend") = "REQBACKEND" BY Disjoint, TypesAre DEF TypeOf
  <1>6. QED BY <1>1, <1>2, <1>3, <1>4, <1>5

-----------------------------------------------------------------------------
(* What is kept of a value.                                                 *)

LEMMA KeepText ==
  ASSUME NEW n \in TextVars \cup {"req.backend"}, NEW v, NEW e
  PROVE  ToKeep(n, v, e) = Raw(StringOf(v))
PROOF
  <1>1. TypeOf(n) # "RTIME" BY TypeOfAre
  <1>2. QED BY <1>1 DEF ToKeep, TextVars

LEMMA KeepCount ==
  ASSUME NEW n \in CountVars, NEW v, NEW e
  PROVE  ToKeep(n, v, e) = NumberValue(v)
PROOF
  <1>1. TypeOf(n) # "RTIME" BY TypeOfAre
  <1>2. QED BY <1>1 DEF ToKeep, CountVars

LEMMA KeepTime ==
  ASSUME NEW n \in TimeVars, NEW v, NEW e
  PROVE  ToKeep(n, v, e) = Num(TimeValue(v))
PROOF
  <1>1. TypeOf(n) = "RTIME" BY TypeOfAre
  <1>2. QED BY <1>1 DEF ToKeep, TimeVars

KeepsFlag(n, v, e) ==
  CASE n \in {"beresp.pci", "beresp.hipaa"} -> Bool(ToBool(v))
    [] n = "beresp.do_esi" -> Bool(EsiWanted(e))
    [] OTHER -> Bool(JsTruthy(v))

LEMMA KeepFlag ==
  ASSUME NEW n \in FlagVars, NEW v, NEW e
  PROVE  ToKeep(n, v, e) = KeepsFlag(n, v, e)
PROOF
  <1>1. TypeOf(n) # "RTIME" BY TypeOfAre
  <1>2. CASE n \in {"beresp.pci", "beresp.hipaa"} BY <1>1, <1>2 DEF ToKeep, KeepsFlag
  <1>3. CASE n = "beresp.do_esi" BY <1>1, <1>3 DEF ToKeep, KeepsFlag
  <1>4. CASE n \in FlagVars \ {"beresp.pci", "beresp.hipaa", "beresp.do_esi"}
    BY <1>1, <1>4 DEF ToKeep, KeepsFlag, FlagVars
  <1>5. QED BY <1>2, <1>3, <1>4

-----------------------------------------------------------------------------
(* A value that is assigned, and what a variable of its type keeps of it.   *)

Reads(v) ==
  CASE v.kind \in {"raw", "text"} -> Raw(v.text)
    [] v.kind = "notset"  -> Raw(<<>>)
    [] v.kind = "concat"  -> Raw(ForLocal(v))
    [] v.kind = "backend" -> Raw(v.name)
    [] OTHER              -> v

KeptOf(v) == IF v.kind = "rtime" THEN Num(v.n) ELSE Reads(v)

Owns(n, v) == v.kind \in OwnKinds[TypeOf(n)]

LEMMA Own ==
  /\ \A n \in TextVars : \A v : Owns(n, v) <=> v.kind \in Strings
  /\ \A v : Owns("req.backend", v) <=> v.kind \in Strings \cup {"backend"}
  /\ \A n \in CountVars : \A v : Owns(n, v) <=> v.kind = "int"
  /\ \A n \in FlagVars : \A v : Owns(n, v) <=> v.kind = "bool"
  /\ \A n \in TimeVars : \A v : Owns(n, v) <=> v.kind = "rtime"
PROOF BY TypeOfAre DEF Owns, OwnKinds

LEMMA Forms ==
  ASSUME NEW v \in AssignedValues
  PROVE  /\ v.kind \in {"raw", "text", "concat", "notset", "int", "rtime", "bool", "backend"}
         /\ v.kind \in {"raw", "text"} => v.text \in Seq(Characters)
         /\ v.kind = "raw" => v = Raw(v.text)
         /\ v.kind = "notset" => v = NotSet
         /\ v.kind = "concat" => v.parts \in Seq([text : Seq(Characters), notset : BOOLEAN])
         /\ v.kind = "int" => v.n \in Int /\ v = Num(v.n)
         /\ v.kind = "rtime" => v.n \in Int /\ v = Rtime(v.n)
         /\ v.kind = "bool" => v.b \in BOOLEAN /\ v = Bool(v.b)
         /\ v.kind = "backend" => v.name \in Seq(Characters)
PROOF
  <1>1. CASE v \in [kind : {"raw", "text"}, text : Seq(Characters)] BY <1>1 DEF Raw
  <1>2. CASE v \in [kind : {"concat"}, parts : Seq([text : Seq(Characters), notset : BOOLEAN])]
    BY <1>2
  <1>3. CASE v = NotSet BY <1>3 DEF NotSet
  <1>4. CASE v \in [kind : {"int", "rtime"}, n : Int] BY <1>4 DEF Num, Rtime
  <1>5. CASE v \in [kind : {"bool"}, b : BOOLEAN] BY <1>5 DEF Bool
  <1>6. CASE v \in [kind : {"backend"}, name : Seq(Characters)] BY <1>6
  <1>7. QED BY <1>1, <1>2, <1>3, <1>4, <1>5, <1>6 DEF AssignedValues

LEMMA RawIs ==
  \A t : /\ Raw(t).kind = "raw" /\ Raw(t).text = t
         /\ DisplayText(Raw(t)) = t /\ StringOf(Raw(t)) = t
PROOF BY DEF Raw, DisplayText, TextOf, StringOf

LEMMA LocalText ==
  ASSUME NEW v \in AssignedValues, v.kind = "concat"
  PROVE  ForLocal(v) \in Seq(Characters)
PROOF
  <1> DEFINE S == Seq(Characters)
             R == [text : S, notset : BOOLEAN]
             p == v.parts
             b == [i \in DOMAIN p |-> p[i].text]
             n == Len(p)
  <1>1. p \in Seq(R) BY Forms
  <1>9. \A r \in R : r.text \in S OBVIOUS
  <1>2. ForLocal(v) = FlattenSeq(b) BY DEF ForLocal
  <1> HIDE DEF p, R, S
  <1>3. n \in Nat /\ DOMAIN p = 1 .. n /\ \A i \in 1 .. n : p[i] \in R
    BY <1>1
  <1>4. \A i \in 1 .. n : p[i].text \in S BY <1>3, <1>9
  <1> HIDE DEF n
  <1>5. b \in [1 .. n -> S] BY <1>3, <1>4
  <1> HIDE DEF b
  <1>6. b \in Seq(S) BY <1>3, <1>5, FunctionIsSeq
  <1>7. FlattenSeq(b) \in Seq(Characters) BY <1>6, FlattenSnoc DEF S
  <1>8. QED BY <1>2, <1>7

LEMMA KeptTyped ==
  ASSUME NEW v \in AssignedValues
  PROVE  /\ KeptOf(v) \in AssignedValues
         /\ v.kind \in Strings \cup {"backend"} => \E t \in Seq(Characters) : Reads(v) = Raw(t)
         /\ v.kind \in {"int", "bool", "rtime"} => Reads(v) = v
PROOF
  <1>1. CASE v.kind \in Strings \cup {"backend"}
    <2> DEFINE IsText == \E t \in Seq(Characters) : Reads(v) = Raw(t)
    <2>1. v.kind \in {"raw", "text"} => IsText BY Forms DEF Reads
    <2>2. v.kind = "notset" => IsText BY EmptyText DEF Reads
    <2>3. v.kind = "concat" => IsText BY LocalText DEF Reads
    <2>4. v.kind = "backend" => IsText BY Forms DEF Reads
    <2>5. PICK t \in Seq(Characters) : Reads(v) = Raw(t) BY <1>1, <2>1, <2>2, <2>3, <2>4 DEF Strings
    <2>6. KeptOf(v) = Raw(t) BY <1>1, <2>5 DEF KeptOf, Strings
    <2>7. Raw(t) \in AssignedValues BY DEF Raw, AssignedValues
    <2>8. QED BY <1>1, <2>5, <2>6, <2>7 DEF Strings
  <1>2. CASE v.kind \in {"int", "bool", "rtime"}
    <2>1. Reads(v) = v BY <1>2 DEF Reads
    <2>2. v.kind = "rtime" => Num(v.n) \in AssignedValues BY Forms DEF Num, AssignedValues
    <2>3. QED BY <1>2, <2>1, <2>2 DEF KeptOf, Strings
  <1>3. QED BY <1>1, <1>2, Forms DEF Strings

LEMMA ResultIs ==
  ASSUME NEW n, NEW v \in AssignedValues
  PROVE  Result(n, "=", v) = IF v.kind = "backend" THEN v ELSE Reads(v)
PROOF
  <1>1. v.kind = "notset" <=> v = NotSet BY Forms DEF NotSet
  <1>2. Result(n, "=", v) = CASE v.kind = "concat" -> Raw(ForLocal(v))
                              [] v.kind = "text"   -> Raw(v.text)
                              [] v = NotSet        -> Raw(<<>>)
                              [] OTHER             -> v
    BY DEF Result
  <1>3. v.kind = "raw" => v = Raw(v.text) BY Forms
  <1>4. QED BY <1>1, <1>2, <1>3 DEF Reads

LEMMA TextKept ==
  ASSUME NEW n \in TextVars \cup {"req.backend"}, NEW v \in AssignedValues, Owns(n, v)
  PROVE  ToKeep(n, Result(n, "=", v), v) = KeptOf(v)
PROOF
  <1>1. v.kind \in Strings \cup {"backend"} BY Own
  <1>2. ToKeep(n, Result(n, "=", v), v) = Raw(StringOf(Result(n, "=", v))) BY KeepText
  <1>3. CASE v.kind = "backend"
    <2>1. Result(n, "=", v) = v BY <1>3, ResultIs
    <2>2. StringOf(v) = v.name BY <1>3 DEF StringOf
    <2>3. QED BY <1>2, <1>3, <2>1, <2>2 DEF KeptOf, Reads
  <1>4. CASE v.kind \in Strings
    <2>1. Result(n, "=", v) = Reads(v) BY <1>4, ResultIs DEF Strings
    <2>2. PICK t : Reads(v) = Raw(t) BY <1>4, KeptTyped
    <2>3. QED BY <1>2, <1>4, <2>1, <2>2, RawIs DEF KeptOf, Strings
  <1>5. QED BY <1>1, <1>3, <1>4

LEMMA CountKept ==
  ASSUME NEW n \in CountVars, NEW v \in AssignedValues, Owns(n, v)
  PROVE  ToKeep(n, Result(n, "=", v), v) = KeptOf(v)
PROOF
  <1>1. v.kind = "int" /\ v = Num(v.n) BY Own, Forms
  <1>2. Result(n, "=", v) = v /\ KeptOf(v) = v BY <1>1, ResultIs, KeptTyped DEF KeptOf
  <1>3. Numbers(v) = {v.n}
    <2>1. v.kind # "bool" /\ v.kind \notin {"null", "nan"} /\ v.kind \notin Strings
      BY <1>1 DEF Strings
    <2>2. QED BY <1>1, <2>1 DEF Numbers
  <1>4. NumberValue(v) = v BY <1>1, <1>3 DEF NumberValue
  <1>5. QED BY <1>2, <1>4, KeepCount

LEMMA TimeKept ==
  ASSUME NEW n \in TimeVars, NEW v \in AssignedValues, Owns(n, v)
  PROVE  ToKeep(n, Result(n, "=", v), v) = KeptOf(v)
PROOF
  <1>1. v.kind = "rtime" BY Own
  <1>2. Result(n, "=", v) = v /\ KeptOf(v) = Num(v.n) BY <1>1, ResultIs, KeptTyped DEF KeptOf
  <1>3. TimeValue(v) = v.n BY <1>1 DEF TimeValue
  <1>4. QED BY <1>2, <1>3, KeepTime

LEMMA FlagKept ==
  ASSUME NEW n \in FlagVars, NEW v \in AssignedValues, Owns(n, v)
  PROVE  ToKeep(n, Result(n, "=", v), v) = KeptOf(v)
PROOF
  <1>1. v.kind = "bool" /\ v.b \in BOOLEAN /\ v = Bool(v.b) BY Own, Forms
  <1>2. Result(n, "=", v) = v /\ KeptOf(v) = v BY <1>1, ResultIs, KeptTyped DEF KeptOf
  <1>3. JsTruthy(v) = v.b BY <1>1 DEF JsTruthy
  <1>4. ToBool(v) = v.b
    <2>1. v # NotSet BY <1>1 DEF NotSet
    <2>2. QED BY <1>1, <1>3, <2>1 DEF ToBool
  <1>5. EsiWanted(v) = v.b BY <1>1 DEF EsiWanted
  <1>6. KeepsFlag(n, v, v) = Bool(v.b) BY <1>3, <1>4, <1>5 DEF KeepsFlag
  <1>7. QED BY <1>1, <1>2, <1>6, KeepFlag

LEMMA KeptAsGiven ==
  ASSUME NEW n \in Readable, NEW v \in AssignedValues, Owns(n, v)
  PROVE  ToKeep(n, Result(n, "=", v), v) = KeptOf(v)
PROOF BY TextKept, CountKept, TimeKept, FlagKept DEF Readable

-----------------------------------------------------------------------------
(* What a variable reads as when it has kept a value of its type.           *)

LEMMA HeldOther ==
  ASSUME NEW f, NEW n \in Readable \ {"req.restarts", "client.identity"},
         f[FieldOf(n)] # Absent
  PROVE  Held(f, n) = f[FieldOf(n)]
PROOF
  <1>1. n \notin {"req.request", "bereq.request", "req.enable_range_on_pass"}
    BY DEF Readable, TextVars, CountVars, FlagVars, TimeVars
  <1>2. QED BY <1>1 DEF Held

LEMMA RestartsRead ==
  ASSUME NEW f, NEW i \in Int, f["req.restarts"] = Num(i), Num(i) # Absent
  PROVE  Held(f, "req.restarts") = Num(i)
PROOF
  <1>1. FieldOf("req.restarts") = "req.restarts" BY DEF FieldOf
  <1>2. VariableDefault("req.restarts") = Num(0)
    <2>1. "req.restarts" \in ReqNames BY NamesAre DEF ReqTypes
    <2>2. "req.restarts" \notin Booleans /\ "req.restarts" \notin Rtimes
      BY TypesAre DEF FlagVars, TimeVars
    <2>3. VariableDefault("req.restarts") = ReqDefault("req.restarts")
      <3>1. "req.restarts" \notin BereqNames /\ "req.restarts" \notin BerespNames
            /\ "req.restarts" \notin ObjNames
        BY NamesAre DEF BereqTypes, BerespTypes, ObjTypes
      <3>2. QED BY <2>1, <3>1 DEF VariableDefault
    <2>4. QED BY <2>2, <2>3 DEF ReqDefault
  <1>3. JsTruthy(Num(i)) <=> i # 0 BY DEF JsTruthy, Num
  <1>4. Held(f, "req.restarts") = IF JsTruthy(Num(i)) THEN Num(i) ELSE Num(0)
    BY <1>1, <1>2 DEF Held
  <1>5. QED BY <1>3, <1>4

LEMMA IdentityRead ==
  ASSUME NEW f, NEW t, t # <<>>, f["client.identity"] = Raw(t), Raw(t) # Absent
  PROVE  Held(f, "client.identity") = Raw(t)
PROOF
  <1>1. FieldOf("client.identity") = "client.identity" BY DEF FieldOf
  <1>2. JsTruthy(Raw(t)) BY DEF JsTruthy, Raw
  <1>3. QED BY <1>1, <1>2 DEF Held

LEMMA ReadsBack ==
  ASSUME NEW f, NEW n \in Readable, NEW v \in AssignedValues, Owns(n, v),
         f[FieldOf(n)] = KeptOf(v), <<n, Reads(v)>> # <<"client.identity", Raw(<<>>)>>
  PROVE  Variable(f, n) = Reads(v)
PROOF
  <1>1. KeptOf(v) # Absent BY KeptTyped, PredefinedAssumption
  <1>2. Held(f, n) = KeptOf(v)
    <2>1. CASE n = "req.restarts"
      <3>1. v.kind = "int" /\ v.n \in Int /\ v = Num(v.n) BY <2>1, Own, Forms DEF CountVars
      <3>2. KeptOf(v) = v BY <3>1, KeptTyped DEF KeptOf
      <3>3. FieldOf(n) = n BY <2>1 DEF FieldOf
      <3>4. QED BY <1>1, <2>1, <3>1, <3>2, <3>3, RestartsRead
    <2>2. CASE n = "client.identity"
      <3>1. v.kind \in Strings BY <2>2, Own DEF TextVars
      <3>2. PICK t : Reads(v) = Raw(t) BY <3>1, KeptTyped
      <3>3. t # <<>> BY <2>2, <3>2
      <3>4. KeptOf(v) = Raw(t) BY <3>1, <3>2 DEF KeptOf, Strings
      <3>5. FieldOf(n) = n BY <2>2 DEF FieldOf
      <3>6. QED BY <1>1, <2>2, <3>3, <3>4, <3>5, IdentityRead
    <2>3. CASE n \notin {"req.restarts", "client.identity"} BY <1>1, <2>3, HeldOther
    <2>4. QED BY <2>1, <2>2, <2>3
  <1>3. CASE n \in TextVars \cup {"req.backend"}
    <2>1. v.kind \in Strings \cup {"backend"} BY <1>3, Own
    <2>2. PICK t : Reads(v) = Raw(t) BY <2>1, KeptTyped
    <2>3. KeptOf(v) = Raw(t) BY <2>1, <2>2 DEF KeptOf, Strings
    <2>4. TypeOf(n) \notin {"RTIME", "INTEGER", "BOOL"} BY <1>3, TypeOfAre
    <2>5. Raw(t) # NotSet BY DEF Raw, NotSet
    <2>6. QED BY <1>2, <2>2, <2>3, <2>4, <2>5 DEF Variable
  <1>4. CASE n \in CountVars
    <2>1. v.kind = "int" /\ v = Num(v.n) BY <1>4, Own, Forms
    <2>2. KeptOf(v) = v /\ Reads(v) = v BY <2>1, KeptTyped DEF KeptOf
    <2>3. Numbers(v) = {v.n}
      <3>1. v.kind # "bool" /\ v.kind \notin {"null", "nan"} /\ v.kind \notin Strings
        BY <2>1 DEF Strings
      <3>2. QED BY <2>1, <3>1 DEF Numbers
    <2>4. Coerced("INTEGER", v) = v BY <2>1, <2>3 DEF Coerced
    <2>5. TypeOf(n) = "INTEGER" BY <1>4, TypeOfAre
    <2>6. v # NotSet BY <2>1 DEF NotSet
    <2>7. QED BY <1>2, <2>2, <2>4, <2>5, <2>6 DEF Variable
  <1>5. CASE n \in FlagVars
    <2>1. v.kind = "bool" /\ v.b \in BOOLEAN /\ v = Bool(v.b) BY <1>5, Own, Forms
    <2>2. KeptOf(v) = v /\ Reads(v) = v BY <2>1, KeptTyped DEF KeptOf
    <2>3. JsTruthy(v) = v.b BY <2>1 DEF JsTruthy
    <2>4. v # Raw(<<"false">>) BY <2>1 DEF Raw
    <2>5. Coerced("BOOL", v) = v BY <2>1, <2>3, <2>4 DEF Coerced
    <2>6. TypeOf(n) = "BOOL" BY <1>5, TypeOfAre
    <2>7. v # NotSet BY <2>1 DEF NotSet
    <2>8. QED BY <1>2, <2>2, <2>5, <2>6, <2>7 DEF Variable
  <1>6. CASE n \in TimeVars
    <2>1. v.kind = "rtime" /\ v = Rtime(v.n) BY <1>6, Own, Forms
    <2>2. KeptOf(v) = Num(v.n) /\ Reads(v) = v BY <2>1, KeptTyped DEF KeptOf
    <2>3. Num(v.n).kind = "int" /\ Num(v.n).n = v.n /\ Num(v.n) # NotSet BY DEF Num, NotSet
    <2>4. TypeOf(n) = "RTIME" BY <1>6, TypeOfAre
    <2>5. Variable(f, n) = Rtime(v.n) BY <1>2, <2>2, <2>3, <2>4 DEF Variable
    <2>6. QED BY <2>1, <2>2, <2>5
  <1>7. QED BY <1>3, <1>4, <1>5, <1>6 DEF Readable

-----------------------------------------------------------------------------
(* The parts of a URL.                                                      *)

AnyText(t) == \E S : t \in Seq(S)

LEMMA QueryAt ==
  ASSUME NEW S, NEW t \in Seq(S)
  PROVE  LET q == SelectInSeq(t, LAMBDA c : c = "?")
         IN q \in 0 .. Len(t) /\ (q # 0 => t[q] = "?")
PROOF
  <1> DEFINE q == SelectInSeq(t, LAMBDA c : c = "?")
             A == {i \in 1 .. Len(t) : t[i] = "?"}
  <1>1. q = IF A # {} THEN Min(A) ELSE 0 BY DEF SelectInSeq
  <1>2. CASE A = {} BY <1>1, <1>2
  <1>3. CASE A # {}
    <2>1. A \in SUBSET Nat OBVIOUS
    <2> HIDE DEF A
    <2>2. Min(A) \in A BY <1>3, <2>1, MinIsLeast
    <2>3. q = Min(A) BY <1>1, <1>3
    <2> HIDE DEF q
    <2>4. QED BY <2>2, <2>3 DEF A, q
  <1>4. QED BY <1>2, <1>3

LEMMA LastIs ==
  ASSUME NEW S, NEW t \in Seq(S), NEW c
  PROVE  LastOf(t, c) \in 0 .. Len(t) /\ (LastOf(t, c) # 0 => t[LastOf(t, c)] = c)
PROOF
  <1> DEFINE A == {0} \cup {i \in DOMAIN t : t[i] = c}
  <1>1. LastOf(t, c) = Max(A) BY DEF LastOf
  <1>2. DOMAIN t = 1 .. Len(t) /\ Len(t) \in Nat OBVIOUS
  <1>3. A \subseteq 0 .. Len(t) BY <1>2
  <1>4. A \subseteq Nat /\ A # {} BY <1>3
  <1>5. IsFiniteSet(A)
    <2>1. IsFiniteSet(0 .. Len(t)) BY <1>2, FS_Interval
    <2> HIDE DEF A
    <2>2. QED BY <1>3, <2>1, FS_Subset
  <1>6. Max(A) \in A
    <2> HIDE DEF A
    <2>1. QED BY <1>4, <1>5, MaxIsLargest
  <1>7. QED BY <1>1, <1>2, <1>3, <1>6

LEMMA SuffixOf ==
  ASSUME NEW S, NEW t \in Seq(S), NEW k \in 1 .. Len(t), NEW s \in Seq(S),
         Len(s) = Len(t) - k + 1, \A i \in 1 .. Len(s) : s[i] = t[k - 1 + i]
  PROVE  IsSuffix(s, t)
PROOF
  <1> DEFINE r == Reverse(s)
             u == Reverse(t)
             n == Len(s)
  <1>1. Len(s) \in Nat /\ Len(t) \in Nat OBVIOUS
  <1>2. /\ r \in Seq(S) /\ Len(r) = Len(s)
        /\ \A i \in 1 .. Len(s) : r[i] = s[Len(s) - i + 1]
    BY <1>1, FunctionIsSeq DEF Reverse
  <1>3. /\ u \in Seq(S) /\ Len(u) = Len(t)
        /\ \A i \in 1 .. Len(t) : u[i] = t[Len(t) - i + 1]
    BY <1>1, FunctionIsSeq DEF Reverse
  <1>4. IsSuffix(s, t) <=> Len(r) <= Len(u) /\ SubSeq(r, 1, Len(r)) = SubSeq(u, 1, Len(r))
    BY DEF IsSuffix, IsPrefix
  <1> HIDE DEF r, u
  <1>5. n \in Nat /\ n <= Len(t) BY <1>1
  <1>6. ASSUME NEW i \in 1 .. n PROVE r[i] = u[i]
    <2>1. i \in 1 .. Len(t) BY <1>5
    <2>2. u[i] = t[Len(t) - i + 1] BY <1>3, <2>1
    <2>3. r[i] = s[n - i + 1] BY <1>2
    <2>4. n - i + 1 \in 1 .. n BY <1>5
    <2>5. s[n - i + 1] = t[k - 1 + (n - i + 1)] BY <2>4
    <2>6. k - 1 + (n - i + 1) = Len(t) - i + 1 BY <1>1
    <2>7. QED BY <2>2, <2>3, <2>5, <2>6
  <1>7. SubSeq(r, 1, n) = SubSeq(u, 1, n)
    <2>1. /\ SubSeq(r, 1, n) \in Seq(S) /\ Len(SubSeq(r, 1, n)) = n
          /\ \A i \in 1 .. n : SubSeq(r, 1, n)[i] = r[i]
      BY <1>2, <1>5
    <2>2. /\ SubSeq(u, 1, n) \in Seq(S) /\ Len(SubSeq(u, 1, n)) = n
          /\ \A i \in 1 .. n : SubSeq(u, 1, n)[i] = u[i]
      BY <1>3, <1>5
    <2>3. QED BY ONLY <1>6, <2>1, <2>2, SameText
  <1>8. QED BY <1>2, <1>3, <1>4, <1>5, <1>7

QueryPlace(t) == SelectInSeq(t, LAMBDA c : c = "?")

PathOf(t) == IF QueryPlace(t) = 0 THEN t ELSE SubSeq(t, 1, QueryPlace(t) - 1)

BaseOf(path) ==
  IF path = <<>> THEN <<".">> ELSE SubSeq(path, LastOf(path, "/") + 1, Len(path))

LEMMA UrlParts ==
  ASSUME NEW t
  PROVE  /\ UrlPart("path", t) = PathOf(t)
         /\ UrlPart("qs", t) =
              IF QueryPlace(t) = 0 THEN <<>> ELSE SubSeq(t, QueryPlace(t) + 1, Len(t))
         /\ UrlPart("basename", t) = BaseOf(PathOf(t))
         /\ LastOf(PathOf(t), "/") # 0 /\ PathOf(t) # <<>> =>
              UrlPart("dirname", t) = SubSeq(PathOf(t), 1, LastOf(PathOf(t), "/"))
         /\ UrlPart("ext", t) =
              IF LastOf(BaseOf(PathOf(t)), ".") = 0 THEN <<>>
              ELSE SubSeq(BaseOf(PathOf(t)), LastOf(BaseOf(PathOf(t)), ".") + 1,
                          Len(BaseOf(PathOf(t))))
PROOF BY DEF UrlPart, QueryPlace, PathOf, BaseOf

LEMMA PathIs ==
  ASSUME NEW S, NEW t \in Seq(S)
  PROVE  /\ PathOf(t) \in Seq(S)
         /\ t \in {PathOf(t), PathOf(t) \o <<"?">> \o UrlPart("qs", t)}
PROOF
  <1> DEFINE q == QueryPlace(t)
             u == SubSeq(t, 1, q - 1)
             v == SubSeq(t, q + 1, Len(t))
             T == S \cup {"?"}
  <1>1. q \in 0 .. Len(t) /\ (q # 0 => t[q] = "?") BY QueryAt DEF QueryPlace
  <1>2. CASE q = 0 BY <1>2 DEF PathOf
  <1>3. CASE q # 0
    <2> HIDE DEF q
    <2>1. q \in 1 .. Len(t) /\ Len(t) \in Nat BY <1>1, <1>3
    <2>2. u \in Seq(S) /\ Len(u) = q - 1 /\ \A i \in 1 .. q - 1 : u[i] = t[i] BY <2>1
    <2>3. /\ v \in Seq(S) /\ Len(v) = Len(t) - q
          /\ \A i \in 1 .. Len(t) - q : v[i] = t[q + i]
      BY <2>1
    <2>4. PathOf(t) = u /\ UrlPart("qs", t) = v BY <1>3, UrlParts DEF PathOf, q
    <2> HIDE DEF u, v
    <2>5. u \in Seq(T) /\ v \in Seq(T) /\ <<"?">> \in Seq(T) BY <2>2, <2>3
    <2>6. Len(<<"?">>) = 1 /\ <<"?">>[1] = "?" OBVIOUS
    <2> DEFINE w == u \o <<"?">>
    <2>7. /\ w \in Seq(T) /\ Len(w) = q /\ \A i \in 1 .. q - 1 : w[i] = t[i]
          /\ w[q] = "?"
      <3>1. w \in Seq(T) /\ Len(w) = Len(u) + 1 BY <2>5, <2>6, Concat2
      <3>2. \A i \in 1 .. Len(u) : w[i] = u[i] BY <2>5, Concat2
      <3>3. w[Len(u) + 1] = "?"
        <4>1. 1 \in 1 .. Len(<<"?">>) BY <2>6
        <4>2. w[Len(u) + 1] = <<"?">>[1] BY <2>5, <4>1, Concat2
        <4>3. QED BY <2>6, <4>2
      <3> HIDE DEF w
      <3>4. QED BY <2>1, <2>2, <3>1, <3>2, <3>3
    <2> HIDE DEF w
    <2>8. Len(w \o v) = Len(t) /\ w \o v \in Seq(T)
      <3>1. w \o v \in Seq(T) /\ Len(w \o v) = Len(w) + Len(v) BY <2>5, <2>7, Concat2
      <3>2. QED BY <2>1, <2>3, <2>7, <3>1
    <2>9. ASSUME NEW i \in 1 .. Len(t) PROVE (w \o v)[i] = t[i]
      <3>1. CASE i < q
        <4>1. i \in 1 .. Len(w) /\ i \in 1 .. q - 1 BY <2>1, <2>7, <3>1
        <4>2. (w \o v)[i] = w[i] BY <2>5, <2>7, <4>1, Concat2
        <4>3. QED BY <2>7, <4>1, <4>2
      <3>2. CASE i = q
        <4>1. i \in 1 .. Len(w) BY <2>1, <2>7, <3>2
        <4>2. (w \o v)[i] = w[i] BY <2>5, <2>7, <4>1, Concat2
        <4>3. t[q] = "?" BY <1>1, <1>3
        <4>4. w[q] = "?" BY <2>7
        <4>5. QED BY ONLY <3>2, <4>2, <4>3, <4>4
      <3>3. CASE i > q
        <4>1. i - q \in 1 .. Len(v) /\ i - q \in 1 .. Len(t) - q BY <2>1, <2>3, <3>3
        <4>2. (w \o v)[Len(w) + (i - q)] = v[i - q] BY <2>5, <2>7, <4>1, Concat2
        <4>3. Len(w) + (i - q) = i /\ q + (i - q) = i BY <2>1, <2>7
        <4>4. QED BY <2>3, <4>1, <4>2, <4>3
      <3>4. i < q \/ i = q \/ i > q BY <2>1
      <3>5. QED BY ONLY <3>1, <3>2, <3>3, <3>4
    <2>10. t = w \o v BY <2>8, <2>9, SameText
    <2>11. QED BY <2>2, <2>4, <2>10 DEF w
  <1>4. QED BY <1>2, <1>3

LEMMA FolderAndBase ==
  ASSUME NEW S, NEW t \in Seq(S), LastOf(PathOf(t), "/") > 0
  PROVE  UrlPart("dirname", t) \o UrlPart("basename", t) = PathOf(t)
PROOF
  <1> DEFINE p == PathOf(t)
             k == LastOf(p, "/")
  <1>1. p \in Seq(S) BY PathIs
  <1>2. k \in 1 .. Len(p)
    <2> HIDE DEF p
    <2>1. k \in 0 .. Len(p) BY <1>1, LastIs
    <2> HIDE DEF k
    <2>2. k > 0 BY DEF k, p
    <2>3. Len(p) \in Nat BY <1>1
    <2>4. QED BY <2>1, <2>2, <2>3
  <1>3. p # <<>> BY <1>2
  <1>4. UrlPart("dirname", t) = SubSeq(p, 1, k) BY <1>2, <1>3, UrlParts
  <1>5. UrlPart("basename", t) = SubSeq(p, k + 1, Len(p)) BY <1>3, UrlParts DEF BaseOf
  <1>6. p = SubSeq(p, 1, k) \o SubSeq(p, k + 1, Len(p))
    <2> HIDE DEF p, k
    <2>1. k \in 0 .. Len(p) BY <1>2
    <2>2. QED BY <1>1, <2>1, Halves
  <1>7. QED BY <1>4, <1>5, <1>6

LEMMA Extension ==
  ASSUME NEW S, NEW t \in Seq(S), UrlPart("ext", t) # <<>>
  PROVE  IsSuffix(<<".">> \o UrlPart("ext", t), PathOf(t))
PROOF
  <1> DEFINE p == PathOf(t)
             b == BaseOf(p)
             m == LastOf(b, ".")
             k == LastOf(p, "/")
             e == SubSeq(b, m + 1, Len(b))
             T == S \cup {"."}
  <1>1. p \in Seq(T)
    <2>1. p \in Seq(S) BY PathIs
    <2> HIDE DEF p
    <2>2. QED BY <2>1
  <1>2. m # 0 /\ UrlPart("ext", t) = e /\ e # <<>> BY UrlParts
  <1>3. p # <<>>
    <2> SUFFICES ASSUME p = <<>> PROVE FALSE OBVIOUS
    <2>1. b = <<".">> BY DEF BaseOf
    <2>2. b \in Seq({"."}) /\ Len(b) = 1
      <3>1. <<".">> \in Seq({"."}) /\ Len(<<".">>) = 1 OBVIOUS
      <3> HIDE DEF b
      <3>2. QED BY ONLY <2>1, <3>1
    <2> HIDE DEF b
    <2>3. m \in 0 .. 1 BY <2>2, LastIs
    <2> HIDE DEF m
    <2>4. m = 1 BY <1>2, <2>3
    <2>5. e = <<>> BY <2>2, <2>4
    <2>6. QED BY <1>2, <2>5
  <1>4. k \in 0 .. Len(p) /\ Len(p) \in Nat
    <2> HIDE DEF p
    <2>1. QED BY <1>1, LastIs
  <1>5. b = SubSeq(p, k + 1, Len(p)) BY <1>3 DEF BaseOf
  <1> HIDE DEF p, b, k
  <1>6. /\ b \in Seq(T) /\ Len(b) = Len(p) - k
        /\ \A i \in 1 .. Len(b) : b[i] = p[k + i]
    BY <1>1, <1>4, <1>5
  <1>7. m \in 1 .. Len(b) /\ b[m] = "."
    <2>1. m \in 0 .. Len(b) /\ (m # 0 => b[m] = ".") BY <1>6, LastIs
    <2> HIDE DEF m
    <2>2. QED BY <1>2, <1>4, <1>6, <2>1
  <1> HIDE DEF m
  <1>8. /\ e \in Seq(T) /\ Len(e) = Len(b) - m
        /\ \A i \in 1 .. Len(e) : e[i] = b[m + i]
    BY <1>6, <1>7
  <1> HIDE DEF e
  <1> DEFINE s == <<".">> \o e
  <1>9. /\ s \in Seq(T) /\ Len(s) = 1 + Len(e) /\ s[1] = "."
        /\ \A i \in 1 .. Len(e) : s[1 + i] = e[i]
    <2>1. <<".">> \in Seq(T) /\ Len(<<".">>) = 1 /\ <<".">>[1] = "." OBVIOUS
    <2>2. 1 \in 1 .. Len(<<".">>) BY <2>1
    <2>3. s[1] = <<".">>[1] BY <1>8, <2>1, <2>2, Concat2
    <2>4. s \in Seq(T) /\ Len(s) = Len(<<".">>) + Len(e) BY <1>8, <2>1, Concat2
    <2>5. \A i \in 1 .. Len(e) : s[Len(<<".">>) + i] = e[i] BY <1>8, <2>1, Concat2
    <2> HIDE DEF s
    <2>6. QED BY <2>1, <2>3, <2>4, <2>5
  <1> HIDE DEF s
  <1>10. k + m \in 1 .. Len(p) /\ Len(s) = Len(p) - (k + m) + 1 BY <1>4, <1>6, <1>7, <1>8, <1>9
  <1>11. ASSUME NEW i \in 1 .. Len(s) PROVE s[i] = p[(k + m) - 1 + i]
    <2>1. CASE i = 1
      <3>1. p[k + m] = "." BY <1>6, <1>7
      <3>2. (k + m) - 1 + i = k + m BY <1>4, <1>6, <1>7, <2>1
      <3>3. QED BY <1>9, <2>1, <3>1, <3>2
    <2>2. CASE i # 1
      <3>1. i - 1 \in 1 .. Len(e) /\ 1 + (i - 1) = i BY <1>6, <1>7, <1>8, <1>9, <2>2
      <3>2. s[i] = e[i - 1] BY <1>9, <3>1
      <3>3. e[i - 1] = b[m + (i - 1)] BY <1>8, <3>1
      <3>4. m + (i - 1) \in 1 .. Len(b) BY <1>4, <1>6, <1>7, <1>8, <3>1
      <3>5. b[m + (i - 1)] = p[k + (m + (i - 1))] BY <1>6, <3>4
      <3>6. k + (m + (i - 1)) = (k + m) - 1 + i BY <1>4, <1>6, <1>7
      <3>7. QED BY <3>2, <3>3, <3>5, <3>6
    <2>3. QED BY <2>1, <2>2
  <1>12. IsSuffix(s, p) BY <1>1, <1>9, <1>10, <1>11, SuffixOf
  <1>13. QED BY <1>2, <1>12 DEF s, p

-----------------------------------------------------------------------------
(* Whatever req.url is set to by whichever operator, a text is kept.        *)

LEMMA SomeTexts ==
  /\ AnyText(<<>>)
  /\ \A t : AnyText(<<t>>)
  /\ \A t : AnyText(t) => AnyText(<<>> \o t) /\ AnyText(t \o Word(".000"))
  /\ \A n : AnyText(Digits(n))
  /\ AnyText(NullText)
  /\ \A t \in Seq(Characters) : AnyText(t)
PROOF
  <1>1. AnyText(<<>>)
    <2>1. <<>> \in Seq({}) OBVIOUS
    <2>2. QED BY <2>1 DEF AnyText
  <1>2. ASSUME NEW t PROVE AnyText(<<t>>)
    <2>1. <<t>> \in Seq({t}) OBVIOUS
    <2>2. QED BY <2>1 DEF AnyText
  <1>3. ASSUME NEW t, AnyText(t) PROVE AnyText(<<>> \o t) /\ AnyText(t \o Word(".000"))
    <2>1. PICK S : t \in Seq(S) BY <1>3 DEF AnyText
    <2>2. <<>> \in Seq(S) OBVIOUS
    <2>3. <<>> \o t \in Seq(S) BY <2>1, <2>2, Concat2
    <2> DEFINE T == S \cup {".000"}
    <2>4. t \in Seq(T) BY <2>1
    <2>5. Word(".000") \in Seq(T) BY DEF Word
    <2>6. t \o Word(".000") \in Seq(T) BY <2>4, <2>5, Concat2
    <2>7. QED BY <2>3, <2>6 DEF AnyText
  <1>4. ASSUME NEW n PROVE AnyText(Digits(n))
    <2>1. CASE n < 0
      <3> DEFINE d == ToString(-n)
      <3>1. Digits(n) = <<"-", d>> BY <2>1 DEF Digits
      <3> HIDE DEF d
      <3>2. <<"-", d>> \in Seq({"-", d}) OBVIOUS
      <3>3. QED BY <3>1, <3>2 DEF AnyText
    <2>2. CASE ~(n < 0)
      <3> DEFINE d == ToString(n)
      <3>1. Digits(n) = <<d>> BY <2>2 DEF Digits
      <3> HIDE DEF d
      <3>2. QED BY <1>2, <3>1
    <2>3. QED BY <2>1, <2>2
  <1>5. AnyText(NullText)
    <2>1. NullText \in Seq({"(", "n", "u", "l", ")"}) BY DEF NullText
    <2>2. QED BY <2>1 DEF AnyText
  <1>6. \A t \in Seq(Characters) : AnyText(t) BY DEF AnyText
  <1>7. QED BY <1>1, <1>2, <1>3, <1>4, <1>5, <1>6

Plainly(r) ==
  \/ r \in {Thrown, NaN}
  \/ \E n : r = Num(n)
  \/ \E b : r = Bool(b)
  \/ \E t : r = Raw(t) /\ AnyText(t)

Joinable(x) ==
  /\ x.kind \in {"raw", "text", "notset", "int", "bool"}
  /\ x.kind \in {"raw", "text"} => AnyText(x.text)

LEMMA CombinePlainly ==
  ASSUME NEW op, NEW x, op # "=", Joinable(x), AssignedBy(op, x)
  PROVE  Plainly(Combine(op, Null, x))
PROOF
  <1>1. DOMAIN Plain = {"+=", "-=", "*=", "/=", "%="} BY DEF Plain
  <1>2. Null.kind \notin Strings /\ Null \in {Null, NotSet} BY DEF Null, Strings
  <1>3. CASE op \in DOMAIN Plain
    <2>1. CASE op = "+=" /\ x.kind \in Strings
      <3>1. Combine(op, Null, x) = Raw(<<>> \o DisplayText(x))
        BY <1>1, <1>2, <2>1 DEF Combine
      <3>2. x.kind \in {"raw", "text", "notset"} BY <2>1 DEF Joinable, Strings
      <3>3. DisplayText(x) = IF x.kind = "notset" THEN NullText ELSE x.text
        BY <3>2 DEF DisplayText, TextOf
      <3>4. AnyText(DisplayText(x)) BY <3>2, <3>3, SomeTexts DEF Joinable
      <3>5. AnyText(<<>> \o DisplayText(x)) BY <3>4, SomeTexts
      <3>6. QED BY <3>1, <3>5 DEF Plainly
    <2>2. CASE ~(op = "+=" /\ x.kind \in Strings)
      <3>1. \/ Combine(op, Null, x) \in {Thrown, NaN}
            \/ \E n : Combine(op, Null, x) = Num(n)
        BY <1>1, <1>2, <1>3, <2>2 DEF Combine
      <3>2. QED BY <3>1 DEF Plainly
    <2>3. QED BY <2>1, <2>2
  <1>4. CASE op \in {"&&=", "||="}
    <2>1. \E b : Combine(op, Null, x) = Bool(b) BY <1>1, <1>4 DEF Combine
    <2>2. QED BY <2>1 DEF Plainly
  <1>5. CASE op \in {"&=", "|=", "^="}
    <2>1. \E n : Combine(op, Null, x) = Num(n) BY <1>1, <1>5 DEF Combine
    <2>2. QED BY <2>1 DEF Plainly
  <1>6. CASE op \in {"<<=", ">>=", "rol=", "ror="}
    <2>1. Combine(op, Null, x) = Thrown \/ \E n : Combine(op, Null, x) = Num(n)
      BY <1>1, <1>6 DEF Combine
    <2>2. QED BY <2>1 DEF Plainly
  <1>7. QED BY <1>3, <1>4, <1>5, <1>6 DEF AssignedBy

LEMMA PlainText ==
  ASSUME NEW r, Plainly(r), r # Thrown
  PROVE  r.kind \in {"raw", "int", "bool", "nan"} /\ r # NotSet /\ AnyText(StringOf(r))
PROOF
  <1>1. CASE r = NaN
    <2>1. StringOf(r) = <<"NaN">> BY <1>1 DEF StringOf, NaN, DisplayText, TextOf
    <2>2. QED BY <1>1, <2>1, SomeTexts DEF NaN, NotSet
  <1>2. CASE \E n : r = Num(n)
    <2>1. PICK n : r = Num(n) BY <1>2
    <2>2. StringOf(r) = Digits(n) BY <2>1 DEF StringOf, Num, DisplayText, TextOf
    <2>3. QED BY <2>1, <2>2, SomeTexts DEF Num, NotSet
  <1>3. CASE \E b : r = Bool(b)
    <2>1. PICK b : r = Bool(b) BY <1>3
    <2>2. StringOf(r) \in {<<"true">>, <<"false">>} BY <2>1 DEF StringOf, Bool, DisplayText
    <2>3. QED BY <2>1, <2>2, SomeTexts DEF Bool, NotSet
  <1>4. CASE \E t : r = Raw(t) /\ AnyText(t)
    <2>1. PICK t : r = Raw(t) /\ AnyText(t) BY <1>4
    <2>2. QED BY <2>1, RawIs DEF Raw, NotSet
  <1>5. QED BY <1>1, <1>2, <1>3, <1>4 DEF Plainly

LEMMA UrlIsText ==
  ASSUME NEW op, NEW v \in AssignedValues, AssignedBy(op, v),
         Result("req.url", op, v) # Thrown
  PROVE  AnyText(StringOf(Result("req.url", op, v)))
PROOF
  <1> DEFINE r == Result("req.url", op, v)
  <1>1. CASE op = "="
    <2>1. CASE v.kind \in Strings \cup {"backend"}
      <3>1. PICK t \in Seq(Characters) : Reads(v) = Raw(t) BY <2>1, KeptTyped
      <3>2. CASE v.kind = "backend"
        <4>1. StringOf(r) = v.name BY <1>1, <3>2, ResultIs DEF StringOf
        <4>2. QED BY <3>2, <4>1, Forms, SomeTexts
      <3>3. CASE v.kind # "backend"
        <4>1. StringOf(r) = t BY <1>1, <3>1, <3>3, ResultIs, RawIs
        <4>2. QED BY <4>1, SomeTexts
      <3>4. QED BY <3>2, <3>3
    <2>2. CASE v.kind \in {"int", "bool"}
      <3>1. r = v BY <1>1, <2>2, ResultIs, KeptTyped
      <3>2. Plainly(v) BY <2>2, Forms DEF Plainly
      <3>3. v # Thrown BY <2>2 DEF Thrown
      <3>4. QED BY <3>1, <3>2, <3>3, PlainText
    <2>3. CASE v.kind = "rtime"
      <3>1. r = v BY <1>1, <2>3, ResultIs, KeptTyped
      <3>2. StringOf(v) = Digits(v.n) \o Word(".000") BY <2>3 DEF StringOf
      <3>3. QED BY <3>1, <3>2, SomeTexts
    <2>4. QED BY <2>1, <2>2, <2>3, Forms DEF Strings
  <1>2. CASE op # "="
    <2> DEFINE x == IF v.kind = "concat" THEN Raw(ForLocal(v)) ELSE v
               y == IF x.kind = "rtime" THEN Num(x.n) ELSE x
               c == Combine(op, Null, y)
    <2>1. v.kind # "backend" BY <1>2 DEF AssignedBy
    <2>2. x.kind \in {"raw", "text", "notset", "int", "rtime", "bool"}
          /\ (x.kind \in {"raw", "text"} => AnyText(x.text))
      <3>1. CASE v.kind = "concat" BY <3>1, LocalText, RawIs, SomeTexts
      <3>2. CASE v.kind # "concat" BY <2>1, <3>2, Forms, SomeTexts
      <3>3. QED BY <3>1, <3>2
    <2>3. TargetValue("req.url") = Null BY DEF TargetValue
    <2>4. r = IF x.kind = "rtime" /\ c.kind = "int" THEN Rtime(c.n)
              ELSE CASE c.kind = "concat" -> Raw(ForLocal(c))
                     [] c.kind = "text"   -> Raw(c.text)
                     [] c = NotSet        -> Raw(<<>>)
                     [] OTHER             -> c
      BY <1>2, <2>3 DEF Result
    <2> HIDE DEF x
    <2>5. Joinable(y) BY <2>2 DEF Joinable, Num
    <2>6. AssignedBy(op, y) BY <1>2, <2>5 DEF AssignedBy, Joinable
    <2> HIDE DEF y
    <2>7. Plainly(c) BY <1>2, <2>5, <2>6, CombinePlainly
    <2> HIDE DEF c
    <2>8. c # Thrown
      <3> SUFFICES ASSUME c = Thrown PROVE FALSE OBVIOUS
      <3>1. r = Thrown BY <2>4 DEF Thrown, NotSet
      <3>2. QED BY <3>1
    <2>9. c.kind \in {"raw", "int", "bool", "nan"} /\ c # NotSet /\ AnyText(StringOf(c))
      BY <2>7, <2>8, PlainText
    <2>10. CASE x.kind = "rtime" /\ c.kind = "int"
      <3>1. r = Rtime(c.n) BY <2>4, <2>10
      <3>2. StringOf(r) = Digits(c.n) \o Word(".000") BY <3>1 DEF StringOf, Rtime
      <3>3. QED BY <3>2, SomeTexts
    <2>11. CASE ~(x.kind = "rtime" /\ c.kind = "int")
      <3>1. r = c BY <2>4, <2>9, <2>11
      <3>2. QED BY <2>9, <3>1
    <2>12. QED BY <2>10, <2>11
  <1>3. QED BY <1>1, <1>2

-----------------------------------------------------------------------------
(* What holds after every set statement.                                    *)

Named == Readable \ {"beresp.hipaa"}

(* What a field holds, by what its variable was last set to.                *)
Faithful(f) ==
  /\ given[f] = Absent => fields[f] = Fresh[f]
  /\ given[f] # Absent /\ Owns(f, given[f]) =>
       given[f] \in AssignedValues /\ fields[f] = KeptOf(given[f])

Alias == fields["beresp.hipaa"] = Fresh["beresp.hipaa"]

UrlKept == \E t : fields["req.url"] = Raw(t) /\ AnyText(t)

ChosenKept ==
  given["req.backend"] # Absent /\ fields["req.backend"].text \in Declared =>
    chosen = fields["req.backend"].text

Histories == given = [v \in Variables |-> given[v]]

PredefinedInv ==
  Histories /\ Alias /\ UrlKept /\ ChosenKept /\ \A f \in Named : Faithful(f)

LEMMA FieldsOf ==
  /\ \A n \in Variables : FieldOf(n) \in Variables \ {"beresp.hipaa"}
  /\ \A n \in Variables \ {"beresp.hipaa"} : FieldOf(n) = n
  /\ FieldOf("beresp.hipaa") = "beresp.pci"
  /\ \A n \in Shadowed : Shadow(n) \notin Variables
  /\ Variables \subseteq ContextFields
PROOF
  <1>1. "beresp.pci" \in Variables BY VariablesAre DEF Readable, FlagVars
  <1>2. \A n \in Shadowed :
          Shadow(n) \in {"resp.http.X-TTL", "resp.http.X-Grace", "resp.http.X-SWR",
                         "resp.http.X-ESI", "req.http.X-Backend"}
    BY DEF Shadowed, Shadow
  <1>3. {"resp.http.X-TTL", "resp.http.X-Grace", "resp.http.X-SWR", "resp.http.X-ESI",
         "req.http.X-Backend"} \cap Variables = {}
    BY VariablesAre DEF Readable, TextVars, CountVars, FlagVars, TimeVars, Unread
  <1>4. \A n \in Shadowed : Shadow(n) \notin Variables BY <1>2, <1>3
  <1>5. QED BY <1>1, <1>4 DEF FieldOf, ContextFields

LEMMA PredefinedStart == PredefinedInit => PredefinedInv
PROOF
  <1> SUFFICES ASSUME PredefinedInit PROVE PredefinedInv OBVIOUS
  <1>1. fields = Fresh /\ given = [v \in Variables |-> Absent] BY DEF PredefinedInit
  <1>2. \A v \in Variables : given[v] = Absent BY <1>1
  <1>3. Histories BY <1>1, <1>2 DEF Histories
  <1>4. Named \subseteq Variables /\ "req.backend" \in Variables
    BY VariablesAre DEF Named, Readable
  <1>5. \A f \in Named : Faithful(f) BY <1>1, <1>2, <1>4 DEF Faithful
  <1>6. Alias BY <1>1 DEF Alias
  <1>7. ChosenKept BY <1>2, <1>4 DEF ChosenKept
  <1>8. "req.url" \in ContextFields
    BY VariablesAre, FieldsOf DEF Readable, TextVars
  <1>9. Fresh["req.url"] = Raw(<<>>) BY <1>8 DEF Fresh
  <1>10. UrlKept BY <1>1, <1>9, SomeTexts DEF UrlKept
  <1>11. QED BY <1>3, <1>5, <1>6, <1>7, <1>10 DEF PredefinedInv

(* A set statement leaves all but one field of variables as they were.      *)
LEMMA Elsewhere ==
  ASSUME NEW name \in Variables, NEW op, NEW v, SetVariable(name, op, v), Histories
  PROVE  /\ fields'[FieldOf(name)] = ToKeep(name, Result(name, op, v), v)
         /\ given'[FieldOf(name)] = (IF op = "=" THEN v ELSE Null)
         /\ \A f \in Variables \ {FieldOf(name)} :
              fields'[f] = fields[f] /\ given'[f] = given[f]
         /\ Histories'
PROOF
  <1> DEFINE kept == ToKeep(name, Result(name, op, v), v)
             shadow == Raw(DisplayText(kept))
             w == IF op = "=" THEN v ELSE Null
  <1>1. FieldOf(name) = IF name = "beresp.hipaa" THEN "beresp.pci" ELSE name BY DEF FieldOf
  <1>2. fields' = [f \in ContextFields |->
                     IF f = FieldOf(name) THEN kept
                     ELSE IF name \in Shadowed /\ f = Shadow(name) THEN shadow
                     ELSE fields[f]]
    BY DEF SetVariable
  <1>3. given' = [given EXCEPT ![FieldOf(name)] = w] BY <1>1 DEF SetVariable
  <1> HIDE DEF kept, shadow, w
  <1>4. FieldOf(name) \in ContextFields /\ FieldOf(name) \in Variables BY FieldsOf
  <1>5. fields'[FieldOf(name)] = kept BY <1>2, <1>4
  <1>6. given' = [f \in Variables |-> IF f = FieldOf(name) THEN w ELSE given[f]]
    BY <1>3 DEF Histories
  <1>7. given'[FieldOf(name)] = w BY <1>4, <1>6
  <1>8. ASSUME NEW f \in Variables \ {FieldOf(name)}
        PROVE  fields'[f] = fields[f] /\ given'[f] = given[f]
    <2>1. f \in ContextFields /\ (name \in Shadowed => f # Shadow(name)) BY FieldsOf
    <2>2. QED BY <1>2, <1>6, <2>1
  <1>9. Histories' BY <1>6 DEF Histories
  <1>10. QED BY <1>5, <1>7, <1>8, <1>9 DEF kept, w

LEMMA FaithfulStep ==
  ASSUME NEW name \in Variables, NEW op, NEW v \in AssignedValues,
         SetVariable(name, op, v), PredefinedInv, NEW f \in Named
  PROVE  Faithful(f)'
PROOF
  <1>1. f \in Variables /\ FieldOf(f) = f /\ f \in Readable BY VariablesAre, FieldsOf DEF Named
  <1>2. Histories /\ Faithful(f) BY DEF PredefinedInv
  <1>3. CASE f # FieldOf(name)
    <2>1. fields'[f] = fields[f] /\ given'[f] = given[f] BY <1>1, <1>2, <1>3, Elsewhere
    <2>2. QED BY <1>2, <2>1 DEF Faithful
  <1>4. CASE f = FieldOf(name)
    <2>1. /\ fields'[f] = ToKeep(name, Result(name, op, v), v)
          /\ given'[f] = (IF op = "=" THEN v ELSE Null)
      BY <1>2, <1>4, Elsewhere
    <2>2. v # Absent /\ Null # Absent BY PredefinedAssumption
    <2>3. CASE op # "="
      <3>1. given'[f] = Null BY <2>1, <2>3
      <3>2. ~Owns(f, Null) BY <1>1, Own DEF Readable, Null, Strings
      <3>3. QED BY <2>2, <3>1, <3>2 DEF Faithful
    <2>4. CASE op = "="
      <3>1. given'[f] = v BY <2>1, <2>4
      <3>2. SUFFICES ASSUME Owns(f, v) PROVE fields'[f] = KeptOf(v) BY <2>2, <3>1 DEF Faithful
      <3>3. name = f \/ (name = "beresp.hipaa" /\ f = "beresp.pci") BY <1>4 DEF FieldOf
      <3>4. name \in Readable /\ Owns(name, v)
        <4>1. CASE name = f BY <1>1, <3>2, <4>1
        <4>2. CASE name = "beresp.hipaa" /\ f = "beresp.pci"
          <5>1. name \in FlagVars /\ f \in FlagVars BY <4>2 DEF FlagVars
          <5>2. QED BY <3>2, <5>1, Own DEF Readable
        <4>3. QED BY <3>3, <4>1, <4>2
      <3>5. ToKeep(name, Result(name, "=", v), v) = KeptOf(v) BY <3>4, KeptAsGiven
      <3>6. QED BY <2>1, <2>4, <3>5
    <2>5. QED BY <2>3, <2>4
  <1>5. QED BY <1>3, <1>4

LEMMA PredefinedStep == PredefinedInv /\ [PredefinedNext]_predefinedVars => PredefinedInv'
PROOF
  <1> SUFFICES ASSUME PredefinedInv, [PredefinedNext]_predefinedVars PROVE PredefinedInv' OBVIOUS
  <1>1. CASE UNCHANGED predefinedVars
    BY <1>1 DEF predefinedVars, PredefinedInv, Histories, Alias, UrlKept, ChosenKept, Faithful
  <1>2. CASE PredefinedNext
    <2>1. PICK name \in Variables, a \in Assigned : SetVariable(name, a[1], a[2])
      BY <1>2 DEF PredefinedNext
    <2> DEFINE op == a[1]
               v == a[2]
    <2>2. v \in AssignedValues /\ AssignedBy(op, v) /\ SetVariable(name, op, v)
      BY <2>1, PredefinedAssumption
    <2> HIDE DEF op, v
    <2>3. \A f \in Named : Faithful(f)' BY <2>2, FaithfulStep
    <2>4. Histories BY DEF PredefinedInv
    <2>5. Histories' BY <2>2, <2>4, Elsewhere
    <2>6. Alias'
      <3>1. "beresp.hipaa" \in Variables /\ FieldOf(name) # "beresp.hipaa"
        BY VariablesAre, FieldsOf DEF Readable, FlagVars
      <3>2. fields'["beresp.hipaa"] = fields["beresp.hipaa"] BY <2>2, <2>4, <3>1, Elsewhere
      <3>3. QED BY <3>2 DEF PredefinedInv, Alias
    <2>7. UrlKept'
      <3>1. "req.url" \in Variables /\ "req.url" \in TextVars
        BY VariablesAre DEF Readable, TextVars
      <3>2. CASE FieldOf(name) = "req.url"
        <4>1. name = "req.url" BY <3>2 DEF FieldOf
        <4>2. fields'["req.url"] = Raw(StringOf(Result("req.url", op, v)))
          BY <2>2, <2>4, <3>1, <3>2, <4>1, Elsewhere, KeepText
        <4>3. Result("req.url", op, v) # Thrown BY <2>2, <4>1 DEF SetVariable
        <4>4. AnyText(StringOf(Result("req.url", op, v))) BY <2>2, <4>3, UrlIsText
        <4>5. QED BY <4>2, <4>4 DEF UrlKept
      <3>3. CASE FieldOf(name) # "req.url"
        <4>1. fields'["req.url"] = fields["req.url"] BY <2>2, <2>4, <3>1, <3>3, Elsewhere
        <4>2. QED BY <4>1 DEF PredefinedInv, UrlKept
      <3>4. QED BY <3>2, <3>3
    <2>8. ChosenKept'
      <3>1. "req.backend" \in Variables BY VariablesAre DEF Readable
      <3>2. CASE name = "req.backend"
        <4> DEFINE kept == ToKeep(name, Result(name, op, v), v)
        <4>1. FieldOf(name) = "req.backend" BY <3>2 DEF FieldOf
        <4>2. fields'["req.backend"] = kept BY <2>2, <2>4, <4>1, Elsewhere
        <4>3. chosen' = IF name = "req.backend" /\ kept.text \in Declared THEN kept.text ELSE chosen
          BY <2>2 DEF SetVariable
        <4> HIDE DEF kept
        <4>4. QED BY <3>2, <4>2, <4>3 DEF ChosenKept
      <3>3. CASE name # "req.backend"
        <4>1. FieldOf(name) # "req.backend" BY <3>3 DEF FieldOf
        <4>2. fields'["req.backend"] = fields["req.backend"]
              /\ given'["req.backend"] = given["req.backend"]
          BY <2>2, <2>4, <3>1, <4>1, Elsewhere
        <4>3. chosen' = chosen BY <2>2, <3>3 DEF SetVariable
        <4>4. QED BY <4>2, <4>3 DEF PredefinedInv, ChosenKept
      <3>4. QED BY <3>2, <3>3
    <2>9. QED BY <2>3, <2>5, <2>6, <2>7, <2>8 DEF PredefinedInv
  <1>3. QED BY <1>1, <1>2

LEMMA ReadApart ==
  ASSUME PredefinedInv, NEW name \in Variables \ Unread
  PROVE  LET v == given[IF name = "beresp.hipaa" THEN "beresp.pci" ELSE name]
         IN IF v = Absent THEN fields[name] = Fresh[name]
            ELSE Owns(name, v) /\ <<name, Reads(v)>> # <<"client.identity", Raw(<<>>)>> =>
                   Variable(fields, name) = Reads(v)
PROOF
  <1> DEFINE f == FieldOf(name)
             v == given[f]
  <1>1. f = IF name = "beresp.hipaa" THEN "beresp.pci" ELSE name BY DEF FieldOf
  <1>2. name \in Readable BY VariablesAre
  <1>3. f \in Named BY <1>1, <1>2 DEF Named, Readable, FlagVars
  <1>4. Faithful(f) BY <1>3 DEF PredefinedInv
  <1>5. CASE v = Absent
    <2>1. fields[name] = Fresh[name]
      <3>1. CASE name = "beresp.hipaa" BY <3>1 DEF PredefinedInv, Alias
      <3>2. CASE name # "beresp.hipaa" BY <1>1, <1>4, <1>5, <3>2 DEF Faithful
      <3>3. QED BY <3>1, <3>2
    <2>2. QED BY <1>1, <1>5, <2>1
  <1>6. CASE v # Absent
    <2>1. SUFFICES ASSUME Owns(name, v), <<name, Reads(v)>> # <<"client.identity", Raw(<<>>)>>
                   PROVE  Variable(fields, name) = Reads(v)
      BY <1>1, <1>6
    <2>2. Owns(f, v)
      <3>1. CASE name = "beresp.hipaa"
        <4>1. name \in FlagVars /\ f \in FlagVars BY <1>1, <3>1 DEF FlagVars
        <4>2. QED BY <2>1, <4>1, Own
      <3>2. CASE name # "beresp.hipaa" BY <1>1, <2>1, <3>2
      <3>3. QED BY <3>1, <3>2
    <2>3. v \in AssignedValues /\ fields[f] = KeptOf(v) BY <1>4, <1>6, <2>2 DEF Faithful
    <2>4. QED BY <1>2, <2>1, <2>3, ReadsBack
  <1>7. QED BY <1>5, <1>6

(* Set statements keep predefined variables apart: each reads as the last   *)
(* value of its type it was set to, or keeps its default, whatever is       *)
(* assigned to the others by whichever operator; the parts of any URL make  *)
(* up the URL, and the backend's name is that of the last declared one set. *)
THEOREM VariablesKeptApart == PredefinedSpec => []PredefinedApart
PROOF
  <1>1. PredefinedInv => PredefinedApart
    <2> SUFFICES ASSUME PredefinedInv PROVE PredefinedApart OBVIOUS
    <2>1. \A name \in Variables \ Unread :
           LET v == given[IF name = "beresp.hipaa" THEN "beresp.pci" ELSE name]
           IN IF v = Absent THEN fields[name] = Fresh[name]
              ELSE Owns(name, v) /\ <<name, Reads(v)>> # <<"client.identity", Raw(<<>>)>> =>
                     Variable(fields, name) = Reads(v)
      BY ReadApart
    <2>2. PICK t : fields["req.url"] = Raw(t) /\ AnyText(t) BY DEF PredefinedInv, UrlKept
    <2>3. PICK S : t \in Seq(S) BY <2>2 DEF AnyText
    <2>4. fields["req.url"].text = t BY <2>2, RawIs
    <2>5. t \in {UrlPart("path", t), UrlPart("path", t) \o <<"?">> \o UrlPart("qs", t)}
      BY <2>3, PathIs, UrlParts
    <2>6. LastOf(UrlPart("path", t), "/") > 0 =>
            UrlPart("dirname", t) \o UrlPart("basename", t) = UrlPart("path", t)
      BY <2>3, FolderAndBase, UrlParts
    <2>7. UrlPart("ext", t) # <<>> =>
            IsSuffix(<<".">> \o UrlPart("ext", t), UrlPart("path", t))
      BY <2>3, Extension, UrlParts
    <2>8. given["req.backend"] # Absent /\ given["req.backend"] # Null
            /\ fields["req.backend"].text \in Declared => BackendName = fields["req.backend"].text
      BY DEF PredefinedInv, ChosenKept, BackendName
    <2>9. QED BY <2>1, <2>4, <2>5, <2>6, <2>7, <2>8 DEF PredefinedApart, Owns, Reads
  <1>2. QED BY <1>1, PredefinedStart, PredefinedStep, PTL DEF PredefinedSpec

-----------------------------------------------------------------------------
(* Characters of a URL: signs and the codes that escape some of them.       *)

UrlSigns == Signs \cup Codes

(* A name that is written as it is.                                         *)
AsWritten(name) == \A n \in DOMAIN name : name[n] \notin DOMAIN Escapes \cup {" "}

DecodedSign(c) == IF c = "+" THEN " " ELSE Unescaped(c)

EncodedSign(c) == IF c = " " THEN "+" ELSE IF c \in DOMAIN Escapes THEN Escapes[c] ELSE c

LEMMA SignsAre ==
  /\ DOMAIN Escapes = {"&", "=", "+", "?", "%"}
  /\ {"&", "=", "+", "?", "%", " "} \subseteq Signs
  /\ Codes = {"%26", "%3D", "%2B", "%3F", "%25", "%20"}
  /\ Signs \cap Codes = {}
  /\ \A c, d \in DOMAIN Escapes : Escapes[c] = Escapes[d] => c = d
  /\ \A c \in DOMAIN Escapes : Escapes[c] # "%20" /\ Escapes[c] \in Codes
PROOF
  <1>1. DOMAIN Escapes = {"&", "=", "+", "?", "%"} BY DEF Escapes
  <1>2. /\ Escapes["&"] = "%26" /\ Escapes["="] = "%3D" /\ Escapes["+"] = "%2B"
        /\ Escapes["?"] = "%3F" /\ Escapes["%"] = "%25"
    BY DEF Escapes
  <1>3. /\ DOMAIN Escapes \cup {" "} \subseteq Signs /\ Signs \cap Codes = {}
    BY QueryStringAssumption
  <1>4. Codes = {"%26", "%3D", "%2B", "%3F", "%25", "%20"} BY <1>1, <1>2 DEF Codes
  <1>5. \A c, d \in DOMAIN Escapes : Escapes[c] = Escapes[d] => c = d BY <1>1, <1>2
  <1>6. \A c \in DOMAIN Escapes : Escapes[c] # "%20" /\ Escapes[c] \in Codes BY <1>1, <1>2, <1>4
  <1>7. QED BY <1>1, <1>3, <1>4, <1>5, <1>6

LEMMA SignDecoded ==
  ASSUME NEW c \in UrlSigns
  PROVE  /\ DecodedSign(c) \in Signs
         /\ c # "%" /\ DecodedSign(c) \notin DOMAIN Escapes \cup {" "} => DecodedSign(c) = c
PROOF
  <1>1. CASE c = "+"
    <2>1. DecodedSign(c) = " " BY <1>1 DEF DecodedSign
    <2>2. QED BY <2>1, SignsAre
  <1>2. CASE c # "+" /\ c = "%20"
    <2>1. DecodedSign(c) = " " BY <1>2 DEF DecodedSign, Unescaped
    <2>2. QED BY <2>1, SignsAre
  <1>3. CASE c # "+" /\ c # "%20" /\ \E d \in DOMAIN Escapes : Escapes[d] = c
    <2> DEFINE p == CHOOSE d \in DOMAIN Escapes : Escapes[d] = c
    <2>1. p \in DOMAIN Escapes BY <1>3
    <2>2. DecodedSign(c) = p BY <1>3 DEF DecodedSign, Unescaped
    <2>3. QED BY <2>1, <2>2, SignsAre
  <1>4. CASE c # "+" /\ c # "%20" /\ ~ \E d \in DOMAIN Escapes : Escapes[d] = c
    <2>1. DecodedSign(c) = c BY <1>4 DEF DecodedSign, Unescaped
    <2>2. c \notin Codes BY <1>4 DEF Codes
    <2>3. QED BY <2>1, <2>2 DEF UrlSigns
  <1>5. QED BY <1>1, <1>2, <1>3, <1>4

LEMMA SignEncoded ==
  ASSUME NEW c \in Signs
  PROVE  /\ EncodedSign(c) \in UrlSigns /\ EncodedSign(c) # "&"
         /\ DecodedSign(EncodedSign(c)) = c
         /\ c \notin DOMAIN Escapes \cup {" "} => EncodedSign(c) = c
PROOF
  <1>0. "+" \in Signs /\ "+" \in DOMAIN Escapes /\ "&" \in Signs /\ "&" \in DOMAIN Escapes
    BY SignsAre
  <1>1. CASE c = " "
    <2>1. EncodedSign(c) = "+" BY <1>1 DEF EncodedSign
    <2>2. " " \notin DOMAIN Escapes BY SignsAre
    <2>3. QED BY <1>0, <1>1, <2>1, <2>2 DEF DecodedSign, UrlSigns
  <1>2. CASE c # " " /\ c \in DOMAIN Escapes
    <2> DEFINE e == Escapes[c]
    <2>1. EncodedSign(c) = e BY <1>2 DEF EncodedSign
    <2>2. e \in Codes /\ e # "%20" BY <1>2, SignsAre
    <2>3. e \notin Signs BY <2>2, SignsAre
    <2>4. e # "+" /\ e # "&" BY <1>0, <2>3
    <2> DEFINE p == CHOOSE d \in DOMAIN Escapes : Escapes[d] = e
    <2>5. p \in DOMAIN Escapes /\ Escapes[p] = e BY <1>2
    <2>6. p = c BY <1>2, <2>5, SignsAre
    <2>7. Unescaped(e) = p BY <1>2, <2>2 DEF Unescaped
    <2>8. DecodedSign(e) = c BY <2>4, <2>6, <2>7 DEF DecodedSign
    <2>9. QED BY <1>2, <2>1, <2>2, <2>4, <2>8 DEF UrlSigns
  <1>3. CASE c # " " /\ c \notin DOMAIN Escapes
    <2>1. EncodedSign(c) = c BY <1>3 DEF EncodedSign
    <2>2. c # "+" /\ c # "&" BY <1>0, <1>3
    <2>3. c \notin Codes BY SignsAre
    <2>4. c # "%20" /\ ~ \E d \in DOMAIN Escapes : Escapes[d] = c BY <2>3 DEF Codes
    <2>5. DecodedSign(c) = c BY <2>2, <2>4 DEF DecodedSign, Unescaped
    <2>6. QED BY <1>3, <2>1, <2>2, <2>5 DEF UrlSigns
  <1>4. QED BY <1>1, <1>2, <1>3

LEMMA DecodedIs ==
  ASSUME NEW raw \in Seq(UrlSigns)
  PROVE  /\ Decoded(raw) \in Seq(Signs) /\ Len(Decoded(raw)) = Len(raw)
         /\ \A n \in 1 .. Len(raw) : Decoded(raw)[n] = DecodedSign(raw[n])
PROOF
  <1> DEFINE f == [n \in 1 .. Len(raw) |-> DecodedSign(raw[n])]
  <1>1. Len(raw) \in Nat /\ DOMAIN raw = 1 .. Len(raw) OBVIOUS
  <1>2. Decoded(raw) = f BY <1>1 DEF Decoded, DecodedSign
  <1>3. \A n \in 1 .. Len(raw) : raw[n] \in UrlSigns OBVIOUS
  <1>4. \A n \in 1 .. Len(raw) : DecodedSign(raw[n]) \in Signs BY <1>3, SignDecoded
  <1>5. f \in [1 .. Len(raw) -> Signs] BY <1>4
  <1>6. \A n \in 1 .. Len(raw) : f[n] = DecodedSign(raw[n]) OBVIOUS
  <1> HIDE DEF f
  <1>7. f \in Seq(Signs) /\ Len(f) = Len(raw) BY <1>1, <1>5, FunctionIsSeq
  <1>8. QED BY <1>2, <1>6, <1>7

LEMMA EncodedIs ==
  ASSUME NEW value \in Seq(Signs)
  PROVE  /\ Encoded(value) \in Seq(UrlSigns) /\ Len(Encoded(value)) = Len(value)
         /\ Count("&", Encoded(value)) = 0
         /\ Decoded(Encoded(value)) = value
         /\ AsWritten(value) => Encoded(value) = value
PROOF
  <1> DEFINE f == [n \in 1 .. Len(value) |-> EncodedSign(value[n])]
  <1>1. Len(value) \in Nat /\ DOMAIN value = 1 .. Len(value) OBVIOUS
  <1>2. Encoded(value) = f BY <1>1 DEF Encoded, EncodedSign
  <1>3. \A n \in 1 .. Len(value) : value[n] \in Signs OBVIOUS
  <1>4. \A n \in 1 .. Len(value) : EncodedSign(value[n]) \in UrlSigns BY <1>3, SignEncoded
  <1>5. f \in [1 .. Len(value) -> UrlSigns] BY <1>4
  <1>6. \A n \in 1 .. Len(value) : f[n] = EncodedSign(value[n]) OBVIOUS
  <1> HIDE DEF f
  <1>7. f \in Seq(UrlSigns) /\ Len(f) = Len(value) BY <1>1, <1>5, FunctionIsSeq
  <1>8. \A n \in 1 .. Len(f) : f[n] # "&" BY <1>3, <1>6, <1>7, SignEncoded
  <1>9. Count("&", f) = 0 BY <1>7, <1>8, CountIs
  <1>10. Decoded(f) = value
    <2>1. /\ Decoded(f) \in Seq(Signs) /\ Len(Decoded(f)) = Len(value)
          /\ \A n \in 1 .. Len(value) : Decoded(f)[n] = DecodedSign(f[n])
      BY <1>7, DecodedIs
    <2>2. \A n \in 1 .. Len(value) : DecodedSign(f[n]) = value[n] BY <1>3, <1>6, SignEncoded
    <2>3. QED BY <2>1, <2>2, SameText
  <1>11. AsWritten(value) => f = value
    <2> SUFFICES ASSUME AsWritten(value) PROVE f = value OBVIOUS
    <2>1. \A n \in 1 .. Len(value) : f[n] = value[n] BY <1>1, <1>3, <1>6, SignEncoded DEF AsWritten
    <2>2. QED BY <1>7, <2>1, SameText
  <1>12. QED BY <1>2, <1>7, <1>9, <1>10, <1>11

(* A valid text reads as a plain name only if it is that name.              *)
LEMMA PlainRead ==
  ASSUME NEW raw \in Seq(UrlSigns), NEW name \in Seq(Signs), AsWritten(name)
  PROVE  /\ Decoded(name) = name
         /\ Valid(raw) /\ Decoded(raw) = name => raw = name
PROOF
  <1>1. Decoded(name) = name BY EncodedIs
  <1>2. ASSUME Valid(raw), Decoded(raw) = name PROVE raw = name
    <2>1. /\ Len(name) = Len(raw)
          /\ \A n \in 1 .. Len(raw) : name[n] = DecodedSign(raw[n])
      BY <1>2, DecodedIs
    <2>2. DOMAIN raw = 1 .. Len(raw) /\ DOMAIN name = 1 .. Len(raw) BY <2>1
    <2>3. \A n \in 1 .. Len(raw) : raw[n] \in UrlSigns /\ raw[n] # "%" BY <1>2, <2>2 DEF Valid
    <2>4. \A n \in 1 .. Len(raw) : name[n] \notin DOMAIN Escapes \cup {" "} BY <2>2 DEF AsWritten
    <2>5. \A n \in 1 .. Len(raw) : raw[n] = name[n] BY <2>1, <2>3, <2>4, SignDecoded
    <2>6. QED BY <2>1, <2>5, SameText
  <1>3. QED BY <1>1, <1>2

-----------------------------------------------------------------------------
(* The first of several values that is not Unset.                           *)

Said(ws) == {n \in DOMAIN ws : ws[n] # Unset}

FirstSaid(ws) == IF Said(ws) = {} THEN Unset ELSE ws[Min(Said(ws))]

LEMMA SaidIs ==
  ASSUME NEW k \in Nat, NEW ws, DOMAIN ws = 1 .. k
  PROVE  /\ (\A n \in 1 .. k : ws[n] = Unset) => FirstSaid(ws) = Unset
         /\ \A n \in 1 .. k : ws[n] # Unset /\ (\A m \in 1 .. k : m < n => ws[m] = Unset)
              => FirstSaid(ws) = ws[n]
         /\ FirstSaid(ws) # Unset =>
              \E n \in 1 .. k : /\ ws[n] # Unset /\ FirstSaid(ws) = ws[n]
                                /\ \A m \in 1 .. k : m < n => ws[m] = Unset
PROOF
  <1> DEFINE A == Said(ws)
  <1>1. A = {n \in 1 .. k : ws[n] # Unset} /\ A \in SUBSET Nat BY DEF Said
  <1>2. FirstSaid(ws) = IF A = {} THEN Unset ELSE ws[Min(A)] BY DEF FirstSaid
  <1>3. A # {} => Min(A) \in A /\ \A j \in A : Min(A) <= j
    <2> HIDE DEF A
    <2>1. QED BY <1>1, MinIsLeast
  <1> DEFINE i == Min(A)
  <1> HIDE DEF A, i
  <1>4. (\A n \in 1 .. k : ws[n] = Unset) => FirstSaid(ws) = Unset BY <1>1, <1>2
  <1>5. ASSUME NEW n \in 1 .. k, ws[n] # Unset, \A m \in 1 .. k : m < n => ws[m] = Unset
        PROVE  FirstSaid(ws) = ws[n]
    <2>1. n \in A BY <1>1, <1>5
    <2>2. i \in A /\ i <= n BY <1>3, <2>1 DEF i
    <2>3. i \in 1 .. k /\ ws[i] # Unset BY <1>1, <2>2
    <2>4. ~(i < n) BY <1>5, <2>3
    <2>5. i = n BY <2>2, <2>3, <2>4
    <2>6. QED BY <1>2, <2>1, <2>5 DEF i
  <1>6. ASSUME FirstSaid(ws) # Unset
        PROVE  \E n \in 1 .. k : /\ ws[n] # Unset /\ FirstSaid(ws) = ws[n]
                                 /\ \A m \in 1 .. k : m < n => ws[m] = Unset
    <2>1. A # {} BY <1>2, <1>6
    <2>2. i \in A /\ \A j \in A : i <= j BY <1>3, <2>1 DEF i
    <2>3. i \in 1 .. k /\ ws[i] # Unset BY <1>1, <2>2
    <2>4. FirstSaid(ws) = ws[i] BY <1>2, <2>1 DEF i
    <2>5. ASSUME NEW m \in 1 .. k, m < i PROVE ws[m] = Unset
      <3>1. m \notin A BY <2>2, <2>3, <2>5
      <3>2. QED BY <1>1, <3>1
    <2>6. QED BY <2>3, <2>4, <2>5
  <1>7. QED BY <1>4, <1>5, <1>6

(* One after the other, the first of the first comes first.                 *)
Strung(k, l, us, vs, ws) ==
  /\ DOMAIN us = 1 .. k /\ DOMAIN vs = 1 .. l /\ DOMAIN ws = 1 .. k + l
  /\ \A n \in 1 .. k : ws[n] = us[n]
  /\ \A n \in 1 .. l : ws[k + n] = vs[n]

LEMMA SaidBoth ==
  ASSUME NEW k \in Nat, NEW l \in Nat, NEW us, NEW vs, NEW ws, Strung(k, l, us, vs, ws)
  PROVE  FirstSaid(ws) = IF FirstSaid(us) # Unset THEN FirstSaid(us) ELSE FirstSaid(vs)
PROOF
  <1>0. /\ DOMAIN us = 1 .. k /\ DOMAIN vs = 1 .. l /\ DOMAIN ws = 1 .. k + l
        /\ \A n \in 1 .. k : ws[n] = us[n]
        /\ \A n \in 1 .. l : ws[k + n] = vs[n]
    BY DEF Strung
  <1>1. k + l \in Nat OBVIOUS
  <1>2. CASE FirstSaid(us) # Unset
    <2>1. PICK n \in 1 .. k : /\ us[n] # Unset /\ FirstSaid(us) = us[n]
                              /\ \A m \in 1 .. k : m < n => us[m] = Unset
      BY <1>0, <1>2, SaidIs
    <2>2. n \in 1 .. k + l /\ ws[n] = us[n] BY <1>0
    <2>3. \A m \in 1 .. k + l : m < n => ws[m] = Unset
      <3> SUFFICES ASSUME NEW m \in 1 .. k + l, m < n PROVE ws[m] = Unset OBVIOUS
      <3>1. m \in 1 .. k OBVIOUS
      <3>2. QED BY <1>0, <2>1, <3>1
    <2>4. ws[n] # Unset BY <2>1, <2>2
    <2>5. FirstSaid(ws) = ws[n] BY <1>0, <1>1, <2>2, <2>3, <2>4, SaidIs
    <2>6. QED BY <1>2, <2>1, <2>2, <2>5
  <1>3. CASE FirstSaid(us) = Unset
    <2>0. \A n \in 1 .. k : us[n] = Unset
      <3> SUFFICES ASSUME NEW n \in 1 .. k, us[n] # Unset PROVE FALSE OBVIOUS
      <3> DEFINE A == {m \in 1 .. k : us[m] # Unset}
      <3>1. n \in A /\ A \in SUBSET Nat OBVIOUS
      <3>2. PICK m \in A : \A j \in A : m <= j
        <4> HIDE DEF A
        <4>1. QED BY <3>1, LeastNat
      <3>3. m \in 1 .. k /\ us[m] # Unset OBVIOUS
      <3>4. \A j \in 1 .. k : j < m => us[j] = Unset BY <3>2, <3>3
      <3>5. FirstSaid(us) = us[m] BY <1>0, <3>3, <3>4, SaidIs
      <3>6. QED BY <1>3, <3>3, <3>5
    <2>1. \A n \in 1 .. k : ws[n] = Unset BY <1>0, <2>0
    <2>2. CASE FirstSaid(vs) # Unset
      <3>1. PICK n \in 1 .. l : /\ vs[n] # Unset /\ FirstSaid(vs) = vs[n]
                                /\ \A m \in 1 .. l : m < n => vs[m] = Unset
        BY <1>0, <2>2, SaidIs
      <3>2. k + n \in 1 .. k + l /\ ws[k + n] = vs[n] BY <1>0
      <3>3. \A m \in 1 .. k + l : m < k + n => ws[m] = Unset
        <4> SUFFICES ASSUME NEW m \in 1 .. k + l, m < k + n PROVE ws[m] = Unset OBVIOUS
        <4>1. CASE m \in 1 .. k BY <2>1, <4>1
        <4>2. CASE m \notin 1 .. k
          <5>1. m - k \in 1 .. l /\ m - k < n /\ k + (m - k) = m BY <4>2
          <5>2. ws[m] = vs[m - k] BY <1>0, <5>1
          <5>3. QED BY <3>1, <5>1, <5>2
        <4>3. QED BY <4>1, <4>2
      <3>4. ws[k + n] # Unset BY <3>1, <3>2
      <3>5. FirstSaid(ws) = ws[k + n] BY <1>0, <1>1, <3>2, <3>3, <3>4, SaidIs
      <3>6. QED BY <1>3, <3>1, <3>2, <3>5
    <2>3. CASE FirstSaid(vs) = Unset
      <3>1. ASSUME FirstSaid(ws) # Unset PROVE FALSE
        <4>1. PICK n \in 1 .. k + l : /\ ws[n] # Unset /\ FirstSaid(ws) = ws[n]
                                      /\ \A m \in 1 .. k + l : m < n => ws[m] = Unset
          BY <1>0, <1>1, <3>1, SaidIs
        <4>2. n \notin 1 .. k BY <2>1, <4>1
        <4>3. n - k \in 1 .. l /\ k + (n - k) = n BY <4>2
        <4>4. vs[n - k] # Unset BY <1>0, <4>1, <4>3
        <4>5. \A m \in 1 .. l : m < n - k => vs[m] = Unset
          <5> SUFFICES ASSUME NEW m \in 1 .. l, m < n - k PROVE vs[m] = Unset OBVIOUS
          <5>1. k + m \in 1 .. k + l /\ k + m < n BY <4>3
          <5>2. ws[k + m] = Unset BY <4>1, <5>1
          <5>3. QED BY <1>0, <5>2
        <4>6. FirstSaid(vs) = vs[n - k] BY <1>0, <4>3, <4>4, <4>5, SaidIs
        <4>7. QED BY <2>3, <4>4, <4>6
      <3>2. QED BY <1>3, <2>3, <3>1
    <2>4. QED BY <2>2, <2>3
  <1>4. QED BY <1>2, <1>3

-----------------------------------------------------------------------------
(* What a part says of a name, and an item.                                 *)

RawTexts == Seq(UrlSigns)

PlainTexts == {t \in Seq(Signs) : AsWritten(t)}

Says(part, name) ==
  IF Found(part, "=") > 1 /\ NamePart(part) = name THEN Decoded(ValuePart(part)) ELSE Unset

ReadFrom(parts, name) == FirstSaid([n \in 1 .. Len(parts) |-> Says(parts[n], name)])

Tells(item, name) == IF item.key = name /\ item.value # Unset THEN item.value[1] ELSE Unset

Holds(items, name) == FirstSaid([n \in 1 .. Len(items) |-> Tells(items[n], name)])

LEMMA UnsetIs ==
  /\ \A t \in Seq(UrlSigns) : t # Unset
  /\ \A t \in Seq(Signs) : t # Unset
  /\ \A v \in Seq(Seq(Signs)) : v # Unset
PROOF
  <1>1. Unset \notin Seq(UrlSigns) /\ Unset \notin Seq(Seq(Signs))
    BY QueryStringAssumption DEF UrlSigns
  <1>2. \A t \in Seq(Signs) : t \in Seq(UrlSigns) BY DEF UrlSigns
  <1>3. QED BY <1>1, <1>2

LEMMA FoundIs ==
  ASSUME NEW S, NEW s \in Seq(S), NEW c
  PROVE  Found(s, c) = FirstAt(c, s)
PROOF BY DEF Found, FirstAt

LEMMA PartIs ==
  ASSUME NEW part \in Seq(UrlSigns)
  PROVE  /\ Found(part, "=") \in Nat
         /\ Found(part, "=") = 0 <=> Count("=", part) = 0
         /\ Found(part, "=") = 0 => NamePart(part) = part
         /\ Found(part, "=") # 0 =>
              /\ NamePart(part) \in Seq(UrlSigns) /\ ValuePart(part) \in Seq(UrlSigns)
              /\ Len(NamePart(part)) = Found(part, "=") - 1
PROOF
  <1> DEFINE i == Found(part, "=")
  <1>0. i = FirstAt("=", part) BY FoundIs
  <1>1. i \in 0 .. Len(part) /\ (i = 0 <=> Count("=", part) = 0) BY <1>0, FirstIs
  <1>2. i = 0 => NamePart(part) = part BY DEF NamePart
  <1>3. ASSUME i # 0
        PROVE  /\ NamePart(part) \in Seq(UrlSigns) /\ ValuePart(part) \in Seq(UrlSigns)
               /\ Len(NamePart(part)) = i - 1
    <2>1. NamePart(part) = SubSeq(part, 1, i - 1) BY <1>3 DEF NamePart
    <2>2. ValuePart(part) = SubSeq(part, i + 1, Len(part)) BY DEF ValuePart
    <2> HIDE DEF i
    <2>3. SubSeq(part, 1, i - 1) \in Seq(UrlSigns) /\ Len(SubSeq(part, 1, i - 1)) = i - 1
      BY <1>1, <1>3
    <2>4. SubSeq(part, i + 1, Len(part)) \in Seq(UrlSigns) BY <1>1, <1>3
    <2>5. QED BY <2>1, <2>2, <2>3, <2>4
  <1>4. QED BY <1>1, <1>2, <1>3

LEMMA SaysIs ==
  ASSUME NEW part \in Seq(UrlSigns), NEW name \in Seq(UrlSigns)
  PROVE  /\ Says(part, name) \in Seq(Signs) \cup {Unset}
         /\ Says(part, name) # Unset <=> Found(part, "=") > 1 /\ NamePart(part) = name
         /\ Says(part, name) # Unset => Says(part, name) = Decoded(ValuePart(part))
PROOF
  <1>1. Found(part, "=") \in Nat BY PartIs
  <1>2. CASE Found(part, "=") > 1 /\ NamePart(part) = name
    <2>1. Found(part, "=") # 0 BY <1>1, <1>2
    <2>2. Decoded(ValuePart(part)) \in Seq(Signs) BY <2>1, PartIs, DecodedIs
    <2>3. Says(part, name) = Decoded(ValuePart(part)) BY <1>2 DEF Says
    <2>4. QED BY <1>2, <2>2, <2>3, UnsetIs
  <1>3. CASE ~(Found(part, "=") > 1 /\ NamePart(part) = name)
    <2>1. Says(part, name) = Unset BY <1>3 DEF Says
    <2>2. QED BY <1>3, <2>1
  <1>4. QED BY <1>2, <1>3

LEMMA WantedIs ==
  ASSUME NEW name \in PlainTexts
  PROVE  [n \in DOMAIN name |-> IF name[n] = " " THEN "%20" ELSE Encoded(name)[n]] = name
PROOF
  <1> DEFINE f == [n \in DOMAIN name |-> IF name[n] = " " THEN "%20" ELSE Encoded(name)[n]]
  <1>1. name \in Seq(Signs) /\ AsWritten(name) BY DEF PlainTexts
  <1>2. Encoded(name) = name BY <1>1, EncodedIs
  <1>3. \A n \in DOMAIN name : name[n] # " " BY <1>1 DEF AsWritten
  <1>4. \A n \in DOMAIN name : f[n] = name[n] BY <1>2, <1>3
  <1>5. f = [n \in DOMAIN name |-> name[n]] BY <1>4
  <1>6. name = [n \in DOMAIN name |-> name[n]] BY <1>1
  <1>7. QED BY <1>5, <1>6

LEMMA ReadsThat ==
  ASSUME NEW text, Parts(text) \in Seq(Seq(UrlSigns)), NEW name \in PlainTexts
  PROVE  ReadAs(text, name) = ReadFrom(Parts(text), name)
PROOF
  <1> DEFINE p == Parts(text)
             k == Len(p)
             ws == [n \in 1 .. k |-> Says(p[n], name)]
             A == {n \in 1 .. k : Found(p[n], "=") > 1 /\ NamePart(p[n]) = name}
             i == SelectInSeq(p, LAMBDA part : Found(part, "=") > 1 /\ NamePart(part) = name)
  <1>1. Get(text, name) = IF i = 0 THEN Unset ELSE ValuePart(p[i])
    <2> DEFINE wanted == [n \in DOMAIN name |-> IF name[n] = " " THEN "%20" ELSE Encoded(name)[n]]
               j(w) == SelectInSeq(p, LAMBDA part : Found(part, "=") > 1 /\ NamePart(part) = w)
    <2>1. Get(text, name) = IF j(wanted) = 0 THEN Unset ELSE ValuePart(p[j(wanted)]) BY DEF Get
    <2>2. wanted = name BY WantedIs
    <2>3. i = j(name) OBVIOUS
    <2> HIDE DEF wanted, j, i
    <2>4. QED BY <2>1, <2>2, <2>3
  <1>2. i = IF A # {} THEN Min(A) ELSE 0 BY DEF SelectInSeq
  <1>3. name \in Seq(Signs) /\ AsWritten(name) BY DEF PlainTexts
  <1>4. name \in Seq(UrlSigns) BY <1>3 DEF UrlSigns
  <1>5. k \in Nat /\ \A n \in 1 .. k : p[n] \in Seq(UrlSigns) OBVIOUS
  <1> HIDE DEF p, i, k
  <1>6. A = Said(ws)
    <2>1. \A n \in 1 .. k : n \in A <=> ws[n] # Unset BY <1>4, <1>5, SaysIs
    <2>2. DOMAIN ws = 1 .. k OBVIOUS
    <2>3. QED BY <2>1, <2>2 DEF Said
  <1>7. CASE A = {}
    <2>1. i = 0 BY <1>2, <1>7
    <2>2. Get(text, name) = Unset BY <1>1, <2>1
    <2>3. FirstSaid(ws) = Unset BY <1>6, <1>7 DEF FirstSaid
    <2>4. QED BY <2>2, <2>3 DEF ReadAs, ReadFrom, p, k
  <1>8. CASE A # {}
    <2>0. A \in SUBSET Nat OBVIOUS
    <2>1. i = Min(A) BY <1>2, <1>8
    <2>2. i \in A
      <3> HIDE DEF A
      <3>1. QED BY <1>8, <2>0, <2>1, MinIsLeast
    <2>3. i \in 1 .. k /\ i # 0 BY <2>2
    <2>4. ws[i] # Unset /\ ws[i] = Says(p[i], name) BY <1>6, <2>2, <2>3 DEF Said
    <2>5. ws[i] = Decoded(ValuePart(p[i])) BY <1>4, <1>5, <2>3, <2>4, SaysIs
    <2>6. FirstSaid(ws) = ws[i] BY <1>6, <1>8, <2>1 DEF FirstSaid
    <2>7. Get(text, name) = ValuePart(p[i]) BY <1>1, <2>3
    <2>8. ValuePart(p[i]) # Unset
      <3>1. p[i] \in Seq(UrlSigns) /\ Found(p[i], "=") > 1 BY <1>5, <2>2, <2>3
      <3>2. Found(p[i], "=") # 0 BY <3>1, PartIs
      <3>3. ValuePart(p[i]) \in Seq(UrlSigns) BY <3>1, <3>2, PartIs
      <3>4. QED BY <3>3, UnsetIs
    <2>9. QED BY <2>5, <2>6, <2>7, <2>8 DEF ReadAs, ReadFrom, p, k
  <1>9. QED BY <1>7, <1>8

-----------------------------------------------------------------------------
(* What parts and items say together.                                       *)

LEMMA ReadsBoth ==
  ASSUME NEW p \in Bodies(UrlSigns), NEW q \in Bodies(UrlSigns), NEW name
  PROVE  /\ p \o q \in Bodies(UrlSigns)
         /\ ReadFrom(p \o q, name) =
              IF ReadFrom(p, name) # Unset THEN ReadFrom(p, name) ELSE ReadFrom(q, name)
PROOF
  <1> DEFINE k == Len(p)
             l == Len(q)
             t == p \o q
             us == [n \in 1 .. k |-> Says(p[n], name)]
             vs == [n \in 1 .. l |-> Says(q[n], name)]
             ws == [n \in 1 .. Len(t) |-> Says(t[n], name)]
  <1>1. /\ t \in Bodies(UrlSigns) /\ Len(t) = k + l
        /\ \A n \in 1 .. k : t[n] = p[n]
        /\ \A n \in 1 .. l : t[k + n] = q[n]
    BY Concat2 DEF Bodies
  <1>2. k \in Nat /\ l \in Nat BY DEF Bodies
  <1> HIDE DEF t, k, l
  <1>3. \A n \in 1 .. k : n \in 1 .. k + l BY <1>2
  <1>4. \A n \in 1 .. l : k + n \in 1 .. k + l BY <1>2
  <1>5. \A n \in 1 .. k : ws[n] = us[n] BY <1>1, <1>3
  <1>6. \A n \in 1 .. l : ws[k + n] = vs[n] BY <1>1, <1>4
  <1>7. DOMAIN us = 1 .. k /\ DOMAIN vs = 1 .. l /\ DOMAIN ws = 1 .. k + l BY <1>1
  <1> HIDE DEF us, vs, ws
  <1>71. Strung(k, l, us, vs, ws) BY <1>5, <1>6, <1>7 DEF Strung
  <1>8. FirstSaid(ws) = IF FirstSaid(us) # Unset THEN FirstSaid(us) ELSE FirstSaid(vs)
    BY <1>2, <1>71, SaidBoth
  <1>9. QED BY <1>1, <1>8 DEF ReadFrom, us, vs, ws, t, k, l

LEMMA SaidOne ==
  ASSUME NEW ws, DOMAIN ws = 1 .. 1
  PROVE  FirstSaid(ws) = ws[1]
PROOF
  <1>0. 1 \in Nat /\ 1 \in 1 .. 1 /\ \A n \in 1 .. 1 : n = 1 /\ ~(n < 1) OBVIOUS
  <1>1. (\A n \in 1 .. 1 : ws[n] = Unset) => FirstSaid(ws) = Unset BY <1>0, SaidIs
  <1>2. \A n \in 1 .. 1 : ws[n] # Unset /\ (\A m \in 1 .. 1 : m < n => ws[m] = Unset)
          => FirstSaid(ws) = ws[n]
    BY <1>0, SaidIs
  <1>3. QED BY <1>0, <1>1, <1>2

LEMMA ReadsFew ==
  /\ \A name : ReadFrom(<<>>, name) = Unset
  /\ \A x, name : ReadFrom(<<x>>, name) = Says(x, name)
PROOF
  <1>1. ASSUME NEW name PROVE ReadFrom(<<>>, name) = Unset
    <2> DEFINE ws == [n \in 1 .. Len(<<>>) |-> Says(<<>>[n], name)]
    <2>1. DOMAIN ws = {} OBVIOUS
    <2>2. Said(ws) = {} BY <2>1 DEF Said
    <2>3. FirstSaid(ws) = Unset BY <2>2 DEF FirstSaid
    <2>4. QED BY <2>3 DEF ReadFrom
  <1>2. ASSUME NEW x, NEW name PROVE ReadFrom(<<x>>, name) = Says(x, name)
    <2> DEFINE ws == [n \in 1 .. Len(<<x>>) |-> Says(<<x>>[n], name)]
    <2>1. DOMAIN ws = 1 .. 1 /\ ws[1] = Says(x, name) OBVIOUS
    <2>2. FirstSaid(ws) = ws[1]
      <3> HIDE DEF ws
      <3>1. QED BY <2>1, SaidOne
    <2>3. QED BY <2>1, <2>2 DEF ReadFrom
  <1>3. QED BY <1>1, <1>2

LEMMA ReadsSnoc ==
  ASSUME NEW p \in Bodies(UrlSigns), NEW x \in Seq(UrlSigns), NEW name
  PROVE  ReadFrom(WithLast(p, x), name) =
           IF ReadFrom(p, name) # Unset THEN ReadFrom(p, name) ELSE Says(x, name)
PROOF
  <1>1. <<x>> \in Bodies(UrlSigns) BY DEF Bodies
  <1>2. p \o <<x>> = WithLast(p, x) BY DEF WithLast, Bodies
  <1>3. ReadFrom(p \o <<x>>, name) = IF ReadFrom(p, name) # Unset THEN ReadFrom(p, name) ELSE ReadFrom(<<x>>, name)
    BY <1>1, ReadsBoth
  <1>4. QED BY <1>2, <1>3, ReadsFew

Several == Seq(Seq(Signs)) \ {<<>>}

ItemForms == [key : Seq(Signs), value : {Unset} \cup Several]

ItemLists == Seq(ItemForms)

LEMMA ItemIs ==
  ASSUME NEW item \in ItemForms
  PROVE  /\ item.key \in Seq(Signs) /\ item.value \in {Unset} \cup Several
         /\ \A name : /\ Tells(item, name) \in Seq(Signs) \cup {Unset}
                      /\ Tells(item, name) # Unset <=> item.key = name /\ item.value # Unset
PROOF
  <1>1. item.key \in Seq(Signs) /\ item.value \in {Unset} \cup Several BY DEF ItemForms
  <1>2. ASSUME NEW v \in Several PROVE v[1] \in Seq(Signs) BY DEF Several
  <1>3. item.value # Unset => item.value[1] \in Seq(Signs) /\ item.value[1] # Unset
    BY <1>1, <1>2, UnsetIs
  <1>4. QED BY <1>1, <1>3 DEF Tells

LEMMA ItemsAre ==
  /\ <<>> \in ItemLists /\ Len(<<>>) = 0
  /\ \A items \in ItemLists :
       /\ Len(items) \in Nat /\ DOMAIN items = 1 .. Len(items)
       /\ \A n \in 1 .. Len(items) : items[n] \in ItemForms
  /\ \A items \in ItemLists : \A e \in ItemForms :
       /\ WithLast(items, e) \in ItemLists /\ Len(WithLast(items, e)) = Len(items) + 1
       /\ WithLast(items, e)[Len(items) + 1] = e
       /\ \A n \in 1 .. Len(items) : WithLast(items, e)[n] = items[n]
PROOF
  <1>1. <<>> \in ItemLists /\ Len(<<>>) = 0 BY DEF ItemLists
  <1>2. \A items \in ItemLists :
          /\ Len(items) \in Nat /\ DOMAIN items = 1 .. Len(items)
          /\ \A n \in 1 .. Len(items) : items[n] \in ItemForms
    <2> HIDE DEF ItemForms
    <2>1. QED BY DEF ItemLists
  <1>3. ASSUME NEW items \in ItemLists, NEW e \in ItemForms
        PROVE  /\ WithLast(items, e) \in ItemLists /\ Len(WithLast(items, e)) = Len(items) + 1
               /\ WithLast(items, e)[Len(items) + 1] = e
               /\ \A n \in 1 .. Len(items) : WithLast(items, e)[n] = items[n]
    <2>1. items \in Seq(ItemForms) BY DEF ItemLists
    <2>2. QED BY <2>1, SnocIs, SnocAt DEF ItemLists
  <1>4. QED BY <1>1, <1>2, <1>3

LEMMA HoldsIs ==
  ASSUME NEW items \in ItemLists, NEW name
  PROVE  /\ (\A n \in 1 .. Len(items) : Tells(items[n], name) = Unset) => Holds(items, name) = Unset
         /\ \A n \in 1 .. Len(items) :
              Tells(items[n], name) # Unset /\
              (\A m \in 1 .. Len(items) : m < n => Tells(items[m], name) = Unset)
                => Holds(items, name) = Tells(items[n], name)
         /\ Holds(items, name) # Unset =>
              \E n \in 1 .. Len(items) :
                /\ Tells(items[n], name) # Unset /\ Holds(items, name) = Tells(items[n], name)
                /\ \A m \in 1 .. Len(items) : m < n => Tells(items[m], name) = Unset
PROOF
  <1> DEFINE k == Len(items)
             ws == [n \in 1 .. k |-> Tells(items[n], name)]
  <1>1. k \in Nat BY ItemsAre
  <1>2. DOMAIN ws = 1 .. k OBVIOUS
  <1>3. \A n \in 1 .. k : ws[n] = Tells(items[n], name) OBVIOUS
  <1>4. Holds(items, name) = FirstSaid(ws) BY DEF Holds
  <1> HIDE DEF k, ws
  <1>5. /\ (\A n \in 1 .. k : ws[n] = Unset) => FirstSaid(ws) = Unset
        /\ \A n \in 1 .. k : ws[n] # Unset /\ (\A m \in 1 .. k : m < n => ws[m] = Unset)
             => FirstSaid(ws) = ws[n]
        /\ FirstSaid(ws) # Unset =>
             \E n \in 1 .. k : /\ ws[n] # Unset /\ FirstSaid(ws) = ws[n]
                               /\ \A m \in 1 .. k : m < n => ws[m] = Unset
    BY <1>1, <1>2, SaidIs
  <1>6. QED BY <1>3, <1>4, <1>5 DEF k

LEMMA HoldsSame ==
  ASSUME NEW items \in ItemLists, NEW others \in ItemLists, Len(items) = Len(others), NEW name,
         \A n \in 1 .. Len(items) : Tells(items[n], name) = Tells(others[n], name)
  PROVE  Holds(items, name) = Holds(others, name)
PROOF
  <1>1. [n \in 1 .. Len(items) |-> Tells(items[n], name)] =
        [n \in 1 .. Len(others) |-> Tells(others[n], name)]
    OBVIOUS
  <1>2. QED BY <1>1 DEF Holds

LEMMA HoldsNone == \A name : Holds(<<>>, name) = Unset
PROOF
  <1>1. \A n \in 1 .. Len(<<>>) : FALSE OBVIOUS
  <1>2. QED BY <1>1, HoldsIs, ItemsAre

LEMMA HoldsSnoc ==
  ASSUME NEW items \in ItemLists, NEW e \in ItemForms, NEW name
  PROVE  Holds(WithLast(items, e), name) =
           IF Holds(items, name) # Unset THEN Holds(items, name) ELSE Tells(e, name)
PROOF
  <1> DEFINE k == Len(items)
             t == WithLast(items, e)
             us == [n \in 1 .. k |-> Tells(items[n], name)]
             vs == [n \in 1 .. 1 |-> Tells(e, name)]
             ws == [n \in 1 .. Len(t) |-> Tells(t[n], name)]
  <1>1. /\ t \in ItemLists /\ Len(t) = k + 1 /\ t[k + 1] = e
        /\ \A n \in 1 .. k : t[n] = items[n]
        /\ k \in Nat
    BY ItemsAre
  <1> HIDE DEF t, k
  <1>2. \A n \in 1 .. k : n \in 1 .. k + 1 BY <1>1
  <1>3. \A n \in 1 .. k : ws[n] = us[n] BY <1>1, <1>2
  <1>4. \A n \in 1 .. 1 : n = 1 OBVIOUS
  <1>5. ws[k + 1] = Tells(e, name) BY <1>1
  <1>6. \A n \in 1 .. 1 : ws[k + n] = vs[n] BY <1>4, <1>5
  <1>7. DOMAIN us = 1 .. k /\ DOMAIN vs = 1 .. 1 /\ DOMAIN ws = 1 .. k + 1 BY <1>1
  <1>8. vs[1] = Tells(e, name) OBVIOUS
  <1> HIDE DEF us, vs, ws
  <1>71. 1 \in Nat /\ Strung(k, 1, us, vs, ws) BY <1>3, <1>6, <1>7 DEF Strung
  <1>9. FirstSaid(ws) = IF FirstSaid(us) # Unset THEN FirstSaid(us) ELSE FirstSaid(vs)
    BY <1>1, <1>71, SaidBoth
  <1>10. FirstSaid(vs) = Tells(e, name) BY <1>7, <1>8, SaidOne
  <1>11. QED BY <1>9, <1>10 DEF Holds, us, ws, t, k

(* Of several items of one name only the first may have values.             *)
FirstOnly(items) ==
  \A m, n \in 1 .. Len(items) :
    m < n /\ items[m].key = items[n].key => items[n].value = Unset

KeysOf(items) == {items[n].key : n \in 1 .. Len(items)}

(* A value put in place of another's.                                       *)
Put(items, i, w) == [items EXCEPT ![i].value = w]

LEMMA PutIs ==
  ASSUME NEW items \in ItemLists, NEW i \in 1 .. Len(items), NEW w \in Several,
         NEW j, j = Put(items, i, w)
  PROVE  /\ j \in ItemLists /\ Len(j) = Len(items)
         /\ j[i].key = items[i].key /\ j[i].value = w
         /\ \A m \in 1 .. Len(items) : m # i => j[m] = items[m]
         /\ \A m \in 1 .. Len(items) : j[m].key = items[m].key
PROOF
  <1> DEFINE e == [items[i] EXCEPT !.value = w]
  <1>1. items[i] \in ItemForms /\ DOMAIN items = 1 .. Len(items) /\ Len(items) \in Nat BY ItemsAre
  <1>2. e \in ItemForms /\ e.key = items[i].key /\ e.value = w BY <1>1 DEF ItemForms
  <1>3. j = [items EXCEPT ![i] = e] BY DEF Put
  <1> HIDE DEF e
  <1>4. j[i] = e /\ \A m \in 1 .. Len(items) : m # i => j[m] = items[m] BY <1>1, <1>3
  <1>5. DOMAIN j = 1 .. Len(items) BY <1>1, <1>3
  <1>6. \A m \in 1 .. Len(items) : j[m] \in ItemForms BY <1>2, <1>4, ItemsAre
  <1>7. j = [m \in 1 .. Len(items) |-> j[m]] BY <1>1, <1>3
  <1>8. j \in [1 .. Len(items) -> ItemForms]
    <2> HIDE DEF ItemForms
    <2>1. QED BY <1>6, <1>7
  <1>9. j \in ItemLists /\ Len(j) = Len(items) BY <1>1, <1>8, FunctionIsSeq DEF ItemLists
  <1>10. QED BY <1>2, <1>4, <1>9

LEMMA PutHolds ==
  ASSUME NEW items \in ItemLists, NEW i \in 1 .. Len(items), NEW w \in Several,
         NEW j, j = Put(items, i, w),
         \A m \in 1 .. Len(items) : m < i => items[m].key # items[i].key
  PROVE  /\ Holds(j, items[i].key) = w[1]
         /\ \A name : name # items[i].key => Holds(j, name) = Holds(items, name)
         /\ KeysOf(j) = KeysOf(items)
         /\ FirstOnly(items) => FirstOnly(j)
PROOF
  <1> DEFINE k == Len(items)
             key == items[i].key
  <1>1. /\ j \in ItemLists /\ Len(j) = k
        /\ j[i].key = key /\ j[i].value = w
        /\ \A m \in 1 .. k : m # i => j[m] = items[m]
        /\ \A m \in 1 .. k : j[m].key = items[m].key
    BY PutIs
  <1>2. w # Unset BY UnsetIs DEF Several
  <1>3. \A m \in 1 .. k : j[m] \in ItemForms /\ items[m] \in ItemForms BY <1>1, ItemsAre
  <1>4. Holds(j, key) = w[1]
    <2>1. Tells(j[i], key) = w[1] BY <1>1, <1>2 DEF Tells
    <2>2. Tells(j[i], key) # Unset BY <1>1, <1>2, <1>3, ItemIs
    <2>3. \A m \in 1 .. k : m < i => Tells(j[m], key) = Unset
      BY <1>1 DEF Tells
    <2> HIDE DEF key
    <2>4. i \in 1 .. Len(j) /\ \A m \in 1 .. Len(j) : m < i => Tells(j[m], key) = Unset
      BY <1>1, <2>3
    <2>5. \A n \in 1 .. Len(j) :
            Tells(j[n], key) # Unset /\
            (\A m \in 1 .. Len(j) : m < n => Tells(j[m], key) = Unset)
              => Holds(j, key) = Tells(j[n], key)
      BY <1>1, HoldsIs
    <2>6. QED BY <2>1, <2>2, <2>4, <2>5
  <1>5. ASSUME NEW name, name # key PROVE Holds(j, name) = Holds(items, name)
    <2>1. \A m \in 1 .. k : Tells(j[m], name) = Tells(items[m], name)
      <3> SUFFICES ASSUME NEW m \in 1 .. k PROVE Tells(j[m], name) = Tells(items[m], name)
        OBVIOUS
      <3>1. CASE m = i BY <1>1, <1>5, <3>1 DEF Tells
      <3>2. CASE m # i BY <1>1, <3>2
      <3>3. QED BY <3>1, <3>2
    <2>2. QED BY <1>1, <2>1, HoldsSame
  <1>6. KeysOf(j) = KeysOf(items) BY <1>1 DEF KeysOf
  <1>7. ASSUME FirstOnly(items) PROVE FirstOnly(j)
    <2> SUFFICES ASSUME NEW m \in 1 .. k, NEW n \in 1 .. k, m < n, j[m].key = j[n].key
                 PROVE  j[n].value = Unset
      BY <1>1 DEF FirstOnly
    <2>1. items[m].key = items[n].key BY <1>1
    <2>2. items[n].value = Unset BY <1>7, <2>1 DEF FirstOnly
    <2>3. n # i BY <2>1
    <2>4. QED BY <1>1, <2>2, <2>3
  <1>8. QED BY <1>4, <1>5, <1>6, <1>7

(* Query.set and Query.add                                                  *)
LEMMA SnocHolds ==
  ASSUME NEW items \in ItemLists, NEW e \in ItemForms,
         \A n \in 1 .. Len(items) : items[n].key # e.key
  PROVE  /\ WithLast(items, e) \in ItemLists
         /\ Holds(WithLast(items, e), e.key) = Tells(e, e.key)
         /\ Holds(items, e.key) = Unset
         /\ \A name : name # e.key => Holds(WithLast(items, e), name) = Holds(items, name)
         /\ KeysOf(WithLast(items, e)) = KeysOf(items) \cup {e.key}
         /\ FirstOnly(items) => FirstOnly(WithLast(items, e))
PROOF
  <1> DEFINE k == Len(items)
             t == WithLast(items, e)
  <1>1. /\ t \in ItemLists /\ Len(t) = k + 1 /\ t[k + 1] = e
        /\ \A n \in 1 .. k : t[n] = items[n]
        /\ k \in Nat
    BY ItemsAre
  <1>2. \A n \in 1 .. k : Tells(items[n], e.key) = Unset BY DEF Tells
  <1>3. Holds(items, e.key) = Unset BY <1>2, HoldsIs
  <1>4. Holds(t, e.key) = Tells(e, e.key) BY <1>3, HoldsSnoc
  <1>5. ASSUME NEW name, name # e.key PROVE Holds(t, name) = Holds(items, name)
    <2>1. Tells(e, name) = Unset BY <1>5 DEF Tells
    <2>2. Holds(t, name) = IF Holds(items, name) # Unset THEN Holds(items, name) ELSE Tells(e, name)
      BY HoldsSnoc
    <2>3. QED BY <2>1, <2>2
  <1> HIDE DEF t, k
  <1>6. \A n \in 1 .. k + 1 : n \in 1 .. k \/ n = k + 1 BY <1>1
  <1>7. \A n \in 1 .. k : n \in 1 .. k + 1 BY <1>1
  <1>8. k + 1 \in 1 .. k + 1 BY <1>1
  <1>9. KeysOf(t) = KeysOf(items) \cup {e.key}
    <2>1. KeysOf(t) = {t[n].key : n \in 1 .. k + 1} BY <1>1 DEF KeysOf
    <2>2. KeysOf(items) = {items[n].key : n \in 1 .. k} BY DEF KeysOf, k
    <2>3. QED BY <1>1, <1>6, <1>7, <1>8, <2>1, <2>2
  <1>10. ASSUME FirstOnly(items) PROVE FirstOnly(t)
    <2> SUFFICES ASSUME NEW m \in 1 .. k + 1, NEW n \in 1 .. k + 1, m < n, t[m].key = t[n].key
                 PROVE  t[n].value = Unset
      BY <1>1 DEF FirstOnly
    <2>1. m \in 1 .. k BY <1>1
    <2>2. t[m] = items[m] BY <1>1, <2>1
    <2>3. CASE n \in 1 .. k
      <3>1. t[n] = items[n] BY <1>1, <2>3
      <3>2. QED BY <1>10, <2>1, <2>2, <2>3, <3>1 DEF FirstOnly, k
    <2>4. CASE n = k + 1
      <3>1. t[n] = e BY <1>1, <2>4
      <3>2. items[m].key # e.key BY <2>1 DEF k
      <3>3. QED BY <2>2, <3>1, <3>2
    <2>5. QED BY <1>6, <2>3, <2>4
  <1>11. QED BY <1>1, <1>3, <1>4, <1>5, <1>9, <1>10 DEF t

LEMMA ValuedForm ==
  ASSUME NEW name \in Seq(Signs), NEW value \in Seq(Signs)
  PROVE  LET e == [key |-> name, value |-> <<value>>]
         IN /\ <<value>> \in Several /\ <<value>>[1] = value
            /\ e \in ItemForms /\ e.key = name /\ Tells(e, name) = value
PROOF
  <1>1. <<value>> \in Several /\ <<value>>[1] = value BY DEF Several
  <1> DEFINE w == <<value>>
  <1> HIDE DEF w
  <1>2. w \in Several /\ w[1] = value BY <1>1 DEF w
  <1> DEFINE e == [key |-> name, value |-> w]
  <1>3. e.key = name /\ e.value = w OBVIOUS
  <1>4. e \in ItemForms BY <1>2 DEF ItemForms
  <1>5. w # Unset BY <1>2, UnsetIs DEF Several
  <1>6. Tells(e, name) = value BY <1>2, <1>3, <1>5 DEF Tells
  <1>7. QED BY <1>1, <1>3, <1>4, <1>6 DEF w

LEMMA KeyFound ==
  ASSUME NEW items \in ItemLists, NEW name
  PROVE  LET n == SelectInSeq(items, LAMBDA item : item.key = name)
         IN /\ n \in 0 .. Len(items)
            /\ n = 0 => \A i \in 1 .. Len(items) : items[i].key # name
            /\ n # 0 => /\ n \in 1 .. Len(items) /\ items[n].key = name
                        /\ \A m \in 1 .. Len(items) : m < n => items[m].key # name
PROOF
  <1> DEFINE n == KeyAt(items, name)
  <1>1. n = SelectInSeq(items, LAMBDA item : item.key = name) BY DEF KeyAt
  <1> HIDE DEF n
  <1>2. items \in Seq(ItemForms) /\ Len(items) \in Nat BY ItemsAre DEF ItemLists
  <1>3. /\ n \in 0 .. Len(items)
        /\ n = 0 <=> \A i \in 1 .. Len(items) : items[i].key # name
        /\ n # 0 =>
             /\ items[n].key = name
             /\ \A j \in 1 .. Len(items) : items[j].key = name => n <= j
    BY <1>2, KeyAtIs DEF n
  <1>4. n # 0 => n \in 1 .. Len(items) BY <1>2, <1>3
  <1>5. ASSUME n # 0, NEW m \in 1 .. Len(items), m < n PROVE items[m].key # name
    <2>1. ~(n <= m) BY <1>2, <1>4, <1>5
    <2>2. QED BY <1>3, <1>5, <2>1
  <1>6. QED BY <1>1, <1>3, <1>4, <1>5

LEMMA SetIs ==
  ASSUME NEW items \in ItemLists, NEW name \in Seq(Signs), NEW value \in Seq(Signs),
         NEW j, j = SetIn(items, name, value)
  PROVE  /\ j \in ItemLists
         /\ Holds(j, name) = value
         /\ \A other : other # name => Holds(j, other) = Holds(items, other)
         /\ KeysOf(j) = KeysOf(items) \cup {name}
PROOF
  <1> DEFINE n == SelectInSeq(items, LAMBDA item : item.key = name)
             e == [key |-> name, value |-> <<value>>]
  <1>1. /\ n \in 0 .. Len(items)
        /\ n = 0 => \A i \in 1 .. Len(items) : items[i].key # name
        /\ n # 0 => /\ n \in 1 .. Len(items) /\ items[n].key = name
                    /\ \A m \in 1 .. Len(items) : m < n => items[m].key # name
    BY KeyFound
  <1>2. /\ <<value>> \in Several /\ <<value>>[1] = value
        /\ e \in ItemForms /\ e.key = name /\ Tells(e, name) = value
    BY ValuedForm
  <1>3. j = IF n = 0 THEN WithLast(items, e) ELSE Put(items, n, <<value>>)
    BY DEF SetIn, WithLast, Put
  <1> HIDE DEF n, e
  <1>4. CASE n = 0
    <2>1. j = WithLast(items, e) /\ \A i \in 1 .. Len(items) : items[i].key # e.key
      BY <1>1, <1>2, <1>3, <1>4
    <2>2. QED BY <1>2, <2>1, SnocHolds
  <1>5. CASE n # 0
    <2> DEFINE w == <<value>>
    <2>1. w \in Several /\ w[1] = value /\ j = Put(items, n, w) BY <1>2, <1>3, <1>5
    <2> HIDE DEF w
    <2>2. /\ n \in 1 .. Len(items) /\ items[n].key = name
          /\ \A m \in 1 .. Len(items) : m < n => items[m].key # items[n].key
      BY <1>1, <1>5
    <2>3. j \in ItemLists BY <2>1, <2>2, PutIs
    <2>4. /\ Holds(j, items[n].key) = w[1]
          /\ \A other : other # items[n].key => Holds(j, other) = Holds(items, other)
          /\ KeysOf(j) = KeysOf(items)
      BY <2>1, <2>2, PutHolds
    <2>5. name \in KeysOf(items) BY <2>2 DEF KeysOf
    <2>6. QED BY <2>1, <2>2, <2>3, <2>4, <2>5
  <1>6. QED BY <1>4, <1>5

LEMMA AddIs ==
  ASSUME NEW items \in ItemLists, NEW name \in Seq(Signs), NEW value \in Seq(Signs),
         NEW j, j = AddTo(items, name, value), FirstOnly(items)
  PROVE  /\ j \in ItemLists /\ FirstOnly(j)
         /\ Holds(j, name) = IF Holds(items, name) # Unset THEN Holds(items, name) ELSE value
         /\ \A other : other # name => Holds(j, other) = Holds(items, other)
         /\ KeysOf(j) = KeysOf(items) \cup {name}
PROOF
  <1> DEFINE n == SelectInSeq(items, LAMBDA item : item.key = name)
             e == [key |-> name, value |-> <<value>>]
             w == IF items[n].value = Unset THEN <<value>> ELSE Append(items[n].value, value)
  <1>1. /\ n \in 0 .. Len(items)
        /\ n = 0 => \A i \in 1 .. Len(items) : items[i].key # name
        /\ n # 0 => /\ n \in 1 .. Len(items) /\ items[n].key = name
                    /\ \A m \in 1 .. Len(items) : m < n => items[m].key # name
    BY KeyFound
  <1>2. /\ <<value>> \in Several /\ <<value>>[1] = value
        /\ e \in ItemForms /\ e.key = name /\ Tells(e, name) = value
    BY ValuedForm
  <1>3. n = 0 => j = WithLast(items, e) BY DEF AddTo, WithLast
  <1>30. n # 0 => j = [items EXCEPT ![n].value = IF @ = Unset THEN <<value>> ELSE Append(@, value)]
    BY DEF AddTo
  <1> HIDE DEF n, e
  <1>31. n # 0 => j = Put(items, n, w)
    <2>1. ASSUME n # 0, items[n].value = Unset PROVE j = Put(items, n, w)
      BY <1>30, <2>1 DEF Put
    <2>2. ASSUME n # 0, items[n].value # Unset PROVE j = Put(items, n, w)
      BY <1>30, <2>2 DEF Put
    <2>3. QED BY <2>1, <2>2
  <1>4. CASE n = 0
    <2>1. j = WithLast(items, e) /\ \A i \in 1 .. Len(items) : items[i].key # e.key
      BY <1>1, <1>2, <1>3, <1>4
    <2>2. /\ j \in ItemLists /\ FirstOnly(j)
          /\ Holds(j, e.key) = Tells(e, e.key) /\ Holds(items, e.key) = Unset
          /\ \A other : other # e.key => Holds(j, other) = Holds(items, other)
          /\ KeysOf(j) = KeysOf(items) \cup {e.key}
      BY <1>2, <2>1, SnocHolds
    <2>3. QED BY <1>2, <2>2
  <1>5. CASE n # 0
    <2>1. /\ n \in 1 .. Len(items) /\ items[n].key = name
          /\ \A m \in 1 .. Len(items) : m < n => items[m].key # items[n].key
      BY <1>1, <1>5
    <2>2. items[n] \in ItemForms BY <2>1, ItemsAre
    <2>3. items[n].value \in {Unset} \cup Several BY <2>2, ItemIs
    <2>4. w \in Several /\ w[1] = IF items[n].value = Unset THEN value ELSE items[n].value[1]
      <3>1. CASE items[n].value = Unset BY <1>2, <3>1
      <3>2. CASE items[n].value # Unset
        <4> DEFINE v == items[n].value
        <4>1. v \in Seq(Seq(Signs)) /\ v # <<>> BY <2>3, <3>2 DEF Several
        <4>2. w = Append(v, value) BY <3>2
        <4> HIDE DEF v, w
        <4>3. Append(v, value) \in Seq(Seq(Signs)) /\ Append(v, value) # <<>>
              /\ Append(v, value)[1] = v[1]
          <5> DEFINE T == Seq(Signs)
          <5>1. v \in Seq(T) /\ value \in T BY <4>1
          <5> HIDE DEF T
          <5>2. 1 \in 1 .. Len(v) BY <4>1, <5>1
          <5>3. QED BY <5>1, <5>2, AppendIs DEF T
        <4>4. w \in Several /\ w[1] = v[1] BY <4>2, <4>3 DEF Several
        <4>5. QED BY <3>2, <4>4 DEF v
      <3>3. QED BY <3>1, <3>2
    <2>5. j = Put(items, n, w) BY <1>5, <1>31
    <2>6. Holds(items, name) = IF items[n].value = Unset THEN Unset ELSE items[n].value[1]
      <3>1. \A m \in 1 .. Len(items) : m < n => Tells(items[m], name) = Unset
        BY <2>1 DEF Tells
      <3>2. CASE items[n].value = Unset
        <4>1. \A m \in 1 .. Len(items) : Tells(items[m], name) = Unset
          <5> SUFFICES ASSUME NEW m \in 1 .. Len(items), items[m].key = name
                       PROVE  items[m].value = Unset
            BY DEF Tells
          <5>1. n = m \/ n < m BY <1>1, <2>1
          <5>2. n < m => items[m].value = Unset BY <2>1 DEF FirstOnly
          <5>3. QED BY <3>2, <5>1, <5>2
        <4>2. Holds(items, name) = Unset BY <4>1, HoldsIs
        <4>3. QED BY <3>2, <4>2
      <3>3. CASE items[n].value # Unset
        <4>1. Tells(items[n], name) = items[n].value[1] BY <2>1, <3>3 DEF Tells
        <4>2. Tells(items[n], name) # Unset BY <2>1, <2>2, <3>3, ItemIs
        <4>3. \A i \in 1 .. Len(items) :
                Tells(items[i], name) # Unset /\
                (\A m \in 1 .. Len(items) : m < i => Tells(items[m], name) = Unset)
                  => Holds(items, name) = Tells(items[i], name)
          BY HoldsIs
        <4>4. Holds(items, name) = Tells(items[n], name) BY <2>1, <3>1, <4>2, <4>3
        <4>5. QED BY <3>3, <4>1, <4>4
      <3>4. QED BY <3>2, <3>3
    <2>7. items[n].value # Unset => items[n].value[1] # Unset
      BY <2>3, UnsetIs DEF Several
    <2> HIDE DEF w
    <2>8. j \in ItemLists BY <2>1, <2>4, <2>5, PutIs
    <2>9. /\ Holds(j, items[n].key) = w[1] /\ FirstOnly(j)
          /\ \A other : other # items[n].key => Holds(j, other) = Holds(items, other)
          /\ KeysOf(j) = KeysOf(items)
      BY <2>1, <2>4, <2>5, PutHolds
    <2>10. name \in KeysOf(items) BY <2>1 DEF KeysOf
    <2>11. Holds(j, name) = IF Holds(items, name) # Unset THEN Holds(items, name) ELSE value
      BY <2>1, <2>4, <2>6, <2>7, <2>9
    <2>12. QED BY <2>1, <2>8, <2>9, <2>10, <2>11
  <1>6. QED BY <1>4, <1>5

-----------------------------------------------------------------------------
(* Query.parse: f[n] is what the first n parts make.                        *)

Listing(parts, f) ==
  f = [n \in 0 .. Len(parts) |-> IF n = 0 THEN <<>> ELSE PartAdded(f[n - 1], parts[n])]

LEMMA ListingAt ==
  ASSUME NEW parts, NEW f, Listing(parts, f), NEW n \in 0 .. Len(parts)
  PROVE  f[n] = IF n = 0 THEN <<>> ELSE PartAdded(f[n - 1], parts[n])
PROOF BY DEF Listing

LEMMA ListingMade ==
  ASSUME NEW parts, NEW f, f = [n \in 0 .. Len(parts) |-> f[n]],
         \A n \in 0 .. Len(parts) : f[n] = IF n = 0 THEN <<>> ELSE PartAdded(f[n - 1], parts[n])
  PROVE  Listing(parts, f)
PROOF BY DEF Listing

LEMMA ListingUnique ==
  ASSUME NEW k \in Nat, NEW p, NEW q, NEW f, NEW g, Listing(p, f), Listing(q, g),
         Len(p) \in Nat, Len(q) \in Nat, k <= Len(p), k <= Len(q),
         \A n \in 1 .. k : p[n] = q[n]
  PROVE  \A n \in 0 .. k : f[n] = g[n]
PROOF
  <1> DEFINE B == {n \in 0 .. k : f[n] # g[n]}
  <1> SUFFICES ASSUME B # {} PROVE FALSE OBVIOUS
  <1>0. B \in SUBSET Nat OBVIOUS
  <1>1. PICK n \in B : \A m \in B : n <= m
    <2> HIDE DEF B
    <2>1. QED BY <1>0, LeastNat
  <1>2. n \in 0 .. Len(p) /\ n \in 0 .. Len(q) /\ n \in 0 .. k OBVIOUS
  <1>3. /\ f[n] = IF n = 0 THEN <<>> ELSE PartAdded(f[n - 1], p[n])
        /\ g[n] = IF n = 0 THEN <<>> ELSE PartAdded(g[n - 1], q[n])
    BY <1>2, ListingAt
  <1>4. n # 0 BY <1>1, <1>3
  <1>5. n - 1 \in 0 .. k /\ ~(n <= n - 1) /\ n \in 1 .. k BY <1>2, <1>4
  <1>6. f[n - 1] = g[n - 1] BY <1>1, <1>5
  <1>7. p[n] = q[n] BY <1>5
  <1>8. f[n] = g[n] BY <1>3, <1>4, <1>6, <1>7
  <1>9. QED BY <1>1, <1>8

LEMMA ListingExists ==
  ASSUME NEW p \in Bodies(UrlSigns)
  PROVE  \E f : Listing(p, f)
PROOF
  <1> DEFINE T == {s \in Bodies(UrlSigns) : ~ \E f : Listing(s, f)}
  <1> SUFFICES ASSUME T # {} PROVE FALSE OBVIOUS
  <1>1. <<>> \notin T
    <2> DEFINE f == [n \in 0 .. 0 |-> <<>>]
    <2>1. \A n \in 0 .. 0 : n = 0 OBVIOUS
    <2>2. Len(<<>>) = 0 OBVIOUS
    <2>3. f = [n \in 0 .. Len(<<>>) |-> f[n]] BY <2>2
    <2>4. \A n \in 0 .. Len(<<>>) : f[n] = IF n = 0 THEN <<>> ELSE PartAdded(f[n - 1], <<>>[n])
      BY <2>1, <2>2
    <2> HIDE DEF f
    <2>5. Listing(<<>>, f) BY <2>3, <2>4, ListingMade
    <2>6. QED BY <2>5
  <1>2. PICK s \in Bodies(UrlSigns), x \in Seq(UrlSigns) : s \notin T /\ WithLast(s, x) \in T
    <2>1. T \in SUBSET Bodies(UrlSigns) OBVIOUS
    <2> HIDE DEF T
    <2>2. QED BY <1>1, <2>1, LeastSnoc
  <1>3. PICK f : Listing(s, f) BY <1>2
  <1> DEFINE k == Len(s)
             t == WithLast(s, x)
             g == [n \in 0 .. k + 1 |-> IF n = k + 1 THEN PartAdded(f[k], x) ELSE f[n]]
  <1>4. k \in Nat /\ Len(t) = k + 1 /\ t[k + 1] = x /\ \A n \in 1 .. k : t[n] = s[n]
    BY SnocIs, SnocAt DEF Bodies
  <1> HIDE DEF k, t
  <1>5. k \in 0 .. k /\ k + 1 # 0 /\ (k + 1) - 1 = k /\ k # k + 1 BY <1>4
  <1>6. \A n \in 0 .. k : f[n] = IF n = 0 THEN <<>> ELSE PartAdded(f[n - 1], s[n])
    BY <1>3, ListingAt DEF k
  <1>7. ASSUME NEW n \in 0 .. k + 1
        PROVE  g[n] = IF n = 0 THEN <<>> ELSE PartAdded(g[n - 1], t[n])
    <2>1. CASE n = k + 1
      <3>1. g[n] = PartAdded(f[k], x) BY <2>1
      <3>2. k \in 0 .. k + 1 BY <1>4
      <3>3. g[k] = f[k] BY <1>5, <3>2
      <3>4. n # 0 /\ n - 1 = k /\ t[n] = x BY <1>4, <1>5, <2>1
      <3> HIDE DEF g
      <3>5. QED BY <3>1, <3>3, <3>4
    <2>2. CASE n = 0
      <3>1. n # k + 1 /\ n \in 0 .. k BY <1>4, <1>5, <2>2
      <3>2. g[n] = f[n] BY <3>1
      <3>3. QED BY <1>6, <2>2, <3>1, <3>2
    <2>3. CASE n # k + 1 /\ n # 0
      <3>1. n \in 1 .. k /\ n \in 0 .. k /\ n - 1 \in 0 .. k + 1 /\ n - 1 # k + 1 BY <1>4, <2>3
      <3>2. g[n] = f[n] /\ g[n - 1] = f[n - 1] BY <2>3, <3>1
      <3>3. t[n] = s[n] BY <1>4, <3>1
      <3> HIDE DEF g
      <3>4. QED BY <1>6, <2>3, <3>1, <3>2, <3>3
    <2>4. QED BY <2>1, <2>2, <2>3
  <1>8. g = [n \in 0 .. Len(t) |-> g[n]] BY <1>4
  <1> HIDE DEF g
  <1>9. \A n \in 0 .. Len(t) : g[n] = IF n = 0 THEN <<>> ELSE PartAdded(g[n - 1], t[n])
    BY <1>4, <1>7
  <1>10. Listing(t, g) BY <1>8, <1>9, ListingMade
  <1>11. QED BY <1>2, <1>10 DEF t

LEMMA ItemsOfIs ==
  ASSUME NEW p \in Bodies(UrlSigns)
  PROVE  \E f : Listing(p, f) /\ ItemsOf(p) = f[Len(p)]
PROOF
  <1> DEFINE g == CHOOSE f : Listing(p, f)
  <1>1. Listing(p, g) BY ListingExists
  <1>2. ItemsOf(p) = g[Len(p)] BY DEF ItemsOf, Listing
  <1> HIDE DEF g
  <1>3. QED BY <1>1, <1>2

LEMMA ItemsOfNone == ItemsOf(<<>>) = <<>>
PROOF
  <1>1. <<>> \in Bodies(UrlSigns) BY DEF Bodies
  <1>2. PICK f : Listing(<<>>, f) /\ ItemsOf(<<>>) = f[Len(<<>>)] BY <1>1, ItemsOfIs
  <1>3. Len(<<>>) = 0 /\ 0 \in 0 .. 0 OBVIOUS
  <1>4. f[0] = <<>> BY <1>2, <1>3, ListingAt
  <1>5. QED BY <1>2, <1>3, <1>4

LEMMA ItemsOfSnoc ==
  ASSUME NEW p \in Bodies(UrlSigns), NEW x \in Seq(UrlSigns)
  PROVE  ItemsOf(WithLast(p, x)) = PartAdded(ItemsOf(p), x)
PROOF
  <1> DEFINE k == Len(p)
             t == WithLast(p, x)
  <1>1. /\ t \in Bodies(UrlSigns) /\ k \in Nat /\ Len(t) = k + 1 /\ t[k + 1] = x
        /\ \A n \in 1 .. k : t[n] = p[n]
    BY SnocIs, SnocAt DEF Bodies
  <1> HIDE DEF t
  <1>2. PICK f : Listing(p, f) /\ ItemsOf(p) = f[k] BY ItemsOfIs
  <1>3. PICK g : Listing(t, g) /\ ItemsOf(t) = g[k + 1] BY <1>1, ItemsOfIs
  <1> HIDE DEF k
  <1>4. k + 1 \in 0 .. Len(t) /\ k + 1 # 0 /\ (k + 1) - 1 = k BY <1>1
  <1>5. g[k + 1] = PartAdded(g[k], x)
    <2>1. g[k + 1] = IF k + 1 = 0 THEN <<>> ELSE PartAdded(g[(k + 1) - 1], t[k + 1])
      BY <1>3, <1>4, ListingAt
    <2>2. QED BY <1>1, <1>4, <2>1
  <1>6. f[k] = g[k]
    <2>1. Len(p) \in Nat /\ Len(t) \in Nat /\ k <= Len(p) /\ k <= Len(t) BY <1>1 DEF k
    <2>2. \A n \in 1 .. k : p[n] = t[n] BY <1>1
    <2>3. \A n \in 0 .. k : f[n] = g[n] BY <1>1, <1>2, <1>3, <2>1, <2>2, ListingUnique
    <2>4. k \in 0 .. k BY <1>1
    <2>5. QED BY <2>3, <2>4
  <1>7. QED BY <1>2, <1>3, <1>5, <1>6 DEF t

-----------------------------------------------------------------------------
(* What the parts of a query say is what the list made of them holds.       *)

KeyOfPart(part) == IF Found(part, "=") = 0 THEN Decoded(part) ELSE Decoded(NamePart(part))

AllValid(parts) == \A n \in 1 .. Len(parts) : Valid(parts[n])

Agrees(parts) ==
  /\ ItemsOf(parts) \in ItemLists /\ FirstOnly(ItemsOf(parts))
  /\ KeysOf(ItemsOf(parts)) = {KeyOfPart(parts[n]) : n \in 1 .. Len(parts)}
  /\ AllValid(parts) =>
       \A name \in PlainTexts \ {<<>>} : Holds(ItemsOf(parts), name) = ReadFrom(parts, name)

LEMMA ValidName ==
  ASSUME NEW part \in Seq(UrlSigns), Found(part, "=") # 0, Valid(part)
  PROVE  Valid(NamePart(part))
PROOF
  <1> DEFINE i == Found(part, "=")
  <1>1. i \in 0 .. Len(part) BY FoundIs, FirstIs
  <1>2. NamePart(part) = SubSeq(part, 1, i - 1) BY DEF NamePart
  <1> HIDE DEF i
  <1>3. \A n \in 1 .. i - 1 : SubSeq(part, 1, i - 1)[n] = part[n] /\ n \in DOMAIN part BY <1>1
  <1>4. DOMAIN SubSeq(part, 1, i - 1) = 1 .. i - 1 BY <1>1
  <1>5. QED BY <1>2, <1>3, <1>4 DEF Valid

LEMMA SaysDecoded ==
  ASSUME NEW part \in Seq(UrlSigns), Valid(part), NEW name \in PlainTexts \ {<<>>}
  PROVE  Says(part, name) =
           IF Found(part, "=") # 0 /\ Decoded(NamePart(part)) = name
           THEN Decoded(ValuePart(part)) ELSE Unset
PROOF
  <1>1. name \in Seq(Signs) /\ AsWritten(name) /\ name # <<>> BY DEF PlainTexts
  <1>2. name \in Seq(UrlSigns) BY <1>1 DEF UrlSigns
  <1>3. Found(part, "=") \in Nat BY PartIs
  <1>4. CASE Found(part, "=") = 0 BY <1>4 DEF Says
  <1>5. CASE Found(part, "=") # 0
    <2> DEFINE u == NamePart(part)
    <2>1. u \in Seq(UrlSigns) /\ Len(u) = Found(part, "=") - 1 /\ Valid(u)
      BY <1>5, PartIs, ValidName
    <2>2. u = name <=> Decoded(u) = name BY <1>1, <2>1, PlainRead
    <2>3. u = name => Len(u) # 0 BY <1>1
    <2>4. u = name => Found(part, "=") > 1 BY <1>3, <1>5, <2>1, <2>3
    <2> HIDE DEF u
    <2>5. QED BY <1>5, <2>2, <2>4 DEF Says, u
  <1>6. QED BY <1>4, <1>5

LEMMA AgreesSnoc ==
  ASSUME NEW p \in Bodies(UrlSigns), NEW x \in Seq(UrlSigns), Agrees(p)
  PROVE  Agrees(WithLast(p, x))
PROOF
  <1> DEFINE k == Len(p)
             t == WithLast(p, x)
             i == ItemsOf(p)
             j == ItemsOf(t)
             keys(q) == {KeyOfPart(q[n]) : n \in 1 .. Len(q)}
  <1>1. /\ t \in Bodies(UrlSigns) /\ k \in Nat /\ Len(t) = k + 1 /\ t[k + 1] = x
        /\ \A n \in 1 .. k : t[n] = p[n]
    BY SnocIs, SnocAt DEF Bodies
  <1>2. j = PartAdded(i, x) BY ItemsOfSnoc
  <1>3. \A name : ReadFrom(t, name) = IF ReadFrom(p, name) # Unset THEN ReadFrom(p, name) ELSE Says(x, name)
    BY ReadsSnoc
  <1>4. /\ i \in ItemLists /\ FirstOnly(i) /\ KeysOf(i) = keys(p)
        /\ AllValid(p) => \A name \in PlainTexts \ {<<>>} : Holds(i, name) = ReadFrom(p, name)
    BY DEF Agrees
  <1> HIDE DEF t, i, j, k
  <1>5. AllValid(t) => AllValid(p) /\ Valid(x)
    <2>1. k + 1 \in 1 .. k + 1 /\ \A n \in 1 .. k : n \in 1 .. k + 1 BY <1>1
    <2>2. QED BY <1>1, <2>1 DEF AllValid, k
  <1>6. keys(t) = keys(p) \cup {KeyOfPart(x)}
    <2>1. k + 1 \in 1 .. k + 1 /\ \A n \in 1 .. k : n \in 1 .. k + 1 BY <1>1
    <2>2. \A n \in 1 .. k + 1 : n \in 1 .. k \/ n = k + 1 BY <1>1
    <2>3. keys(t) = {KeyOfPart(t[n]) : n \in 1 .. k + 1} BY <1>1
    <2>4. keys(p) = {KeyOfPart(p[n]) : n \in 1 .. k} BY DEF k
    <2> HIDE DEF keys
    <2>5. QED BY <1>1, <2>1, <2>2, <2>3, <2>4
  <1> SUFFICES /\ j \in ItemLists /\ FirstOnly(j) /\ KeysOf(j) = KeysOf(i) \cup {KeyOfPart(x)}
               /\ Valid(x) => \A name \in PlainTexts \ {<<>>} :
                    Holds(j, name) = IF Holds(i, name) # Unset THEN Holds(i, name) ELSE Says(x, name)
    <2>1. keys(t) = {KeyOfPart(t[n]) : n \in 1 .. Len(t)} OBVIOUS
    <2> HIDE DEF keys
    <2>2. KeysOf(j) = keys(t) BY <1>4, <1>6
    <2>3. ASSUME AllValid(t), NEW name \in PlainTexts \ {<<>>} PROVE Holds(j, name) = ReadFrom(t, name)
      BY <1>3, <1>4, <1>5, <2>3
    <2>4. Agrees(t) BY <2>1, <2>2, <2>3 DEF Agrees, j
    <2>5. QED BY <2>4 DEF t
  <1>7. CASE Found(x, "=") = 0
    <2> DEFINE e == [key |-> Decoded(x), value |-> Unset]
    <2>1. e.key = Decoded(x) /\ e.value = Unset OBVIOUS
    <2>2. Decoded(x) \in Seq(Signs) BY DecodedIs
    <2>3. e \in ItemForms BY <2>2 DEF ItemForms
    <2>4. j = WithLast(i, e) BY <1>2, <1>7 DEF PartAdded, WithLast
    <2>5. \A name : Tells(e, name) = Unset BY <2>1 DEF Tells
    <2> HIDE DEF e
    <2>6. \A name : Holds(j, name) = Holds(i, name)
      <3>1. \A name : Holds(j, name) = IF Holds(i, name) # Unset THEN Holds(i, name) ELSE Tells(e, name)
        BY <1>4, <2>3, <2>4, HoldsSnoc
      <3>2. QED BY <2>5, <3>1
    <2>7. \A name : Says(x, name) = Unset BY <1>7 DEF Says
    <2>8. /\ j \in ItemLists /\ Len(j) = Len(i) + 1 /\ j[Len(i) + 1] = e
          /\ \A n \in 1 .. Len(i) : j[n] = i[n]
          /\ Len(i) \in Nat
      BY <1>4, <2>3, <2>4, ItemsAre
    <2>9. \A n \in 1 .. Len(j) : n \in 1 .. Len(i) \/ n = Len(i) + 1 BY <2>8
    <2>10. Len(i) + 1 \in 1 .. Len(j) /\ \A n \in 1 .. Len(i) : n \in 1 .. Len(j) BY <2>8
    <2>11. KeysOf(j) = KeysOf(i) \cup {KeyOfPart(x)}
      <3>1. KeyOfPart(x) = e.key BY <1>7, <2>1 DEF KeyOfPart
      <3>2. QED BY <2>8, <2>9, <2>10, <3>1 DEF KeysOf
    <2>12. FirstOnly(j)
      <3> SUFFICES ASSUME NEW m \in 1 .. Len(j), NEW n \in 1 .. Len(j), m < n, j[m].key = j[n].key
                   PROVE  j[n].value = Unset
        BY DEF FirstOnly
      <3>1. m \in 1 .. Len(i) BY <2>8
      <3>2. CASE n \in 1 .. Len(i)
        <4>1. j[n] = i[n] /\ j[m] = i[m] BY <2>8, <3>1, <3>2
        <4>2. QED BY <1>4, <3>1, <3>2, <4>1 DEF FirstOnly
      <3>3. CASE n = Len(i) + 1 BY <2>1, <2>8, <3>3 DEF e
      <3>4. QED BY <2>9, <3>2, <3>3
    <2>13. QED BY <2>6, <2>7, <2>8, <2>11, <2>12
  <1>8. CASE Found(x, "=") # 0
    <2> DEFINE name == Decoded(NamePart(x))
               value == Decoded(ValuePart(x))
    <2>1. name \in Seq(Signs) /\ value \in Seq(Signs) BY <1>8, PartIs, DecodedIs
    <2>2. j = AddTo(i, name, value) BY <1>2, <1>8 DEF PartAdded
    <2>3. KeyOfPart(x) = name BY <1>8 DEF KeyOfPart
    <2>4. Valid(x) => \A other \in PlainTexts \ {<<>>} :
            Says(x, other) = IF name = other THEN value ELSE Unset
      BY <1>8, SaysDecoded
    <2> HIDE DEF name, value
    <2>5. /\ j \in ItemLists /\ FirstOnly(j)
          /\ Holds(j, name) = IF Holds(i, name) # Unset THEN Holds(i, name) ELSE value
          /\ \A other : other # name => Holds(j, other) = Holds(i, other)
          /\ KeysOf(j) = KeysOf(i) \cup {name}
      BY <1>4, <2>1, <2>2, AddIs
    <2>6. ASSUME Valid(x), NEW other \in PlainTexts \ {<<>>}
          PROVE  Holds(j, other) = IF Holds(i, other) # Unset THEN Holds(i, other) ELSE Says(x, other)
      <3>1. CASE other = name BY <2>4, <2>5, <2>6, <3>1
      <3>2. CASE other # name BY <2>4, <2>5, <2>6, <3>2
      <3>3. QED BY <3>1, <3>2
    <2>7. QED BY <2>3, <2>5, <2>6
  <1>9. QED BY <1>7, <1>8

LEMMA ItemsAgree ==
  ASSUME NEW p \in Bodies(UrlSigns)
  PROVE  Agrees(p)
PROOF
  <1> DEFINE T == {s \in Bodies(UrlSigns) : ~Agrees(s)}
  <1> SUFFICES ASSUME T # {} PROVE FALSE OBVIOUS
  <1>1. <<>> \notin T
    <2>1. ItemsOf(<<>>) \in ItemLists BY ItemsOfNone, ItemsAre
    <2>2. \A n \in 1 .. Len(<<>>) : FALSE OBVIOUS
    <2>3. FirstOnly(ItemsOf(<<>>)) BY <2>2, ItemsOfNone DEF FirstOnly
    <2>4. KeysOf(ItemsOf(<<>>)) = {} BY <2>2, ItemsOfNone DEF KeysOf
    <2>5. {KeyOfPart(<<>>[n]) : n \in 1 .. Len(<<>>)} = {} BY <2>2
    <2>6. \A name : Holds(ItemsOf(<<>>), name) = ReadFrom(<<>>, name)
      BY ItemsOfNone, HoldsNone, ReadsFew
    <2>7. Agrees(<<>>) BY <2>1, <2>3, <2>4, <2>5, <2>6 DEF Agrees
    <2>8. QED BY <2>7
  <1>2. T \in SUBSET Bodies(UrlSigns) OBVIOUS
  <1>3. PICK s \in Bodies(UrlSigns), x \in Seq(UrlSigns) : s \notin T /\ WithLast(s, x) \in T
    <2> HIDE DEF T
    <2>1. QED BY <1>1, <1>2, LeastSnoc
  <1>4. Agrees(s) BY <1>3
  <1>5. Agrees(WithLast(s, x)) BY <1>4, AgreesSnoc
  <1>6. QED BY <1>3, <1>5

-----------------------------------------------------------------------------
(* Query.toString: what is written reads as the list holds.                 *)

PlainItems == {e \in ItemForms : e.key \in PlainTexts}

PlainLists == Seq(PlainItems)

Amp == <<"&">>

LEMMA PlainIs ==
  ASSUME NEW key \in PlainTexts
  PROVE  /\ key \in Seq(Signs) /\ AsWritten(key) /\ key \in Seq(UrlSigns)
         /\ Count("&", key) = 0 /\ Count("=", key) = 0 /\ Decoded(key) = key
PROOF
  <1>1. key \in Seq(Signs) /\ AsWritten(key) BY DEF PlainTexts
  <1>2. key \in Seq(UrlSigns) BY <1>1 DEF UrlSigns
  <1>3. "&" \in DOMAIN Escapes /\ "=" \in DOMAIN Escapes BY SignsAre
  <1>4. DOMAIN key = 1 .. Len(key) BY <1>1
  <1>5. \A n \in 1 .. Len(key) : key[n] # "&" BY <1>1, <1>3, <1>4 DEF AsWritten
  <1>6. \A n \in 1 .. Len(key) : key[n] # "=" BY <1>1, <1>3, <1>4 DEF AsWritten
  <1>7. Count("&", key) = 0 BY <1>1, <1>5, CountIs
  <1>8. Count("=", key) = 0 BY <1>1, <1>6, CountIs
  <1>9. QED BY <1>1, <1>2, <1>7, <1>8, PlainRead

LEMMA BareIs ==
  ASSUME NEW key \in PlainTexts
  PROVE  /\ KeyOfPart(key) = key
         /\ \A name : Says(key, name) = Unset
PROOF
  <1>1. key \in Seq(UrlSigns) /\ Count("=", key) = 0 /\ Decoded(key) = key BY PlainIs
  <1>2. Found(key, "=") = 0 BY <1>1, PartIs
  <1>3. QED BY <1>1, <1>2 DEF KeyOfPart, Says

LEMMA EqualsSign == "=" \in UrlSigns /\ "&" \in UrlSigns /\ "?" \in UrlSigns
PROOF BY SignsAre DEF UrlSigns

LEMMA PairIs ==
  ASSUME NEW key \in PlainTexts, NEW value \in Seq(Signs),
         NEW part, part = Parted(key, "=", Encoded(value))
  PROVE  /\ part \in Seq(UrlSigns) /\ Count("&", part) = 0
         /\ KeyOfPart(part) = key
         /\ \A name : name # <<>> => Says(part, name) = IF key = name THEN value ELSE Unset
PROOF
  <1> DEFINE raw == Encoded(value)
  <1>1. /\ key \in Seq(UrlSigns) /\ Count("&", key) = 0 /\ Count("=", key) = 0
        /\ Decoded(key) = key
    BY PlainIs
  <1>2. raw \in Seq(UrlSigns) /\ Count("&", raw) = 0 /\ Decoded(raw) = value BY EncodedIs
  <1>3. "=" \in UrlSigns BY EqualsSign
  <1> HIDE DEF raw
  <1>4. part = Parted(key, "=", raw) BY DEF raw
  <1>5. /\ part \in Seq(UrlSigns) /\ FirstAt("=", part) = Len(key) + 1 /\ Len(key) \in Nat
        /\ SubSeq(part, 1, Len(key)) = key /\ SubSeq(part, Len(key) + 2, Len(part)) = raw
    <2> DEFINE c == "="
    <2>1. c \in UrlSigns /\ Count(c, key) = 0 /\ part = Parted(key, c, raw) BY <1>1, <1>3, <1>4
    <2> HIDE DEF c
    <2>21. key \in Seq(UrlSigns) /\ raw \in Seq(UrlSigns) BY <1>1, <1>2
    <2>22. part \in Seq(UrlSigns) BY <2>1, <2>21, FirstPut
    <2>23. FirstAt(c, part) = Len(key) + 1 /\ Len(key) \in Nat BY <2>1, <2>21, FirstPut
    <2>24. SubSeq(part, 1, Len(key)) = key BY <2>1, <2>21, FirstPut
    <2>25. SubSeq(part, Len(key) + 2, Len(part)) = raw BY <2>1, <2>21, FirstPut, SMTT(60)
    <2>3. QED BY <2>22, <2>23, <2>24, <2>25 DEF c
  <1>6. Count("&", part) = 0
    <2> DEFINE eq == <<"=">>
    <2>1. eq \in Seq(UrlSigns) BY <1>3
    <2>2. Count("&", eq) = 0 BY CountOne
    <2>3. part = (key \o eq) \o raw BY <1>4 DEF Parted
    <2> HIDE DEF eq
    <2>4. key \o eq \in Seq(UrlSigns) BY <1>1, <2>1, Concat2
    <2>5. Count("&", key \o eq) = Count("&", key) + Count("&", eq) BY <1>1, <2>1, CountConcat
    <2>6. Count("&", part) = Count("&", key \o eq) + Count("&", raw)
      BY <1>2, <2>3, <2>4, CountConcat
    <2>7. QED BY <1>1, <1>2, <2>2, <2>5, <2>6
  <1>7. Found(part, "=") = Len(key) + 1 BY <1>5, FoundIs
  <1>8. /\ Found(part, "=") # 0 /\ Found(part, "=") - 1 = Len(key)
        /\ Found(part, "=") + 1 = Len(key) + 2
    BY <1>5, <1>7
  <1>9. NamePart(part) = key BY <1>5, <1>8 DEF NamePart
  <1>10. ValuePart(part) = raw BY <1>5, <1>8 DEF ValuePart
  <1>11. KeyOfPart(part) = key BY <1>1, <1>8, <1>9 DEF KeyOfPart
  <1>12. ASSUME NEW name, name # <<>>
         PROVE  Says(part, name) = IF key = name THEN value ELSE Unset
    <2>1. CASE key = name
      <3>1. Len(key) # 0 BY <1>1, <1>12, <2>1
      <3>2. Found(part, "=") > 1 BY <1>5, <1>7, <3>1
      <3>3. QED BY <1>2, <1>9, <1>10, <2>1, <3>2 DEF Says
    <2>2. CASE key # name BY <1>9, <2>2 DEF Says
    <2>3. QED BY <2>1, <2>2
  <1>13. QED BY <1>5, <1>6, <1>11, <1>12

(* What a sequence of parts tells of a list.                                *)
Tale(parts, items) ==
  /\ parts \in Bodies(UrlSigns) /\ NoneHas("&", parts)
  /\ \A name : name # <<>> => ReadFrom(parts, name) = Holds(items, name)
  /\ {KeyOfPart(parts[n]) : n \in 1 .. Len(parts)} \subseteq KeysOf(items)

LEMMA ReadsFirst ==
  ASSUME NEW p \in Bodies(UrlSigns), NEW name
  PROVE  /\ (\A n \in 1 .. Len(p) : Says(p[n], name) = Unset) => ReadFrom(p, name) = Unset
         /\ 1 \in 1 .. Len(p) /\ Says(p[1], name) # Unset => ReadFrom(p, name) = Says(p[1], name)
PROOF
  <1> DEFINE k == Len(p)
             ws == [n \in 1 .. k |-> Says(p[n], name)]
  <1>1. k \in Nat BY DEF Bodies
  <1>2. DOMAIN ws = 1 .. k /\ \A n \in 1 .. k : ws[n] = Says(p[n], name) OBVIOUS
  <1>3. ReadFrom(p, name) = FirstSaid(ws) BY DEF ReadFrom
  <1> HIDE DEF k, ws
  <1>4. (\A n \in 1 .. k : ws[n] = Unset) => FirstSaid(ws) = Unset BY <1>1, <1>2, SaidIs
  <1>5. \A n \in 1 .. k : ws[n] # Unset /\ (\A m \in 1 .. k : m < n => ws[m] = Unset)
          => FirstSaid(ws) = ws[n]
    BY <1>1, <1>2, SaidIs
  <1>6. \A m \in 1 .. k : ~(m < 1) BY <1>1
  <1>7. 1 \in 1 .. k /\ ws[1] # Unset => FirstSaid(ws) = ws[1] BY <1>5, <1>6
  <1>8. QED BY <1>2, <1>3, <1>4, <1>7 DEF k

LEMMA PairsAre ==
  ASSUME NEW e \in PlainItems
  PROVE  /\ Pairs(e) \in Bodies(UrlSigns) /\ NoneHas("&", Pairs(e))
         /\ \A name : name # <<>> => ReadFrom(Pairs(e), name) = Tells(e, name)
         /\ \A n \in 1 .. Len(Pairs(e)) : KeyOfPart(Pairs(e)[n]) = e.key
PROOF
  <1> DEFINE key == e.key
             v == e.value
             p == Pairs(e)
  <1>1. e \in ItemForms /\ key \in PlainTexts BY DEF PlainItems
  <1>2. v \in {Unset} \cup Several BY <1>1, ItemIs
  <1>3. key \in Seq(UrlSigns) /\ Count("&", key) = 0 BY <1>1, PlainIs
  <1>4. CASE v = Unset
    <2>1. p = <<key>> BY <1>4 DEF Pairs
    <2>2. <<key>> \in Bodies(UrlSigns) BY <1>3 DEF Bodies
    <2>3. Len(p) = 1 /\ p[1] = key /\ \A n \in 1 .. 1 : n = 1 BY <2>1
    <2>4. NoneHas("&", p) BY <1>3, <2>3 DEF NoneHas
    <2>5. \A name : Tells(e, name) = Unset BY <1>4 DEF Tells
    <2> HIDE DEF p, key, v
    <2>6. \A name : ReadFrom(p, name) = Unset
      <3>1. \A name : ReadFrom(<<key>>, name) = Says(key, name) BY ReadsFew
      <3>2. \A name : Says(key, name) = Unset BY <1>1, BareIs
      <3>3. QED BY <2>1, <3>1, <3>2
    <2>7. \A n \in 1 .. Len(p) : KeyOfPart(p[n]) = key BY <1>1, <2>3, BareIs
    <2>8. QED BY <2>1, <2>2, <2>4, <2>5, <2>6, <2>7 DEF p, key
  <1>5. CASE v # Unset
    <2>1. v \in Seq(Seq(Signs)) /\ v # <<>> BY <1>2, <1>5 DEF Several
    <2> DEFINE k == Len(v)
               f == [n \in 1 .. k |-> Parted(key, "=", Encoded(v[n]))]
    <2>2. k \in Nat /\ k # 0 /\ DOMAIN v = 1 .. k BY <2>1
    <2>3. p = f BY <1>5, <2>2 DEF Pairs, Parted
    <2>4. \A n \in 1 .. k : v[n] \in Seq(Signs) BY <2>1
    <2>5. \A n \in 1 .. k : f[n] = Parted(key, "=", Encoded(v[n])) OBVIOUS
    <2>6. ASSUME NEW n \in 1 .. k
          PROVE  /\ f[n] \in Seq(UrlSigns) /\ Count("&", f[n]) = 0 /\ KeyOfPart(f[n]) = key
                 /\ \A name : name # <<>> => Says(f[n], name) = IF key = name THEN v[n] ELSE Unset
      <3> HIDE DEF f, key, v
      <3>1. QED BY <1>1, <2>4, <2>5, PairIs
    <2>7. f \in [1 .. k -> Seq(UrlSigns)] BY <2>6
    <2> HIDE DEF f, k, p, key, v
    <2>8. f \in Bodies(UrlSigns) /\ Len(f) = k BY <2>2, <2>7, FunctionIsSeq DEF Bodies
    <2>9. NoneHas("&", f) BY <2>6, <2>8 DEF NoneHas
    <2>10. \A n \in 1 .. Len(f) : KeyOfPart(f[n]) = key BY <2>6, <2>8
    <2>11. ASSUME NEW name, name # <<>> PROVE ReadFrom(f, name) = Tells(e, name)
      <3>1. CASE key = name
        <4>1. 1 \in 1 .. k BY <2>2
        <4>2. Says(f[1], name) = v[1] BY <2>6, <2>11, <3>1, <4>1
        <4>3. v[1] # Unset BY <2>4, <4>1, UnsetIs
        <4>4. ReadFrom(f, name) = v[1] BY <2>8, <4>1, <4>2, <4>3, ReadsFirst
        <4>5. Tells(e, name) = v[1] BY <1>5, <3>1 DEF Tells, key, v
        <4>6. QED BY <4>4, <4>5
      <3>2. CASE key # name
        <4>1. \A n \in 1 .. Len(f) : Says(f[n], name) = Unset BY <2>6, <2>8, <2>11, <3>2
        <4>2. ReadFrom(f, name) = Unset BY <2>8, <4>1, ReadsFirst
        <4>3. Tells(e, name) = Unset BY <3>2 DEF Tells, key
        <4>4. QED BY <4>2, <4>3
      <3>3. QED BY <3>1, <3>2
    <2>12. QED BY <2>3, <2>8, <2>9, <2>10, <2>11 DEF p, key
  <1>6. QED BY <1>4, <1>5

PairsOf == [e \in PlainItems |-> Pairs(e)]

PartsMade(items) == FlattenSeq(Image(PairsOf, items))

LEMMA PartsMadeSnoc ==
  /\ PartsMade(<<>>) = <<>>
  /\ \A items \in PlainLists : \A e \in PlainItems :
       PartsMade(WithLast(items, e)) = PartsMade(items) \o Pairs(e)
PROOF
  <1> DEFINE T == Bodies(UrlSigns)
  <1>1. PairsOf \in [PlainItems -> T] BY PairsAre DEF PairsOf
  <1>2. PartsMade(<<>>) = <<>>
    <2>1. <<>> \in Seq(PlainItems) OBVIOUS
    <2> HIDE DEF T
    <2>2. Image(PairsOf, <<>>) = <<>> BY <1>1, <2>1, ImageTyped
    <2>3. QED BY <2>2, FlattenNone DEF PartsMade
  <1>3. ASSUME NEW items \in PlainLists, NEW e \in PlainItems
        PROVE  PartsMade(WithLast(items, e)) = PartsMade(items) \o Pairs(e)
    <2>1. PairsOf[e] = Pairs(e) BY DEF PairsOf
    <2>2. Pairs(e) \in Seq(Seq(UrlSigns)) BY PairsAre DEF Bodies
    <2> DEFINE S == Seq(UrlSigns)
               ss == Image(PairsOf, items)
    <2> HIDE DEF T
    <2>3. Image(PairsOf, WithLast(items, e)) = WithLast(ss, PairsOf[e])
      BY <1>1, ImageSnoc DEF PlainLists
    <2>4. ss \in Seq(T) BY <1>1, ImageTyped DEF PlainLists
    <2>5. ss \in Seq(Seq(S)) BY <2>4 DEF T, Bodies
    <2> HIDE DEF S, ss
    <2>6. Pairs(e) \in Seq(S) BY <2>2 DEF S
    <2>7. FlattenSeq(Append(ss, Pairs(e))) = FlattenSeq(ss) \o Pairs(e) BY <2>5, <2>6, FlattenSnoc
    <2>8. QED BY <2>1, <2>3, <2>7 DEF PartsMade, ss, WithLast
  <1>4. QED BY <1>2, <1>3

LEMMA PlainListsAre ==
  /\ \A items \in PlainLists : items \in ItemLists
  /\ \A items \in ItemLists : KeysOf(items) \subseteq PlainTexts => items \in PlainLists
PROOF
  <1>1. \A e \in PlainItems : e \in ItemForms BY DEF PlainItems
  <1>2. ASSUME NEW items \in PlainLists PROVE items \in ItemLists
    <2> HIDE DEF PlainItems, ItemForms
    <2>1. items \in Seq(PlainItems) BY DEF PlainLists
    <2>2. items \in Seq(ItemForms) BY <1>1, <2>1
    <2>3. QED BY <2>2 DEF ItemLists
  <1>3. ASSUME NEW items \in ItemLists, KeysOf(items) \subseteq PlainTexts PROVE items \in PlainLists
    <2>1. \A n \in 1 .. Len(items) : items[n] \in ItemForms /\ items[n].key \in PlainTexts
      BY <1>3, ItemsAre DEF KeysOf
    <2>2. \A n \in 1 .. Len(items) : items[n] \in PlainItems BY <2>1 DEF PlainItems
    <2>3. items \in Seq(ItemForms) BY DEF ItemLists
    <2> HIDE DEF PlainItems, ItemForms
    <2>4. items \in Seq(PlainItems) BY <2>2, <2>3
    <2>5. QED BY <2>4 DEF PlainLists
  <1>4. QED BY <1>2, <1>3

LEMMA TaleSnoc ==
  ASSUME NEW items \in PlainLists, NEW e \in PlainItems, Tale(PartsMade(items), items)
  PROVE  Tale(PartsMade(WithLast(items, e)), WithLast(items, e))
PROOF
  <1> DEFINE p == PartsMade(items)
             q == Pairs(e)
             t == WithLast(items, e)
             pq == p \o q
  <1>1. PartsMade(t) = pq BY PartsMadeSnoc
  <1>2. /\ p \in Bodies(UrlSigns) /\ NoneHas("&", p)
        /\ \A name : name # <<>> => ReadFrom(p, name) = Holds(items, name)
        /\ {KeyOfPart(p[n]) : n \in 1 .. Len(p)} \subseteq KeysOf(items)
    BY DEF Tale
  <1>3. /\ q \in Bodies(UrlSigns) /\ NoneHas("&", q)
        /\ \A name : name # <<>> => ReadFrom(q, name) = Tells(e, name)
        /\ \A n \in 1 .. Len(q) : KeyOfPart(q[n]) = e.key
    BY PairsAre
  <1>4. items \in ItemLists /\ e \in ItemForms BY PlainListsAre DEF PlainItems
  <1> HIDE DEF p, q
  <1>5. /\ pq \in Bodies(UrlSigns)
        /\ \A name : ReadFrom(pq, name) = IF ReadFrom(p, name) # Unset THEN ReadFrom(p, name) ELSE ReadFrom(q, name)
    BY <1>2, <1>3, ReadsBoth
  <1>6. /\ Len(pq) = Len(p) + Len(q) /\ Len(p) \in Nat /\ Len(q) \in Nat
        /\ \A n \in 1 .. Len(p) : pq[n] = p[n]
        /\ \A n \in 1 .. Len(q) : pq[Len(p) + n] = q[n]
    BY <1>2, <1>3, Concat2 DEF Bodies
  <1> HIDE DEF pq, t
  <1>7. ASSUME NEW n \in 1 .. Len(pq)
        PROVE  (\E m \in 1 .. Len(p) : pq[n] = p[m]) \/ (\E m \in 1 .. Len(q) : pq[n] = q[m])
    <2>1. CASE n \in 1 .. Len(p) BY <1>6, <2>1
    <2>2. CASE n \notin 1 .. Len(p)
      <3>1. n - Len(p) \in 1 .. Len(q) /\ Len(p) + (n - Len(p)) = n BY <1>6, <2>2
      <3>2. pq[n] = q[n - Len(p)] BY <1>6, <3>1
      <3>3. QED BY <3>1, <3>2
    <2>3. QED BY <2>1, <2>2
  <1>8. NoneHas("&", pq) BY <1>2, <1>3, <1>7 DEF NoneHas
  <1>9. ASSUME NEW name, name # <<>> PROVE ReadFrom(pq, name) = Holds(t, name)
    <2>1. Holds(t, name) = IF Holds(items, name) # Unset THEN Holds(items, name) ELSE Tells(e, name)
      BY <1>4, HoldsSnoc DEF t
    <2>2. QED BY <1>2, <1>3, <1>5, <1>9, <2>1
  <1>10. KeysOf(items) \subseteq KeysOf(t) /\ e.key \in KeysOf(t)
    <2>1. /\ Len(t) = Len(items) + 1 /\ t[Len(items) + 1] = e /\ Len(items) \in Nat
          /\ \A n \in 1 .. Len(items) : t[n] = items[n]
      BY <1>4, ItemsAre DEF t
    <2>2. Len(items) + 1 \in 1 .. Len(t) /\ \A n \in 1 .. Len(items) : n \in 1 .. Len(t) BY <2>1
    <2>3. QED BY <2>1, <2>2 DEF KeysOf
  <1>11. {KeyOfPart(pq[n]) : n \in 1 .. Len(pq)} \subseteq KeysOf(t)
    <2> SUFFICES ASSUME NEW n \in 1 .. Len(pq) PROVE KeyOfPart(pq[n]) \in KeysOf(t) OBVIOUS
    <2>1. CASE \E m \in 1 .. Len(p) : pq[n] = p[m]
      <3>1. PICK m \in 1 .. Len(p) : pq[n] = p[m] BY <2>1
      <3>2. KeyOfPart(p[m]) \in KeysOf(items) BY <1>2
      <3>3. QED BY <1>10, <3>1, <3>2
    <2>2. CASE \E m \in 1 .. Len(q) : pq[n] = q[m]
      <3>1. PICK m \in 1 .. Len(q) : pq[n] = q[m] BY <2>2
      <3>2. KeyOfPart(q[m]) = e.key BY <1>3
      <3>3. QED BY <1>10, <3>1, <3>2
    <2>3. QED BY <1>7, <2>1, <2>2
  <1>12. Tale(pq, t) BY <1>5, <1>8, <1>9, <1>11 DEF Tale
  <1>13. QED BY <1>1, <1>12 DEF t

LEMMA TaleAlways ==
  ASSUME NEW items \in PlainLists
  PROVE  Tale(PartsMade(items), items)
PROOF
  <1> DEFINE T == {s \in PlainLists : ~Tale(PartsMade(s), s)}
  <1> SUFFICES ASSUME T # {} PROVE FALSE OBVIOUS
  <1>1. <<>> \notin T
    <2>1. PartsMade(<<>>) = <<>> BY PartsMadeSnoc
    <2>2. <<>> \in Bodies(UrlSigns) BY DEF Bodies
    <2>3. \A n \in 1 .. Len(<<>>) : FALSE OBVIOUS
    <2>4. NoneHas("&", <<>>) BY <2>3 DEF NoneHas
    <2>5. \A name : ReadFrom(<<>>, name) = Holds(<<>>, name) BY HoldsNone, ReadsFew
    <2>6. {KeyOfPart(<<>>[n]) : n \in 1 .. Len(<<>>)} \subseteq KeysOf(<<>>) BY <2>3
    <2>7. Tale(<<>>, <<>>) BY <2>2, <2>4, <2>5, <2>6 DEF Tale
    <2>8. QED BY <2>1, <2>7
  <1>2. T \in SUBSET Seq(PlainItems) BY DEF PlainLists
  <1>3. PICK s \in Seq(PlainItems), x \in PlainItems : s \notin T /\ Append(s, x) \in T
    <2> HIDE DEF T
    <2>1. QED BY <1>1, <1>2, LeastSeq
  <1>4. s \in PlainLists /\ Tale(PartsMade(s), s) BY <1>3 DEF PlainLists
  <1>5. Tale(PartsMade(WithLast(s, x)), WithLast(s, x)) BY <1>4, TaleSnoc
  <1>6. QED BY <1>3, <1>5 DEF WithLast

-----------------------------------------------------------------------------
(* A URL that is written: its parts tell of the list.                       *)

LEMMA UrlCut ==
  ASSUME NEW text \in Seq(UrlSigns)
  PROVE  /\ Prefix(text) \in Seq(UrlSigns) /\ Count("?", Prefix(text)) = 0
         /\ Parts(text) \in Bodies(UrlSigns)
PROOF
  <1> DEFINE i == Found(text, "?")
  <1>0. i = FirstAt("?", text) BY FoundIs
  <1>1. i \in 0 .. Len(text) /\ (i = 0 <=> Count("?", text) = 0) BY <1>0, FirstIs
  <1>2. CASE i = 0
    <2>1. Prefix(text) = text /\ Parts(text) = <<>> BY <1>2 DEF Prefix, Parts
    <2>2. <<>> \in Bodies(UrlSigns) BY DEF Bodies
    <2>3. QED BY <1>1, <1>2, <2>1, <2>2
  <1>3. CASE i # 0
    <2> DEFINE c == "?"
               u == SubSeq(text, 1, i - 1)
               v == SubSeq(text, i + 1, Len(text))
    <2>1. c \in UrlSigns /\ Count(c, text) # 0 /\ i = FirstAt(c, text)
      BY <1>0, <1>1, <1>3, EqualsSign
    <2>2. Prefix(text) = u /\ Parts(text) = Split(v, "&") BY <1>3 DEF Prefix, Parts
    <2> HIDE DEF c, i
    <2>3. u \in Seq(UrlSigns) /\ v \in Seq(UrlSigns) /\ Count(c, u) = 0 BY <2>1, FirstCut
    <2> HIDE DEF u, v
    <2>4. Split(v, "&") \in Seq(Seq(UrlSigns)) BY <2>3, EqualsSign, SplitTyped
    <2>5. QED BY <2>2, <2>3, <2>4 DEF c, Bodies
  <1>4. QED BY <1>2, <1>3

LEMMA UrlPut ==
  ASSUME NEW prefix \in Seq(UrlSigns), Count("?", prefix) = 0, NEW body \in Seq(UrlSigns),
         NEW text, text = Parted(prefix, "?", body)
  PROVE  text \in Seq(UrlSigns) /\ Parts(text) = Split(body, "&")
PROOF
  <1> DEFINE c == "?"
  <1>1. c \in UrlSigns /\ Count(c, prefix) = 0 /\ text = Parted(prefix, c, body) BY EqualsSign
  <1> HIDE DEF c
  <1>2. text \in Seq(UrlSigns) BY <1>1, FirstPut
  <1>3. FirstAt(c, text) = Len(prefix) + 1 /\ Len(prefix) \in Nat BY <1>1, FirstPut
  <1>4. SubSeq(text, Len(prefix) + 2, Len(text)) = body BY <1>1, FirstPut, SMTT(60)
  <1>5. Found(text, c) = Len(prefix) + 1 BY <1>2, <1>3, FoundIs
  <1>6. Found(text, c) # 0 /\ Found(text, c) + 1 = Len(prefix) + 2 BY <1>3, <1>5
  <1>7. Parts(text) = Split(SubSeq(text, Found(text, c) + 1, Len(text)), "&")
    BY <1>6 DEF Parts, c
  <1>8. QED BY <1>2, <1>4, <1>6, <1>7

LEMMA NothingSaid ==
  ASSUME NEW p \in Bodies(UrlSigns)
  PROVE  ReadFrom(p, <<>>) = Unset
PROOF
  <1>1. ASSUME NEW n \in 1 .. Len(p) PROVE Says(p[n], <<>>) = Unset
    <2>1. p[n] \in Seq(UrlSigns) BY DEF Bodies
    <2> DEFINE x == p[n]
    <2> HIDE DEF x
    <2>2. x \in Seq(UrlSigns) BY <2>1 DEF x
    <2>3. Found(x, "=") > 1 => NamePart(x) # <<>>
      <3>1. Found(x, "=") \in Nat BY <2>2, PartIs
      <3>2. Found(x, "=") # 0 => Len(NamePart(x)) = Found(x, "=") - 1 BY <2>2, PartIs
      <3>3. Len(<<>>) = 0 OBVIOUS
      <3>4. QED BY <3>1, <3>2, <3>3
    <2>4. QED BY <2>3 DEF Says, x
  <1>2. QED BY <1>1, ReadsFirst

PartsFor(items) == FlattenSeq([n \in DOMAIN items |-> Pairs(items[n])])

LEMMA PartsForIs ==
  ASSUME NEW items \in PlainLists
  PROVE  PartsFor(items) = PartsMade(items)
PROOF
  <1>1. items \in Seq(PlainItems) BY DEF PlainLists
  <1>2. \A n \in DOMAIN items : items[n] \in PlainItems
    <2> HIDE DEF PlainItems
    <2>1. QED BY <1>1
  <1>3. \A n \in DOMAIN items : PairsOf[items[n]] = Pairs(items[n]) BY <1>2 DEF PairsOf
  <1>4. [n \in DOMAIN items |-> Pairs(items[n])] = Image(PairsOf, items) BY <1>3 DEF Image
  <1>5. QED BY <1>4 DEF PartsFor, PartsMade

(* The parts of what was written tell of the list, but for empty ones.      *)
LEMMA TextTells ==
  ASSUME NEW prefix \in Seq(UrlSigns), Count("?", prefix) = 0, NEW items \in PlainLists,
         NEW text, text = ToText(prefix, items)
  PROVE  /\ text \in Seq(UrlSigns)
         /\ \A name : name # <<>> => ReadFrom(Parts(text), name) = Holds(items, name)
         /\ KeysOf(Items(text)) \subseteq KeysOf(items)
PROOF
  <1> DEFINE w == PartsFor(items)
             body == Joined(w, Amp)
  <1>1. text = IF body = <<>> THEN prefix ELSE Parted(prefix, "?", body)
    BY DEF ToText, PartsFor, Parted, Amp
  <1>2. w = PartsMade(items) BY PartsForIs
  <1>3. Tale(w, items) BY <1>2, TaleAlways
  <1>4. /\ w \in Bodies(UrlSigns) /\ NoneHas("&", w)
        /\ \A name : name # <<>> => ReadFrom(w, name) = Holds(items, name)
        /\ {KeyOfPart(w[n]) : n \in 1 .. Len(w)} \subseteq KeysOf(items)
    BY <1>3 DEF Tale
  <1>5. Amp \in Seq(UrlSigns) BY EqualsSign DEF Amp
  <1> HIDE DEF w
  <1>6. body \in Seq(UrlSigns) BY <1>4, <1>5, JoinedTyped
  <1>7. w # <<>> => Split(body, "&") = w
    <2> DEFINE c == "&"
    <2>1. c \in UrlSigns /\ Amp = <<c>> BY EqualsSign DEF Amp
    <2>2. \A n \in 1 .. Len(w) : Count(c, w[n]) = 0 BY <1>4 DEF NoneHas
    <2> HIDE DEF c
    <2>3. w # <<>> => Split(Joined(w, <<c>>), c) = w BY <1>4, <2>1, <2>2, SplitJoined
    <2>4. QED BY <2>1, <2>3 DEF c
  <1> HIDE DEF body
  <1>8. CASE body # <<>>
    <2>1. w # <<>>
      <3>1. w = <<>> => body = <<>> BY JoinedNone DEF body
      <3>2. QED BY <1>8, <3>1
    <2>2. text = Parted(prefix, "?", body) BY <1>1, <1>8
    <2>3. text \in Seq(UrlSigns) /\ Parts(text) = Split(body, "&") BY <1>6, <2>2, UrlPut
    <2>4. Parts(text) = w BY <1>7, <2>1, <2>3
    <2>5. Agrees(w) BY <1>4, ItemsAgree
    <2>6. KeysOf(Items(text)) = {KeyOfPart(w[n]) : n \in 1 .. Len(w)}
      BY <2>4, <2>5 DEF Agrees, Items
    <2>7. QED BY <1>4, <2>3, <2>4, <2>6
  <1>9. CASE body = <<>>
    <2>1. text = prefix BY <1>1, <1>9
    <2>2. Found(prefix, "?") = 0
      <3>1. Found(prefix, "?") = FirstAt("?", prefix) BY FoundIs
      <3>2. QED BY <3>1, FirstIs
    <2>3. Parts(text) = <<>> BY <2>1, <2>2 DEF Parts
    <2>4. KeysOf(Items(text)) = {}
      <3>1. Items(text) = <<>> BY <2>3, ItemsOfNone DEF Items
      <3>2. \A n \in 1 .. Len(<<>>) : FALSE OBVIOUS
      <3>3. QED BY <3>1, <3>2 DEF KeysOf
    <2>5. w = <<>> \/ w = <<<<>>>>
      <3>1. SUFFICES ASSUME w # <<>> PROVE w = <<<<>>>> OBVIOUS
      <3>2. w = Split(<<>>, "&") BY <1>7, <1>9, <3>1
      <3>3. <<>> \in Seq(UrlSigns) /\ Count("&", <<>>) = 0 BY CountNone
      <3>4. Split(<<>>, "&") = <<<<>>>> BY <3>3, SplitOne
      <3>5. QED BY <3>2, <3>4
    <2>6. ASSUME NEW name, name # <<>> PROVE ReadFrom(w, name) = Unset
      <3>1. CASE w = <<>> BY <3>1, ReadsFew
      <3>2. CASE w = <<<<>>>>
        <4>1. ReadFrom(w, name) = Says(<<>>, name) BY <3>2, ReadsFew
        <4>2. <<>> \in PlainTexts BY DEF PlainTexts, AsWritten
        <4>3. Says(<<>>, name) = Unset BY <4>2, BareIs
        <4>4. QED BY <4>1, <4>3
      <3>3. QED BY <2>5, <3>1, <3>2
    <2>7. \A name : name # <<>> => ReadFrom(Parts(text), name) = Holds(items, name)
      BY <1>4, <2>3, <2>6, ReadsFew
    <2>8. QED BY <2>1, <2>4, <2>7
  <1>10. QED BY <1>8, <1>9

-----------------------------------------------------------------------------
(* Filters.                                                                 *)

NamedPlaces(items, names) == {n \in DOMAIN items : items[n].key \in names}

KeptIn(items, names) == Keep(items, NamedPlaces(items, names))

LEMMA KeptSnoc ==
  ASSUME NEW items \in ItemLists, NEW e \in ItemForms, NEW names
  PROVE  /\ e.key \in names => KeptIn(WithLast(items, e), names) = WithLast(KeptIn(items, names), e)
         /\ e.key \notin names => KeptIn(WithLast(items, e), names) = KeptIn(items, names)
PROOF
  <1> DEFINE n == Len(items)
             t == WithLast(items, e)
             I == NamedPlaces(items, names)
             K == NamedPlaces(t, names)
  <1>0. items \in Seq(ItemForms) BY DEF ItemLists
  <1>1. /\ n \in Nat /\ t \in ItemLists /\ Len(t) = n + 1
        /\ t[n + 1] = e /\ \A k \in 1 .. n : t[k] = items[k]
    BY ItemsAre
  <1>2. DOMAIN items = 1 .. n BY ItemsAre
  <1> HIDE DEF n, t
  <1>3. DOMAIN t = 1 .. n + 1 BY <1>1, ItemsAre
  <1>4. \A i \in 1 .. n : i \in I <=> i \in K BY <1>1, <1>2, <1>3 DEF NamedPlaces
  <1>5. n + 1 \in K <=> e.key \in names BY <1>1, <1>3 DEF NamedPlaces
  <1> HIDE DEF I, K
  <1>6. Keep(items, I) = Keep(items, K) BY <1>0, <1>4, KeepSame DEF n
  <1>7. n + 1 \in K => Keep(t, K) = WithLast(Keep(items, K), e) BY <1>0, KeepMore DEF n, t
  <1>8. n + 1 \notin K => Keep(t, K) = Keep(items, K) BY <1>0, KeepMore DEF n, t
  <1>9. KeptIn(t, names) = Keep(t, K) /\ KeptIn(items, names) = Keep(items, I)
    BY DEF KeptIn, I, K
  <1>10. QED BY <1>5, <1>6, <1>7, <1>8, <1>9 DEF t

Sifted(items, names) ==
  LET j == KeptIn(items, names)
  IN /\ j \in ItemLists
     /\ KeysOf(j) \subseteq KeysOf(items) \cap names
     /\ \A name : Holds(j, name) = IF name \in names THEN Holds(items, name) ELSE Unset

LEMMA KeysSnoc ==
  ASSUME NEW items \in ItemLists, NEW e \in ItemForms
  PROVE  KeysOf(WithLast(items, e)) = KeysOf(items) \cup {e.key}
PROOF
  <1> DEFINE k == Len(items)
             t == WithLast(items, e)
  <1>1. /\ Len(t) = k + 1 /\ t[k + 1] = e /\ k \in Nat
        /\ \A n \in 1 .. k : t[n] = items[n]
    BY ItemsAre
  <1> HIDE DEF t, k
  <1>2. \A n \in 1 .. k + 1 : n \in 1 .. k \/ n = k + 1 BY <1>1
  <1>3. \A n \in 1 .. k : n \in 1 .. k + 1 BY <1>1
  <1>4. k + 1 \in 1 .. k + 1 BY <1>1
  <1>5. KeysOf(t) = {t[n].key : n \in 1 .. k + 1} BY <1>1 DEF KeysOf
  <1>6. KeysOf(items) = {items[n].key : n \in 1 .. k} BY DEF KeysOf, k
  <1>7. QED BY <1>1, <1>2, <1>3, <1>4, <1>5, <1>6 DEF t

LEMMA SiftedSnoc ==
  ASSUME NEW items \in ItemLists, NEW e \in ItemForms, NEW names, Sifted(items, names)
  PROVE  Sifted(WithLast(items, e), names)
PROOF
  <1> DEFINE t == WithLast(items, e)
             i == KeptIn(items, names)
             j == KeptIn(t, names)
  <1>1. /\ i \in ItemLists /\ KeysOf(i) \subseteq KeysOf(items) \cap names
        /\ \A name : Holds(i, name) = IF name \in names THEN Holds(items, name) ELSE Unset
    BY DEF Sifted
  <1>2. KeysOf(t) = KeysOf(items) \cup {e.key} BY KeysSnoc
  <1>3. \A name : Holds(t, name) = IF Holds(items, name) # Unset THEN Holds(items, name) ELSE Tells(e, name)
    BY HoldsSnoc
  <1>4. CASE e.key \in names
    <2>1. j = WithLast(i, e) BY <1>4, KeptSnoc
    <2> HIDE DEF i, j, t
    <2>2. j \in ItemLists BY <1>1, <2>1, ItemsAre
    <2>3. KeysOf(j) = KeysOf(i) \cup {e.key} BY <1>1, <2>1, KeysSnoc
    <2>4. \A name : Holds(j, name) = IF Holds(i, name) # Unset THEN Holds(i, name) ELSE Tells(e, name)
      BY <1>1, <2>1, HoldsSnoc
    <2>5. ASSUME NEW name PROVE Holds(j, name) = IF name \in names THEN Holds(t, name) ELSE Unset
      <3>1. CASE name \in names BY <1>1, <1>3, <2>4, <3>1
      <3>2. CASE name \notin names
        <4>1. Tells(e, name) = Unset BY <1>4, <3>2 DEF Tells
        <4>2. QED BY <1>1, <2>4, <3>2, <4>1
      <3>3. QED BY <3>1, <3>2
    <2>6. KeysOf(j) \subseteq KeysOf(t) \cap names BY <1>1, <1>2, <1>4, <2>3
    <2>7. QED BY <2>2, <2>5, <2>6 DEF Sifted, j, t
  <1>5. CASE e.key \notin names
    <2>1. j = i BY <1>5, KeptSnoc
    <2> HIDE DEF i, j, t
    <2>2. ASSUME NEW name PROVE Holds(j, name) = IF name \in names THEN Holds(t, name) ELSE Unset
      <3>1. CASE name \in names
        <4>1. Tells(e, name) = Unset BY <1>5, <3>1 DEF Tells
        <4>2. QED BY <1>1, <1>3, <2>1, <3>1, <4>1
      <3>2. CASE name \notin names BY <1>1, <2>1, <3>2
      <3>3. QED BY <3>1, <3>2
    <2>3. KeysOf(j) \subseteq KeysOf(t) \cap names BY <1>1, <1>2, <2>1
    <2>4. QED BY <1>1, <2>1, <2>2, <2>3 DEF Sifted, j, t
  <1>6. QED BY <1>4, <1>5

LEMMA SiftedAlways ==
  ASSUME NEW items \in ItemLists, NEW names
  PROVE  Sifted(items, names)
PROOF
  <1> DEFINE T == {s \in ItemLists : ~Sifted(s, names)}
  <1> SUFFICES ASSUME T # {} PROVE FALSE OBVIOUS
  <1>1. <<>> \notin T
    <2>1. KeptIn(<<>>, names) = <<>> BY KeepNone DEF KeptIn
    <2>2. \A n \in 1 .. Len(<<>>) : FALSE OBVIOUS
    <2>3. KeysOf(<<>>) = {} BY <2>2 DEF KeysOf
    <2>4. Sifted(<<>>, names) BY <2>1, <2>3, ItemsAre, HoldsNone DEF Sifted
    <2>5. QED BY <2>4
  <1>2. T \in SUBSET Seq(ItemForms) BY DEF ItemLists
  <1>3. PICK s \in Seq(ItemForms), x \in ItemForms : s \notin T /\ Append(s, x) \in T
    <2> HIDE DEF T
    <2>1. QED BY <1>1, <1>2, LeastSeq
  <1>4. s \in ItemLists /\ Sifted(s, names) BY <1>3 DEF ItemLists
  <1>5. Sifted(WithLast(s, x), names) BY <1>4, SiftedSnoc
  <1>6. QED BY <1>3, <1>5 DEF WithLast

-----------------------------------------------------------------------------
(* Query.sort.  How many come before or at a place, in an order of the      *)
(* places, is where its item goes.                                          *)

Ordered(k, R) ==
  /\ \A n \in 1 .. k : <<n, n>> \in R
  /\ \A m, n \in 1 .. k : <<m, n>> \in R /\ <<n, m>> \in R => m = n
  /\ \A m, n \in 1 .. k : <<m, n>> \in R \/ <<n, m>> \in R
  /\ \A l, m, n \in 1 .. k : <<l, m>> \in R /\ <<m, n>> \in R => <<l, n>> \in R

Below(k, R, n) == {m \in 1 .. k : <<m, n>> \in R}

LEMMA PlacesIn ==
  ASSUME NEW k \in Nat, NEW R, Ordered(k, R)
  PROVE  LET pos == [n \in 1 .. k |-> Cardinality(Below(k, R, n))]
         IN /\ pos \in [1 .. k -> 1 .. k]
            /\ \A m, n \in 1 .. k : pos[m] = pos[n] => m = n
            /\ \A j \in 1 .. k : \E n \in 1 .. k : pos[n] = j
PROOF
  <1> DEFINE D == 1 .. k
             B(n) == Below(k, R, n)
             pos == [n \in D |-> Cardinality(B(n))]
  <1>0. IsFiniteSet(D) /\ Cardinality(D) = k BY FS_Interval
  <1>1. ASSUME NEW n \in D
        PROVE  B(n) \in SUBSET D /\ n \in B(n) /\ IsFiniteSet(B(n)) /\ Cardinality(B(n)) \in 1 .. k
    <2>1. B(n) \in SUBSET D /\ n \in B(n) BY DEF Below, Ordered
    <2> HIDE DEF B, D
    <2>2. IsFiniteSet(B(n)) /\ Cardinality(B(n)) <= k BY <1>0, <2>1, FS_Subset
    <2>3. Cardinality(B(n)) \in Nat /\ Cardinality(B(n)) # 0
      BY <2>1, <2>2, FS_CardinalityType, FS_EmptySet
    <2>4. QED BY <2>1, <2>2, <2>3
  <1>2. ASSUME NEW m \in D, NEW n \in D, <<m, n>> \in R, m # n
        PROVE  Cardinality(B(m)) # Cardinality(B(n))
    <2>1. B(m) \subseteq B(n) BY <1>2 DEF Below, Ordered
    <2>2. n \notin B(m) BY <1>2 DEF Below, Ordered
    <2> HIDE DEF B
    <2>3. QED BY <1>1, <2>1, <2>2, FS_Subset
  <1>3. \A m, n \in D : Cardinality(B(m)) = Cardinality(B(n)) => m = n
    <2> SUFFICES ASSUME NEW m \in D, NEW n \in D, m # n
                 PROVE  Cardinality(B(m)) # Cardinality(B(n))
      OBVIOUS
    <2>1. <<m, n>> \in R \/ <<n, m>> \in R BY DEF Ordered
    <2> HIDE DEF B
    <2>2. QED BY <1>2, <2>1
  <1>4. pos \in [D -> D] BY <1>1
  <1>5. \A m, n \in D : pos[m] = pos[n] => m = n BY <1>3
  <1> HIDE DEF pos
  <1>6. pos \in Injection(D, D) BY <1>4, <1>5 DEF Injection, IsInjective
  <1>7. pos \in Surjection(D, D) BY <1>0, <1>6, FS_Injection
  <1>8. \A j \in D : \E n \in D : pos[n] = j BY <1>7 DEF Surjection
  <1>9. QED BY <1>4, <1>5, <1>8 DEF pos

RankAt(text, n) == IF n > Len(text) THEN 0 ELSE Found(Bytewise, text[n])

LEMMA RankAtIs ==
  ASSUME NEW text \in Seq(Signs), NEW n \in Nat \ {0}
  PROVE  /\ RankAt(text, n) \in Nat
         /\ RankAt(text, n) = 0 <=> n > Len(text)
         /\ n <= Len(text) => Bytewise[RankAt(text, n)] = text[n]
PROOF
  <1>1. Bytewise \in Seq(STRING) BY QueryStringAssumption
  <1>2. CASE n > Len(text)
    <2>1. Len(text) \in Nat OBVIOUS
    <2>2. QED BY <1>2, <2>1 DEF RankAt
  <1>3. CASE ~(n > Len(text))
    <2> DEFINE c == text[n]
               i == FirstAt(c, Bytewise)
    <2>1. Len(text) \in Nat /\ n \in 1 .. Len(text) BY <1>3
    <2>2. c \in Signs BY <2>1
    <2> HIDE DEF c
    <2>3. PICK j \in 1 .. Len(Bytewise) : Bytewise[j] = c BY <1>1, <2>2 DEF Signs, ToSet
    <2>4. Count(c, Bytewise) # 0 BY <1>1, <2>3, CountIs
    <2>5. i \in 0 .. Len(Bytewise) /\ i # 0 /\ Bytewise[i] = c BY <1>1, <2>4, FirstIs
    <2>6. Found(Bytewise, c) = i BY <1>1, FoundIs
    <2> HIDE DEF i
    <2>7. RankAt(text, n) = i BY <1>3, <2>6 DEF RankAt, c
    <2>8. i \in Nat BY <1>1, <2>5
    <2>9. QED BY <1>3, <2>1, <2>5, <2>7, <2>8 DEF c
  <1>4. QED BY <1>2, <1>3

(* compareBytes is a strict order of texts that leaves no two apart.        *)
LEMMA PrecedesIs ==
  /\ \A a \in Seq(Signs) : ~Precedes(a, a)
  /\ \A a, b \in Seq(Signs) : Precedes(a, b) \/ Precedes(b, a) \/ a = b
  /\ \A a, b, c \in Seq(Signs) : Precedes(a, b) /\ Precedes(b, c) => Precedes(a, c)
PROOF
  <1>1. \A a, b : Precedes(a, b) <=>
          \E n \in 1 .. Len(b) : /\ RankAt(a, n) < RankAt(b, n)
                                 /\ \A m \in 1 .. n - 1 : RankAt(a, m) = RankAt(b, m)
    BY DEF Precedes, RankAt
  <1>2. ASSUME NEW a \in Seq(Signs) PROVE ~Precedes(a, a)
    <2>1. \A n \in 1 .. Len(a) : RankAt(a, n) \in Nat BY RankAtIs
    <2>2. QED BY <1>1, <2>1
  <1>3. ASSUME NEW a \in Seq(Signs), NEW b \in Seq(Signs), a # b
        PROVE  Precedes(a, b) \/ Precedes(b, a)
    <2> DEFINE A == {n \in Nat \ {0} : RankAt(a, n) # RankAt(b, n)}
    <2>1. A # {}
      <3> SUFFICES ASSUME A = {} PROVE FALSE OBVIOUS
      <3>1. \A n \in Nat \ {0} : RankAt(a, n) = RankAt(b, n) OBVIOUS
      <3>2. Len(a) \in Nat /\ Len(b) \in Nat OBVIOUS
      <3>3. Len(a) = Len(b)
        <4>1. Len(a) + 1 \in Nat \ {0} /\ Len(b) + 1 \in Nat \ {0} BY <3>2
        <4>2. RankAt(a, Len(a) + 1) = 0 /\ RankAt(b, Len(b) + 1) = 0 BY <3>2, <4>1, RankAtIs
        <4>3. RankAt(b, Len(a) + 1) = 0 /\ RankAt(a, Len(b) + 1) = 0 BY <3>1, <4>1, <4>2
        <4>4. Len(a) + 1 > Len(b) /\ Len(b) + 1 > Len(a) BY <4>1, <4>3, RankAtIs
        <4>5. QED BY <3>2, <4>4
      <3>4. ASSUME NEW n \in 1 .. Len(a) PROVE a[n] = b[n]
        <4>1. n \in Nat \ {0} /\ n <= Len(a) /\ n <= Len(b) BY <3>2, <3>3
        <4>2. Bytewise[RankAt(a, n)] = a[n] /\ Bytewise[RankAt(b, n)] = b[n] BY <4>1, RankAtIs
        <4>3. QED BY <3>1, <4>1, <4>2
      <3>5. QED BY <1>3, <3>3, <3>4
    <2>2. PICK n \in A : \A m \in A : n <= m
      <3> DEFINE i == Min(A)
      <3>1. A \in SUBSET Nat OBVIOUS
      <3> HIDE DEF A
      <3>2. i \in A /\ \A m \in A : i <= m BY <2>1, <3>1, MinIsLeast
      <3>3. QED BY <3>2
    <2>3. n \in Nat \ {0} /\ RankAt(a, n) # RankAt(b, n) OBVIOUS
    <2>4. \A m \in 1 .. n - 1 : RankAt(a, m) = RankAt(b, m)
      <3> SUFFICES ASSUME NEW m \in 1 .. n - 1 PROVE RankAt(a, m) = RankAt(b, m) OBVIOUS
      <3>1. m \in Nat \ {0} /\ ~(n <= m) BY <2>3
      <3>2. QED BY <2>2, <3>1
    <2>5. /\ RankAt(a, n) \in Nat /\ RankAt(b, n) \in Nat
          /\ RankAt(a, n) = 0 <=> n > Len(a)
          /\ RankAt(b, n) = 0 <=> n > Len(b)
      BY <2>3, RankAtIs
    <2>6. Len(a) \in Nat /\ Len(b) \in Nat OBVIOUS
    <2>7. CASE RankAt(a, n) < RankAt(b, n)
      <3>1. n \in 1 .. Len(b) BY <2>3, <2>5, <2>6, <2>7
      <3>2. QED BY <1>1, <2>4, <2>7, <3>1
    <2>8. CASE RankAt(b, n) < RankAt(a, n)
      <3>1. n \in 1 .. Len(a) BY <2>3, <2>5, <2>6, <2>8
      <3>2. QED BY <1>1, <2>4, <2>8, <3>1
    <2>9. QED BY <2>3, <2>5, <2>7, <2>8
  <1>4. ASSUME NEW a \in Seq(Signs), NEW b \in Seq(Signs), NEW c \in Seq(Signs),
               Precedes(a, b), Precedes(b, c)
        PROVE  Precedes(a, c)
    <2>1. PICK n \in 1 .. Len(b) : /\ RankAt(a, n) < RankAt(b, n)
                                   /\ \A m \in 1 .. n - 1 : RankAt(a, m) = RankAt(b, m)
      BY <1>1, <1>4
    <2>2. PICK p \in 1 .. Len(c) : /\ RankAt(b, p) < RankAt(c, p)
                                   /\ \A m \in 1 .. p - 1 : RankAt(b, m) = RankAt(c, m)
      BY <1>1, <1>4
    <2>3. /\ n \in Nat \ {0} /\ p \in Nat \ {0} /\ n <= Len(b) /\ p <= Len(c)
          /\ Len(b) \in Nat /\ Len(c) \in Nat
      OBVIOUS
    <2>4. \A m \in Nat \ {0} : /\ RankAt(a, m) \in Nat /\ RankAt(b, m) \in Nat
                               /\ RankAt(c, m) \in Nat
      BY RankAtIs
    <2>5. CASE n < p
      <3>1. n \in 1 .. p - 1 /\ n \in 1 .. Len(c) BY <2>3, <2>5
      <3>2. RankAt(a, n) < RankAt(c, n) BY <2>1, <2>2, <3>1
      <3>3. \A m \in 1 .. n - 1 : m \in 1 .. p - 1 BY <2>3, <2>5
      <3>4. \A m \in 1 .. n - 1 : RankAt(a, m) = RankAt(c, m) BY <2>1, <2>2, <3>3
      <3>5. QED BY <1>1, <3>1, <3>2, <3>4
    <2>6. CASE n = p
      <3>1. RankAt(a, p) < RankAt(c, p) BY <2>1, <2>2, <2>3, <2>4, <2>6
      <3>2. \A m \in 1 .. p - 1 : RankAt(a, m) = RankAt(c, m) BY <2>1, <2>2, <2>6
      <3>3. QED BY <1>1, <3>1, <3>2
    <2>7. CASE n > p
      <3>1. p \in 1 .. n - 1 BY <2>3, <2>7
      <3>2. RankAt(a, p) < RankAt(c, p) BY <2>1, <2>2, <3>1
      <3>3. \A m \in 1 .. p - 1 : m \in 1 .. n - 1 BY <2>3, <2>7
      <3>4. \A m \in 1 .. p - 1 : RankAt(a, m) = RankAt(c, m) BY <2>1, <2>2, <3>3
      <3>5. QED BY <1>1, <3>2, <3>4
    <2>8. QED BY <2>3, <2>5, <2>6, <2>7
  <1>5. QED BY <1>2, <1>3, <1>4

(* The item at m is not written after the one at n.                         *)
Foremost(items, m, n) ==
  IF items[m].key = items[n].key THEN m >= n ELSE Precedes(items[m].key, items[n].key)

PlaceOf(items, n) == Cardinality({m \in DOMAIN items : Foremost(items, m, n)})

From(items, j) == CHOOSE n \in DOMAIN items : PlaceOf(items, n) = j

Sorted(items) == [j \in DOMAIN items |-> items[From(items, j)]]

LEMMA FromIs ==
  ASSUME NEW items \in ItemLists
  PROVE  /\ \A j \in 1 .. Len(items) : From(items, j) \in 1 .. Len(items)
         /\ \A n \in 1 .. Len(items) : \E j \in 1 .. Len(items) : From(items, j) = n
         /\ \A i, j \in 1 .. Len(items) : From(items, i) = From(items, j) => i = j
PROOF
  <1> DEFINE k == Len(items)
             D == 1 .. k
             R == {p \in D \X D : Foremost(items, p[1], p[2])}
             key(n) == items[n].key
             pos == [n \in D |-> Cardinality(Below(k, R, n))]
  <1>1. k \in Nat /\ DOMAIN items = D BY ItemsAre
  <1>2. \A n \in D : key(n) \in Seq(Signs) BY ItemsAre, ItemIs
  <1>3. \A m, n \in D : <<m, n>> \in R <=> Foremost(items, m, n) OBVIOUS
  <1>4. \A m, n \in D : Foremost(items, m, n) <=>
          IF key(m) = key(n) THEN m >= n ELSE Precedes(key(m), key(n))
    BY DEF Foremost
  <1> HIDE DEF R, key
  <1>5. \A n \in D : <<n, n>> \in R BY <1>1, <1>3, <1>4
  <1>6. \A m, n \in D : <<m, n>> \in R \/ <<n, m>> \in R
    <2> SUFFICES ASSUME NEW m \in D, NEW n \in D PROVE Foremost(items, m, n) \/ Foremost(items, n, m)
      BY <1>3
    <2>1. CASE key(m) = key(n)
      <3>1. m >= n \/ n >= m BY <1>1
      <3>2. QED BY <1>4, <2>1, <3>1
    <2>2. CASE key(m) # key(n)
      <3>1. Precedes(key(m), key(n)) \/ Precedes(key(n), key(m)) BY <1>2, <2>2, PrecedesIs
      <3>2. QED BY <1>4, <2>2, <3>1
    <2>3. QED BY <2>1, <2>2
  <1>7. \A m, n \in D : <<m, n>> \in R /\ <<n, m>> \in R => m = n
    <2> SUFFICES ASSUME NEW m \in D, NEW n \in D, <<m, n>> \in R, <<n, m>> \in R PROVE m = n
      OBVIOUS
    <2>1. CASE key(m) = key(n) BY <1>1, <1>3, <1>4, <2>1
    <2>2. CASE key(m) # key(n)
      <3>1. Precedes(key(m), key(n)) /\ Precedes(key(n), key(m)) BY <1>3, <1>4, <2>2
      <3>2. Precedes(key(m), key(m)) BY <1>2, <3>1, PrecedesIs
      <3>3. QED BY <1>2, <3>2, PrecedesIs
    <2>3. QED BY <2>1, <2>2
  <1>8. \A l, m, n \in D : <<l, m>> \in R /\ <<m, n>> \in R => <<l, n>> \in R
    <2> SUFFICES ASSUME NEW l \in D, NEW m \in D, NEW n \in D, <<l, m>> \in R, <<m, n>> \in R
                 PROVE  <<l, n>> \in R
      OBVIOUS
    <2>0. /\ IF key(l) = key(m) THEN l >= m ELSE Precedes(key(l), key(m))
          /\ IF key(m) = key(n) THEN m >= n ELSE Precedes(key(m), key(n))
      BY <1>3, <1>4
    <2>1. CASE key(l) = key(m) /\ key(m) = key(n)
      <3>1. l >= n BY <1>1, <2>0, <2>1
      <3>2. QED BY <1>3, <1>4, <2>1, <3>1
    <2>2. CASE key(l) = key(m) /\ key(m) # key(n) BY <1>3, <1>4, <2>0, <2>2
    <2>3. CASE key(l) # key(m) /\ key(m) = key(n) BY <1>3, <1>4, <2>0, <2>3
    <2>4. CASE key(l) # key(m) /\ key(m) # key(n)
      <3>1. Precedes(key(l), key(n)) BY <1>2, <2>0, <2>4, PrecedesIs
      <3>2. key(l) # key(n)
        <4>1. key(l) = key(n) => Precedes(key(l), key(l)) BY <3>1
        <4>2. QED BY <1>2, <4>1, PrecedesIs
      <3>3. QED BY <1>3, <1>4, <3>1, <3>2
    <2>5. QED BY <2>1, <2>2, <2>3, <2>4
  <1>9. Ordered(k, R) BY <1>5, <1>6, <1>7, <1>8 DEF Ordered
  <1>10. /\ pos \in [D -> D]
         /\ \A m, n \in D : pos[m] = pos[n] => m = n
         /\ \A j \in D : \E n \in D : pos[n] = j
    <2> HIDE DEF k
    <2>1. QED BY <1>1, <1>9, PlacesIn
  <1>11. \A n \in D : PlaceOf(items, n) = pos[n]
    <2> SUFFICES ASSUME NEW n \in D PROVE PlaceOf(items, n) = pos[n] OBVIOUS
    <2>1. {m \in DOMAIN items : Foremost(items, m, n)} = Below(k, R, n)
      BY <1>1, <1>3 DEF Below
    <2>2. QED BY <2>1 DEF PlaceOf
  <1> HIDE DEF pos, D
  <1>12. ASSUME NEW j \in D PROVE From(items, j) \in D /\ pos[From(items, j)] = j
    <2>1. \E n \in D : PlaceOf(items, n) = j BY <1>10, <1>11
    <2>2. From(items, j) \in D /\ PlaceOf(items, From(items, j)) = j BY <1>1, <2>1 DEF From
    <2>3. QED BY <1>11, <2>2
  <1>13. ASSUME NEW n \in D PROVE \E j \in D : From(items, j) = n
    <2>1. pos[n] \in D BY <1>10
    <2>2. From(items, pos[n]) \in D /\ pos[From(items, pos[n])] = pos[n] BY <1>12, <2>1
    <2>3. From(items, pos[n]) = n BY <1>10, <2>2
    <2>4. QED BY <2>1, <2>3
  <1>14. \A i, j \in D : From(items, i) = From(items, j) => i = j BY <1>12
  <1>15. QED BY <1>12, <1>13, <1>14 DEF D, k

(* Sorting moves items; what a name reads as is of its one item with values. *)
LEMMA SortedIs ==
  ASSUME NEW items \in ItemLists, FirstOnly(items), NEW j, j = Sorted(items)
  PROVE  /\ j \in ItemLists
         /\ KeysOf(j) = KeysOf(items)
         /\ \A name : Holds(j, name) = Holds(items, name)
PROOF
  <1> DEFINE k == Len(items)
             at(i) == From(items, i)
  <1>1. k \in Nat /\ DOMAIN items = 1 .. k /\ \A n \in 1 .. k : items[n] \in ItemForms
    BY ItemsAre
  <1>2. /\ \A i \in 1 .. k : at(i) \in 1 .. k
        /\ \A n \in 1 .. k : \E i \in 1 .. k : at(i) = n
        /\ \A i, l \in 1 .. k : at(i) = at(l) => i = l
    BY FromIs
  <1>3. DOMAIN j = 1 .. k /\ \A i \in 1 .. k : j[i] = items[at(i)] BY <1>1 DEF Sorted
  <1>31. j = [i \in 1 .. k |-> j[i]] BY <1>1 DEF Sorted
  <1> HIDE DEF k, at
  <1>4. j \in ItemLists /\ Len(j) = k
    <2> HIDE DEF ItemForms
    <2>1. \A i \in 1 .. k : j[i] \in ItemForms BY <1>1, <1>2, <1>3
    <2>2. j \in [1 .. k -> ItemForms] BY <1>31, <2>1
    <2>3. j \in Seq(ItemForms) /\ Len(j) = k BY <1>1, <2>2, FunctionIsSeq
    <2>4. QED BY <2>3 DEF ItemLists
  <1>5. KeysOf(j) = KeysOf(items)
    <2>1. KeysOf(j) = {j[i].key : i \in 1 .. k} BY <1>4 DEF KeysOf
    <2>2. KeysOf(items) = {items[n].key : n \in 1 .. k} BY DEF KeysOf, k
    <2>3. QED BY <1>2, <1>3, <2>1, <2>2
  <1>6. ASSUME NEW name PROVE Holds(j, name) = Holds(items, name)
    <2>1. CASE \A n \in 1 .. k : Tells(items[n], name) = Unset
      <3>1. \A i \in 1 .. k : Tells(j[i], name) = Unset BY <1>2, <1>3, <2>1
      <3>2. Holds(items, name) = Unset BY <2>1, HoldsIs DEF k
      <3>3. Holds(j, name) = Unset BY <1>4, <3>1, HoldsIs
      <3>4. QED BY <3>2, <3>3
    <2>2. CASE \E n \in 1 .. k : Tells(items[n], name) # Unset
      <3>1. PICK n \in 1 .. k : Tells(items[n], name) # Unset BY <2>2
      <3>2. PICK i \in 1 .. k : at(i) = n BY <1>2
      <3>3. ASSUME NEW m \in 1 .. k, m # n PROVE Tells(items[m], name) = Unset
        <4>1. items[n].key = name /\ items[n].value # Unset BY <3>1 DEF Tells
        <4>2. CASE items[m].key # name BY <4>2 DEF Tells
        <4>3. CASE items[m].key = name
          <5>1. m < n \/ n < m BY <1>1, <3>3
          <5>2. ~(m < n) BY <4>1, <4>3 DEF FirstOnly, k
          <5>3. items[m].value = Unset BY <4>1, <4>3, <5>1, <5>2 DEF FirstOnly, k
          <5>4. QED BY <5>3 DEF Tells
        <4>4. QED BY <4>2, <4>3
      <3>4. \A m \in 1 .. k : m < n => Tells(items[m], name) = Unset BY <1>1, <3>3
      <3>5. Holds(items, name) = Tells(items[n], name) BY <3>1, <3>4, HoldsIs DEF k
      <3>6. Tells(j[i], name) = Tells(items[n], name) BY <1>3, <3>2
      <3>7. ASSUME NEW l \in 1 .. k, l < i PROVE Tells(j[l], name) = Unset
        <4>1. l # i BY <1>1, <3>7
        <4>2. at(l) \in 1 .. k /\ at(l) # n BY <1>2, <3>2, <4>1
        <4>3. QED BY <1>3, <3>3, <4>2
      <3>8. Holds(j, name) = Tells(j[i], name) BY <1>4, <3>1, <3>6, <3>7, HoldsIs
      <3>9. QED BY <3>5, <3>6, <3>8
    <2>3. QED BY <2>1, <2>2
  <1>7. QED BY <1>4, <1>5, <1>6

-----------------------------------------------------------------------------
(* Calls: what a call does to the list is what it does to the URL.          *)

LEMMA TextTyped ==
  ASSUME NEW prefix \in Seq(UrlSigns), NEW items \in ItemLists
  PROVE  ToText(prefix, items) \in Seq(UrlSigns)
PROOF
  <1> DEFINE w == PartsFor(items)
             body == Joined(w, Amp)
  <1>1. ToText(prefix, items) = IF body = <<>> THEN prefix ELSE Parted(prefix, "?", body)
    BY DEF ToText, PartsFor, Parted, Amp
  <1>2. ASSUME NEW e \in ItemForms PROVE Pairs(e) \in Bodies(UrlSigns)
    <2> DEFINE key == e.key
               v == e.value
    <2>1. key \in Seq(Signs) /\ v \in {Unset} \cup Several BY ItemIs
    <2>2. key \in Seq(UrlSigns) BY <2>1 DEF UrlSigns
    <2>3. CASE v = Unset
      <3>1. Pairs(e) = <<key>> BY <2>3 DEF Pairs
      <3> HIDE DEF key
      <3>2. <<key>> \in Seq(Seq(UrlSigns)) BY <2>2
      <3>3. QED BY <3>1, <3>2 DEF Bodies
    <2>4. CASE v # Unset
      <3> DEFINE k == Len(v)
                 f == [n \in 1 .. k |-> Parted(key, "=", Encoded(v[n]))]
      <3>1. v \in Seq(Seq(Signs)) BY <2>1, <2>4 DEF Several
      <3>2. k \in Nat /\ DOMAIN v = 1 .. k /\ \A n \in 1 .. k : v[n] \in Seq(Signs) BY <3>1
      <3>3. Pairs(e) = f BY <2>4, <3>2 DEF Pairs, Parted
      <3> HIDE DEF key, v
      <3>4. ASSUME NEW n \in 1 .. k PROVE f[n] \in Seq(UrlSigns)
        <4> DEFINE raw == Encoded(v[n])
                   eq == <<"=">>
        <4>1. raw \in Seq(UrlSigns) BY <3>2, EncodedIs
        <4>2. eq \in Seq(UrlSigns) BY EqualsSign
        <4>3. f[n] = (key \o eq) \o raw BY DEF Parted
        <4> HIDE DEF raw, eq, f
        <4>4. QED BY <2>2, <4>1, <4>2, <4>3, Concat2
      <3>5. f \in [1 .. k -> Seq(UrlSigns)] BY <3>4
      <3> HIDE DEF f, k
      <3>6. QED BY <3>2, <3>3, <3>5, FunctionIsSeq DEF Bodies
    <2>5. QED BY <2>3, <2>4
  <1>3. w \in Bodies(UrlSigns)
    <2> DEFINE k == Len(items)
               f == [n \in 1 .. k |-> Pairs(items[n])]
               S == Seq(UrlSigns)
    <2>1. k \in Nat /\ DOMAIN items = 1 .. k /\ \A n \in 1 .. k : items[n] \in ItemForms
      BY ItemsAre
    <2>2. w = FlattenSeq(f) BY <2>1 DEF PartsFor
    <2>3. f \in [1 .. k -> Bodies(UrlSigns)] BY <1>2, <2>1
    <2> HIDE DEF f, k
    <2>4. f \in Seq(Bodies(UrlSigns)) BY <2>1, <2>3, FunctionIsSeq
    <2>5. f \in Seq(Seq(S)) BY <2>4 DEF Bodies
    <2> HIDE DEF S
    <2>6. FlattenSeq(f) \in Seq(S) BY <2>5, FlattenSnoc
    <2>7. QED BY <2>2, <2>6 DEF S, Bodies
  <1>4. Amp \in Seq(UrlSigns) BY EqualsSign DEF Amp
  <1> HIDE DEF w
  <1>5. body \in Seq(UrlSigns) BY <1>3, <1>4, JoinedTyped
  <1> HIDE DEF body
  <1>6. Parted(prefix, "?", body) \in Seq(UrlSigns)
    <2> DEFINE q == <<"?">>
    <2>1. q \in Seq(UrlSigns) BY EqualsSign
    <2>2. Parted(prefix, "?", body) = (prefix \o q) \o body BY DEF Parted
    <2> HIDE DEF q
    <2>3. prefix \o q \in Seq(UrlSigns) BY <2>1, Concat2
    <2>4. (prefix \o q) \o body \in Seq(UrlSigns) BY <1>5, <2>3, Concat2
    <2>5. QED BY <2>2, <2>4
  <1>7. QED BY <1>1, <1>6

(* What a call promises of the list it makes.                               *)
Shifts(kind, name, value, items, j) ==
  /\ j \in ItemLists
  /\ KeysOf(j) \subseteq KeysOf(items) \cup {name}
  /\ kind = "set" => Holds(j, name) = value
  /\ kind = "add" =>
       Holds(j, name) = IF Holds(items, name) # Unset THEN Holds(items, name) ELSE value
  /\ \A other : other # name =>
       Holds(j, other) = Holds(items, other) \/ (kind = "filter" /\ other \notin KeysOf(j))

(* What it promises of the URL.                                             *)
ReadsOn(kind, name, value, old, new) ==
  /\ kind = "set" /\ name # <<>> => ReadAs(new, name) = value
  /\ kind = "add" /\ name # <<>> =>
       ReadAs(new, name) = IF ReadAs(old, name) = Unset THEN value ELSE ReadAs(old, name)
  /\ \A other \in ParamNames \ {name} :
       \/ ReadAs(new, other) = ReadAs(old, other)
       \/ kind = "filter" /\ ~\E n \in DOMAIN Items(new) : Items(new)[n].key = other

LEMMA ItemsTyped ==
  ASSUME NEW text \in Seq(UrlSigns)
  PROVE  /\ Items(text) \in ItemLists /\ FirstOnly(Items(text))
         /\ \A name \in PlainTexts : AllValid(Parts(text)) /\ name # <<>> =>
              ReadAs(text, name) = Holds(Items(text), name)
         /\ ReadAs(text, <<>>) = Unset
PROOF
  <1> DEFINE p == Parts(text)
  <1>1. p \in Bodies(UrlSigns) BY UrlCut
  <1> HIDE DEF p
  <1>2. Agrees(p) BY <1>1, ItemsAgree
  <1>3. Items(text) = ItemsOf(p) BY DEF Items, p
  <1>4. \A name \in PlainTexts : ReadAs(text, name) = ReadFrom(p, name)
    BY <1>1, ReadsThat DEF p, Bodies
  <1>5. ReadFrom(p, <<>>) = Unset BY <1>1, NothingSaid
  <1>6. <<>> \in PlainTexts BY DEF PlainTexts, AsWritten
  <1>7. ReadAs(text, <<>>) = Unset BY <1>4, <1>5, <1>6
  <1>8. QED BY <1>2, <1>3, <1>4, <1>7 DEF Agrees, p

LEMMA CallReads ==
  ASSUME NEW old \in Seq(UrlSigns), AllValid(Parts(old)), PlainNames(Items(old)),
         \A name \in ParamNames : AsWritten(name),
         NEW kind, NEW name \in PlainTexts, NEW value, NEW j,
         Shifts(kind, name, value, Items(old), j),
         NEW new, new = ToText(Prefix(old), j)
  PROVE  ReadsOn(kind, name, value, old, new)
PROOF
  <1> DEFINE items == Items(old)
             prefix == Prefix(old)
  <1>1. prefix \in Seq(UrlSigns) /\ Count("?", prefix) = 0 BY UrlCut
  <1>2. items \in ItemLists BY ItemsTyped
  <1>3. KeysOf(items) \subseteq PlainTexts
    <2> SUFFICES ASSUME NEW n \in 1 .. Len(items) PROVE items[n].key \in PlainTexts
      BY DEF KeysOf
    <2>1. DOMAIN items = 1 .. Len(items) /\ items[n].key \in Seq(Signs)
      <3> HIDE DEF items
      <3>1. QED BY <1>2, ItemsAre, ItemIs
    <2>2. AsWritten(items[n].key) BY <2>1 DEF PlainNames, AsWritten
    <2>3. QED BY <2>1, <2>2 DEF PlainTexts
  <1>4. /\ j \in ItemLists /\ KeysOf(j) \subseteq KeysOf(items) \cup {name}
        /\ kind = "set" => Holds(j, name) = value
        /\ kind = "add" =>
             Holds(j, name) = IF Holds(items, name) # Unset THEN Holds(items, name) ELSE value
        /\ \A other : other # name =>
             Holds(j, other) = Holds(items, other) \/ (kind = "filter" /\ other \notin KeysOf(j))
    BY DEF Shifts
  <1> HIDE DEF items, prefix
  <1>5. j \in PlainLists BY <1>3, <1>4, PlainListsAre
  <1>6. new = ToText(prefix, j) BY DEF prefix
  <1>7. /\ new \in Seq(UrlSigns)
        /\ \A other : other # <<>> => ReadFrom(Parts(new), other) = Holds(j, other)
        /\ KeysOf(Items(new)) \subseteq KeysOf(j)
    BY <1>1, <1>5, <1>6, TextTells
  <1>8. \A other \in PlainTexts : other # <<>> => ReadAs(new, other) = Holds(j, other)
    <2>1. Parts(new) \in Seq(Seq(UrlSigns)) BY <1>7, UrlCut DEF Bodies
    <2>2. QED BY <1>7, <2>1, ReadsThat
  <1>9. \A other \in PlainTexts : other # <<>> => ReadAs(old, other) = Holds(items, other)
    BY ItemsTyped DEF items
  <1>10. ReadAs(new, <<>>) = Unset /\ ReadAs(old, <<>>) = Unset BY <1>7, ItemsTyped
  <1>11. \A other \in ParamNames : other \in PlainTexts BY QueryStringAssumption DEF PlainTexts
  <1>12. ASSUME NEW other, other \notin KeysOf(j)
         PROVE  ~\E n \in DOMAIN Items(new) : Items(new)[n].key = other
    <2> DEFINE i == Items(new)
    <2>1. i \in ItemLists /\ KeysOf(i) \subseteq KeysOf(j) BY <1>7, ItemsTyped
    <2> HIDE DEF i
    <2>2. DOMAIN i = 1 .. Len(i) BY <2>1, ItemsAre
    <2>3. ~\E n \in DOMAIN i : i[n].key = other BY <1>12, <2>1, <2>2 DEF KeysOf
    <2>4. QED BY <2>3 DEF i
  <1>13. ASSUME NEW other \in ParamNames \ {name}
         PROVE  \/ ReadAs(new, other) = ReadAs(old, other)
                \/ kind = "filter" /\ ~\E n \in DOMAIN Items(new) : Items(new)[n].key = other
    <2>1. CASE other = <<>> BY <1>10, <2>1
    <2>2. CASE other # <<>>
      <3>1. ReadAs(new, other) = Holds(j, other) /\ ReadAs(old, other) = Holds(items, other)
        BY <1>8, <1>9, <1>11, <2>2
      <3>2. CASE Holds(j, other) = Holds(items, other) BY <3>1, <3>2
      <3>3. CASE kind = "filter" /\ other \notin KeysOf(j) BY <1>12, <3>3
      <3>4. QED BY <1>4, <3>2, <3>3
    <2>3. QED BY <2>1, <2>2
  <1>14. kind = "set" /\ name # <<>> => ReadAs(new, name) = value BY <1>4, <1>8
  <1>15. kind = "add" /\ name # <<>> =>
           ReadAs(new, name) = IF ReadAs(old, name) = Unset THEN value ELSE ReadAs(old, name)
    BY <1>4, <1>8, <1>9
  <1>16. QED BY <1>13, <1>14, <1>15 DEF ReadsOn

(* The lists the calls make keep those promises.                            *)
LEMMA CallsShift ==
  ASSUME NEW items \in ItemLists, FirstOnly(items)
  PROVE  /\ \A name \in ParamNames, value \in ParamValues :
              /\ Shifts("set", name, value, items, SetIn(items, name, value))
              /\ Shifts("add", name, value, items, AddTo(items, name, value))
         /\ Shifts("sort", <<>>, <<>>, items, Sorted(items))
         /\ Shifts("clean", <<>>, <<>>, items, KeptIn(items, Seq(Signs) \ {<<>>}))
         /\ \A names : /\ Shifts("filter", <<>>, <<>>, items, KeptIn(items, names))
                       /\ Shifts("filter", <<>>, <<>>, items, KeptIn(items, Seq(Signs) \ names))
PROOF
  <1>1. ASSUME NEW name \in ParamNames, NEW value \in ParamValues
        PROVE  /\ Shifts("set", name, value, items, SetIn(items, name, value))
               /\ Shifts("add", name, value, items, AddTo(items, name, value))
    <2>1. name \in Seq(Signs) /\ value \in Seq(Signs) BY QueryStringAssumption
    <2>2. Shifts("set", name, value, items, SetIn(items, name, value))
      <3> DEFINE j == SetIn(items, name, value)
      <3>1. /\ j \in ItemLists /\ Holds(j, name) = value
            /\ \A other : other # name => Holds(j, other) = Holds(items, other)
            /\ KeysOf(j) = KeysOf(items) \cup {name}
        BY <2>1, SetIs
      <3> HIDE DEF j
      <3>2. Shifts("set", name, value, items, j) BY <3>1 DEF Shifts
      <3>3. QED BY <3>2 DEF j
    <2>3. Shifts("add", name, value, items, AddTo(items, name, value))
      <3> DEFINE j == AddTo(items, name, value)
      <3>1. /\ j \in ItemLists
            /\ Holds(j, name) = IF Holds(items, name) # Unset THEN Holds(items, name) ELSE value
            /\ \A other : other # name => Holds(j, other) = Holds(items, other)
            /\ KeysOf(j) = KeysOf(items) \cup {name}
        BY <2>1, AddIs
      <3> HIDE DEF j
      <3>2. Shifts("add", name, value, items, j) BY <3>1 DEF Shifts
      <3>3. QED BY <3>2 DEF j
    <2>4. QED BY <2>2, <2>3
  <1>2. Shifts("sort", <<>>, <<>>, items, Sorted(items))
    <2> DEFINE j == Sorted(items)
    <2>1. /\ j \in ItemLists /\ KeysOf(j) = KeysOf(items)
          /\ \A name : Holds(j, name) = Holds(items, name)
      BY SortedIs
    <2> HIDE DEF j
    <2>2. Shifts("sort", <<>>, <<>>, items, j) BY <2>1 DEF Shifts
    <2>3. QED BY <2>2 DEF j
  <1>3. ASSUME NEW names PROVE Shifts("filter", <<>>, <<>>, items, KeptIn(items, names))
    <2> DEFINE j == KeptIn(items, names)
    <2>1. /\ j \in ItemLists /\ KeysOf(j) \subseteq KeysOf(items) \cap names
          /\ \A name : Holds(j, name) = IF name \in names THEN Holds(items, name) ELSE Unset
      BY SiftedAlways DEF Sifted
    <2> HIDE DEF j
    <2>2. Shifts("filter", <<>>, <<>>, items, j) BY <2>1 DEF Shifts
    <2>3. QED BY <2>2 DEF j
  <1>4. Shifts("clean", <<>>, <<>>, items, KeptIn(items, Seq(Signs) \ {<<>>}))
    <2> DEFINE names == Seq(Signs) \ {<<>>}
               j == KeptIn(items, names)
    <2>1. /\ j \in ItemLists /\ KeysOf(j) \subseteq KeysOf(items)
          /\ \A name : Holds(j, name) = IF name \in names THEN Holds(items, name) ELSE Unset
      <3> HIDE DEF names
      <3>1. QED BY SiftedAlways DEF Sifted
    <2>2. ASSUME NEW name, name # <<>> PROVE Holds(j, name) = Holds(items, name)
      <3>1. CASE name \in Seq(Signs) BY <2>1, <2>2, <3>1
      <3>2. CASE name \notin Seq(Signs)
        <4>1. \A n \in 1 .. Len(items) : Tells(items[n], name) = Unset
          <5>1. \A n \in 1 .. Len(items) : items[n].key \in Seq(Signs) BY ItemsAre, ItemIs
          <5>2. QED BY <3>2, <5>1 DEF Tells
        <4>2. Holds(items, name) = Unset BY <4>1, HoldsIs
        <4>3. QED BY <2>1, <3>2, <4>2
      <3>3. QED BY <3>1, <3>2
    <2> HIDE DEF j
    <2>3. Shifts("clean", <<>>, <<>>, items, j) BY <2>1, <2>2 DEF Shifts
    <2>4. QED BY <2>3 DEF j
  <1>5. QED BY <1>1, <1>2, <1>3, <1>4

(* What a call that writes the URL does.                                    *)
LEMMA ChangedReads ==
  ASSUME NEW kind, NEW name \in PlainTexts, NEW value, NEW j,
         Shifts(kind, name, value, Items(url), j), Changed(kind, name, value, j),
         \A n \in ParamNames : AsWritten(n), url \in Seq(UrlSigns)
  PROVE  url' \in Seq(UrlSigns) /\ OthersRead'
PROOF
  <1>1. /\ url' = ToText(Prefix(url), j) /\ Parses
        /\ change' = [kind |-> kind, name |-> name, value |-> value, before |-> url]
    BY DEF Changed
  <1>2. Prefix(url) \in Seq(UrlSigns) /\ Parts(url) \in Seq(Seq(UrlSigns))
    BY UrlCut DEF Bodies
  <1>3. j \in ItemLists BY DEF Shifts
  <1>4. url' \in Seq(UrlSigns) BY <1>1, <1>2, <1>3, TextTyped
  <1>5. AllValid(Parts(url))
    <2> DEFINE p == Parts(url)
    <2> HIDE DEF p
    <2>1. p \in Seq(Seq(UrlSigns)) BY <1>2 DEF p
    <2>2. DOMAIN p = 1 .. Len(p) BY <2>1
    <2>3. \A n \in DOMAIN p : Valid(p[n]) BY <1>1 DEF Parses, p
    <2>4. QED BY <2>2, <2>3 DEF AllValid, p
  <1>6. PlainNames(Items(url)) => ReadsOn(kind, name, value, url, url')
    BY <1>1, <1>5, CallReads
  <1>7. /\ change'.kind = kind /\ change'.name = name /\ change'.value = value
        /\ change'.before = url
    BY <1>1
  <1>8. OthersRead'
    <2> HIDE <1>1
    <2>1. QED BY <1>6, <1>7 DEF OthersRead, ReadsOn
  <1>9. QED BY <1>4, <1>8

QueryInv == url \in Seq(UrlSigns) /\ OthersRead

LEMMA QueryInvStep ==
  ASSUME \A name \in ParamNames : AsWritten(name), QueryInv, [QueryNext]_queryVars
  PROVE  QueryInv'
PROOF
  <1> DEFINE items == Items(url)
  <1>1. url \in Seq(UrlSigns) BY DEF QueryInv
  <1>2. items \in ItemLists /\ FirstOnly(items) BY <1>1, ItemsTyped
  <1>3. \A n \in DOMAIN items : items[n].key \in Seq(Signs)
    <2> HIDE DEF items
    <2>1. QED BY <1>2, ItemsAre, ItemIs
  <1>4. /\ \A names : OnlyThese(names) = KeptIn(items, names)
        /\ \A names : AllBut(names) = KeptIn(items, Seq(Signs) \ names)
    <2>1. \A names : OnlyThese(names) = KeptIn(items, names)
      BY DEF OnlyThese, KeptIn, NamedPlaces
    <2>2. ASSUME NEW names PROVE AllBut(names) = KeptIn(items, Seq(Signs) \ names)
      <3>1. {n \in DOMAIN items : items[n].key \notin names} = NamedPlaces(items, Seq(Signs) \ names)
        BY <1>3 DEF NamedPlaces
      <3>2. QED BY <3>1 DEF AllBut, KeptIn
    <2>3. QED BY <2>1, <2>2
  <1> HIDE DEF items
  <1>5. /\ \A name \in ParamNames, value \in ParamValues :
             /\ Shifts("set", name, value, items, SetIn(items, name, value))
             /\ Shifts("add", name, value, items, AddTo(items, name, value))
        /\ Shifts("sort", <<>>, <<>>, items, Sorted(items))
        /\ Shifts("clean", <<>>, <<>>, items, AllBut({<<>>}))
        /\ \A names : /\ Shifts("filter", <<>>, <<>>, items, OnlyThese(names))
                      /\ Shifts("filter", <<>>, <<>>, items, AllBut(names))
    BY <1>2, <1>4, CallsShift
  <1>6. <<>> \in PlainTexts
    <2>1. <<>> \in Seq(Signs) /\ DOMAIN <<>> = {} OBVIOUS
    <2>2. QED BY <2>1 DEF PlainTexts, AsWritten
  <1>7. \A name \in ParamNames : name \in PlainTexts BY QueryStringAssumption DEF PlainTexts
  <1>8. ASSUME NEW kind, NEW name \in PlainTexts, NEW value, NEW j,
               Shifts(kind, name, value, items, j), Changed(kind, name, value, j)
        PROVE  QueryInv'
    BY <1>1, <1>8, ChangedReads DEF QueryInv, items
  <1>9. ASSUME NEW name \in ParamNames, NEW value \in ParamValues,
               SetParam(name, value) \/ AddParam(name, value)
        PROVE  QueryInv'
    <2>1. CASE SetParam(name, value)
      <3>1. Changed("set", name, value, SetIn(items, name, value)) BY <2>1 DEF SetParam, items
      <3>2. QED BY <1>5, <1>7, <1>8, <3>1
    <2>2. CASE AddParam(name, value)
      <3>1. Changed("add", name, value, AddTo(items, name, value)) BY <2>2 DEF AddParam, items
      <3>2. QED BY <1>5, <1>7, <1>8, <3>1
    <2>3. QED BY <1>9, <2>1, <2>2
  <1>10. CASE Clean
    <2>1. Changed("clean", <<>>, <<>>, AllBut({<<>>})) BY <1>10 DEF Clean
    <2>2. QED BY <1>5, <1>6, <1>8, <2>1
  <1>11. CASE Sort
    <2>1. Changed("sort", <<>>, <<>>, Sorted(items))
      BY <1>11 DEF Sort, Sorted, From, PlaceOf, Foremost, items
    <2>2. QED BY <1>5, <1>6, <1>8, <2>1
  <1>12. ASSUME NEW names, NEW except,
                Changed("filter", <<>>, <<>>, IF except THEN OnlyThese(names) ELSE AllBut(names))
         PROVE  QueryInv'
    <2>1. CASE except
      <3>1. Changed("filter", <<>>, <<>>, OnlyThese(names)) BY <1>12, <2>1
      <3>2. QED BY <1>5, <1>6, <1>8, <3>1
    <2>2. CASE ~except
      <3>1. Changed("filter", <<>>, <<>>, AllBut(names)) BY <1>12, <2>2
      <3>2. QED BY <1>5, <1>6, <1>8, <3>1
    <2>3. QED BY <2>1, <2>2
  <1>13. ASSUME NEW name \in ParamNames, NEW except \in BOOLEAN, Filter({name}, except)
         PROVE  QueryInv'
    BY <1>12, <1>13 DEF Filter
  <1>14. ASSUME NEW pattern \in DOMAIN Globs, NEW except \in BOOLEAN, PatternFilter(pattern, except)
         PROVE  QueryInv'
    BY <1>12, <1>14 DEF PatternFilter
  <1>15. CASE RemoveQuery
    <2>1. url' = Prefix(url) /\ change' = NoChange BY <1>15 DEF RemoveQuery
    <2>2. url' \in Seq(UrlSigns) BY <1>1, <2>1, UrlCut
    <2>3. change'.kind = "none" BY <2>1 DEF NoChange
    <2>4. OthersRead' BY <2>3 DEF OthersRead
    <2>5. QED BY <2>2, <2>4 DEF QueryInv
  <1>16. CASE UNCHANGED queryVars
    <2>1. url' = url /\ change' = change BY <1>16 DEF queryVars
    <2>2. QED BY <2>1 DEF QueryInv, OthersRead
  <1>17. QED BY <1>9, <1>10, <1>11, <1>13, <1>14, <1>15, <1>16 DEF QueryNext

(* A parameter that is set reads as its value, one that is added as its     *)
(* value if it had none, and every other one as before unless a filter took *)
(* it away, after any calls of querystring.set, add, clean, sort and the    *)
(* filters.  The arguments that are names have no character an escape       *)
(* stands for: set and add write names as they are (Query.toString).        *)
THEOREM OthersReadAsBefore ==
  ASSUME \A name \in ParamNames : AsWritten(name)
  PROVE  QuerySpec => []OthersRead
PROOF
  <1>1. QueryInit => QueryInv
    <2> SUFFICES ASSUME QueryInit PROVE QueryInv OBVIOUS
    <2>1. url \in Seq(UrlSigns) BY QueryStringAssumption DEF QueryInit, UrlSigns
    <2>2. change.kind = "none" BY DEF QueryInit, NoChange
    <2>3. QED BY <2>1, <2>2 DEF QueryInv, OthersRead
  <1>2. QueryInv /\ [QueryNext]_queryVars => QueryInv' BY QueryInvStep
  <1>3. QueryInv => OthersRead BY DEF QueryInv
  <1>4. QED BY <1>1, <1>2, <1>3, PTL DEF QuerySpec
=============================================================================
