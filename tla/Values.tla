------------------------------- MODULE Values -------------------------------
(***************************************************************************)
(* The values expressions yield (src/src/vcl-value.ts and the converters   *)
(* of src/src/vcl-compiler.ts): plain JavaScript strings, numbers and      *)
(* booleans, VCLString (which knows not-set) and concatenations (which     *)
(* remember which of their parts were not set).                            *)
(***************************************************************************)
EXTENDS Texts

CONSTANT IntBits   \* width of an INTEGER: 64

ASSUME ValuesAssumption == IntBits \in Nat \ {0, 1}

Raw(text)     == [kind |-> "raw", text |-> text]    \* a JavaScript string
VCLText(text) == [kind |-> "text", text |-> text]   \* VCLString.from
NotSet        == [kind |-> "notset"]                \* VCLString.notset
Null          == [kind |-> "null"]                  \* null and undefined
Num(n)        == [kind |-> "int", n |-> n]
NaN           == [kind |-> "nan"]
Bool(b)       == [kind |-> "bool", b |-> b]
Concat(parts) == [kind |-> "concat", parts |-> parts]

Strings == {"raw", "text", "notset", "concat"}      \* isStringy

NullText == <<"(", "n", "u", "l", "l", ")">>

(* A number is one character of a text, a negative one has a sign.          *)
Digits(n) == IF n < 0 THEN <<"-", ToString(-n)>> ELSE <<ToString(n)>>

(* The parts of a concatenation: not-set ones are left out, or "(null)".    *)
AllNotSet(v) == v.parts # <<>> /\ \A i \in DOMAIN v.parts : v.parts[i].notset

ForLocal(v) == FlattenSeq([i \in DOMAIN v.parts |-> v.parts[i].text])

Display(v) ==
  FlattenSeq([i \in DOMAIN v.parts |->
                IF v.parts[i].notset THEN NullText ELSE v.parts[i].text])

ForHeader(v) == IF AllNotSet(v) THEN NotSet ELSE Raw(Display(v))

(* vclToString, with the branch of stringifyForOutput for a concatenation:  *)
(* the callers modelled here resolve one before vclToString would see it.   *)
TextOf(v) ==
  CASE v.kind \in {"raw", "text"}    -> v.text
    [] v.kind \in {"notset", "null"} -> NullText
    [] v.kind = "bool"               -> IF v.b THEN <<"1">> ELSE <<"0">>
    [] v.kind = "int"                -> Digits(v.n)
    [] v.kind = "nan"                -> <<"NaN">>
    [] v.kind = "concat"             -> Display(v)

(* toDisplayString: a boolean is a word here.                               *)
DisplayText(v) ==
  CASE v.kind = "null" -> <<>>
    [] v.kind = "bool" -> IF v.b THEN <<"true">> ELSE <<"false">>
    [] OTHER           -> TextOf(v)

(* toRawString                                                              *)
RawText(v) == IF v = NotSet THEN <<>> ELSE DisplayText(v)

(* toConcatPart                                                             *)
PartOf(v) ==
  CASE v.kind \in {"notset", "null"} -> [text |-> <<>>, notset |-> TRUE]
    [] v.kind = "concat"             -> [text |-> ForLocal(v), notset |-> AllNotSet(v)]
    [] OTHER                         -> [text |-> TextOf(v), notset |-> FALSE]

(* The " " and "+" of strings: concatenations are merged.                   *)
Concatenated(l, r) ==
  LET parts(v) == IF v.kind = "concat" THEN v.parts ELSE <<PartOf(v)>>
  IN Concat(parts(l) \o parts(r))

-----------------------------------------------------------------------------
(* Conditions.                                                              *)

(* What JavaScript takes for true: every object is.                         *)
JsTruthy(v) ==
  CASE v.kind = "raw"  -> v.text # <<>>
    [] v.kind = "int"  -> v.n # 0
    [] v.kind = "bool" -> v.b
    [] OTHER           -> v \notin {Null, NaN}

(* isTruthyCondition: a string is true when it is set, even when empty.     *)
Truthy(v) ==
  CASE v = NotSet                    -> FALSE
    [] v.kind = "concat"             -> ~AllNotSet(v)
    [] v.kind \in {"raw", "text"}    -> TRUE
    [] OTHER                         -> JsTruthy(v)

(* toBool                                                                   *)
ToBool(v) == v # NotSet /\ JsTruthy(v)

(* The operators && and ||: JavaScript's, of the values.                    *)
And(l, r) == IF JsTruthy(l) THEN r ELSE l

Or(l, r) == IF JsTruthy(l) THEN l ELSE r

(* Number(v): no number for NaN.                                            *)
Numbers(v) ==
  CASE v.kind = "int"  -> {v.n}
    [] v.kind = "bool" -> {IF v.b THEN 1 ELSE 0}
    [] v.kind \in {"null", "nan", "concat"} -> {}
    [] v.kind \in Strings /\ TextOf(v) = <<>> -> {0}
    [] OTHER           -> {n \in -9 .. 9 : Digits(n) = TextOf(v)}

(* vclEquals: a not-set operand is compared as "(null)", a string on the    *)
(* left makes it a comparison of strings.                                   *)
Equal(l, r) ==
  LET none(v) == v = NotSet \/ (v.kind = "concat" /\ AllNotSet(v))
  IN IF none(l) \/ none(r) THEN DisplayText(l) = DisplayText(r)
     ELSE IF l.kind \in Strings
       THEN RawText(l) = IF r.kind \in Strings THEN RawText(r) ELSE TextOf(r)
     ELSE IF "int" \in {l.kind, r.kind} THEN Numbers(l) # {} /\ Numbers(l) = Numbers(r)
     ELSE l = r

-----------------------------------------------------------------------------
(* Numbers.                                                                 *)

(* BigInt.asIntN and asUintN                                                *)
Unsigned(n) == n % 2 ^ IntBits

Signed(n) ==
  IF Unsigned(n) < 2 ^ (IntBits - 1) THEN Unsigned(n) ELSE Unsigned(n) - 2 ^ IntBits

(* toInt64: what is no number is zero.                                      *)
ToInt(v) == Signed(IF Numbers(v) = {} THEN 0 ELSE CHOOSE n \in Numbers(v) : TRUE)

Bit(n, i) == (Unsigned(n) \div 2 ^ i) % 2 = 1

BitwiseOf(op, m, n) ==
  LET on(i) == CASE op = "&=" -> Bit(m, i) /\ Bit(n, i)
                 [] op = "|=" -> Bit(m, i) \/ Bit(n, i)
                 [] op = "^=" -> Bit(m, i) # Bit(n, i)
  IN Signed(MapThenSumSet(LAMBDA i : 2 ^ i, {i \in 0 .. IntBits - 1 : on(i)}))

(* Mutant of RotateLeft: the sign comes along with the bits moved right.    *)
RotateSigned(n, b) == Signed(n * 2 ^ b + n \div 2 ^ (IntBits - b))

(* (c << b) | (c >> (64 - b)), and the other way round.                     *)
RotateLeft(n, b) == Signed(Unsigned(n) * 2 ^ b + Unsigned(n) \div 2 ^ (IntBits - b))
RotateRight(n, b) == Signed(Unsigned(n) \div 2 ^ b + Unsigned(n) * 2 ^ (IntBits - b))

(* An arithmetic shift; counts past the width saturate to the sign bit.     *)
ShiftRight(n, b) == n \div 2 ^ (IF b >= IntBits THEN IntBits - 1 ELSE b)

ShiftLeft(n, b) == IF b >= IntBits THEN 0 ELSE Signed(n * 2 ^ b)

(* INTEGER op INTEGER: division truncates towards zero, a remainder has the *)
(* sign of the dividend.                                                    *)
Quotient(m, n) ==
  LET size(k) == IF k < 0 THEN -k ELSE k
      q == size(m) \div size(n)
  IN IF (m < 0) = (n < 0) THEN q ELSE -q

Arithmetic(op, m, n) ==
  CASE op = "+" -> m + n
    [] op = "-" -> m - n
    [] op = "*" -> m * n
    [] op = "/" -> Quotient(m, n)
    [] op = "%" -> m - n * Quotient(m, n)

-----------------------------------------------------------------------------
(* Compound operators of set.                                               *)

Plain == [f \in {"+=", "-=", "*=", "/=", "%="} |->
            CASE f = "+=" -> "+" [] f = "-=" -> "-" [] f = "*=" -> "*"
              [] f = "/=" -> "/" [] f = "%=" -> "%"]

Thrown == [kind |-> "thrown"]   \* division by zero, a negative shift

(* applyCompoundOperator: a string on either side appends; an operand that  *)
(* is no number makes NaN.                                                  *)
Combine(op, current, new) ==
  LET unset   == current \in {Null, NotSet}
      m       == IF unset THEN {0} ELSE Numbers(current)
      n       == Numbers(new)
      a       == ToInt(current)
      b       == ToInt(new)
      rotated == Unsigned(b) % IntBits
  IN CASE op = "=" -> new
       [] op \in DOMAIN Plain ->
            IF op = "+=" /\ (current.kind \in Strings \/ new.kind \in Strings)
              THEN Raw((IF unset THEN <<>> ELSE TextOf(current)) \o DisplayText(new))
            ELSE IF op \in {"/=", "%="} /\ n = {0} THEN Thrown
            ELSE IF m = {} \/ n = {} THEN NaN
            ELSE Num(Arithmetic(Plain[op], CHOOSE k \in m : TRUE, CHOOSE k \in n : TRUE))
       [] op = "&&=" -> Bool(ToBool(current) /\ ToBool(new))
       [] op = "||=" -> Bool(ToBool(current) \/ ToBool(new))
       [] op \in {"&=", "|=", "^="} -> Num(BitwiseOf(op, a, b))
       [] op = "<<=" -> IF b < 0 THEN Thrown ELSE Num(ShiftLeft(a, b))
       [] op = ">>=" -> IF b < 0 THEN Thrown ELSE Num(ShiftRight(a, b))
       [] op = "rol=" -> Num(RotateLeft(a, rotated))
       [] op = "ror=" -> Num(RotateRight(a, rotated))

(* The converter of typed variables (coerceToVclType): text that is no      *)
(* number stays in an INTEGER as it is.                                     *)
Coerced(type, v) ==
  CASE type = "INTEGER" /\ Numbers(v) # {} -> Num(CHOOSE n \in Numbers(v) : TRUE)
    [] type = "BOOL" ->
         IF v = Raw(<<"false">>) THEN Bool(FALSE) ELSE Bool(JsTruthy(v))
    [] OTHER -> v
=============================================================================
