------------------------------- MODULE Lexer -------------------------------
(***************************************************************************)
(* VCLLexer.tokenize of src/src/vcl-parser.ts: from a text to its tokens.  *)
(*                                                                         *)
(* A text is a sequence of UTF-16 units, each a string: "nl" is the        *)
(* newline, " " a space or a tab, "hi" and "lo" are the halves of a        *)
(* surrogate pair.  Positions count from 1.  A token keeps its place and   *)
(* its coordinates; its value is the text there (of a short string: what   *)
(* stands between its quotes).  Words are short here: "synthetic", the one *)
(* keyword the lexer treats apart, is spelled y.                           *)
(***************************************************************************)
EXTENDS Integers, SequencesExt, FiniteSetsExt

CONSTANT Texts  \* the texts to read

ASSUME LexerAssumption == Texts \subseteq Seq(STRING)

VARIABLES
  input,
  position,
  line, column,
  tokens,
  lexing  \* "on", "done", or "failed" once an error is thrown

lexVars == <<input, position, line, column, tokens, lexing>>

LexInit ==
  /\ input \in Texts
  /\ position = 1
  /\ line = 1
  /\ column = 1
  /\ tokens = <<>>
  /\ lexing = "on"

-----------------------------------------------------------------------------
(* Classes of characters, as far as the texts need them.                    *)

Blanks        == {" ", "nl"}
Digits        == {"0", "1", "2"}
HexDigits     == Digits \cup {"a", "e", "C"}
Lower         == {"a", "e", "m", "p", "s", "x", "y"}
Letters       == Lower \cup {"C", "W"}
WordChars     == Letters \cup Digits
OperatorChars == {"+", "-", "*", "/", "%", "=", "<", ">", "!", "&", "|", "^", "~"}
Marks         == {"(", ")", "{", "}", "[", "]", ",", ";", ":"}
Quotes        == {"\"", "'"}
Units         == {<<"s">>, <<"m">>, <<"m", "s">>}

At(i) == IF i \in 1..Len(input) THEN input[i] ELSE "end"

(* substring: it stops at the end of the text.                              *)
Slice(i, j) == SubSeq(input, i, Min({j - 1, Len(input)}))

(* The first place from i on without a character of S.                      *)
After(S, i) == Min({j \in i..Len(input) + 1 : At(j) \notin S})

(* Where the pattern first occurs from i on, or behind the text.            *)
Find(pattern, i) ==
  Min({j \in i..Len(input) - Len(pattern) + 1 : Slice(j, j + Len(pattern)) = pattern}
        \cup {Len(input) + 1})

(* Behind the first occurrence of the pattern, or behind the text.          *)
Past(pattern, i) ==
  IF Find(pattern, i) > Len(input) THEN Len(input) + 1
                                   ELSE Find(pattern, i) + Len(pattern)

-----------------------------------------------------------------------------
(* Where the token at p ends: the place behind it.                          *)

LineCommentEnd(p) == Find(<<"nl">>, p + 1)

(* Mutant of BlockCommentEnd: "/*/" closes what it opens.                   *)
BlockCommentEndEarly(p) ==
  IF Find(<<"*", "/">>, p + 1) < Len(input) THEN Past(<<"*", "/">>, p + 1)
                                            ELSE Max({p + 2, Len(input)})

(* An open comment leaves the last character of the text.                   *)
BlockCommentEnd(p) ==
  IF Find(<<"*", "/">>, p + 2) < Len(input) THEN Past(<<"*", "/">>, p + 2)
                                            ELSE Max({p + 2, Len(input)})

OpensTriple(p) == p + 3 <= Len(input) /\ At(p + 1) = At(p) /\ At(p + 2) = At(p)

TripleStringEnd(p) == Past(<<At(p), At(p), At(p)>>, p + 3)

CodePoints(i, j) == Cardinality({k \in i..j - 1 : At(k) # "hi"})

(* Without an escape the string is crossed by code points, one unit each.   *)
HasEscape(p) == Contains(Slice(p + 1, Find(<<At(p)>>, p + 1)), "%")

Advances(p, i) == IF HasEscape(p) THEN i - p ELSE CodePoints(p, i)

(* Mutant of ShortStringEnd: an open string is closed all the same.         *)
ShortStringEndOver(p) == p + Advances(p, Find(<<At(p)>>, p + 1)) + 1

ShortStringEnd(p) ==
  Min({p + Advances(p, Find(<<At(p)>>, p + 1)) + 1, Len(input) + 1})

(* An escape is two hex digits, and the bytes must be UTF-8: of the hex     *)
(* digits here C and e begin a character of two or three bytes, and only a  *)
(* goes on with one.                                                        *)
Escaped(i, high) == At(i) = "%" /\ At(i + 1) \in high

EscapesOk(p) ==
  \A i \in {j \in p + 1..Find(<<At(p)>>, p + 1) - 1 : At(j) = "%"} :
    /\ At(i + 1) \in HexDigits /\ At(i + 2) \in HexDigits
    /\ Escaped(i, {"C"}) => At(i + 2) \notin {"0", "1"} /\ Escaped(i + 3, {"a"})
    /\ Escaped(i, {"e"}) => Escaped(i + 3, {"a"}) /\ Escaped(i + 6, {"a"})
    /\ Escaped(i, {"a"}) =>
         \/ i - 3 > p /\ Escaped(i - 3, {"C", "e"})
         \/ i - 6 > p /\ Escaped(i - 6, {"e"}) /\ Escaped(i - 3, {"a"})

DelimiterEnd(p) == After(WordChars, p + 1)

OpensLong(p) == At(p) = "{" /\ At(DelimiterEnd(p)) = "\""

LongStringEnd(p) ==
  Past(<<"\"">> \o Slice(p + 1, DelimiterEnd(p)) \o <<"}">>, DelimiterEnd(p) + 1)

Count(c, i, j) == Cardinality({k \in i..j : At(k) = c})

BlockEnd(p) ==
  Min({j + 1 : j \in {k \in p + 1..Len(input) : Count("{", p, k) = Count("}", p, k)}}
        \cup {Len(input) + 1})

Fraction(S, i) == IF At(i) = "." THEN After(S, i + 1) ELSE i

Exponent(marker, i) ==
  LET digits == IF At(i + 1) \in {"+", "-"} THEN i + 2 ELSE i + 1
  IN IF At(i) = marker /\ At(digits) \in Digits THEN After(Digits, digits) ELSE i

IsHex(p) == At(p) = "0" /\ At(p + 1) = "x"

HexMantissaEnd(p) == Fraction(HexDigits, After(HexDigits, p + 2))

HasNoDigits(p) == IsHex(p) /\ ToSet(Slice(p + 2, HexMantissaEnd(p))) \subseteq {"."}

(* Mutant of NumeralEnd: a fraction ends the number.                        *)
NumeralEndPlain(p) ==
  IF IsHex(p) THEN Exponent("p", HexMantissaEnd(p))
              ELSE Fraction(Digits, After(Digits, p))

NumeralEnd(p) ==
  IF IsHex(p) THEN Exponent("p", HexMantissaEnd(p))
              ELSE Exponent("e", Fraction(Digits, After(Digits, p)))

(* A unit binds across blanks of the line, and only if it ends the word.    *)
UnitEnd(i) ==
  LET from == After({" "}, i)
      to   == After(Lower, from)
  IN IF Slice(from, to) \in Units /\ At(to) \notin WordChars \cup {".", ":", "-"}
       THEN to
       ELSE i

NumberEnd(p) == UnitEnd(NumeralEnd(p))

GoesOn(i) ==
  \/ At(i) \in WordChars
  \/ At(i) = "." /\ At(i + 1) \in WordChars
  \/ At(i) = ":" /\ At(i + 1) \in Letters
  \/ At(i) = "-" /\ At(i - 1) \in WordChars /\ At(i + 1) \in WordChars

IdentifierEnd(p) == Min({i \in p + 1..Len(input) + 1 : ~GoesOn(i)})

OperatorEnd(p) == After(OperatorChars, p)

-----------------------------------------------------------------------------
(* One action per branch of tokenize.                                       *)

NewLines(i, j) == {k \in i..j - 1 : At(k) = "nl"}

(* The columns count what is advanced, from the last newline counted on:    *)
(* that one sets the column to 1, and is advanced, too (first = 1) or not.  *)
Cross(to, counted, advanced(_), first) ==
  /\ position' = to
  /\ line' = line + Cardinality(counted)
  /\ column' = IF counted = {} THEN column + advanced(position)
                               ELSE first + advanced(Max(counted))

Advance(to) == Cross(to, NewLines(position, to), LAMBDA i : to - i, 1)

Push(type, to) ==
  tokens' = Append(tokens, [type |-> type, start |-> position, stop |-> to,
                            line |-> line, column |-> column])

Begins(S) == lexing = "on" /\ At(position) \in S

Token(type, to) ==
  /\ Advance(to)
  /\ Push(type, to)
  /\ UNCHANGED <<input, lexing>>

Skip(to) ==
  /\ Advance(to)
  /\ UNCHANGED <<input, tokens, lexing>>

Throw ==
  /\ lexing' = "failed"
  /\ UNCHANGED <<input, position, line, column, tokens>>

Whitespace ==
  LET to == After(Blanks, position)
  IN /\ Begins(Blanks)
     /\ Cross(to, NewLines(position, to), LAMBDA i : to - i, 0)
     /\ UNCHANGED <<input, tokens, lexing>>

OpensLineComment == At(position) = "#" \/ (At(position) = "/" /\ At(position + 1) = "/")

OpensBlockComment == At(position) = "/" /\ At(position + 1) = "*"

LineComment ==
  /\ Begins({"#", "/"})
  /\ OpensLineComment
  /\ Token("COMMENT", LineCommentEnd(position))

BlockComment ==
  /\ Begins({"/"})
  /\ OpensBlockComment
  /\ Token("COMMENT", BlockCommentEnd(position))

TripleString ==
  /\ Begins(Quotes)
  /\ OpensTriple(position)
  /\ Token("STRING", TripleStringEnd(position))

(* The newlines counted are those up to the quote.                          *)
ShortString ==
  LET to      == ShortStringEnd(position)
      closing == Find(<<At(position)>>, position + 1)
  IN /\ Begins(Quotes)
     /\ ~OpensTriple(position)
     /\ EscapesOk(position)
     /\ Cross(to, NewLines(position + 1, closing),
              LAMBDA i : to - position - Advances(position, i), 1)
     /\ Push("STRING", to)
     /\ UNCHANGED <<input, lexing>>

BadEscape ==
  /\ Begins(Quotes)
  /\ ~OpensTriple(position)
  /\ ~EscapesOk(position)
  /\ Throw

Number ==
  /\ Begins(Digits)
  /\ ~HasNoDigits(position)
  /\ Token("NUMBER", NumberEnd(position))

BadNumber ==
  /\ Begins(Digits)
  /\ HasNoDigits(position)
  /\ Throw

OpensMarker == At(position) \in {"C", "W"} /\ At(position + 1) = "!"

Marker ==
  /\ Begins({"C", "W"})
  /\ OpensMarker
  /\ Skip(position + 2)

WordType(to) == IF Slice(position, to) = <<"y">> THEN "KEYWORD" ELSE "IDENTIFIER"

Word ==
  /\ Begins(Letters)
  /\ ~OpensMarker
  /\ Token(WordType(IdentifierEnd(position)), IdentifierEnd(position))

Operator ==
  /\ Begins(OperatorChars)
  /\ ~OpensLineComment
  /\ ~OpensBlockComment
  /\ Token("OPERATOR", OperatorEnd(position))

LongString ==
  /\ Begins({"{"})
  /\ OpensLong(position)
  /\ Token("STRING", LongStringEnd(position))

AfterSynthetic == tokens # <<>> /\ Last(tokens).type = "KEYWORD"

SyntheticBlock ==
  /\ Begins({"{"})
  /\ ~OpensLong(position)
  /\ AfterSynthetic
  /\ Token("STRING", BlockEnd(position))

Punctuation ==
  /\ Begins(Marks)
  /\ At(position) = "{" => ~OpensLong(position) /\ ~AfterSynthetic
  /\ Token("PUNCTUATION", position + 1)

BetweenDigits == At(position - 1) \in Digits /\ At(position + 1) \in Digits

Dot ==
  /\ Begins({"."})
  /\ ~BetweenDigits
  /\ Token("PUNCTUATION", position + 1)

(* The loop goes on without having moved.                                   *)
DotAgain ==
  /\ Begins({"."})
  /\ BetweenDigits
  /\ UNCHANGED lexVars

Unknown ==
  /\ lexing = "on"
  /\ position <= Len(input)
  /\ At(position) \notin
       UNION {Blanks, Digits, Letters, OperatorChars, Marks, Quotes, {"#", "."}}
  /\ Skip(position + 1)

Eof ==
  /\ lexing = "on"
  /\ position > Len(input)
  /\ Push("EOF", position)
  /\ lexing' = "done"
  /\ UNCHANGED <<input, position, line, column>>

Lex ==
  \/ Whitespace \/ LineComment \/ BlockComment \/ TripleString \/ ShortString
  \/ BadEscape \/ Number \/ BadNumber \/ Marker \/ Word \/ Operator
  \/ LongString \/ SyntheticBlock \/ Punctuation \/ Dot \/ DotAgain
  \/ Unknown \/ Eof

(* The text is read, or the error thrown.                                   *)
Read == lexing # "on" /\ UNCHANGED lexVars

LexNext == Lex \/ Read

LexSpec == LexInit /\ [][LexNext]_lexVars

(* tokenize is one synchronous loop: it goes on.                            *)
LexLiveSpec == LexSpec /\ WF_lexVars(Lex)

-----------------------------------------------------------------------------
(* Properties.                                                              *)

Types == {"COMMENT", "STRING", "NUMBER", "KEYWORD", "IDENTIFIER", "OPERATOR",
          "PUNCTUATION", "EOF"}

(* Type invariant: tokenize stays in the text, and its tokens are stretches *)
(* of it, one behind the other, of which only the last may be empty.        *)
LexTypeOK ==
  /\ position \in 1..Len(input) + 1
  /\ line \in Nat \ {0}
  /\ column \in Nat \ {0}
  /\ lexing \in {"on", "done", "failed"}
  /\ \A k \in DOMAIN tokens :
       /\ tokens[k].type \in Types
       /\ tokens[k].start < tokens[k].stop \/ tokens[k].type = "EOF"
       /\ tokens[k].stop <= (IF k < Len(tokens) THEN tokens[k + 1].start ELSE position)

(* How a string or a block comment at p may begin and end.                  *)
Brackets(p) ==
  {<<<<q>>, <<q>>>> : q \in Quotes}
    \cup {<<<<q, q, q>>, <<q, q, q>>>> : q \in Quotes}
    \cup {<<<<"{">> \o d \o <<"\"">>, <<"\"">> \o d \o <<"}">>>> :
            d \in {Slice(p + 1, DelimiterEnd(p))}}
    \cup {<<<<"/", "*">>, <<"*", "/">>>>}

EndsAtFirst(open, close, t) ==
  LET inside == t.start + Len(open)
      end    == Find(close, inside)
  IN /\ inside <= Len(input) + 1
     /\ Slice(t.start, inside) = open
     /\ IF end <= Len(input) THEN t.stop = end + Len(close)
                             ELSE t.stop >= Len(input)

(* A quoted string whose end tokenizeString misses: it has no escape, so    *)
(* that it is crossed by code points, and a character of two units.         *)
Miscounts(p) ==
  /\ At(p) \in Quotes /\ ~OpensTriple(p) /\ ~HasEscape(p)
  /\ \E k \in p + 1..Find(<<At(p)>>, p + 1) - 1 : At(k) = "hi"

(* A literal or comment that follows a token of a type.                     *)
Closes(t, before) ==
  LET isLine  == t.type = "COMMENT" /\ Slice(t.start, t.start + 2) # <<"/", "*">>
      isBlock == At(t.start) = "{" /\ before = "KEYWORD"
  IN /\ isLine => t.stop = Find(<<"nl">>, t.start)
     /\ t.type \in {"COMMENT", "STRING"} /\ ~isLine /\ ~isBlock /\ ~Miscounts(t.start) =>
          \E b \in Brackets(t.start) : EndsAtFirst(b[1], b[2], t)

(* A line comment ends with its line; a string or a block comment begins    *)
(* and ends with delimiters that belong together, and ends where the        *)
(* closing one first occurs; left open, it takes the rest of the text (a    *)
(* block comment: but for the last character).  The block after synthetic   *)
(* is no literal of this kind, and strings that are miscounted do end       *)
(* wrongly.                                                                 *)
LiteralsClose ==
  \A k \in DOMAIN tokens :
    Closes(tokens[k], IF k = 1 THEN "none" ELSE tokens[k - 1].type)

AllIn(S, i, j) == \A k \in i..j - 1 : At(k) \in S

(* Digits with at most one dot, and an exponent that has digits.            *)
IsNumeral(i, j, S, marker) ==
  \E whole \in i..j, mantissa \in i..j :
    /\ whole <= mantissa
    /\ AllIn(S, i, whole)
    /\ whole = mantissa \/ (At(whole) = "." /\ AllIn(S, whole + 1, mantissa))
    /\ ~AllIn({"."}, i, mantissa)
    /\ \/ mantissa = j
       \/ /\ At(mantissa) = marker
          /\ \E digits \in mantissa + 1..j - 1 :
               /\ digits = mantissa + 1
                    \/ (digits = mantissa + 2 /\ At(mantissa + 1) \in {"+", "-"})
               /\ AllIn(Digits, digits, j)

IsPlain(i, j) ==
  \/ At(i) = "0" /\ At(i + 1) = "x" /\ IsNumeral(i + 2, j, HexDigits, "p")
  \/ At(i) \in Digits /\ IsNumeral(i, j, Digits, "e")

(* The number literals of VCL: an integer or a float, and perhaps a unit.   *)
IsNumber(i, j) ==
  \/ IsPlain(i, j)
  \/ /\ \E m \in i + 1..j - 1, n \in i + 1..j - 1 :
          /\ m <= n
          /\ IsPlain(i, m)
          /\ AllIn({" "}, m, n)
          /\ Slice(n, j) \in Units
     /\ At(j) \notin WordChars \cup {".", ":", "-"}

(* A number token is the longest number literal at its place, with the unit *)
(* that belongs to it.                                                      *)
NumbersAreMaximal ==
  \A k \in DOMAIN tokens : tokens[k].type = "NUMBER" =>
    tokens[k].stop = Max({j \in tokens[k].start + 1..Len(input) + 1 :
                            IsNumber(tokens[k].start, j)})

(* The lexer ends, with its tokens or an error.                             *)
LexTerminates == <>(lexing # "on")
=============================================================================
