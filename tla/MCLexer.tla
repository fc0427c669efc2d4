------------------------------ MODULE MCLexer ------------------------------
(* Texts for the lexer: all short ones over alphabets that interact, with   *)
(* one of characters beyond the basic plane.                                *)
EXTENDS Lexer

(* Escapes of one byte, of the first of several bytes and of a further one. *)
Escapes ==
  {<<"%", "2", "a">>, <<"%", "C", "2">>, <<"%", "e", "0">>, <<"%", "a", "0">>, <<"a">>}

LexerTexts == UNION {
  BoundedSeq({"0", "1", "x", "e", "p", ".", "+", "s", " "}, 5),
  BoundedSeq({"1", "e", ".", "s", "m", "-"}, 6),
  BoundedSeq({"\"", "'", "%", "2", "a", "nl"}, 5),
  {<<"\"">> \o FlattenSeq(s) \o <<"\"">> : s \in BoundedSeq(Escapes, 4)},
  {FlattenSeq(s) : s \in BoundedSeq({<<"\"">>, <<"hi", "lo">>, <<"%", "2", "a">>, <<"/">>}, 6)},
  BoundedSeq({"\"", "a", "nl"}, 7),
  BoundedSeq({"{", "}", "\"", "y", "nl", " "}, 5),
  BoundedSeq({"{", "}", "\"", "y"}, 7),
  BoundedSeq({"/", "*", "#", "nl", "a"}, 5),
  BoundedSeq({"C", "!", "~", "a", ":", "-", ".", "1", "?"}, 4)}

(* Addresses without quotes.                                                *)
DottedTexts == BoundedSeq({"1", "."}, 5)
=============================================================================
