------------------------------ MODULE MCSyntax ------------------------------
(* The lexer, or the parser: a behaviour is of one of them, as the parser   *)
(* reads nothing of the lexer but its tokens.                               *)
EXTENDS MCLexer, MCParser

VARIABLE component

MCInit ==
  \/ /\ component = "lexer"
     /\ LexInit
     /\ source = <<>> /\ current = 1 /\ program = <<>> /\ parsing = "done"
     /\ origin = <<>>
  \/ /\ component = "parser"
     /\ PrinterInit
     /\ input = <<>> /\ position = 1 /\ line = 1 /\ column = 1 /\ tokens = <<>>
     /\ lexing = "done"

MCNext ==
  \/ component = "lexer" /\ LexNext /\ UNCHANGED <<printerVars, component>>
  \/ component = "parser" /\ PrinterNext /\ UNCHANGED <<lexVars, component>>

MCSpec == MCInit /\ [][MCNext]_<<lexVars, printerVars, component>>

(* The lexer and the parser stay inside their input: no position or token    *)
(* lies behind its end, whatever the text.                                  *)
SyntaxTypeOK == LexTypeOK /\ ParseTypeOK
=============================================================================
