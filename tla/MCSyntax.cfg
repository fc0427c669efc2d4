SPECIFICATION MCSpec
CONSTANTS
  Texts <- LexerTexts
  Sources <- TokenSources
  Programs <- PrintedPrograms
  Headers <- HeaderNames
  Variables <- VariableNames
  Dotted <- DottedNames
  Addresses <- AddressTexts
  Lengths <- NumberLengths
  NoLength = NoLength
  Big = "2^63"
INVARIANTS
  SyntaxTypeOK
  LiteralsClose
  NumbersAreMaximal
  RoundTrip
  WordsKept
