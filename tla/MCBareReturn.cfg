\* What a bare return does in a custom subroutine.
SPECIFICATION Spec
CONSTANTS
  Programs <- MCPrograms
  MaxDepth = 6
  MaxEvals = 2
PROPERTIES
  BareReturnExits
