CONSTANTS
  Size = 8
  Lengths <- TwoToFour
  Reallocs = FALSE
SPECIFICATION Spec
INVARIANTS LiveBlocksDistinct
