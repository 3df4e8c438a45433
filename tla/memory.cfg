CONSTANTS
  Size = 15
  Lengths <- TwoToFour
  Reallocs = TRUE
SPECIFICATION Spec
CONSTRAINT NotYetBroken
INVARIANTS FreeListMerged FreeIsNotHeld
PROPERTIES OnlyShrinkDisorders OnlySuchFreesLoseUnits
