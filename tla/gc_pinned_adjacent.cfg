CONSTANTS
  o1 = o1
  o2 = o2
  o3 = o3
  o4 = o4
  r1 = r1
  r2 = r2
  r3 = r3
  Ids <- FourIds
  HeapSize = 6
  Roots <- ThreeRoots
  Lengths <- Units
  PinIds <- TwoPinned
  RelocMax = 2
SPECIFICATION Spec
SYMMETRY RenamingTwo
CONSTRAINT NoReferences
INVARIANTS HeapValidWhenIdle
