CONSTANTS
  o1 = o1
  o2 = o2
  o3 = o3
  r1 = r1
  r2 = r2
  Ids <- ThreeIds
  HeapSize = 6
  Roots <- TwoRoots
  Lengths <- UpToTwo
  PinIds <- None
  RelocMax = 2
SPECIFICATION Spec
SYMMETRY Renaming
INVARIANTS TypeOK HeapValidWhenIdle HeapWalkableAlways HintBoundsFreeBlocks
PROPERTIES FailsOnlyWhenFull ProgramSeesOneGraph
