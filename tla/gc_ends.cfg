CONSTANTS
  o1 = o1
  o2 = o2
  o3 = o3
  r1 = r1
  r2 = r2
  Ids <- ThreeIds
  HeapSize = 4
  Roots <- TwoRoots
  Lengths <- UpToTwo
  PinIds <- OnePinned
  RelocMax = 1
SPECIFICATION Spec
PROPERTIES CollectionEnds PinnedStays
