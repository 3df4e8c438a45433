CONSTANTS
  o1 = o1
  o2 = o2
  o3 = o3
  r1 = r1
  r2 = r2
  r3 = r3
  Size = 3
  Roots <- ThreeRoots
  Ids <- ThreeIds
SPECIFICATION Spec
SYMMETRY Renaming
CONSTRAINT NotYetBroken
PROPERTIES ListedAreServed OthersFallOff
