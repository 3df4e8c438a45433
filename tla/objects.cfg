CONSTANTS
  n1 = n1
  n2 = n2
  n3 = n3
  v = v
  o1 = o1
  o2 = o2
  t1 = t1
  t2 = t2
  t3 = t3
  NULL = NULL
  Name = {n1, n2, n3}
  Hash <- Hashes
  Steps = {2, 4}
  SmallTable = 2
  MaxCapacity = 7
  Obj <- TwoObjects
  TableId <- ThreeTables
  Value = {v}
  Definitions <- Defining
  Natives = {n1}
  Globals = {n1, n2}
  MaxLength = 3
SPECIFICATION Spec
CONSTRAINT FewProperties
SYMMETRY Renaming
INVARIANTS TablesWellFormed BodiesDistinct ReadsNearest
PROPERTIES ImplementsMembers ForgetsByRedefining
CHECK_DEADLOCK FALSE
