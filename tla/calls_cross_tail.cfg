CONSTANTS
  Functions <- ThreeFunctions
  Domains <- TwoModules
  DomainOf <- ModuleOfFunction
  None = None
  StackSize = 10
  FrameSize = 2
  Arguments <- ZeroToTwo
  CrossTail = TRUE
SPECIFICATION Spec
INVARIANTS RunsInOwnDomain

CHECK_DEADLOCK FALSE
