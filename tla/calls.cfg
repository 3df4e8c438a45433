CONSTANTS
  Functions <- ThreeFunctions
  Domains <- TwoModules
  DomainOf <- ModuleOfFunction
  None = None
  StackSize = 11
  FrameSize = 2
  Arguments <- ZeroToTwo
  CrossTail = FALSE
SPECIFICATION Spec
INVARIANTS TypeOK FramesTileStack OnlyBaseIsFinal ReturnsIntoCaller DiscardHasPrepushed NoRawExport RunsInOwnDomain
PROPERTIES ReturnHasRoom ProgramSeesActivations
CHECK_DEADLOCK FALSE
