CONSTANTS
  Functions <- TheFunctions
  Parameters <- TheParameters
  Locals <- TheLocals
  Sites <- TheSites
  Assigned <- TheAssigned
  Results <- TheResults
  Values = {20}
  Garbage = Garbage
  Abis <- TheAbis
  MaxDepth = 4
  StackWords = 200
SPECIFICATION Spec
INVARIANTS CallsAligned HostIsRestored
PROPERTIES FramesAreActivations
CHECK_DEADLOCK FALSE
