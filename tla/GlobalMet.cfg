CONSTANTS
  MaxBlocks = 24
  Functions <- GlobalMet
  Graphs <- CounterexampleGraphs
  LongMax = 15
  IntMax = 7
  Globals = {"g"}
  Params <- MCParams
  Pointers <- MCPointers
  Inits <- MCInits
  TakesAddress = {"f"}
  Inputs = {0, 1, 2}
SPECIFICATION RunSpec
INVARIANT AnalysisSound
