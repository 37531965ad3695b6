CONSTANTS
  MaxBlocks = 24
  Functions <- Sound
  Graphs <- SoundGraphs
  LongMax = 15
  IntMax = 7
  Globals = {"g"}
  Params <- MCParams
  Pointers <- MCPointers
  Inits <- MCInits
  TakesAddress = {"f"}
  Inputs = {0, 1, 2}
SPECIFICATION RunSpec
INVARIANTS AnalysisSettled AnalysisSound SameEffect
PROPERTIES OutsDescend OptimizationEnds
