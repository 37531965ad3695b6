CONSTANTS
  MaxBlocks = 20
  Functions <- Single
  Graphs <- SingleGraphs
SPECIFICATION FoldSpec
INVARIANTS EdgesMirrored ExportExact PrunesOnlyDead ExecutableExported
PROPERTIES FoldingEnds
CHECK_DEADLOCK FALSE
