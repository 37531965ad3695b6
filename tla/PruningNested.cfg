CONSTANTS
  MaxBlocks = 20
  Functions <- Nested
  Graphs <- NestedGraphs
SPECIFICATION FoldSpec
INVARIANT PrunesOnlyDead
CHECK_DEADLOCK FALSE
