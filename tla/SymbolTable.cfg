CONSTANTS
  x = x
  y = y
  f = f
  g = g
  Names <- VariableNames
  FunctionNames <- FunctionsNamed
  MaxVariables = 3
  MaxFunctions = 2
  MaxScopes = 4
SPECIFICATION Spec
SYMMETRY SameUpToNames
INVARIANTS TypeOK EspFollowsBlocks OneBodyEach UsesHaveStorage
PROPERTIES ScopesAreLexical
CHECK_DEADLOCK FALSE
