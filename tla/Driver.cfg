CONSTANTS
  Processes = {1, 2}
  CommandLines <- MCCommandLines
  Hosts <- MCHosts
  Texts <- MCTexts
  Errors <- MCErrors
  Candidates <- MCCandidates
SPECIFICATION Spec
INVARIANTS LinksItsOwn NothingLeftBehind FilesAreIndependent
PROPERTY EveryFileIsAnswered
\* The processes end.
CHECK_DEADLOCK FALSE
