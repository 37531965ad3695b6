CONSTANT Programs <- MCPrograms
SPECIFICATION Spec
INVARIANTS LinksFollowLoops EveryJumpLands NoJumpCrossesALoop
CHECK_DEADLOCK FALSE
