CONSTANTS
  Plans = {"r1", "r2"}
  Commit <- MCCommit
  Evidence <- MCEvidence
  Aliases = {"a", "b"}
  Window = 2
  MaxNow = 4
  MaxMoves = 2
SPECIFICATION MCSpec
CHECK_DEADLOCK FALSE
INVARIANTS
  UpgradesComplete
