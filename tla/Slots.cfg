CONSTANTS
  r1 = r1
  r2 = r2
  r3 = r3
  Artifacts = {r1, r2, r3}
  Writes <- WritesOf
  MinReadable <- OldestOf
  MaxReadable <- NewestOf
  Refusing = TRUE
  Substituting = FALSE
  MaxGeneration = 3
  MaxInstalls = 2
  MaxCrashes = 1
SPECIFICATION MCSpec
CHECK_DEADLOCK FALSE
INVARIANTS
  CommittedWasReady
PROPERTIES
  SlotsSound
  EngineRecovers
  StagingRecovers
