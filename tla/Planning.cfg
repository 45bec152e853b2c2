CONSTANTS
  Workers = {"w1", "w2"}
  Others <- MCOthers
  Jobs = {1, 2}
  Linked = {1}
  Lease = 2
  MaxNow = 3
  MaxAttempts = 3
  MaxResumes = 1
  MaxDeaths = 1
SPECIFICATION MCSpec
CHECK_DEADLOCK FALSE
INVARIANTS
  JobsSound
PROPERTIES
  JobsSettle
  PlansReal
