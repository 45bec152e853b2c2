CONSTANTS
  n1 = n1
  ja = ja
  Nodes = {n1}
  Jobs = {ja}
  Operations = {1, 2}
  NodeOf <- MCNodeOf
  ParentOf <- MCParentOf
  Mutating = {1, 2}
  Capabilities <- MCCapabilities
  Leases = {1}
  MaxAttempts = 2
  MaxTime = 2
  MaxSerial = 2
SPECIFICATION MCSpec
CHECK_DEADLOCK FALSE
INVARIANTS
  RunsOnce
  SuccessSound
PROPERTIES
  ResultsSurface
  AttemptsResolve
  CredentialsSurvive
