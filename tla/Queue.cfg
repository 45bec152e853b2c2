CONSTANTS
  n1 = n1
  ja = ja
  jb = jb
  Nodes = {n1}
  Jobs = {ja, jb}
  Operations = {1, 2, 3}
  NodeOf <- MCNodeOf
  ParentOf <- MCParentOf
  Mutating = {1, 2}
  Capabilities <- MCCapabilities
  Leases = {1}
  MaxAttempts = 2
  MaxTime = 2
  MaxSerial = 2
SPECIFICATION MCSpec
CHECK_DEADLOCK FALSE
INVARIANTS
  QueueSound
  OneMutationPerNode
  RolloutServes
PROPERTIES
  DecisionsAreFinal
  PlansHonoured
