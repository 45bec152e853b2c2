SPECIFICATION Spec
CONSTANTS
  n1 = n1
  n2 = n2
  Recs = {1, 2}
  Nodes = {n1, n2}
  Targets <- MCTargets
  Ops = {1, 2, 3}
  RolloutNodes = {n1}
  RecOf <- MCRecOf
  NodeOf <- MCNodeOf
  DependsOn <- MCDependsOn
  Mutating = {1, 2, 3}
  Undoable = {1, 2}
  UndoOnFail = {1, 2}
  Previews = {}
  CancelAt = {"planned", "withdrawal-pending", "routes-withdrawn", "dispatching", "accepting", "publication-pending", "compensating", "completed", "waiting-for-operator"}
  Fallible = {2, n1}
  MaxLosses = 1
PROPERTIES
  PublicationsOwned
CHECK_DEADLOCK FALSE
