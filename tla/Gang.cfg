CONSTANTS
  Focus = {"recipes", "store"}
  Nodes = {n1, n2}
  Installations = {"i1"}
  Runs = {"r1"}
  InstallationOf <- MCInstallationOf
  NodesOf <- MCNodesOf
  PortOf <- MCPortOf
  AliasOf <- MCAliasOf
  Installed = {}
  MaxJobs = 3
  Ops = {n1, n2}
  Digests = {x, y}
  Size = 2
  Capacity = 3
  MaxAttempts = 2
  Sources = 1
  MaxNames = 2
  MaxCrashes = 1
  MaxErrors = 1
SPECIFICATION MCSpec
SYMMETRY MCSymmetry
CHECK_DEADLOCK FALSE
INVARIANTS
  ReservationHeld
  GangSound
  StoreAccounts
