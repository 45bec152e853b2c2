CONSTANTS
  Focus = {"recipes", "helper", "builds", "signing"}
  Nodes = {"n1"}
  Installations = {"i1"}
  Runs = {"r1", "r2"}
  InstallationOf <- MCInstallationOf
  NodesOf <- MCNodesOf
  PortOf <- MCPortOf
  AliasOf <- MCAliasOf
  Installed = {"i1"}
  MaxJobs = 2
  Ops = {"o1"}
  Digests = {"d1"}
  Size = 2
  Capacity = 3
  MaxAttempts = 2
  Sources = 1
  MaxNames = 2
  MaxCrashes = 1
  MaxErrors = 1
SPECIFICATION MCSpec
CHECK_DEADLOCK FALSE
INVARIANTS
  PortsExclusive
PROPERTIES
  RunsSettle
  HelperSpendsOnce
  BuildsSeparate
  SigningBounds
