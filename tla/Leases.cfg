CONSTANTS
  o1 = o1
  o2 = o2
  o3 = o3
  Nodes = {1, 2, 3}
  Owners = {o1, o2, o3}
  Targets <- MCTargets
  MaxFence = 2
  Requests = {"e1", "e2"}
  MaxSerial = 3
  MaxCrashes = 1
SPECIFICATION MCSpec
CHECK_DEADLOCK FALSE
INVARIANTS
  CertificatesAccounted
PROPERTIES
  Promised
  LeasesSettle
  CachesKeepTrust
  FetchesRightBytes
  BackendsAsSigned
  UpdatesUnderLease
