CONSTANTS
  MaxGeneration = 3
SPECIFICATION MCSpec
CHECK_DEADLOCK FALSE
INVARIANTS

PROPERTIES
  BoardSpec
  RoutesSettle
  ActivationSettles
  TrustPublished
