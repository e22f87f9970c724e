SPECIFICATION Spec
CONSTANTS
  None = None
  Torn = Torn
  Whole = Whole
  RenewAge = 1
  Lifetime = 4
  MaxOrders = 4
  MaxFailures = 4
  MaxCrashes = 3
INVARIANTS
  TypeOK
  FreshPairMatches
  RenewedInTime
PROPERTIES
  NoNeedlessOrders
CHECK_DEADLOCK FALSE
