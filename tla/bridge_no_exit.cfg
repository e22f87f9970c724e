SPECIFICATION FairSpec
CONSTANTS
  Unset = Unset
  Empty = Empty
  NotANumber = NotANumber
  Files <- SomeFiles
  Environments <- SomeEnvironments
  MaxSystems = 2
  Clients = {k1}
  Workers = 2
PROPERTIES
  SignalEndsProcess
CHECK_DEADLOCK FALSE
