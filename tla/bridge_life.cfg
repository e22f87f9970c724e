SPECIFICATION FairSpec
CONSTANTS
  Unset = Unset
  Empty = Empty
  NotANumber = NotANumber
  Files <- AllFiles
  Environments <- AnyEnvironment
  MaxSystems = 2
  Clients = {k1, k2}
  Workers = 2
INVARIANTS
  TypeOK
  NothingCutShort
  FailureIsReported
  LoopsPollWhereAsked
PROPERTIES
  EveryLoopRuns
  SignalEndsMain
CHECK_DEADLOCK FALSE
