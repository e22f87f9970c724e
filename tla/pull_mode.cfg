SPECIFICATION LoopSpec
CONSTANTS
  s1 = s1
  d1 = d1
  d2 = d2
  a1 = a1
  Systems = {s1}
  Deliveries = {d1, d2}
  Owner <- OneOwner
  Emails = {a1}
  Email <- OneEmail
  Domain <- OneDomain
  PatternEmails = {a1}
  Limit = 2
  PollInterval = 10
  MaxBackoff = 300
  MaxExponent = 1
  MaxTimeouts <- FirstOnce
  MaxExpiries <- FirstOnce
  MaxRestarts = 1
INVARIANTS
  AckedWasTaken
  CopiesNeedFaults
  PullInv
PROPERTIES
  PromiseSpec
  BackoffNeverShrinks
  RoutedGetsSettled
  ShutdownEndsLoops
