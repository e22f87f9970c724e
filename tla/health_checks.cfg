SPECIFICATION FairSpec
CONSTANTS
  e1 = e1
  e2 = e2
  t1 = t1
  t2 = t2
  t3 = t3
  NoTarget = NoTarget
  Emails = {e1, e2}
  Targets = {t1, t2}
  Bracketed = {}
  Threshold = 2
INVARIANTS
  DeathNeedsMisses
  HealthInv
PROPERTIES
  DeadGetsCleaned
  ShutdownEndsChecker
CHECK_DEADLOCK FALSE
