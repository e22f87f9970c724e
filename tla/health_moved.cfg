SPECIFICATION Spec
CONSTANTS
  e1 = e1
  e2 = e2
  t1 = t1
  t2 = t2
  t3 = t3
  NoTarget = NoTarget
  Emails = {e1, e2}
  Targets = {t1, t2, t3}
  Bracketed = {t3}
  Threshold = 2
PROPERTIES
  RemovesOnlyDead
CHECK_DEADLOCK FALSE
