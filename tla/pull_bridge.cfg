SPECIFICATION Spec
CONSTANTS
  s1 = s1
  d1 = d1
  a1 = a1
  r1 = r1
  c1 = c1
  NoTarget = NoTarget
  NoPort = NoPort
  NoHost = NoHost
  Absent = Absent
  HealthCaller = HealthCaller
  Names = {"127.0.0.1"}
  Literals = {}
  Glued = {}
  Ports = {80, 443, 8645}
  Emails = {a1}
  Regexes = {r1}
  Matches <- MatchesIt
  Asks <- SameAsk
  Callers = {c1}
  StartFiles <- ExactAndPattern
  MaxEvents = 1
  Systems = {s1}
  Deliveries = {d1}
  Owner <- OneOwner
  Email <- OneEmail
  Domain <- OneDomain
  Limit = 1
  PollInterval = 10
  MaxBackoff = 300
  MaxExponent = 0
  MaxTimeouts <- Once
  MaxExpiries <- Once
  MaxRestarts = 1
  Targets <- OneTarget
  Threshold = 1
  MaxTroubles = 1
PROPERTIES
  ImplementsPullLoop
  ImplementsRouteHealth
CHECK_DEADLOCK FALSE
