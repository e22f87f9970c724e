SPECIFICATION Spec
CONSTANTS
  e1 = e1
  e2 = e2
  r1 = r1
  NoTarget = NoTarget
  Unasked = Unasked
  Absent = Absent
  Emails = {e1, e2}
  Regexes = {r1, e2}
  Matches <- MatchesSecond
  Asks <- HostAndPort
  Names = {"h1", "h2", "127.0.0.1"}
  Literals = {"[::1]"}
  Glued = {"h1:x"}
  Ports = {80, 443, 8645}
  NoPort = NoPort
  NoHost = NoHost
  Callers = {c1}
  Lookups = {}
  StartFiles <- RegexFile
  EditFiles <- FirstFiles
  c1 = c1
  c2 = c2
  l1 = l1
  MaxEvents = 3
  MaxOps = 1
  MaxEdits = 0
  MaxFaults = 0
PROPERTIES
  OwnReloadHarmless
CHECK_DEADLOCK FALSE
