SPECIFICATION FairSpec
CONSTANTS
  e1 = e1
  e2 = e2
  r1 = r1
  NoTarget = NoTarget
  Unasked = Unasked
  Absent = Absent
  Emails = {e1, e2}
  Regexes = {r1}
  Matches <- MatchesSecond
  Asks <- UrlOrPort
  Names = {"h1", "127.0.0.1"}
  Literals = {"[::1]"}
  Glued = {"h1:x"}
  Ports = {80, 443, 8645, 8646}
  NoPort = NoPort
  NoHost = NoHost
  Callers = {c1, c2}
  Lookups = {l1}
  StartFiles <- ExactOrAbsent
  EditFiles <- RegexOne
  c1 = c1
  c2 = c2
  l1 = l1
  MaxEvents = 2
  MaxOps = 2
  MaxEdits = 1
  MaxFaults = 1
INVARIANTS
  TypeOK
  FlagComesDown
  MapMatchesFile
  PatternsMatchFile
  UpdatesSurvive
  ProbeGoesWherePostsGo
  MailGoesWhereMeant

  
CHECK_DEADLOCK FALSE
