SPECIFICATION ServicesSpec
CONSTANTS
  Jobs = {j1, j2}
  None = None
  Callers = {p1, p2}
  Lists = {l1, l2}
  Choices = {off, on}
  RoutesOff = {off}
  NoRules = NoRules
  logBufSize = 3
  MaxSeq = 12
  Tokens = {t1, t2, t3}
  Clients = {c1, c2, c3}
  maxAuthSessions = 2
  maxAuthAttempts = 2
  TTLs = {1, 2, 3}
  FailureLimit = 2
  BlockFor = 2
  ForgetAfter = 1
  Nothing = Nothing
  MaxTime = 4
  auto = auto
  second = second
  own = own
  e1 = e1
  e2 = e2
  e3 = e3
  Servers = {auto, second, own}
  Endpoints = {e1, e2, e3}
  Members <- MCMembers
  Order <- MCOrder
  Latencies = {0, 1}
  NoServer = NoServer
  MaxSwitches = 1
INVARIANTS ChosenIsBest ServicesTypeOK TestHasOwner UpdaterHasOwner BypassApplied BypassSaved ReaderSeesTail
PROPERTIES JobsEnd TablesKeepTheYoungest
