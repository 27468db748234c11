SPECIFICATION FairSpec
CONSTANTS
  t1 = t1
  t2 = t2
  Tabs = {t1, t2}
  b1 = b1
  b2 = b2
  Browsers = {b1, b2}
  r1 = r1
  r2 = r2
  Requests = {r1, r2}
  Max = 2
  Window = 2
  TTL = 2
  MaxSessions = 2
  MaxTime = 4
  Scenarios <- MCScenarios
  None = None
INVARIANTS
  TypeOK
  LoginLimit
  LoggedOutIsOut
PROPERTIES
  ImplementsAuthenticator
  AcceptsOnlyLive
  PanelComesBack
CHECK_DEADLOCK FALSE
