SPECIFICATION FairSpec
CONSTANTS
  j1 = j1
  j2 = j2
  Jobs = {j1, j2}
  h1 = h1
  Home = {h1}
  None = None
  Network <- MCNetwork
  Scenarios <- SafetyScenarios
INVARIANTS
  TypeOK
  OneJob
  OnlyVerifiedIsDurable
  ResultIsTrue
  NothingLeftBehind
PROPERTIES
  ImplementsWifiChange
  JobEnds
