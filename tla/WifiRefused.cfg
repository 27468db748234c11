SPECIFICATION Spec
CONSTANTS
  j1 = j1
  j2 = j2
  Jobs = {j1, j2}
  h1 = h1
  Home = {h1}
  None = None
  Network <- MCNetwork
  Scenarios <- SlowScan
INVARIANTS
  RefusedNeverRuns
