SPECIFICATION Spec
CONSTANTS
  Scenarios <- HalfBuilt
INVARIANTS
  RestoredIsActive
