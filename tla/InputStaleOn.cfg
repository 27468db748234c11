SPECIFICATION Spec
CONSTANTS
  None = None
  PowerDebounce = 4
  UnreliablePowerTimeout = 8
  HddActiveHold = 2
  PollInterval = 1
  MaxLag = 2
  MaxGap = 4
  Horizon = 16
INVARIANTS
  LossIsBounded
