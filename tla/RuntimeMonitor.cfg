SPECIFICATION FairSpec
CONSTANTS
  MaxFaults = 3
  None = None
INVARIANTS
  TypeOK
  SkipIsSound
PROPERTIES
  ImplementsStoredHistory
  HistoryIsComplete
  StoreCatchesUp
