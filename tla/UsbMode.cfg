SPECIFICATION Spec
CONSTANTS
  Scenarios <- AllFailures
INVARIANTS
  TypeOK
  OneFunction
  SuccessIsTrue
  FileIsWhatRuns
