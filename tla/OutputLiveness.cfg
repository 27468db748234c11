SPECIFICATION FairSpec
CONSTANTS
  t1 = t1
  t2 = t2
  Threads = {t1, t2}
  r1 = r1
  Runs = {r1}
  p1 = p1
  p2 = p2
  p3 = p3
  Pids = {p1, p2, p3}
  None = None
  Scenarios <- LivenessScenarios
PROPERTIES
  PulseEnds
  OffFreesLock
