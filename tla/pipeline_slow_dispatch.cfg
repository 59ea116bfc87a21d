SPECIFICATION Spec
CONSTANTS
  u1 = u1
  u2 = u2
  d1 = d1
  d2 = d2
  i1 = i1
  i2 = i2
  s1 = s1
  s2 = s2
  JobCount = 1
  Users = {u1}
  Owner <- OneUser
  GlobalCap = 1
  UserCap = 1
  IngestMaxAttempts = 1
  MaxCalls = 2
  MaxFaults = 1
  Dispatchers = {d1, d2}
  Ingesters = {i1, i2}
  Sweepers = {s1}
  LeaseCoversCall = FALSE
SYMMETRY LoopSymmetry
CHECK_DEADLOCK FALSE
INVARIANTS
  OneQueueRowPerJob
  ReadyMeansPlayable
PROPERTIES
  OnlyWatchdogCredits
