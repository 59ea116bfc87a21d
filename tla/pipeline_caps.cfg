SPECIFICATION Spec
CONSTANTS
  u1 = u1
  u2 = u2
  d1 = d1
  d2 = d2
  i1 = i1
  i2 = i2
  s1 = s1
  s2 = s2
  JobCount = 3
  Users = {u1, u2}
  Owner <- TwoUsers
  GlobalCap = 2
  UserCap = 1
  IngestMaxAttempts = 2
  MaxCalls = 1
  MaxFaults = 0
  Dispatchers = {d1, d2}
  Ingesters = {i1}
  Sweepers = {}
  LeaseCoversCall = TRUE
SYMMETRY LoopSymmetry
CHECK_DEADLOCK FALSE
INVARIANTS
  UserCapRespected
