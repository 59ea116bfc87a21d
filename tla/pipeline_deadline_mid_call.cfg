SPECIFICATION Spec
CONSTANTS
  u1 = u1
  u2 = u2
  d1 = d1
  d2 = d2
  i1 = i1
  i2 = i2
  s1 = s1
  s2 = s2
  JobCount = 1
  Users = {u1}
  Owner <- OneUser
  GlobalCap = 1
  UserCap = 1
  IngestMaxAttempts = 2
  MaxCalls = 1
  MaxFaults = 0
  Dispatchers = {d1}
  Ingesters = {i1}
  Sweepers = {s1}
  LeaseCoversCall = TRUE
CHECK_DEADLOCK FALSE
PROPERTIES
  FailedIsFinal
