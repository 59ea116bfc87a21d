SPECIFICATION Spec
CONSTANTS
  u1 = u1
  u2 = u2
  d1 = d1
  d2 = d2
  i1 = i1
  i2 = i2
  s1 = s1
  s2 = s2
  JobCount = 1
  Users = {u1}
  Owner <- OneUser
  GlobalCap = 2
  UserCap = 2
  IngestMaxAttempts = 2
  MaxCalls = 2
  MaxFaults = 2
  Dispatchers = {d1, d2}
  Ingesters = {i1}
  Sweepers = {s1, s2}
  LeaseCoversCall = TRUE
SYMMETRY LoopSymmetry
CHECK_DEADLOCK FALSE
INVARIANTS
  TypeOK
  RefundedAtMostOnce
  NoPhantomSlot
  OneDriverPerJob
PROPERTIES
  NoRecharge
  ImplementsLifecycle
