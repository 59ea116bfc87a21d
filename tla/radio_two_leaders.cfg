SPECIFICATION RadioSpec
CONSTANTS
  c1 = c1
  c2 = c2
  f1 = f1
  f2 = f2
  Coordinators = {c1, c2}
  StaticSongs = {f1, f2}
  QueueRows = 2
  HistoryLen = 1
  MaxVersion = 2
  MaxFaults = 2
SYMMETRY RadioSymmetry
CHECK_DEADLOCK FALSE
INVARIANTS
  AiredInOrder
PROPERTIES
  ImplementsStation
  NoFillerTwice
