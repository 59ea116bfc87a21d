SPECIFICATION FairRadioSpec
CONSTANTS
  c1 = c1
  c2 = c2
  f1 = f1
  f2 = f2
  Coordinators = {c1, c2}
  StaticSongs = {f1}
  QueueRows = 1
  HistoryLen = 1
  MaxVersion = 2
  MaxFaults = 2
CHECK_DEADLOCK FALSE
INVARIANTS
  RadioTypeOK
PROPERTIES
  EverySongAirs
  NeverSilent
