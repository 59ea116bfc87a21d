SPECIFICATION OutageRadioSpec
CONSTANTS
  c1 = c1
  c2 = c2
  f1 = f1
  f2 = f2
  Coordinators = {c1}
  StaticSongs = {f1, f2}
  QueueRows = 1
  HistoryLen = 1
  MaxVersion = 2
  MaxFaults = 1
CHECK_DEADLOCK FALSE
PROPERTIES
  NeverSilent
