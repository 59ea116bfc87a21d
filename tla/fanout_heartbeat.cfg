SPECIFICATION FairFanoutSpec
CONSTANTS
  c1 = c1
  w1 = w1
  Writers = {w1}
  Clients = {c1}
  MaxVersion = 2
  QueueSize = 1
  FanoutFaults = 0
CHECK_DEADLOCK FALSE
PROPERTIES
  HeartbeatHeals
