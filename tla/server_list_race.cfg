SPECIFICATION Spec
CONSTANTS
  Worker = {w1, w2}
  NumServers = 1
  Timeout = 3
  Period = 2
  Late = 1
  Grace = 6
  ClockMod = 12
PROPERTIES
  NeverOfflineEarly
