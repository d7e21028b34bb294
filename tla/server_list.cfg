SPECIFICATION Spec
CONSTANTS
  Worker = {w1}
  NumServers = 1
  Timeout = 5
  Period = 2
  Late = 1
  Grace = 7
  ClockMod = 14
INVARIANTS
  TypeOK
  OneReceiveChain
  OneTimerChain
PROPERTIES
  MonitorsHeartbeats
