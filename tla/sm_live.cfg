SPECIFICATION FairSpec
CONSTANTS
  Worker = {w1}
  Main = main
  Session = {s1, s2}
  NoSession = NoSession
  NoThread = NoThread
  Addr = {a1}
  MaxClient = 1
  MaxIpConnection = 0
  CountMod = 4
  PeerMayVanish = TRUE
  MaxReplies = 1
  CountCap = 2
PROPERTIES
  StopCompletes
  KeepsAccepting
  FailedSessionCloses
