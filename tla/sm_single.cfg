SPECIFICATION Spec
CONSTANTS
  Worker = {w1}
  Main = main
  Session = {s1, s2, s3}
  NoSession = NoSession
  NoThread = NoThread
  Addr = {a1, a2}
  MaxClient = 2
  MaxIpConnection = 1
  CountMod = 4
  PeerMayVanish = FALSE
  MaxReplies = 1
  CountCap = 3
SYMMETRY Symmetry
INVARIANTS
  TypeOK
  CountsExact
  IpLimitHolds
  OneSurvivesStop
