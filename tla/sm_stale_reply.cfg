SPECIFICATION Spec
CONSTANTS
  Worker = {w1, w2}
  Main = main
  Session = {s1, s2, s3}
  NoSession = NoSession
  NoThread = NoThread
  Addr = {a1}
  MaxClient = 1
  MaxIpConnection = 0
  CountMod = 4
  PeerMayVanish = FALSE
  MaxReplies = 1
  CountCap = 2
SYMMETRY Symmetry
INVARIANTS
  ReplyReachesRequester
