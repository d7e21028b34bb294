SPECIFICATION Spec
CONSTANTS
  Worker = {w1, w2}
  Main = main
  NoWorker = NoWorker
  Packet = {p1, p2}
  NoPacket = NoPacket
  MaxSends = 4
INVARIANTS
  OneWriteAtATime
  NoPacketLeftBehind
PROPERTIES
  SendsInOrder
