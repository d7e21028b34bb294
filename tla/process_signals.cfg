SPECIFICATION FairSpec
CONSTANTS
  MaxConfigLines = 0
  Worker = {w1, w2}
  Main = main
  Input = input
  NoThread = NoThread
  Timer = {t1}
  Udp = udp
  NoLoop = NoLoop
  MaxSignals = 2
  SignalPlace = {"wait", "stoppingIo"}
PROPERTIES
  ShutdownCompletes
CHECK_DEADLOCK FALSE
