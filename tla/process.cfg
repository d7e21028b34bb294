SPECIFICATION FairSpec
CONSTANTS
  MaxConfigLines = 3
  Worker = {w1, w2}
  Main = main
  Input = input
  NoThread = NoThread
  Timer = {t1}
  Udp = udp
  NoLoop = NoLoop
  MaxSignals = 2
  SignalPlace = {"wait", "stopTimers", "cancelTimers", "stopTcp", "stopUdp", "closeUdp", "stopIo",
                 "join", "stopConsole"}
INVARIANTS
  TypeOK
  SettingsAsWritten
  OneCallbackAfterStop
  NeverTerminates
PROPERTIES
  ShutdownCompletes
  LoopsGoOn
