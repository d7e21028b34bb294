SPECIFICATION Spec
CONSTANTS
  Base = 4
  SmallHeader = {3}
  LargeHeader = {2}
  MaxPacket = 5
  StreamCap = 10
INVARIANTS
  RoomForRead
PROPERTIES
  CutsTheStream
