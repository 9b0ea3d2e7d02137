SPECIFICATION Spec
CONSTANTS
  Writers = {"wss"}
  Sizes = {1, 2, 3}
  MaxMessage = 3
  Short = 1
  Word = 3
  Room = 5
  MaxPackets = 1
CHECK_DEADLOCK FALSE
INVARIANT OnePacketOneMessage
