SPECIFICATION FairSpec
CONSTANTS
  Writers = {"wss", "tcp", "other"}
  Sizes = {1, 2, 3, 4}
  MaxMessage = 3
  Short = 1
  Word = 3
  Room = 2
  MaxPackets = 2
CHECK_DEADLOCK FALSE
INVARIANTS
  TypeOK
  WithinCap
  EofMeansAll
PROPERTIES
  ImplementsStream
  WrittenArrives
  ReaderEnds
