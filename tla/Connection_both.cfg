SPECIFICATION ConnectionSpec
CONSTANTS
  Special <- AllSpecial
  BufferLen = 4
  MaxTyped = 5
  Thread = {driver, process}
  Driver = driver
  NoThread = NoThread
  ChunkSize = 2
  Links = {"up", "full", "gone"}
  MaxText = 3
  MaxSaid = 5
INVARIANTS InputKept LinesKeptApart SentInOrder
PROPERTIES WakesWhileUp
CHECK_DEADLOCK FALSE
