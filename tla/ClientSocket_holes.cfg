SPECIFICATION Spec
CONSTANTS
  Thread = {driver, process}
  Driver = driver
  NoThread = NoThread
  ChunkSize = 2
  Links = {"up"}
  MaxText = 3
  MaxSaid = 4
INVARIANTS NothingSkipped
CHECK_DEADLOCK FALSE
