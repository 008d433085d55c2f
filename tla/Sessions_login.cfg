SPECIFICATION FairSpec
CONSTANTS
  Player = {p1, p2}
  NoPlayer = NoPlayer
  Name = {a}
  NoName = NoName
  Registered = {}
  Fd = {4, 5}
  MaxAttempts = 2
  RoomCapacity = 1
  MaxQueue = 1
INVARIANTS UniqueNames NoDescriptorLeak Consistent
PROPERTIES RosterSpec CommandsServed ShutdownCompletes
