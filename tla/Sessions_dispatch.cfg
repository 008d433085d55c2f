SPECIFICATION Spec
CONSTANTS
  Player = {p1, p2, p3}
  NoPlayer = NoPlayer
  Name = {a}
  NoName = NoName
  Registered = {a}
  Fd = {4, 5}
  MaxAttempts = 1
  RoomCapacity = 2
  MaxQueue = 1
SYMMETRY ConnectionSymmetry
INVARIANT OwnCommand
