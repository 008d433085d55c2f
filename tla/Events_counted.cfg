SPECIFICATION EventsSpec
CONSTANTS
  Name = {a, b}
  Delay = 2
  MaxEvents = 2
INVARIANTS AllCounted
