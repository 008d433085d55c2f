SPECIFICATION FilesSpec
CONSTANTS
    Null = Null
    NoFile = NoFile
    Torn = Torn
    NullSection = NullSection
    NotAMap = NotAMap
    Absent = Absent
    Unreadable = Unreadable
    Unwritten = Unwritten
    Metals <- MCMetals
    Ended <- MCEnded
    Keys <- MCKeys
    Ips = {"here", "there"}
    Reasons = {"spam"}
    Ids = {"book"}
    ShippedConfig <- MCShipped
    ShippedBans <- MCShippedBans
    ShippedRoom <- MCShippedRoom
    Documents <- MCDocuments
    Words = {"n"}
    Commands <- MCCommands
    RoomName = "hall"
    RoomCapacity = 4
    PlayerCapacity = 2
    MaxStarts = 2
    MaxChanges = 2
    MaxCoins = 2
    Rooms = 2
    Timer = 1
    MayStop = TRUE
    MaxVersion = 2
INVARIANTS DiskGoesForward Consistent Restored
PROPERTIES SavedEventually BansSurvive NeverCutDown NotOverwritten
CHECK_DEADLOCK FALSE
