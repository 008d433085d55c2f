SPECIFICATION HeartbeatSpec
CONSTANTS
    Name = {a, b}
    Delay = 2
    MaxEvents = 3
    p = p
    ice = ice
    stone = stone
    Players = {p}
    Things = {ice, stone}
    RoomTemp <- MCRoomTemp
    Found <- MCFound
    Insulation <- MCInsulation
    MeltsAt <- MCMelts
    BoilsAt <- MCBoils
    Fragile = {p, ice}
    DamageLow = 2
    DamageHigh = 10
    FirstTemp = 1
    MaxLife = 3
    LifepointUnconscious = 1
    LifepointDie = 0
INVARIANTS SlapHasEvent LifeAgrees MatterAgrees
PROPERTIES SlapEnds Toward SettlesInTurn
CHECK_DEADLOCK FALSE
