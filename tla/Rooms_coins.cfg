SPECIFICATION RoomsSpec
CONSTANTS
    ann = ann  coin = coin  hall = hall  yard = yard
    book1 = book1  pile1 = pile1  pile2 = pile2
    Players = {ann, coin}
    Books = {book1}
    Piles = {pile1, pile2}
    Rooms = {hall, yard}
    StartRoom = hall
    Exits <- MCExits
    Admins = {ann}
    Called <- MCCalled
    Words = {"ann", "book", "coin"}
    RoomCapacity = 2
    PlayerCapacity = 1
    MaxNumber = 2
    MaxCoins = 4
    Width = 3
    Height = 3
    FirstSky <- MCSky
    Fixed <- MCFixed
    FixedExits <- MCFixedExits
    Watched <- MCWatched
    Directions = {"southwest", "eastnortheast"}
    WaterMark <- MCWaterMark
    Stable = 2
    Jitter = {1, 2}
    MaxFailures = 1
PROPERTY NoCoinsFromNothing
SYMMETRY MCSymmetry
CHECK_DEADLOCK FALSE
