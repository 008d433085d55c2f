SPECIFICATION MessagesSpec
CONSTANTS
    ann = ann  coin = coin  hall = hall  yard = yard  coins = coins
    Clients = {c1, c2, c3}
    Names = {ann, coin}
    NoName = NoName
    Registered = {ann}
    Rooms = {hall, yard}
    StartRoom = hall
    LostAndFound = yard
    Exits <- MCExits
    RoomCapacity = 3
    Channels = {chat}
    Things = {coins}
    ThingName <- MCThingName
    Lying <- MCLying
    Esc = "esc"
    Eol = "eol"
    Space = " "
    Char <- MCChar
    Texts <- MCTexts
    Lists <- MCLists
    Prompts <- MCPrompts
    Expansion <- MCExpansion
    FormattingSpace = 1
    DefaultWidth = 3
    Widths = {2, 3, 4}
    Floor = 3
INVARIANTS HeardOnce NotOverheard OnlySpacesBecomeEnds PlainLinesFit AllReadTheSame
PROPERTIES Echoed Sent
CHECK_DEADLOCK FALSE
