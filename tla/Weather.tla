------------------------------ MODULE Weather ------------------------------
(* A zone with a map: the rooms its consistency check makes, the weather map *)
(* that the wind blows over them, and what people in a room are told of it.  *)
(* Map, weather map and rooms' coordinates are taken to fit each other.      *)
EXTENDS Integers, Sequences, FiniteSets, SequencesExt

CONSTANTS
    Width, Height,      \* of the map
    FirstSky,           \* the weather map as loaded, rows of weather characters
    Fixed, FixedExits,  \* cells whose room has a file, and the exits in it
    Watched,            \* cells people may be in
    Directions,         \* what the die for the direction of the wind may give
    WaterMark,          \* heartbeats between shifts, by strength of the wind
    Stable,             \* MinimumStableWindPeriod
    Jitter,             \* what may be added to it
    MaxFailures         \* bound: rooms that cannot be saved

(* Where walking an exit leads, and how far a wind shifts the map; y grows   *)
(* southward, upward shifts are positive.                                    *)
Way == [north |-> <<0, -1>>, south |-> <<0, 1>>, west |-> <<-1, 0>>, east |-> <<1, 0>>,
        northeast |-> <<1, -1>>, northwest |-> <<-1, -1>>,
        southeast |-> <<1, 1>>, southwest |-> <<-1, 1>>]

Shift == [north |-> <<0, 2>>, northnortheast |-> <<1, 2>>, northeast |-> <<2, 2>>,
          eastnortheast |-> <<2, 1>>, east |-> <<2, 0>>, eastsoutheast |-> <<2, -1>>,
          southeast |-> <<2, -2>>, southsoutheast |-> <<1, -2>>, south |-> <<0, -2>>,
          southsouthwest |-> <<-1, -2>>, southwest |-> <<-2, -2>>,
          westsouthwest |-> <<-2, -1>>, west |-> <<-2, 0>>, westnorthwest |-> <<-2, 1>>,
          northwest |-> <<-2, 2>>, northnorthwest |-> <<-1, 2>>]

Cells == (0 .. Width - 1) \X (0 .. Height - 1)
Kinds == UNION {ToSet(FirstSky[y]) : y \in DOMAIN FirstSky}
Winds == [strength : DOMAIN WaterMark, to : Directions]
None == "none"      \* a weather of 0, or one nobody has been told
NoWind == [strength |-> -1, to |-> None]    \* a wind nobody has been told

ASSUME WeatherAssumption ==
    /\ Width \in Nat \ {0} /\ Height \in Nat \ {0}
    /\ FirstSky \in [1 .. Height -> [1 .. Width -> Kinds]] /\ None \notin Kinds
    /\ Fixed \subseteq Cells /\ Watched \subseteq Cells
    /\ FixedExits \in [Fixed -> SUBSET [name : DOMAIN Way, to : Cells]]
    /\ Directions \subseteq DOMAIN Shift
    /\ WaterMark \in [DOMAIN WaterMark -> Nat] /\ DOMAIN WaterMark \subseteq 0 .. 5
    /\ Stable \in Nat /\ Jitter \subseteq Nat /\ Jitter # {} /\ MaxFailures \in Nat

VARIABLES
    rooms, exits,   \* mRoomList, by cell, and mExits of each
    checked,        \* how many cells the consistency check has seen
    sky, wind,      \* mWeather; mWindStrength and mWindDirection
    sinceWind, sinceShift,  \* mTimeSinceLastWindChange, mTimeSinceLastWeatherMapShift
    shown,          \* a room's mCurrentWeather, mWindStrength and mWindDirection
    occupied,       \* cells with somebody in the room
    known,          \* what the last to come into a room was told there
    early           \* cells where one looked before the room's first weather

zone == <<rooms, exits, checked>>
people == <<occupied, known, early>>
weatherVars == <<zone, sky, wind, sinceWind, sinceShift, shown, people>>

Unaware == [weather |-> None, wind |-> NoWind]

(* changeWind() has been called; a room's wind is not initialised            *)
WeatherInit ==
    /\ rooms = Fixed /\ exits = [c \in Cells |-> IF c \in Fixed THEN FixedExits[c] ELSE {}]
    /\ checked = 0
    /\ sky = FirstSky /\ wind \in Winds
    /\ sinceWind = 0 /\ sinceShift = 0
    /\ \E w \in Winds : shown = [c \in Cells |-> [weather |-> None, wind |-> w]]
    /\ occupied = {} /\ known = [c \in Watched |-> Unaware]
    /\ early = {}

----------------------------------------------------------------------------
(* The consistency check of the world zone makes the rooms that are missing  *)

ExitTo(name, x, y) == {[name |-> name, to |-> <<x, y>>]}

ExitsOfSmaller(x, y) ==
    UNION { IF y - 1 >= 0     THEN ExitTo("north", x, y - 1) ELSE {},
            IF y + 1 < Height - 1 THEN ExitTo("south", x, y + 1) ELSE {},
            IF x - 1 >= 0     THEN ExitTo("west", x - 1, y) ELSE {},
            IF x + 1 < Width  THEN ExitTo("east", x + 1, y) ELSE {} }

ExitsOf(x, y) ==
    UNION { IF y - 1 >= 0     THEN ExitTo("north", x, y - 1) ELSE {},
            IF y + 1 < Height THEN ExitTo("south", x, y + 1) ELSE {},
            IF x - 1 >= 0     THEN ExitTo("west", x - 1, y) ELSE {},
            IF x + 1 < Width  THEN ExitTo("east", x + 1, y) ELSE {},
            IF x + 1 < Width /\ y - 1 >= 0     THEN ExitTo("northeast", x + 1, y - 1) ELSE {},
            IF x - 1 >= 0    /\ y - 1 >= 0     THEN ExitTo("northwest", x - 1, y - 1) ELSE {},
            IF x + 1 < Width /\ y + 1 < Height THEN ExitTo("southeast", x + 1, y + 1) ELSE {},
            IF x - 1 >= 0    /\ y + 1 < Height THEN ExitTo("southwest", x - 1, y + 1) ELSE {} }

Checking == checked < Width * Height
NextCell == <<checked \div Height, checked % Height>>
Missing == {c \in Cells : c \notin rooms /\ c[1] * Height + c[2] < checked}

CheckCell ==
    /\ Checking /\ checked' = checked + 1
    /\ \/ NextCell \in rooms /\ UNCHANGED <<rooms, exits>>
       \/ /\ NextCell \notin rooms
          /\ rooms' = rooms \cup {NextCell}
          /\ exits' = [exits EXCEPT ![NextCell] = ExitsOf(NextCell[1], NextCell[2])]
       \/ /\ NextCell \notin rooms /\ Cardinality(Missing) < MaxFailures  \* not saved
          /\ UNCHANGED <<rooms, exits>>
    /\ UNCHANGED <<sky, wind, sinceWind, sinceShift, shown, people>>

----------------------------------------------------------------------------
(* The weather map *)

(* What n moves of the first to the back, or of the last to the front, make  *)
(* of a row or of the rows                                                   *)
PushedBack(s, n)  == [i \in DOMAIN s |-> s[1 + ((i - 1 + n) % Len(s))]]
PushedFront(s, n) == [i \in DOMAIN s |-> s[1 + ((i - 1 - n) % Len(s))]]

h_shift(m, d) ==
    [y \in DOMAIN m |-> IF d > 0 THEN PushedFront(m[y], d) ELSE PushedBack(m[y], -d)]

v_shiftLosing(m, d) == IF d > 0 THEN PushedBack(m, d) ELSE [y \in DOMAIN m |-> m[1]]

v_shift(m, d) == IF d > 0 THEN PushedBack(m, d) ELSE PushedFront(m, -d)

doWeather(m, w) ==
    IF w.strength = 0 THEN m
    ELSE LET by == Shift[w.to] IN v_shift(h_shift(m, by[1]), by[2])

At(m, c) == m[c[2] + 1][c[1] + 1]
Here(m, w, c) == [weather |-> At(m, c), wind |-> w]

(* What somebody who knew k is told when a room's weather goes from a to b   *)
ToldNothing(k, a, b) == [k EXCEPT !.weather = IF a.weather # b.weather THEN b.weather ELSE @]

Told(k, a, b) == [weather |-> IF a.weather # b.weather THEN b.weather ELSE k.weather,
                  wind    |-> IF a.wind # b.wind THEN b.wind ELSE k.wind]

ShiftTime(due) == IF due THEN 0 ELSE sinceShift + 1

(* Zone::handleWeather(): the wind may turn, then the map may shift, and each *)
(* time all rooms are given their weather                                     *)
Heartbeat ==
    /\ ~Checking
    /\ \E j \in Jitter, w \in Winds :
        LET turns == sinceWind + 1 > Stable + j
            now   == IF turns THEN w ELSE wind
            due   == sinceShift + 1 > WaterMark[now.strength]
            after == IF due THEN doWeather(sky, now) ELSE sky
            once  == [c \in Cells |-> IF turns /\ c \in rooms THEN Here(sky, now, c) ELSE shown[c]]
            twice == [c \in Cells |-> IF due /\ c \in rooms THEN Here(after, now, c) ELSE once[c]]
        IN  /\ sinceWind' = IF turns THEN 0 ELSE sinceWind + 1
            /\ sinceShift' = ShiftTime(due)
            /\ wind' = now /\ sky' = after
            /\ shown' = twice
            /\ known' = [c \in Watched |->
                            IF c \in occupied THEN Told(Told(known[c], shown[c], once[c]), once[c], twice[c])
                            ELSE known[c]]
    /\ UNCHANGED <<zone, occupied, early>>

----------------------------------------------------------------------------
(* People *)

Enter(c) ==
    /\ ~Checking /\ c \in rooms
    /\ occupied' = occupied \cup {c} /\ known' = [known EXCEPT ![c] = Unaware]
    /\ early' = early \ {c}
    /\ UNCHANGED <<zone, sky, wind, sinceWind, sinceShift, shown>>

LeaveRoom(c) ==
    /\ c \in occupied
    /\ occupied' = occupied \ {c} /\ known' = [known EXCEPT ![c] = Unaware]
    /\ early' = early \ {c}
    /\ UNCHANGED <<zone, sky, wind, sinceWind, sinceShift, shown>>

(* look asks the zone, not the room *)
Described(c) == Here(sky, wind, c)

Look(c) ==
    /\ c \in occupied
    /\ known' = [known EXCEPT ![c] = Described(c)]
    /\ early' = IF shown[c].weather = None THEN early \cup {c} ELSE early
    /\ UNCHANGED <<zone, sky, wind, sinceWind, sinceShift, shown, occupied>>

WeatherNext == CheckCell \/ Heartbeat \/ \E c \in Watched : Enter(c) \/ LeaveRoom(c) \/ Look(c)

WeatherSpec == WeatherInit /\ [][WeatherNext]_weatherVars

----------------------------------------------------------------------------

Step(c, d, n) == <<c[1] + n * Way[d][1], c[2] + n * Way[d][2]>>
Opposite == [north |-> "south", south |-> "north", west |-> "east", east |-> "west",
             northeast |-> "southwest", southwest |-> "northeast",
             northwest |-> "southeast", southeast |-> "northwest"]

(* An exit of a room the check made leads where its name says and to a room  *)
(* of the zone, if that could be saved, and between two such rooms there is  *)
(* a way back.                                                               *)
WaysBack ==
    \A c \in rooms \ Fixed : \A e \in exits[c] :
        /\ e.to = Step(c, e.name, 1) /\ e.to \in Cells
        /\ ~Checking => e.to \in rooms \cup Missing
        /\ e.to \in rooms \ Fixed => [name |-> Opposite[e.name], to |-> c] \in exits[e.to]

Around(c, by) == <<(c[1] + by[1]) % Width, (c[2] + by[2]) % Height>>

(* A shift turns the whole map round at its edges: no weather is lost,       *)
(* doubled or torn.  And the wind and the rooms agree on where north is: what *)
(* is blown north is found where two exits north lead.                       *)
Blown ==
    [][sky' # sky =>
          \E by \in Cells :
             /\ \A c \in Cells : At(sky', Around(c, by)) = At(sky, c)
             /\ wind'.to \in DOMAIN Way =>
                   by = Around(<<0, 0>>, Step(<<0, 0>>, wind'.to, 2))]_weatherVars

(* Who is in a room knows its weather, if he has been told any, and the wind, *)
(* unless he looked before the room had its first: no change goes unsaid,     *)
(* though a room with nobody in it changes silently.                          *)
Informed ==
    \A c \in occupied :
        /\ known[c].weather \in {None, At(sky, c)}
        /\ known[c].wind \in {NoWind, wind} \/ c \in early
=============================================================================
