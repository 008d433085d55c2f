---------------------------- MODULE WeatherProofs ----------------------------
(***************************************************************************)
(* The exits of the rooms the consistency check makes, the weather map     *)
(* that the wind turns and what people know of it (module Weather), for    *)
(* every size of the map, every sky, every set of rooms that have files,   *)
(* every choice of the rooms that cannot be saved and every wind.          *)
(*                                                                         *)
(* RoomsInv: ExitsOf gives a room the neighbours of its cell and nothing   *)
(* else, the ways are in opposite pairs, and a room that is made keeps its *)
(* exits.  A shift is a turn by some cell (Turned), whatever the wind.     *)
(* SeenInv: a room shows the weather of its cell or has never shown any,   *)
(* and then nobody in it knows of a wind who did not look.                 *)
(***************************************************************************)
EXTENDS Weather, SequenceTheorems, TLAPS

Names == {"north", "south", "west", "east",
          "northeast", "northwest", "southeast", "southwest"}

Neighbour(x, y, n) == <<x + Way[n][1], y + Way[n][2]>>

RoomsInv ==
  /\ checked \in Nat
  /\ rooms \subseteq Cells
  /\ exits = [c \in Cells |-> exits[c]]
  /\ \A c \in rooms \ Fixed : exits[c] = ExitsOf(c[1], c[2])

Skies == [1 .. Height -> [1 .. Width -> Kinds]]

\* What somebody knows (k) fits what his room shows (a), which shows the
\* weather s and the wind w that are there, or nothing yet; e: he has looked
\* before it showed anything.
Fits(k, a, s, w, e) ==
  /\ k.weather \in {None, s}
  /\ k.wind \in {NoWind, w} \/ e
  /\ \/ a = [weather |-> s, wind |-> w]
     \/ a.weather = None /\ (k.wind = NoWind \/ e)

\* The same of a room with nobody in it
Shows(a, s, w) == a = [weather |-> s, wind |-> w] \/ a.weather = None

SeenInv ==
  /\ sky \in Skies /\ wind \in Winds
  /\ shown = [c \in Cells |-> shown[c]] /\ known = [c \in Watched |-> known[c]]
  /\ rooms \subseteq Cells /\ occupied \subseteq rooms \cap Watched
  /\ \A c \in Cells \ rooms : shown[c].weather = None
  /\ \A c \in rooms : Shows(shown[c], At(sky, c), wind)
  /\ \A c \in occupied : Fits(known[c], shown[c], At(sky, c), wind, c \in early)

-----------------------------------------------------------------------------
(* The ways, and the map.                                                  *)

LEMMA Ways ==
  /\ DOMAIN Way = Names /\ DOMAIN Opposite = Names
  /\ \A n \in Names : Way[n][1] \in Int /\ Way[n][2] \in Int
BY DEF Way, Opposite, Names

\* Who walks a way and then its opposite is where he was.
LEMMA Opposites ==
  \A n \in Names : /\ Opposite[n] \in Names
                   /\ Way[Opposite[n]][1] = 0 - Way[n][1]
                   /\ Way[Opposite[n]][2] = 0 - Way[n][2]
BY DEF Way, Opposite, Names

LEMMA ACell ==
  ASSUME NEW c \in Cells
  PROVE  /\ c = <<c[1], c[2]>>
         /\ c[1] \in 0 .. Width - 1 /\ c[2] \in 0 .. Height - 1
         /\ c[1] \in Int /\ c[2] \in Int
BY WeatherAssumption DEF Cells

\* The exits of a room are its neighbours on the map.
LEMMA ExitsAreNeighbours ==
  ASSUME NEW c \in Cells, NEW e
  PROVE  e \in ExitsOf(c[1], c[2]) <=>
           \E n \in Names : /\ Neighbour(c[1], c[2], n) \in Cells
                            /\ e = [name |-> n, to |-> Neighbour(c[1], c[2], n)]
<1> DEFINE x == c[1]
           y == c[2]
           Leads(n) == /\ Neighbour(x, y, n) \in Cells
                       /\ e = [name |-> n, to |-> Neighbour(x, y, n)]
<1>1. /\ x \in 0 .. Width - 1 /\ y \in 0 .. Height - 1 /\ x \in Int /\ y \in Int
      /\ Width \in Nat /\ Height \in Nat
  BY ACell, WeatherAssumption
<1> HIDE DEF x, y
<1>2. /\ Neighbour(x, y, "north") = <<x, y - 1>>
      /\ Neighbour(x, y, "south") = <<x, y + 1>>
      /\ Neighbour(x, y, "west") = <<x - 1, y>>
      /\ Neighbour(x, y, "east") = <<x + 1, y>>
      /\ Neighbour(x, y, "northeast") = <<x + 1, y - 1>>
      /\ Neighbour(x, y, "northwest") = <<x - 1, y - 1>>
      /\ Neighbour(x, y, "southeast") = <<x + 1, y + 1>>
      /\ Neighbour(x, y, "southwest") = <<x - 1, y + 1>>
  BY <1>1 DEF Neighbour, Way
<1>3. \A a \in Int, b \in Int :
        <<a, b>> \in Cells <=> a >= 0 /\ a < Width /\ b >= 0 /\ b < Height
  BY <1>1 DEF Cells
<1>4. e \in ExitsOf(x, y) <=>
        \/ y - 1 >= 0 /\ e = [name |-> "north", to |-> <<x, y - 1>>]
        \/ y + 1 < Height /\ e = [name |-> "south", to |-> <<x, y + 1>>]
        \/ x - 1 >= 0 /\ e = [name |-> "west", to |-> <<x - 1, y>>]
        \/ x + 1 < Width /\ e = [name |-> "east", to |-> <<x + 1, y>>]
        \/ x + 1 < Width /\ y - 1 >= 0 /\ e = [name |-> "northeast", to |-> <<x + 1, y - 1>>]
        \/ x - 1 >= 0 /\ y - 1 >= 0 /\ e = [name |-> "northwest", to |-> <<x - 1, y - 1>>]
        \/ x + 1 < Width /\ y + 1 < Height /\ e = [name |-> "southeast", to |-> <<x + 1, y + 1>>]
        \/ x - 1 >= 0 /\ y + 1 < Height /\ e = [name |-> "southwest", to |-> <<x - 1, y + 1>>]
  BY DEF ExitsOf, ExitTo
<1>5. /\ <<x, y - 1>> \in Cells <=> y - 1 >= 0
      /\ <<x, y + 1>> \in Cells <=> y + 1 < Height
      /\ <<x - 1, y>> \in Cells <=> x - 1 >= 0
      /\ <<x + 1, y>> \in Cells <=> x + 1 < Width
      /\ <<x + 1, y - 1>> \in Cells <=> x + 1 < Width /\ y - 1 >= 0
      /\ <<x - 1, y - 1>> \in Cells <=> x - 1 >= 0 /\ y - 1 >= 0
      /\ <<x + 1, y + 1>> \in Cells <=> x + 1 < Width /\ y + 1 < Height
      /\ <<x - 1, y + 1>> \in Cells <=> x - 1 >= 0 /\ y + 1 < Height
  BY <1>1, <1>3
<1>6. e \in ExitsOf(x, y) <=>
        \/ Leads("north") \/ Leads("south") \/ Leads("west") \/ Leads("east")
        \/ Leads("northeast") \/ Leads("northwest") \/ Leads("southeast") \/ Leads("southwest")
  BY <1>2, <1>4, <1>5
<1> HIDE DEF Leads
<1>7. e \in ExitsOf(x, y) <=> \E n \in Names : Leads(n)
  BY <1>6 DEF Names
<1> QED
  BY <1>7 DEF Leads, x, y

\* The cells are counted column by column.
LEMMA Counting ==
  /\ \A c \in Cells : c[1] * Height + c[2] < Width * Height
  /\ \A n \in Nat : n < Width * Height => <<n \div Height, n % Height>> \in Cells
<1>1. Width \in Nat /\ Height \in Nat /\ Height > 0
  BY WeatherAssumption
<1>2. ASSUME NEW c \in Cells PROVE c[1] * Height + c[2] < Width * Height
  <2>1. c[1] \in 0 .. Width - 1 /\ c[2] \in 0 .. Height - 1
    BY ACell
  <2>2. c[1] * Height <= (Width - 1) * Height
    BY <1>1, <2>1
  <2>3. (Width - 1) * Height = Width * Height - Height
    BY <1>1
  <2> QED
    BY <1>1, <2>1, <2>2, <2>3
<1>3. ASSUME NEW n \in Nat, n < Width * Height
      PROVE  <<n \div Height, n % Height>> \in Cells
  <2>1. /\ n \div Height \in Int /\ n % Height \in 0 .. Height - 1
        /\ n = Height * (n \div Height) + (n % Height)
    BY <1>1
  <2>2. n \div Height >= 0
    <3> DEFINE q == n \div Height
    <3>1. q \in Int /\ n < Height * q + Height
      BY <1>1, <2>1
    <3> HIDE DEF q
    <3>2. SUFFICES ASSUME q <= -1 PROVE FALSE
      BY <1>1, <3>1 DEF q
    <3>3. Height * q <= Height * (-1)
      BY <1>1, <3>1, <3>2
    <3> QED
      BY <1>1, <3>1, <3>3
  <2>3. n \div Height < Width
    <3> DEFINE q == n \div Height
    <3>1. q \in Int /\ Height * q <= n
      BY <1>1, <2>1
    <3> HIDE DEF q
    <3>2. SUFFICES ASSUME q >= Width PROVE FALSE
      BY <1>1, <3>1 DEF q
    <3>3. Height * q >= Height * Width
      BY <1>1, <3>1, <3>2
    <3> QED
      BY <1>1, <1>3, <3>1, <3>3
  <2> QED
    BY <1>1, <2>1, <2>2, <2>3 DEF Cells
<1> QED
  BY <1>2, <1>3

-----------------------------------------------------------------------------
(* The check.                                                              *)

LEMMA InitRooms == WeatherInit => RoomsInv
<1> SUFFICES ASSUME WeatherInit PROVE RoomsInv
  OBVIOUS
<1>1. checked \in Nat /\ rooms \subseteq Cells /\ rooms \ Fixed = {}
  BY WeatherAssumption DEF WeatherInit
<1>2. exits = [c \in Cells |-> exits[c]]
  BY DEF WeatherInit
<1> QED
  BY <1>1, <1>2 DEF RoomsInv

LEMMA CheckCellKeeps == RoomsInv /\ CheckCell => RoomsInv'
<1> SUFFICES ASSUME RoomsInv, CheckCell PROVE RoomsInv'
  OBVIOUS
<1>1. checked' \in Nat
  BY DEF CheckCell, RoomsInv
<1>2. CASE UNCHANGED <<rooms, exits>>
  BY <1>1, <1>2 DEF RoomsInv
<1>3. CASE /\ NextCell \notin rooms
           /\ rooms' = rooms \cup {NextCell}
           /\ exits' = [exits EXCEPT ![NextCell] = ExitsOf(NextCell[1], NextCell[2])]
  <2>1. NextCell \in Cells
    BY Counting DEF CheckCell, Checking, RoomsInv, NextCell
  <2>2. exits' = [c \in Cells |-> exits'[c]]
    BY <1>3 DEF RoomsInv
  <2>3. \A c \in Cells : exits'[c] = IF c = NextCell THEN ExitsOf(c[1], c[2]) ELSE exits[c]
    BY <1>3 DEF RoomsInv
  <2>4. \A c \in rooms' \ Fixed : exits'[c] = ExitsOf(c[1], c[2])
    BY <1>3, <2>1, <2>3 DEF RoomsInv
  <2>5. rooms' \subseteq Cells
    BY <1>3, <2>1 DEF RoomsInv
  <2> QED
    BY <1>1, <2>2, <2>4, <2>5 DEF RoomsInv
<1> QED
  BY <1>2, <1>3 DEF CheckCell

LEMMA StepKeeps == RoomsInv /\ [WeatherNext]_weatherVars => RoomsInv'
<1> SUFFICES ASSUME RoomsInv, [WeatherNext]_weatherVars PROVE RoomsInv'
  OBVIOUS
<1>1. CASE CheckCell
  BY <1>1, CheckCellKeeps
<1>2. CASE UNCHANGED zone
  BY <1>2 DEF zone, RoomsInv
<1>3. CASE Heartbeat
  BY <1>2, <1>3 DEF Heartbeat
<1>4. ASSUME NEW c \in Watched, Enter(c) \/ LeaveRoom(c) \/ Look(c) PROVE RoomsInv'
  BY <1>2, <1>4 DEF Enter, LeaveRoom, Look
<1>5. CASE UNCHANGED weatherVars
  BY <1>2, <1>5 DEF weatherVars
<1> QED
  BY <1>1, <1>3, <1>4, <1>5 DEF WeatherNext

\* Once the check is done there is no cell that it has not looked at.
LEMMA AllCounted ==
  ASSUME RoomsInv, ~Checking PROVE Cells \subseteq rooms \cup Missing
<1> SUFFICES ASSUME NEW c \in Cells, c \notin rooms PROVE c \in Missing
  OBVIOUS
<1>1. checked \in Nat /\ Width * Height \in Int /\ Width * Height <= checked
  BY WeatherAssumption DEF RoomsInv, Checking
<1>2. c[1] * Height + c[2] < Width * Height /\ c[1] * Height + c[2] \in Int
  BY Counting, ACell, WeatherAssumption
<1>3. c[1] * Height + c[2] < checked
  BY <1>1, <1>2
<1> QED
  BY <1>3 DEF Missing

LEMMA RoomsHaveWaysBack == RoomsInv => WaysBack
<1> SUFFICES ASSUME RoomsInv, NEW c \in rooms \ Fixed, NEW e \in exits[c]
             PROVE  /\ e.to = Step(c, e.name, 1) /\ e.to \in Cells
                    /\ ~Checking => e.to \in rooms \cup Missing
                    /\ e.to \in rooms \ Fixed =>
                         [name |-> Opposite[e.name], to |-> c] \in exits[e.to]
  BY DEF WaysBack
<1>1. c \in Cells /\ exits[c] = ExitsOf(c[1], c[2])
  BY DEF RoomsInv
<1>2. PICK n \in Names :
        /\ Neighbour(c[1], c[2], n) \in Cells
        /\ e = [name |-> n, to |-> Neighbour(c[1], c[2], n)]
  BY <1>1, ExitsAreNeighbours
<1> DEFINE d == Neighbour(c[1], c[2], n)
           dx == Way[n][1]
           dy == Way[n][2]
<1>3. /\ c = <<c[1], c[2]>> /\ c[1] \in Int /\ c[2] \in Int
      /\ dx \in Int /\ dy \in Int
      /\ d = <<c[1] + dx, c[2] + dy>> /\ d \in Cells
      /\ e.to = d /\ e.name = n
  BY <1>1, <1>2, ACell, Ways DEF Neighbour
<1>4. e.to = Step(c, e.name, 1)
  <2>1. 1 * dx = dx /\ 1 * dy = dy
    BY <1>3
  <2> QED
    BY <1>3, <2>1 DEF Step
<1>5. ~Checking => e.to \in rooms \cup Missing
  BY <1>3, AllCounted
<1>6. ASSUME d \in rooms \ Fixed
      PROVE  [name |-> Opposite[n], to |-> c] \in exits[d]
  <2> DEFINE back == [name |-> Opposite[n], to |-> c]
  <2>1. d[1] = c[1] + dx /\ d[2] = c[2] + dy
    BY <1>3
  <2>2. Neighbour(d[1], d[2], Opposite[n]) = <<(c[1] + dx) + (0 - dx), (c[2] + dy) + (0 - dy)>>
    BY <2>1, Opposites DEF Neighbour
  <2>3. (c[1] + dx) + (0 - dx) = c[1] /\ (c[2] + dy) + (0 - dy) = c[2]
    BY <1>3
  <2>4. Neighbour(d[1], d[2], Opposite[n]) = c
    BY <1>3, <2>2, <2>3
  <2>5. Opposite[n] \in Names
    BY Opposites
  <2>6. back \in ExitsOf(d[1], d[2])
    BY <1>1, <1>3, <2>4, <2>5, ExitsAreNeighbours
  <2> QED
    BY <1>6, <2>6 DEF RoomsInv
<1> QED
  BY <1>3, <1>4, <1>5, <1>6

\* The consistency check of a zone (Zone::consistencyCheck): an exit of a room that was made leads
\* where its name says and, the check done, to a room of the zone if that could
\* be saved; and between two rooms that were made there is a way back.
THEOREM ThereIsAWayBack == WeatherSpec => []WaysBack
BY InitRooms, StepKeeps, RoomsHaveWaysBack, PTL DEF WeatherSpec

-----------------------------------------------------------------------------
(* The weather map is turned.                                              *)

\* A remainder is known by its range.
LEMMA RemainderIs ==
  ASSUME NEW n \in Nat \ {0}, NEW q \in Int, NEW r \in 0 .. n - 1, NEW x \in Int, x = n * q + r
  PROVE  x % n = r
<1> DEFINE p == x \div n
           t == x % n
<1>1. p \in Int /\ t \in 0 .. n - 1 /\ x = n * p + t
  OBVIOUS
<1> HIDE DEF p, t
<1>2. CASE q = p
  BY <1>1, <1>2 DEF t
<1>3. CASE q > p
  <2>1. n * (q - p) >= n
    BY <1>1, <1>3
  <2>2. n * (q - p) = n * q - n * p
    BY <1>1
  <2> QED
    BY <1>1, <2>1, <2>2
<1>4. CASE q < p
  <2>1. n * (p - q) >= n
    BY <1>1, <1>4
  <2>2. n * (p - q) = n * p - n * q
    BY <1>1
  <2> QED
    BY <1>1, <2>1, <2>2
<1> QED
  BY <1>1, <1>2, <1>3, <1>4

\* Who goes d round a ring and d back is where he was.
LEMMA ThereAndBack ==
  ASSUME NEW n \in Nat \ {0}, NEW a \in 0 .. n - 1, NEW d \in Int
  PROVE  /\ d % n \in 0 .. n - 1
         /\ (a + (d % n)) % n \in 0 .. n - 1
         /\ (((a + (d % n)) % n) - d) % n = a
<1> DEFINE r == d % n
           p == d \div n
           b == (a + r) % n
           q == (a + r) \div n
<1>1. r \in 0 .. n - 1 /\ p \in Int /\ d = n * p + r
  OBVIOUS
<1> HIDE DEF r, p
<1>2. b \in 0 .. n - 1 /\ q \in Int /\ a + r = n * q + b
  BY <1>1
<1> HIDE DEF b, q
<1>3. b - d \in Int /\ 0 - q - p \in Int
  BY <1>1, <1>2
<1>4. n * (0 - q - p) = 0 - n * q - n * p
  BY <1>1, <1>2
<1>5. b - d = n * (0 - q - p) + a
  BY <1>1, <1>2, <1>4
<1>6. (b - d) % n = a
  BY <1>3, <1>5, RemainderIs
<1> QED
  BY <1>1, <1>2, <1>6 DEF r, b

LEMMA Rows ==
  ASSUME NEW n \in Nat, NEW S, NEW s \in [1 .. n -> S]
  PROVE  Len(s) = n /\ DOMAIN s = 1 .. n
<1>1. s \in Seq(S)
  BY IsASeq
<1> QED
  BY <1>1, LenProperties

LEMMA Remainders ==
  ASSUME NEW n \in Nat \ {0}
  PROVE  \A x \in Int : 1 + (x % n) \in 1 .. n
OBVIOUS

LEMMA TurnedBack ==
  ASSUME NEW S, NEW n \in Nat \ {0}, NEW s \in [1 .. n -> S], NEW d \in Int
  PROVE  PushedBack(s, d) \in [1 .. n -> S]
<1>1. Len(s) = n /\ DOMAIN s = 1 .. n
  BY Rows
<1>2. PushedBack(s, d) = [i \in 1 .. n |-> s[1 + ((i - 1 + d) % n)]]
  BY <1>1 DEF PushedBack
<1>3. \A i \in 1 .. n : 1 + ((i - 1 + d) % n) \in 1 .. n
  BY Remainders
<1> QED
  BY <1>2, <1>3

LEMMA TurnedFront ==
  ASSUME NEW S, NEW n \in Nat \ {0}, NEW s \in [1 .. n -> S], NEW d \in Int
  PROVE  PushedFront(s, d) \in [1 .. n -> S]
<1>1. Len(s) = n /\ DOMAIN s = 1 .. n
  BY Rows
<1>2. PushedFront(s, d) = [i \in 1 .. n |-> s[1 + ((i - 1 - d) % n)]]
  BY <1>1 DEF PushedFront
<1>3. \A i \in 1 .. n : 1 + ((i - 1 - d) % n) \in 1 .. n
  BY Remainders
<1> QED
  BY <1>2, <1>3

\* Both branches of h_shift turn every row by d, and both of v_shift the rows.
LEMMA ShiftsTurn ==
  ASSUME NEW m \in Skies, NEW d \in Int
  PROVE  /\ h_shift(m, d) \in Skies /\ v_shift(m, d) \in Skies
         /\ \A y \in 1 .. Height : \A x \in 1 .. Width :
               h_shift(m, d)[y][x] = m[y][1 + ((x - 1 - d) % Width)]
         /\ \A y \in 1 .. Height : v_shift(m, d)[y] = m[1 + ((y - 1 + d) % Height)]
<1> DEFINE e == -d
<1>1. Width \in Nat \ {0} /\ Height \in Nat \ {0} /\ e \in Int
  BY WeatherAssumption
<1>2. Width \in Nat /\ Height \in Nat
  BY <1>1
<1>3. m \in [1 .. Height -> [1 .. Width -> Kinds]] /\ DOMAIN m = 1 .. Height
  BY DEF Skies
<1>4. /\ h_shift(m, d) = [y \in 1 .. Height |->
                            IF d > 0 THEN PushedFront(m[y], d) ELSE PushedBack(m[y], e)]
      /\ v_shift(m, d) = IF d > 0 THEN PushedBack(m, d) ELSE PushedFront(m, e)
  BY <1>3 DEF h_shift, v_shift
<1>5. \A x \in Int : x - e = x + d /\ x + e = x - d
  OBVIOUS
<1> HIDE DEF e
<1>6. ASSUME NEW y \in 1 .. Height
      PROVE  /\ h_shift(m, d)[y] \in [1 .. Width -> Kinds]
             /\ \A x \in 1 .. Width : h_shift(m, d)[y][x] = m[y][1 + ((x - 1 - d) % Width)]
  <2> DEFINE s == m[y]
  <2>1. s \in [1 .. Width -> Kinds]
    BY <1>3
  <2>2. h_shift(m, d)[y] = IF d > 0 THEN PushedFront(s, d) ELSE PushedBack(s, e)
    BY <1>4
  <2> HIDE DEF s
  <2>3. Len(s) = Width /\ DOMAIN s = 1 .. Width
    BY <1>2, <2>1, Rows
  <2>4. PushedFront(s, d) \in [1 .. Width -> Kinds]
    BY <1>1, <2>1, TurnedFront
  <2>5. \A x \in 1 .. Width : PushedFront(s, d)[x] = s[1 + ((x - 1 - d) % Width)]
    BY <2>3 DEF PushedFront
  <2>6. PushedBack(s, e) \in [1 .. Width -> Kinds]
    BY <1>1, <2>1, TurnedBack
  <2>7. \A x \in 1 .. Width : PushedBack(s, e)[x] = s[1 + ((x - 1 + e) % Width)]
    BY <2>3 DEF PushedBack
  <2>8. \A x \in 1 .. Width : x - 1 + e = x - 1 - d
    BY <1>5
  <2>9. \A x \in 1 .. Width : PushedBack(s, e)[x] = s[1 + ((x - 1 - d) % Width)]
    BY <2>7, <2>8
  <2> QED
    BY <2>2, <2>4, <2>5, <2>6, <2>9 DEF s
<1>7. /\ v_shift(m, d) \in [1 .. Height -> [1 .. Width -> Kinds]]
      /\ \A y \in 1 .. Height : v_shift(m, d)[y] = m[1 + ((y - 1 + d) % Height)]
  <2> DEFINE S == [1 .. Width -> Kinds]
  <2>1. m \in [1 .. Height -> S]
    BY <1>3
  <2> HIDE DEF S
  <2>2. Len(m) = Height /\ DOMAIN m = 1 .. Height
    BY <1>2, <2>1, Rows
  <2>3. PushedBack(m, d) \in [1 .. Height -> S]
    BY <1>1, <2>1, TurnedBack
  <2>4. \A y \in 1 .. Height : PushedBack(m, d)[y] = m[1 + ((y - 1 + d) % Height)]
    BY <2>2 DEF PushedBack
  <2>5. PushedFront(m, e) \in [1 .. Height -> S]
    BY <1>1, <2>1, TurnedFront
  <2>6. \A y \in 1 .. Height : PushedFront(m, e)[y] = m[1 + ((y - 1 - e) % Height)]
    BY <2>2 DEF PushedFront
  <2>7. \A y \in 1 .. Height : y - 1 - e = y - 1 + d
    BY <1>5
  <2>8. \A y \in 1 .. Height : PushedFront(m, e)[y] = m[1 + ((y - 1 + d) % Height)]
    BY <2>6, <2>7
  <2> QED
    BY <1>4, <2>3, <2>4, <2>5, <2>8 DEF S
<1>8. h_shift(m, d) \in [1 .. Height -> [1 .. Width -> Kinds]]
  BY <1>4, <1>6
<1> QED
  BY <1>6, <1>7, <1>8 DEF Skies

LEMMA ShiftTable ==
  /\ \A t \in DOMAIN Shift : Shift[t][1] \in Int /\ Shift[t][2] \in Int
  /\ \A t \in Names : /\ t \in DOMAIN Shift
                      /\ Shift[t][1] = 2 * Way[t][1] /\ Shift[t][2] = 0 - 2 * Way[t][2]
<1>1. \A t \in DOMAIN Shift : Shift[t][1] \in Int /\ Shift[t][2] \in Int
  BY DEF Shift
<1>2. \A t \in Names : /\ t \in DOMAIN Shift
                       /\ Shift[t][1] = 2 * Way[t][1] /\ Shift[t][2] = 0 - 2 * Way[t][2]
  BY DEF Shift, Way, Names
<1> QED
  BY <1>1, <1>2

\* The map after a shift is the map before, turned round by one cell.
TurnOf(w) == <<Shift[w.to][1] % Width, (0 - Shift[w.to][2]) % Height>>

LEMMA SkyTurns ==
  ASSUME NEW m \in Skies, NEW w \in Winds
  PROVE  /\ doWeather(m, w) \in Skies
         /\ w.strength # 0 =>
              /\ TurnOf(w) \in Cells
              /\ \A c \in Cells : At(doWeather(m, w), Around(c, TurnOf(w))) = At(m, c)
<1> DEFINE dx == Shift[w.to][1]
           dy == Shift[w.to][2]
           h == h_shift(m, dx)
           v == v_shift(h, dy)
<1>1. /\ Width \in Nat \ {0} /\ Height \in Nat \ {0}
      /\ dx \in Int /\ dy \in Int
  BY WeatherAssumption, ShiftTable DEF Winds
<1>2. doWeather(m, w) = IF w.strength = 0 THEN m ELSE v
  BY DEF doWeather
<1> HIDE DEF dx, dy
<1>3. /\ \A y \in 1 .. Height : \A x \in 1 .. Width : h[y][x] = m[y][1 + ((x - 1 - dx) % Width)]
      /\ h \in Skies
  BY <1>1, ShiftsTurn
<1>4. /\ \A y \in 1 .. Height : v[y] = h[1 + ((y - 1 + dy) % Height)]
      /\ v \in Skies
  BY <1>1, <1>3, ShiftsTurn
<1>5. ASSUME w.strength # 0, NEW c \in Cells
      PROVE  At(v, Around(c, <<dx % Width, (0 - dy) % Height>>)) = At(m, c)
  <2> DEFINE a == (c[1] + (dx % Width)) % Width
             b == (c[2] + ((0 - dy) % Height)) % Height
  <2>1. c[1] \in 0 .. Width - 1 /\ c[2] \in 0 .. Height - 1
    BY ACell
  <2>2. a \in 0 .. Width - 1 /\ (a - dx) % Width = c[1]
    BY <1>1, <2>1, ThereAndBack
  <2>3. b \in 0 .. Height - 1 /\ (b + dy) % Height = c[2]
    <3> DEFINE e == 0 - dy
               y == c[2]
               f == (y + (e % Height)) % Height
    <3>1. e \in Int /\ y \in 0 .. Height - 1
      BY <1>1, <2>1
    <3> HIDE DEF e, y
    <3>2. f \in 0 .. Height - 1 /\ (f - e) % Height = y
      BY <1>1, <3>1, ThereAndBack
    <3>3. f \in Int /\ f - e = f + dy
      <4> HIDE DEF f
      <4> QED
        BY <1>1, <3>2 DEF e
    <3> QED
      BY <3>2, <3>3 DEF e, y
  <2>4. Around(c, <<dx % Width, (0 - dy) % Height>>) = <<a, b>>
    BY DEF Around
  <2> HIDE DEF a, b, h, v
  <2>5. At(v, <<a, b>>) = h[1 + (((b + 1) - 1 + dy) % Height)][a + 1]
    BY <1>1, <1>4, <2>3 DEF At
  <2>6. (b + 1) - 1 + dy = b + dy /\ (a + 1) - 1 - dx = a - dx
    BY <1>1, <2>2, <2>3
  <2>7. At(v, <<a, b>>) = h[1 + c[2]][a + 1]
    BY <2>3, <2>5, <2>6
  <2>8. h[1 + c[2]][a + 1] = m[1 + c[2]][1 + (((a + 1) - 1 - dx) % Width)]
    <3> DEFINE y == 1 + c[2]
               x == a + 1
    <3>1. y \in 1 .. Height /\ x \in 1 .. Width
      BY <1>1, <2>1, <2>2
    <3> HIDE DEF x, y
    <3>2. h[y][x] = m[y][1 + ((x - 1 - dx) % Width)]
      BY <1>3, <3>1
    <3> QED
      BY <3>2, Zenon DEF x, y
  <2>9. 1 + c[1] = c[1] + 1 /\ 1 + c[2] = c[2] + 1
    BY <2>1
  <2> QED
    BY <2>2, <2>4, <2>6, <2>7, <2>8, <2>9 DEF At
<1>6. <<dx % Width, (0 - dy) % Height>> \in Cells
  BY <1>1 DEF Cells
<1> QED
  BY <1>2, <1>4, <1>5, <1>6 DEF TurnOf, dx, dy

LEMMA AtIsKind ==
  ASSUME NEW m \in Skies, NEW c \in Cells
  PROVE  At(m, c) \in Kinds /\ At(m, c) # None
<1>1. c[2] + 1 \in 1 .. Height /\ c[1] + 1 \in 1 .. Width
  BY ACell, WeatherAssumption
<1> QED
  BY <1>1, WeatherAssumption DEF At, Skies

-----------------------------------------------------------------------------
(* What people are told.                                                   *)

\* One pass over the rooms: what was fitting before it, fits what is there
\* after it, whether the room was given the weather or left alone.
LEMMA APass ==
  ASSUME NEW k, NEW a, NEW s, NEW w, NEW e, NEW b, NEW s1, NEW w1,
         \/ b = [weather |-> s1, wind |-> w1] /\ s1 # None
         \/ b = a /\ s1 = s /\ w1 = w
  PROVE  /\ Shows(a, s, w) => Shows(b, s1, w1)
         /\ Fits(k, a, s, w, e) => Fits(Told(k, a, b), b, s1, w1, e)
<1>1. Shows(a, s, w) => Shows(b, s1, w1)
  BY DEF Shows
<1>2. ASSUME Fits(k, a, s, w, e) PROVE Fits(Told(k, a, b), b, s1, w1, e)
  <2>1. CASE b = [weather |-> s1, wind |-> w1] /\ s1 # None
    <3>1. /\ b.weather = s1 /\ b.wind = w1
          /\ a.weather = None \/ (a.weather = s /\ a.wind = w)
      BY <1>2, <2>1 DEF Fits
    <3>2. Told(k, a, b).weather \in {None, s1}
      BY <1>2, <2>1, <3>1 DEF Fits, Told
    <3>3. Told(k, a, b).wind \in {NoWind, w1} \/ e
      BY <1>2, <3>1 DEF Fits, Told
    <3> QED
      BY <2>1, <3>2, <3>3 DEF Fits
  <2>2. CASE b = a /\ s1 = s /\ w1 = w
    <3>1. Told(k, a, a).weather = k.weather /\ Told(k, a, a).wind = k.wind
      BY DEF Told
    <3> QED
      BY <1>2, <2>2, <3>1 DEF Fits
  <2> QED
    BY <2>1, <2>2
<1> QED
  BY <1>1, <1>2

LEMMA InitSeen == WeatherInit => SeenInv
<1> SUFFICES ASSUME WeatherInit PROVE SeenInv
  OBVIOUS
<1>1. sky \in Skies /\ wind \in Winds /\ rooms \subseteq Cells /\ occupied = {}
  BY WeatherAssumption DEF WeatherInit, Skies
<1>2. known = [c \in Watched |-> known[c]]
  BY DEF WeatherInit
<1>3. PICK w \in Winds : shown = [c \in Cells |-> [weather |-> None, wind |-> w]]
  BY DEF WeatherInit
<1>4. shown = [c \in Cells |-> shown[c]] /\ \A c \in Cells : shown[c].weather = None
  BY <1>3
<1> QED
  BY <1>1, <1>2, <1>4 DEF SeenInv, Shows

LEMMA CheckCellSeen == RoomsInv /\ SeenInv /\ CheckCell => SeenInv'
<1> SUFFICES ASSUME RoomsInv, SeenInv, CheckCell PROVE SeenInv'
  OBVIOUS
<1>1. NextCell \in Cells
  BY Counting DEF CheckCell, Checking, RoomsInv, NextCell
<1>2. rooms' = rooms \/ (NextCell \notin rooms /\ rooms' = rooms \cup {NextCell})
  BY DEF CheckCell
<1>3. UNCHANGED <<sky, wind, shown, occupied, known, early>>
  BY DEF CheckCell, people
<1>4. rooms' \subseteq Cells /\ rooms \subseteq rooms'
  BY <1>1, <1>2 DEF SeenInv
<1>5. \A c \in Cells : At(sky, c)' = At(sky, c)
  BY <1>3 DEF At
<1>6. \A c \in rooms' : Shows(shown[c], At(sky, c), wind)
  BY <1>1, <1>2 DEF SeenInv, Shows
<1>7. occupied \subseteq rooms' \cap Watched
  BY <1>4 DEF SeenInv
<1> QED
  BY <1>3, <1>4, <1>5, <1>6, <1>7 DEF SeenInv

LEMMA HeartbeatSeen == SeenInv /\ Heartbeat => SeenInv'
<1> SUFFICES ASSUME SeenInv, Heartbeat PROVE SeenInv'
  OBVIOUS
<1>1. PICK j \in Jitter, w \in Winds :
        LET turns == sinceWind + 1 > Stable + j
            now   == IF turns THEN w ELSE wind
            due   == sinceShift + 1 > WaterMark[now.strength]
            after == IF due THEN doWeather(sky, now) ELSE sky
            once  == [c \in Cells |-> IF turns /\ c \in rooms THEN Here(sky, now, c) ELSE shown[c]]
            twice == [c \in Cells |-> IF due /\ c \in rooms THEN Here(after, now, c) ELSE once[c]]
        IN  /\ wind' = now /\ sky' = after
            /\ shown' = twice
            /\ known' = [c \in Watched |->
                            IF c \in occupied THEN Told(Told(known[c], shown[c], once[c]), once[c], twice[c])
                            ELSE known[c]]
  BY DEF Heartbeat
<1> DEFINE turns == sinceWind + 1 > Stable + j
           now   == IF turns THEN w ELSE wind
           due   == sinceShift + 1 > WaterMark[now.strength]
           after == IF due THEN doWeather(sky, now) ELSE sky
           once  == [c \in Cells |-> IF turns /\ c \in rooms THEN Here(sky, now, c) ELSE shown[c]]
           twice == [c \in Cells |-> IF due /\ c \in rooms THEN Here(after, now, c) ELSE once[c]]
<1>2. /\ wind' = now /\ sky' = after /\ shown' = twice
      /\ known' = [c \in Watched |->
                      IF c \in occupied THEN Told(Told(known[c], shown[c], once[c]), once[c], twice[c])
                      ELSE known[c]]
  BY <1>1
<1>3. UNCHANGED <<rooms, occupied, early>>
  BY DEF Heartbeat, zone
<1>4. turns \in BOOLEAN /\ due \in BOOLEAN /\ (~turns => now = wind) /\ (~due => after = sky)
  OBVIOUS
<1>5. now \in Winds /\ after \in Skies
  <2>1. now \in Winds
    BY DEF SeenInv
  <2> HIDE DEF now
  <2>2. doWeather(sky, now) \in Skies
    BY <2>1, SkyTurns DEF SeenInv
  <2> QED
    BY <2>1, <2>2 DEF SeenInv
<1> HIDE DEF turns, due, now, after
<1>6. ASSUME NEW c \in Cells, c \in rooms
      PROVE  /\ \/ once[c] = [weather |-> At(sky, c), wind |-> now] /\ At(sky, c) # None
                \/ once[c] = shown[c] /\ now = wind
             /\ \/ twice[c] = [weather |-> At(after, c), wind |-> now] /\ At(after, c) # None
                \/ twice[c] = once[c] /\ At(after, c) = At(sky, c)
  BY <1>4, <1>5, <1>6, AtIsKind DEF Here, SeenInv
<1>7. \A c \in rooms : Shows(twice[c], At(after, c), now)
  <2> SUFFICES ASSUME NEW c \in rooms PROVE Shows(twice[c], At(after, c), now)
    OBVIOUS
  <2>1. c \in Cells /\ Shows(shown[c], At(sky, c), wind)
    BY DEF SeenInv
  <2> HIDE DEF once, twice
  <2>2. Shows(once[c], At(sky, c), now)
    BY <1>6, <2>1, APass
  <2> QED
    BY <1>6, <2>1, <2>2, APass
<1>8. ASSUME NEW c \in occupied
      PROVE  Fits(known'[c], twice[c], At(after, c), now, c \in early)
  <2>1. /\ c \in Cells /\ c \in rooms /\ c \in Watched
        /\ Fits(known[c], shown[c], At(sky, c), wind, c \in early)
    BY DEF SeenInv
  <2>2. known'[c] = Told(Told(known[c], shown[c], once[c]), once[c], twice[c])
    BY <1>2, <2>1
  <2> HIDE DEF once, twice
  <2>3. Fits(Told(known[c], shown[c], once[c]), once[c], At(sky, c), now, c \in early)
    BY <1>6, <2>1, APass
  <2>4. Fits(Told(Told(known[c], shown[c], once[c]), once[c], twice[c]),
             twice[c], At(after, c), now, c \in early)
    BY <1>6, <2>1, <2>3, APass
  <2> QED
    BY <2>2, <2>4
<1>9. \A c \in Cells \ rooms : twice[c].weather = None
  BY DEF SeenInv
<1>10. \A c \in Cells : At(sky, c)' = At(after, c)
  BY <1>2 DEF At
<1>11. /\ shown' = [c \in Cells |-> shown'[c]]
       /\ known' = [c \in Watched |-> known'[c]]
  BY <1>2
<1> HIDE DEF once, twice
<1>12. occupied' \subseteq rooms' \cap Watched /\ rooms' \subseteq Cells
  BY <1>3 DEF SeenInv
<1>13. \A c \in rooms' : Shows(shown[c], At(sky, c), wind)'
  BY <1>2, <1>3, <1>7, <1>10, <1>12 DEF Shows
<1>14. \A c \in occupied' : Fits(known[c], shown[c], At(sky, c), wind, c \in early)'
  BY <1>2, <1>3, <1>8, <1>10, <1>12 DEF Fits
<1> QED
  BY <1>2, <1>3, <1>5, <1>9, <1>11, <1>12, <1>13, <1>14 DEF SeenInv

LEMMA PeopleSeen ==
  ASSUME SeenInv, NEW c \in Watched, Enter(c) \/ LeaveRoom(c) \/ Look(c)
  PROVE  SeenInv'
<1>1. /\ UNCHANGED <<rooms, sky, wind, shown>>
      /\ known' = [d \in Watched |-> IF d = c THEN known'[c] ELSE known[d]]
  BY DEF Enter, LeaveRoom, Look, SeenInv, zone
<1>2. \A d \in Cells : At(sky, d)' = At(sky, d)
  BY <1>1 DEF At
<1>3. occupied' \subseteq rooms' \cap Watched
  BY <1>1 DEF Enter, LeaveRoom, Look, SeenInv
<1>4. \A d \in occupied' : d # c => d \in occupied /\ (d \in early' <=> d \in early)
  BY DEF Enter, LeaveRoom, Look
<1>5. ASSUME c \in occupied'
      PROVE  Fits(known[c], shown[c], At(sky, c), wind, c \in early)'
  <2>1. c \in rooms /\ c \in Cells /\ Shows(shown[c], At(sky, c), wind)
    BY <1>1, <1>3, <1>5 DEF SeenInv
  <2>2. CASE Enter(c)
    <3>1. known'[c].weather = None /\ known'[c].wind = NoWind
      BY <2>2 DEF Enter, SeenInv, Unaware
    <3> QED
      BY <1>1, <1>2, <2>1, <3>1 DEF Fits, Shows
  <2>3. CASE LeaveRoom(c)
    BY <1>5, <2>3 DEF LeaveRoom
  <2>4. CASE Look(c)
    <3>1. known'[c].weather = At(sky, c) /\ known'[c].wind = wind
      BY <2>4 DEF Look, SeenInv, Described, Here
    <3>2. shown[c].weather = None => c \in early'
      BY <2>4 DEF Look
    <3> QED
      BY <1>1, <1>2, <2>1, <3>1, <3>2 DEF Fits, Shows
  <2> QED
    BY <2>2, <2>3, <2>4
<1>6. ASSUME NEW d \in occupied', d # c
      PROVE  Fits(known[d], shown[d], At(sky, d), wind, d \in early)'
  <2>1. d \in occupied /\ d \in Watched /\ d \in Cells /\ (d \in early' <=> d \in early)
    BY <1>1, <1>3, <1>4, <1>6 DEF SeenInv
  <2>2. known'[d] = known[d]
    BY <1>1, <1>6, <2>1
  <2> QED
    BY <1>1, <1>2, <2>1, <2>2 DEF Fits, SeenInv
<1>7. \A d \in rooms' : Shows(shown[d], At(sky, d), wind)'
  BY <1>1, <1>2 DEF Shows, SeenInv
<1>8. known' = [d \in Watched |-> known'[d]]
  BY <1>1
<1> QED
  BY <1>1, <1>3, <1>5, <1>6, <1>7, <1>8 DEF SeenInv

LEMMA StepSeen == RoomsInv /\ SeenInv /\ [WeatherNext]_weatherVars => SeenInv'
<1> SUFFICES ASSUME RoomsInv, SeenInv, [WeatherNext]_weatherVars PROVE SeenInv'
  OBVIOUS
<1>1. CASE CheckCell
  BY <1>1, CheckCellSeen
<1>2. CASE Heartbeat
  BY <1>2, HeartbeatSeen
<1>3. ASSUME NEW c \in Watched, Enter(c) \/ LeaveRoom(c) \/ Look(c) PROVE SeenInv'
  BY <1>3, PeopleSeen
<1>4. CASE UNCHANGED weatherVars
  BY <1>4 DEF weatherVars, zone, people, SeenInv, Fits, Shows, At
<1> QED
  BY <1>1, <1>2, <1>3, <1>4 DEF WeatherNext

LEMMA SeenIsInformed == SeenInv => Informed
<1> SUFFICES ASSUME SeenInv, NEW c \in occupied
             PROVE  /\ known[c].weather \in {None, At(sky, c)}
                    /\ known[c].wind \in {NoWind, wind} \/ c \in early
  BY DEF Informed
<1> QED
  BY DEF SeenInv, Fits

\* Zone::handleWeather() tells the people in a room by comparing what the room
\* showed with what it is given, once when the wind turns and once when the
\* map shifts: nobody in a room is left with the weather or the wind of
\* before, unless he looked before the room had shown any.
THEOREM PeopleAreInformed == WeatherSpec => []Informed
BY InitRooms, StepKeeps, InitSeen, StepSeen, SeenIsInformed, PTL DEF WeatherSpec

-----------------------------------------------------------------------------
(* What a shift does to the map.                                           *)

LEMMA StepBlows ==
  ASSUME SeenInv, [WeatherNext]_weatherVars, sky' # sky
  PROVE  \E by \in Cells :
            /\ \A c \in Cells : At(sky', Around(c, by)) = At(sky, c)
            /\ wind'.to \in DOMAIN Way => by = Around(<<0, 0>>, Step(<<0, 0>>, wind'.to, 2))
<1>1. Heartbeat
  BY DEF WeatherNext, CheckCell, Enter, LeaveRoom, Look, weatherVars
<1>2. wind' \in Winds /\ sky' = doWeather(sky, wind')
  BY <1>1 DEF Heartbeat, SeenInv
<1>3. wind'.strength # 0
  BY <1>2 DEF doWeather
<1> DEFINE w == wind'
<1>4. /\ TurnOf(w) \in Cells
      /\ \A c \in Cells : At(sky', Around(c, TurnOf(w))) = At(sky, c)
  <2>1. w \in Winds /\ sky \in Skies /\ sky' = doWeather(sky, w) /\ w.strength # 0
    BY <1>2, <1>3 DEF SeenInv
  <2> HIDE DEF w
  <2> QED
    BY <2>1, SkyTurns
<1>5. ASSUME wind'.to \in DOMAIN Way
      PROVE  TurnOf(w) = Around(<<0, 0>>, Step(<<0, 0>>, wind'.to, 2))
  <2> DEFINE t == wind'.to
             dx == Way[t][1]
             dy == Way[t][2]
  <2>1. /\ dx \in Int /\ dy \in Int
        /\ Shift[t][1] = 2 * dx /\ Shift[t][2] = 0 - 2 * dy
    BY <1>5, Ways, ShiftTable
  <2>2. TurnOf(w) = <<Shift[t][1] % Width, (0 - Shift[t][2]) % Height>>
    BY DEF TurnOf
  <2>3. Around(<<0, 0>>, Step(<<0, 0>>, t, 2)) = <<(0 + (0 + 2 * dx)) % Width, (0 + (0 + 2 * dy)) % Height>>
    BY DEF Around, Step
  <2> HIDE DEF t, dx, dy
  <2>4. /\ 0 + (0 + 2 * dx) = Shift[t][1]
        /\ 0 + (0 + 2 * dy) = 0 - Shift[t][2]
    BY <2>1
  <2> QED
    BY <2>2, <2>3, <2>4 DEF t
<1> QED
  BY <1>4, <1>5

\* WeatherMap::doWeather() moves whole rows and whole lines: a shift turns the
\* map round at its edges, and what is blown a way is found two exits that way.
THEOREM TheMapIsBlown == WeatherSpec => Blown
<1>1. SeenInv /\ [WeatherNext]_weatherVars => [sky' # sky =>
          \E by \in Cells :
             /\ \A c \in Cells : At(sky', Around(c, by)) = At(sky, c)
             /\ wind'.to \in DOMAIN Way =>
                   by = Around(<<0, 0>>, Step(<<0, 0>>, wind'.to, 2))]_weatherVars
  BY StepBlows
<1> QED
  BY <1>1, InitRooms, StepKeeps, InitSeen, StepSeen, PTL DEF WeatherSpec, Blown
=============================================================================
