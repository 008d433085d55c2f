------------------------------- MODULE Bodies -------------------------------
(* Heat and life: what the heartbeat does to the players who play and to     *)
(* what is in the rooms, while the driver thread takes players away, and     *)
(* what of a player's body his file keeps.                                   *)
EXTENDS Vectors

CONSTANTS
    Players, Things,
    RoomTemp,           \* of each room, in the order of the heartbeat
    Found,              \* the things in each room at the start
    Insulation,         \* of each body
    MeltsAt, BoilsAt,   \* mSolidToLiquidTemp, mLiquidToGasTemp
    Fragile,            \* those with mDestroyedIfNotSolid
    DamageLow, DamageHigh,  \* of a player
    FirstTemp, MaxLife, \* of a new character, and of a thing
    LifepointUnconscious, LifepointDie

Bodies == Players \cup Things
Rooms == DOMAIN RoomTemp

ASSUME BodiesAssumption ==
    /\ Players \cap Things = {}
    /\ RoomTemp \in Seq(Int) /\ RoomTemp # <<>>
    /\ Found \in [Rooms -> Seq(Things)]
    /\ \A r, s \in Rooms : r # s => Elements(Found[r]) \cap Elements(Found[s]) = {}
    /\ Insulation \in [Bodies -> Nat]
    /\ MeltsAt \in [Bodies -> Int] /\ BoilsAt \in [Bodies -> Int]
    /\ \A b \in Bodies : FirstTemp <= MeltsAt[b] /\ MeltsAt[b] <= BoilsAt[b]
    /\ Fragile \subseteq Bodies
    /\ DamageLow \in Int /\ DamageHigh \in Int /\ FirstTemp \in Int /\ MaxLife \in Int
    /\ LifepointUnconscious \in Int /\ LifepointDie \in Int
    /\ LifepointDie < LifepointUnconscious /\ LifepointUnconscious < MaxLife

VARIABLES
    contents,           \* mContents of each room
    online,             \* who plays
    location,           \* mObjectLocation of a player
    temp, matter,       \* mTemperature, mState of each body
    life, living,       \* mLife, mLivingState of a player
    file,               \* what each player file says of its body
    room, at,           \* the room the heartbeat is in, 0 for none, and its iterator
    running             \* FALSE after a read past the end of a vector

beat == <<room, at>>
body == <<temp, matter>>
vars == <<contents, online, location, body, life, living, file, beat, running>>

\* Physical::Physical, in lost and found; Living::Living
NewPhysical == [temp |-> FirstTemp, matter |-> "solid", location |-> 1]
NewLiving == [life |-> MaxLife, state |-> "alive"]

Init ==
    /\ contents = Found /\ online = {}
    /\ location = [p \in Players |-> NewPhysical.location]
    /\ temp = [b \in Bodies |-> NewPhysical.temp] /\ matter = [b \in Bodies |-> NewPhysical.matter]
    /\ life = [p \in Players |-> NewLiving.life] /\ living = [p \in Players |-> NewLiving.state]
    /\ file = [p \in Players |-> [Physical |-> NewPhysical, Living |-> NewLiving.life]]
    /\ room = 0 /\ at = 1 /\ running = TRUE

Idle == running /\ room = 0
In(r, b) == \E i \in DOMAIN contents[r] : contents[r][i] = b
TakenOut(r, b) == [contents EXCEPT ![r] = Without(@, b)]

----------------------------------------------------------------------------
(* Living *)

\* Living::livingLoad
LivingAt(n) == IF n > LifepointUnconscious THEN "alive"
               ELSE IF n > LifepointDie THEN "unconscious" ELSE "dead"

\* mistaken version: the limits themselves are still survived
WoundedLate(p) ==
    LET n == life[p] - 1
    IN  [life |-> n, living |-> IF n < LifepointDie THEN "dead"
                                ELSE IF n < LifepointUnconscious THEN "unconscious" ELSE living[p]]

\* Living::subtractLife(1) of somebody who is not dead
Wounded(p) ==
    LET n == life[p] - 1
    IN  [life |-> n, living |-> IF n <= LifepointDie THEN "dead"
                                ELSE IF n <= LifepointUnconscious THEN "unconscious" ELSE living[p]]

\* Player::heartbeat
Hurts(p) == temp[p] > DamageHigh \/ temp[p] < DamageLow

\* callHeartbeats(), then the rooms
BeginBeat ==
    /\ Idle
    /\ LET hurt == {p \in online : Hurts(p) /\ living[p] # "dead"}
       IN  /\ life' = [p \in Players |-> IF p \in hurt THEN Wounded(p).life ELSE life[p]]
           /\ living' = [p \in Players |-> IF p \in hurt THEN Wounded(p).living ELSE living[p]]
    /\ room' = 1 /\ at' = 1
    /\ UNCHANGED <<contents, online, location, body, file, running>>

----------------------------------------------------------------------------
(* Physical *)

\* mistaken version: insulation may hold the heat for ever
DegreesUnclamped(b, difference) ==
    CASE difference > 10  -> 5 - Insulation[b]
      [] difference < -10 -> Insulation[b] - 5
      [] OTHER            -> IF difference > 0 THEN 1 ELSE -1

\* mistaken version: small differences are not told from large ones
DegreesByFive(b, difference) ==
    IF difference > 0 THEN IF Insulation[b] < 5 THEN 5 - Insulation[b] ELSE 1
                      ELSE IF Insulation[b] < 5 THEN Insulation[b] - 5 ELSE -1

\* equalizeTemperature(): its branches for differences of more than 100 come
\* after those for more than 10
DegreesBy(b, difference) ==
    CASE difference > 10  -> IF Insulation[b] < 5 THEN 5 - Insulation[b] ELSE 1
      [] difference < -10 -> IF Insulation[b] < 5 THEN Insulation[b] - 5 ELSE -1
      [] OTHER            -> IF difference > 0 THEN 1 ELSE -1

\* checkMatterState(); a plasma is left out
MatterAt(b, t) == IF t > BoilsAt[b] THEN "gas" ELSE IF t > MeltsAt[b] THEN "liquid" ELSE "solid"

\* mistaken version: what is molten stays so
ChangedMelting(b, state) == IF matter[b] = "solid" THEN state ELSE matter[b]

\* changeState(): it looks at the state the body is leaving
Changed(b, state) ==
    IF state = matter[b] THEN state
    ELSE IF b \in Fragile /\ matter[b] # "solid" THEN "destruct" ELSE state

\* One turn of containerEqualizeTemp(): erasing leaves the iterator where the
\* next one has moved to, and then it is increased
Equalize ==
    /\ running /\ room \in Rooms /\ at \in DOMAIN contents[room]
    /\ LET b    == contents[room][at]
           same == temp[b] = RoomTemp[room]
           t    == IF same THEN temp[b] ELSE temp[b] + DegreesBy(b, RoomTemp[room] - temp[b])
           m    == IF same THEN matter[b] ELSE Changed(b, MatterAt(b, t))
       IN  /\ temp' = [temp EXCEPT ![b] = t] /\ matter' = [matter EXCEPT ![b] = m]
           /\ contents' = IF m = "destruct" THEN TakenOut(room, b) ELSE contents
    /\ at' = at + 1
    /\ UNCHANGED <<online, location, life, living, file, room, running>>

EndRoom ==
    /\ running /\ room \in Rooms /\ at = Len(contents[room]) + 1
    /\ room' = IF room = Len(RoomTemp) THEN 0 ELSE room + 1
    /\ at' = 1
    /\ UNCHANGED <<contents, online, location, body, life, living, file, running>>

\* The iterator is past the end, which the loop does not see
PastEnd ==
    /\ running /\ room \in Rooms /\ at > Len(contents[room]) + 1
    /\ running' = FALSE
    /\ UNCHANGED <<contents, online, location, body, life, living, file, beat>>

Heart == BeginBeat \/ Equalize \/ EndRoom \/ PastEnd

----------------------------------------------------------------------------
(* Players *)

PhysicalSave(p) == [temp |-> temp[p], matter |-> matter[p], location |-> location[p]]

PhysicalLoad(p, node) ==
    /\ temp' = [temp EXCEPT ![p] = node.temp] /\ matter' = [matter EXCEPT ![p] = node.matter]
    /\ location' = [location EXCEPT ![p] = node.location]

\* Whether he lives is not in the file
LivingLoad(p, node) ==
    life' = [life EXCEPT ![p] = node] /\ living' = [living EXCEPT ![p] = LivingAt(node)]

\* Player::Load, and the login puts the player in his room
Login(p) ==
    /\ Idle /\ p \notin online
    /\ online' = online \cup {p}
    /\ PhysicalLoad(p, file[p].Physical) /\ LivingLoad(p, file[p].Living)
    /\ contents' = [contents EXCEPT ![file[p].Physical.location] = Append(@, p)]
    /\ UNCHANGED <<file, beat, running>>

\* Player::Save; only the command and creation call it
Save(p) ==
    /\ Idle /\ p \in online
    /\ file' = [file EXCEPT ![p] = [Physical |-> PhysicalSave(p), Living |-> life[p]]]
    /\ UNCHANGED <<contents, online, location, body, life, living, beat, running>>

\* Nothing asks whether who walks is alive
Walk(p, r) ==
    /\ Idle /\ p \in online /\ r # location[p]
    /\ location' = [location EXCEPT ![p] = r]
    /\ contents' = [TakenOut(location[p], p) EXCEPT ![r] = Append(@, p)]
    /\ UNCHANGED <<online, body, life, living, file, beat, running>>

\* PlayerDatabase::remove, by quit or, without the room's mutex, by the driver
Leave(p) ==
    /\ running /\ p \in online
    /\ online' = online \ {p} /\ contents' = TakenOut(location[p], p)
    /\ UNCHANGED <<location, body, life, living, file, beat, running>>

Next == Heart \/ \E p \in Players : Login(p) \/ Save(p) \/ Leave(p) \/ \E r \in Rooms : Walk(p, r)

Spec == Init /\ [][Next]_vars

(* The heart beats for ever. *)
FairSpec == Spec /\ WF_vars(Heart)
----------------------------------------------------------------------------
States == {"solid", "liquid", "gas", "destruct"}

(* Whether somebody lives is decided by subtractLife() on the way down and   *)
(* by livingLoad() at a login, in code of their own; they never disagree, so *)
(* that leaving and coming back neither kills nor wakes anybody.             *)
LifeAgrees == \A p \in Players : living[p] = LivingAt(life[p])

(* What is in a room is in the state of matter its temperature gives it,     *)
(* although the state is only looked at when the temperature changes, and    *)
(* travels through the player file; a thing that is destroyed is gone.       *)
MatterAgrees ==
    \A r \in Rooms, b \in Bodies : In(r, b) =>
        \/ matter[b] = MatterAt(b, temp[b])
        \/ b \in Players /\ matter[b] = "destruct"

(* A body warms or cools towards the room it is in and not past it.          *)
Toward ==
    [][\A b \in Bodies : temp'[b] # temp[b] /\ (b \in Players => b \in online) =>
          \E r \in Rooms : In(r, b) /\ (\/ temp[b] < temp'[b] /\ temp'[b] <= RoomTemp[r]
                                        \/ temp[b] > temp'[b] /\ temp'[b] >= RoomTemp[r])]_vars

(* However it is insulated and whoever comes and goes before it, a thing     *)
(* takes the temperature of its room at last or is destroyed.                *)
Settles ==
    \A r \in Rooms, b \in Things :
        []<>(~running \/ ~In(r, b) \/ temp[b] = RoomTemp[r])
=============================================================================
