--------------------------- MODULE HeartbeatProofs ---------------------------
(***************************************************************************)
(* What the heartbeat does to matter and to conditions.                    *)
(*                                                                         *)
(* Life, heat and matter (module Bodies), for every set of players and     *)
(* things, every temperature of the rooms and every insulation.  BodyInv   *)
(* says that temperatures and lives are integers wherever they are kept,   *)
(* in a body and in a player's file.  PlaceInv says that a thing is in no  *)
(* room but the one it was found in, and MatterInv that whatever is in a   *)
(* room, plays, or is kept in a file has the state of its temperature, or  *)
(* is a player who was destroyed.                                          *)
(*                                                                         *)
(* Timed events (module Events), for every set of players, every delay and *)
(* every number of events: EventInv says that whoever has the condition is *)
(* listed, which is why the events of somebody who is gone may be cleared, *)
(* and that whoever has it from bsotg has an event.                        *)
(***************************************************************************)
EXTENDS Bodies, Events, VectorsProofs, FiniteSetTheorems, SequenceTheorems, TLAPS

FileInv ==
  /\ file = [p \in Players |-> file[p]]
  /\ \A p \in Players : file[p].Physical.temp \in Int /\ file[p].Living \in Int

LifeInv ==
  /\ life \in [Players -> Int] /\ living = [p \in Players |-> living[p]]
  /\ LifeAgrees

HeatInv == temp \in [Bodies -> Int]

BodyInv == FileInv /\ LifeInv /\ HeatInv

\* Nothing that is still there has the wrong state: what was destroyed is gone,
\* and a player who was may come back.
Agrees(b) == matter[b] = MatterAt(b, temp[b])
Rests(b) == Agrees(b) \/ (b \in Players /\ matter[b] = "destruct")

PlaceInv ==
  /\ contents \in [Rooms -> Seq(Bodies)]
  /\ location \in [Players -> Rooms] /\ \A p \in Players : file[p].Physical.location \in Rooms
  /\ \A r \in Rooms : \A b \in Things \cap Elements(contents[r]) : b \in Elements(Found[r])

MatterInv ==
  /\ matter = [b \in Bodies |-> matter[b]]
  /\ \A p \in Players : Rests(p)
  /\ \A p \in Players : LET kept == file[p].Physical
                        IN  kept.matter \in {MatterAt(p, kept.temp), "destruct"}
  /\ \A r \in Rooms : \A b \in Things \cap Elements(contents[r]) : Agrees(b)

-----------------------------------------------------------------------------
(* A point of life is lost.                                                *)

\* subtractLife() looks at the limits on the way down only, and comes to what
\* livingLoad() says of the life that is left.
LEMMA WoundsAgree ==
  ASSUME LifeInv, NEW p \in Players, living[p] # "dead"
  PROVE  Wounded(p).life \in Int /\ Wounded(p).living = LivingAt(Wounded(p).life)
<1> DEFINE n == life[p] - 1
<1>1. /\ n \in Int /\ life[p] = n + 1 /\ LifepointUnconscious \in Int /\ LifepointDie \in Int
      /\ LifepointDie < LifepointUnconscious
  BY BodiesAssumption DEF LifeInv
<1>2. living[p] = LivingAt(life[p])
  BY DEF LifeInv, LifeAgrees
<1>3. Wounded(p).life = n
  BY DEF Wounded
<1>4. Wounded(p).living = IF n <= LifepointDie THEN "dead"
                          ELSE IF n <= LifepointUnconscious THEN "unconscious" ELSE living[p]
  BY DEF Wounded
<1> HIDE DEF n
<1>5. CASE n <= LifepointDie
  BY <1>1, <1>3, <1>4, <1>5 DEF LivingAt
<1>6. CASE ~(n <= LifepointDie) /\ n <= LifepointUnconscious
  BY <1>1, <1>3, <1>4, <1>6 DEF LivingAt
<1>7. CASE ~(n <= LifepointDie) /\ ~(n <= LifepointUnconscious)
  BY <1>1, <1>2, <1>3, <1>4, <1>7 DEF LivingAt
<1> QED
  BY <1>5, <1>6, <1>7

LEMMA BeginBeatKeeps == BodyInv /\ BeginBeat => BodyInv'
<1> SUFFICES ASSUME BodyInv, BeginBeat PROVE BodyInv'
  OBVIOUS
<1> DEFINE hurt == {p \in online : Hurts(p) /\ living[p] # "dead"}
<1>1. /\ life' = [p \in Players |-> IF p \in hurt THEN Wounded(p).life ELSE life[p]]
      /\ living' = [p \in Players |-> IF p \in hurt THEN Wounded(p).living ELSE living[p]]
      /\ file' = file /\ temp' = temp
  BY DEF BeginBeat, body
<1>2. \A p \in hurt : living[p] # "dead"
  OBVIOUS
<1> HIDE DEF hurt
<1>3. \A p \in Players : life'[p] \in Int /\ living'[p] = LivingAt(life'[p])
  <2>1. SUFFICES ASSUME NEW p \in Players
                 PROVE  life'[p] \in Int /\ living'[p] = LivingAt(life'[p])
    OBVIOUS
  <2>2. CASE p \in hurt
    <3>1. life'[p] = Wounded(p).life /\ living'[p] = Wounded(p).living
      BY <1>1, <2>2
    <3>2. Wounded(p).life \in Int /\ Wounded(p).living = LivingAt(Wounded(p).life)
      BY <1>2, <2>2, WoundsAgree DEF BodyInv
    <3> QED
      BY <3>1, <3>2
  <2>3. CASE p \notin hurt
    <3>1. life'[p] = life[p] /\ living'[p] = living[p]
      BY <1>1, <2>3
    <3> QED
      BY <3>1 DEF BodyInv, LifeInv, LifeAgrees
  <2> QED
    BY <2>2, <2>3
<1>4. life' \in [Players -> Int] /\ living' = [p \in Players |-> living'[p]]
  BY <1>1, <1>3
<1>5. LifeInv'
  BY <1>3, <1>4 DEF LifeInv, LifeAgrees, LivingAt
<1> QED
  BY <1>1, <1>5 DEF BodyInv, FileInv, HeatInv

-----------------------------------------------------------------------------
(* A body takes a step towards the temperature of its room.                *)

LEMMA DegreesTowards ==
  ASSUME NEW b \in Bodies, NEW d \in Int, d # 0
  PROVE  /\ DegreesBy(b, d) \in Int
         /\ d > 0 => DegreesBy(b, d) > 0 /\ DegreesBy(b, d) <= d
         /\ d < 0 => DegreesBy(b, d) < 0 /\ DegreesBy(b, d) >= d
<1>1. Insulation[b] \in Nat
  BY BodiesAssumption
<1>2. CASE d > 10
  <2>1. DegreesBy(b, d) = IF Insulation[b] < 5 THEN 5 - Insulation[b] ELSE 1
    BY <1>2 DEF DegreesBy
  <2> QED
    BY <1>1, <1>2, <2>1
<1>3. CASE d < -10
  <2>1. DegreesBy(b, d) = IF Insulation[b] < 5 THEN Insulation[b] - 5 ELSE -1
    BY <1>3 DEF DegreesBy
  <2> QED
    BY <1>1, <1>3, <2>1
<1>4. CASE ~(d > 10) /\ ~(d < -10)
  <2>1. DegreesBy(b, d) = IF d > 0 THEN 1 ELSE -1
    BY <1>4 DEF DegreesBy
  <2> QED
    BY <1>4, <2>1
<1> QED
  BY <1>2, <1>3, <1>4

\* A turn of the loop changes one temperature, if any, and moves it towards
\* that of the room.
LEMMA EqualizeTowards ==
  ASSUME HeatInv, Equalize
  PROVE  /\ temp' \in [Bodies -> Int]
         /\ \A b \in Bodies : temp'[b] # temp[b] =>
              \E r \in Rooms : In(r, b) /\ (\/ temp[b] < temp'[b] /\ temp'[b] <= RoomTemp[r]
                                            \/ temp[b] > temp'[b] /\ temp'[b] >= RoomTemp[r])
<1> DEFINE c == contents[room][at]
           same == temp[c] = RoomTemp[room]
           by == DegreesBy(c, RoomTemp[room] - temp[c])
           t == IF same THEN temp[c] ELSE temp[c] + by
<1>1. /\ temp' = [temp EXCEPT ![c] = t]
      /\ room \in Rooms /\ at \in DOMAIN contents[room]
  BY DEF Equalize
<1>2. RoomTemp[room] \in Int
  BY <1>1, BodiesAssumption DEF Rooms
<1>3. CASE c \in Bodies /\ ~same
  <2>1. temp[c] \in Int
    BY <1>3 DEF HeatInv
  <2> DEFINE d == RoomTemp[room] - temp[c]
  <2>2. d \in Int /\ d # 0 /\ RoomTemp[room] = temp[c] + d
    BY <1>2, <1>3, <2>1
  <2> HIDE DEF d
  <2>3. DegreesBy(c, d) \in Int /\ t = temp[c] + DegreesBy(c, d)
    BY <1>3, <2>2, DegreesTowards DEF d
  <2>4. \/ temp[c] < t /\ t <= RoomTemp[room]
        \/ temp[c] > t /\ t >= RoomTemp[room]
    BY <1>3, <2>1, <2>2, <2>3, DegreesTowards
  <2>5. t \in Int
    BY <2>1, <2>3
  <2> HIDE DEF t
  <2>6. temp' \in [Bodies -> Int] /\ \A b \in Bodies : temp'[b] = IF b = c THEN t ELSE temp[b]
    BY <1>1, <2>5 DEF HeatInv
  <2>7. In(room, c)
    BY <1>1 DEF In
  <2> QED
    BY <1>1, <1>3, <2>4, <2>6, <2>7
<1>4. CASE c \notin Bodies \/ same
  <2>1. temp' = temp
    BY <1>1, <1>4 DEF HeatInv
  <2> QED
    BY <2>1 DEF HeatInv
<1> QED
  BY <1>3, <1>4

-----------------------------------------------------------------------------
(* Every step.                                                             *)

LEMMA InitBodies == Init => BodyInv
<1> SUFFICES ASSUME Init PROVE BodyInv
  OBVIOUS
<1>1. MaxLife \in Int /\ FirstTemp \in Int /\ LivingAt(MaxLife) = "alive"
  BY BodiesAssumption DEF LivingAt
<1>2. FileInv
  BY <1>1 DEF Init, FileInv, NewPhysical, NewLiving
<1>3. LifeInv
  BY <1>1 DEF Init, LifeInv, LifeAgrees, NewLiving
<1>4. HeatInv
  BY <1>1 DEF Init, HeatInv, NewPhysical
<1> QED
  BY <1>2, <1>3, <1>4 DEF BodyInv

\* A player comes back with the life his file has, and with what it makes of him.
LEMMA LoginKeeps == BodyInv => \A p \in Players : Login(p) => BodyInv'
<1> SUFFICES ASSUME BodyInv, NEW p \in Players, Login(p) PROVE BodyInv'
  OBVIOUS
<1>1. /\ life' = [life EXCEPT ![p] = file[p].Living]
      /\ living' = [living EXCEPT ![p] = LivingAt(file[p].Living)]
      /\ temp' = [temp EXCEPT ![p] = file[p].Physical.temp]
      /\ file' = file
  BY DEF Login, PhysicalLoad, LivingLoad
<1>2. file[p].Living \in Int /\ file[p].Physical.temp \in Int
  BY DEF BodyInv, FileInv
<1>3. \A q \in Players : /\ life'[q] = IF q = p THEN file[p].Living ELSE life[q]
                         /\ living'[q] = IF q = p THEN LivingAt(file[p].Living) ELSE living[q]
  BY <1>1 DEF BodyInv, LifeInv
<1>4. \A q \in Players : living'[q] = LivingAt(life'[q])
  BY <1>3 DEF BodyInv, LifeInv, LifeAgrees
<1>5. LifeInv'
  BY <1>1, <1>2, <1>4 DEF BodyInv, LifeInv, LifeAgrees, LivingAt
<1>6. HeatInv'
  BY <1>1, <1>2 DEF BodyInv, HeatInv
<1> QED
  BY <1>1, <1>5, <1>6 DEF BodyInv, FileInv

LEMMA SaveKeeps == BodyInv => \A p \in Players : Save(p) => BodyInv'
<1> SUFFICES ASSUME BodyInv, NEW p \in Players, Save(p) PROVE BodyInv'
  OBVIOUS
<1>1. /\ file' = [file EXCEPT ![p] = [Physical |-> PhysicalSave(p), Living |-> life[p]]]
      /\ life' = life /\ living' = living /\ temp' = temp
  BY DEF Save, body
<1>2. PhysicalSave(p).temp \in Int /\ life[p] \in Int
  BY DEF BodyInv, HeatInv, LifeInv, PhysicalSave, Bodies
<1>3. file' = [q \in Players |-> file'[q]]
  BY <1>1 DEF BodyInv, FileInv
<1>4. \A q \in Players : file'[q].Physical.temp \in Int /\ file'[q].Living \in Int
  BY <1>1, <1>2 DEF BodyInv, FileInv
<1> QED
  BY <1>1, <1>3, <1>4 DEF BodyInv, FileInv, LifeInv, LifeAgrees, HeatInv

LEMMA StepKeepsBodies == BodyInv /\ [Next]_vars => BodyInv'
<1> SUFFICES ASSUME BodyInv, [Next]_vars PROVE BodyInv'
  OBVIOUS
<1>1. CASE BeginBeat
  BY <1>1, BeginBeatKeeps
<1>2. CASE Equalize
  <2>1. temp' \in [Bodies -> Int]
    BY <1>2, EqualizeTowards DEF BodyInv
  <2>2. life' = life /\ living' = living /\ file' = file
    BY <1>2 DEF Equalize
  <2> QED
    BY <2>1, <2>2 DEF BodyInv, FileInv, LifeInv, LifeAgrees, HeatInv
<1>3. CASE UNCHANGED <<body, life, living, file>>
  BY <1>3 DEF body, BodyInv, FileInv, LifeInv, LifeAgrees, HeatInv
<1>4. CASE EndRoom \/ PastEnd
  BY <1>3, <1>4 DEF EndRoom, PastEnd
<1>5. ASSUME NEW p \in Players, Login(p) \/ Save(p) PROVE BodyInv'
  BY <1>5, LoginKeeps, SaveKeeps
<1>6. ASSUME NEW p \in Players, Leave(p) \/ \E r \in Rooms : Walk(p, r) PROVE BodyInv'
  BY <1>3, <1>6 DEF Leave, Walk
<1>7. CASE UNCHANGED vars
  BY <1>3, <1>7 DEF vars
<1> QED
  BY <1>1, <1>2, <1>4, <1>5, <1>6, <1>7 DEF Next, Heart

-----------------------------------------------------------------------------

\* Living::subtractLife and Living::livingLoad decide apart from each other
\* whether somebody lives, and never disagree: neither a wound nor a login
\* leaves anybody alive who has not the life for it, or dead who has.
THEOREM LifeAlwaysAgrees == Spec => []LifeAgrees
<1>1. BodyInv => LifeAgrees
  BY DEF BodyInv, LifeInv
<1> QED
  BY <1>1, InitBodies, StepKeepsBodies, PTL DEF Spec

\* Physical::equalizeTemperature takes a body a step towards the temperature of
\* the room it is in and never past it, however it is insulated and whatever
\* the difference; nothing else changes a temperature but a login.
THEOREM HeatGoesTowards == Spec => Toward
<1> DEFINE A == \A b \in Bodies : temp'[b] # temp[b] /\ (b \in Players => b \in online) =>
                  \E r \in Rooms : In(r, b) /\ (\/ temp[b] < temp'[b] /\ temp'[b] <= RoomTemp[r]
                                                \/ temp[b] > temp'[b] /\ temp'[b] >= RoomTemp[r])
<1>1. BodyInv /\ [Next]_vars => [A]_vars
  <2> SUFFICES ASSUME BodyInv, [Next]_vars PROVE A \/ UNCHANGED vars
    OBVIOUS
  <2>1. CASE Equalize
    BY <2>1, EqualizeTowards DEF BodyInv
  <2>2. CASE temp' = temp
    BY <2>2
  <2>3. ASSUME NEW p \in Players, Login(p) PROVE A
    <3>1. p \notin online /\ temp' = [temp EXCEPT ![p] = file[p].Physical.temp]
      BY <2>3 DEF Login, PhysicalLoad
    <3>2. \A b \in Bodies : b # p => temp'[b] = temp[b]
      BY <3>1 DEF BodyInv, HeatInv
    <3> QED
      BY <3>1, <3>2
  <2>4. CASE BeginBeat \/ EndRoom \/ PastEnd
    BY <2>2, <2>4 DEF BeginBeat, EndRoom, PastEnd, body
  <2>5. ASSUME NEW p \in Players, Save(p) \/ Leave(p) \/ \E r \in Rooms : Walk(p, r) PROVE A
    BY <2>2, <2>5 DEF Save, Leave, Walk, body
  <2> QED
    BY <2>1, <2>3, <2>4, <2>5 DEF Next, Heart
<1> QED
  BY <1>1, InitBodies, StepKeepsBodies, PTL DEF Spec, Toward

-----------------------------------------------------------------------------
(* The state of matter.                                                    *)

LEMMA Start == Len(RoomTemp) \in Nat /\ Rooms = 1 .. Len(RoomTemp) /\ 1 \in Rooms
<1>1. RoomTemp \in Seq(Int) /\ RoomTemp # <<>>
  BY BodiesAssumption
<1>2. Len(RoomTemp) \in Nat /\ Len(RoomTemp) # 0 /\ Rooms = 1 .. Len(RoomTemp)
  BY <1>1, EmptySeq, Positions DEF Rooms
<1> QED
  BY <1>2

LEMMA InitMatter == Init => PlaceInv /\ MatterInv
<1> SUFFICES ASSUME Init PROVE PlaceInv /\ MatterInv
  OBVIOUS
<1>1. contents \in [Rooms -> Seq(Bodies)]
  <2>1. contents = Found /\ Found \in [Rooms -> Seq(Things)]
    BY BodiesAssumption DEF Init
  <2>2. \A s \in Seq(Things) : s \in Seq(Bodies)
    BY DEF Bodies
  <2> QED
    BY <2>1, <2>2
<1>2. PlaceInv
  BY <1>1, Start DEF Init, PlaceInv, NewPhysical
<1>3. \A b \in Bodies : MatterAt(b, FirstTemp) = "solid"
  <2> SUFFICES ASSUME NEW b \in Bodies PROVE MatterAt(b, FirstTemp) = "solid"
    OBVIOUS
  <2>1. /\ FirstTemp \in Int /\ MeltsAt[b] \in Int /\ BoilsAt[b] \in Int
        /\ FirstTemp <= MeltsAt[b] /\ MeltsAt[b] <= BoilsAt[b]
    BY BodiesAssumption
  <2> QED
    BY <2>1 DEF MatterAt
<1>4. \A b \in Bodies : Agrees(b)
  BY <1>3 DEF Init, NewPhysical, Agrees
<1>5. \A p \in Players : file[p].Physical.temp = FirstTemp /\ file[p].Physical.matter = "solid"
  BY DEF Init, NewPhysical
<1>6. matter = [b \in Bodies |-> matter[b]]
  BY DEF Init
<1> QED
  BY <1>2, <1>3, <1>4, <1>5, <1>6 DEF MatterInv, Rests, Bodies

\* Physical::changeState is given the state of the temperature, and lets the
\* body have it or destroys it.
LEMMA Changing ==
  ASSUME NEW b, NEW t
  PROVE  Changed(b, MatterAt(b, t)) \in {MatterAt(b, t), "destruct"} /\ MatterAt(b, t) # "destruct"
BY DEF Changed, MatterAt

\* What is destroyed is taken out of the room, and a thing is in no other.
LEMMA EqualizeKeeps ==
  ASSUME HeatInv, PlaceInv, MatterInv, Equalize
  PROVE  PlaceInv' /\ MatterInv'
<1> DEFINE c == contents[room][at]
           same == temp[c] = RoomTemp[room]
           t == IF same THEN temp[c] ELSE temp[c] + DegreesBy(c, RoomTemp[room] - temp[c])
           m == IF same THEN matter[c] ELSE Changed(c, MatterAt(c, t))
<1>1. /\ room \in Rooms /\ at \in DOMAIN contents[room]
      /\ temp' = [temp EXCEPT ![c] = t] /\ matter' = [matter EXCEPT ![c] = m]
      /\ contents' = IF m = "destruct" THEN TakenOut(room, c) ELSE contents
      /\ location' = location /\ file' = file
  BY DEF Equalize
<1>2. contents[room] \in Seq(Bodies)
  BY <1>1 DEF PlaceInv
<1>3. c \in Bodies /\ c \in Elements(contents[room])
  BY <1>1, <1>2, Positions DEF Elements
<1>4. m = "destruct" \/ m = MatterAt(c, t)
  <2>1. CASE same
    <3>1. m = matter[c] /\ t = temp[c]
      BY <2>1
    <3>2. Rests(c)
      BY <1>1, <1>3 DEF MatterInv, Rests, Bodies
    <3> QED
      BY <3>1, <3>2 DEF Rests, Agrees
  <2>2. CASE ~same
    <3>1. m = Changed(c, MatterAt(c, t))
      BY <2>2
    <3> HIDE DEF t, m, c
    <3> QED
      BY <3>1, Changing
  <2> QED
    BY <2>1, <2>2
<1>5. Without(contents[room], c) \in Seq(Bodies)
      /\ Elements(Without(contents[room], c)) \subseteq Elements(contents[room]) \ {c}
  BY <1>2, Taken
<1> HIDE DEF c, t, m, same
<1>6. \A b \in Bodies : /\ temp'[b] = IF b = c THEN t ELSE temp[b]
                        /\ matter'[b] = IF b = c THEN m ELSE matter[b]
  BY <1>1, <1>3 DEF HeatInv, MatterInv
<1>7. contents' \in [Rooms -> Seq(Bodies)]
      /\ \A r \in Rooms : contents'[r] = IF m = "destruct" /\ r = room THEN Without(contents[room], c)
                                        ELSE contents[r]
  BY <1>1, <1>5 DEF PlaceInv, TakenOut
<1>8. ASSUME NEW r \in Rooms, NEW b \in Elements(contents'[r])
      PROVE  b \in Elements(contents[r]) /\ ~(m = "destruct" /\ r = room /\ b = c)
  <2>1. CASE m = "destruct" /\ r = room
    <3>1. Elements(contents'[r]) = Elements(Without(contents[room], c))
      BY <1>7, <2>1
    <3> QED
      BY <1>5, <1>8, <2>1, <3>1
  <2>2. CASE ~(m = "destruct" /\ r = room)
    <3>1. Elements(contents'[r]) = Elements(contents[r])
      BY <1>7, <2>2
    <3> QED
      BY <1>8, <2>2, <3>1
  <2> QED
    BY <2>1, <2>2
<1>9. PlaceInv'
  <2>1. \A r \in Rooms : \A b \in Things \cap Elements(contents'[r]) : b \in Elements(Found[r])
    BY <1>8 DEF PlaceInv
  <2> QED
    BY <1>1, <1>7, <2>1 DEF PlaceInv
<1>10. ASSUME NEW r \in Rooms, NEW b \in Things, b \in Elements(contents'[r]) PROVE Agrees(b)'
  <2>1. b \in Elements(contents[r]) /\ b \in Bodies
    BY <1>8, <1>10 DEF Bodies
  <2>2. CASE b # c
    BY <1>6, <2>1, <2>2 DEF MatterInv, Agrees, MatterAt
  <2>3. CASE b = c /\ m # "destruct"
    BY <1>4, <1>6, <2>1, <2>3 DEF Agrees, MatterAt
  <2>4. CASE b = c /\ m = "destruct"
    <3>1. r # room
      BY <1>8, <1>10, <2>4
    <3>2. c \in Elements(Found[r]) /\ c \in Elements(Found[room])
      BY <1>1, <1>3, <1>10, <2>1, <2>4 DEF PlaceInv
    <3>3. Elements(Found[r]) \cap Elements(Found[room]) = {}
      BY <1>1, <3>1, BodiesAssumption
    <3> QED
      BY <3>2, <3>3
  <2> QED
    BY <2>2, <2>3, <2>4
<1>11. ASSUME NEW p \in Players PROVE Rests(p)'
  <2>1. p \in Bodies
    BY DEF Bodies
  <2>2. CASE p # c
    BY <1>6, <2>1, <2>2 DEF MatterInv, Rests, Agrees, MatterAt
  <2>3. CASE p = c
    BY <1>4, <1>6, <2>1, <2>3 DEF Rests, Agrees, MatterAt
  <2> QED
    BY <2>2, <2>3
<1>12. matter' = [b \in Bodies |-> matter'[b]]
  BY <1>1 DEF MatterInv
<1>13. MatterInv'
  BY <1>1, <1>10, <1>11, <1>12 DEF MatterInv, MatterAt
<1> QED
  BY <1>9, <1>13

\* Whoever is put into a room or taken out of one is a player; where he is and
\* what he is made of, if it changes, came from his file.
LEMMA MovesKeep ==
  ASSUME PlaceInv, MatterInv, NEW p \in Players, UNCHANGED <<temp, matter>>, UNCHANGED file,
         location' \in [Players -> Rooms], contents' \in [Rooms -> Seq(Bodies)],
         \A r \in Rooms : Elements(contents'[r]) \subseteq Elements(contents[r]) \cup {p}
  PROVE  PlaceInv' /\ MatterInv'
<1>1. \A r \in Rooms : \A b \in Things \cap Elements(contents'[r]) : b \in Elements(contents[r])
  BY BodiesAssumption
<1>2. PlaceInv'
  BY <1>1 DEF PlaceInv
<1>3. \A r \in Rooms : \A b \in Things \cap Elements(contents'[r]) : Agrees(b)
  BY <1>1 DEF MatterInv
<1> QED
  BY <1>2, <1>3 DEF MatterInv, Agrees, Rests, MatterAt

LEMMA TakenFrom ==
  ASSUME PlaceInv, NEW r \in Rooms, NEW x
  PROVE  /\ TakenOut(r, x) \in [Rooms -> Seq(Bodies)]
         /\ \A q \in Rooms : Elements(TakenOut(r, x)[q]) \subseteq Elements(contents[q])
<1>1. /\ Without(contents[r], x) \in Seq(Bodies)
      /\ Elements(Without(contents[r], x)) \subseteq Elements(contents[r])
  BY Taken DEF PlaceInv
<1>2. /\ TakenOut(r, x) \in [Rooms -> Seq(Bodies)]
      /\ \A q \in Rooms : TakenOut(r, x)[q] = IF q = r THEN Without(contents[r], x) ELSE contents[q]
  BY <1>1 DEF PlaceInv, TakenOut
<1> QED
  BY <1>1, <1>2

LEMMA PutInto ==
  ASSUME NEW C \in [Rooms -> Seq(Bodies)], NEW r \in Rooms, NEW p \in Players
  PROVE  /\ [C EXCEPT ![r] = Append(@, p)] \in [Rooms -> Seq(Bodies)]
         /\ \A q \in Rooms : Elements([C EXCEPT ![r] = Append(@, p)][q]) \subseteq Elements(C[q]) \cup {p}
<1>1. p \in Bodies /\ C[r] \in Seq(Bodies)
  BY DEF Bodies
<1>2. Append(C[r], p) \in Seq(Bodies) /\ Elements(Append(C[r], p)) \subseteq Elements(C[r]) \cup {p}
  BY <1>1, Longer
<1> DEFINE D == [C EXCEPT ![r] = Append(@, p)]
<1>3. D \in [Rooms -> Seq(Bodies)] /\ \A q \in Rooms : D[q] = IF q = r THEN Append(C[r], p) ELSE C[q]
  BY <1>2
<1> QED
  BY <1>2, <1>3

\* Physical::physicalLoad gives a player back the temperature and the state that
\* were saved together.
LEMMA LoginAgrees ==
  ASSUME HeatInv, PlaceInv, MatterInv, NEW p \in Players, Login(p)
  PROVE  PlaceInv' /\ MatterInv'
<1> DEFINE kept == file[p].Physical
<1>1. /\ temp' = [temp EXCEPT ![p] = kept.temp] /\ matter' = [matter EXCEPT ![p] = kept.matter]
      /\ location' = [location EXCEPT ![p] = kept.location]
      /\ contents' = [contents EXCEPT ![kept.location] = Append(@, p)]
      /\ file' = file
  BY DEF Login, PhysicalLoad
<1>2. kept.location \in Rooms /\ contents \in [Rooms -> Seq(Bodies)]
  BY DEF PlaceInv
<1>3. kept.matter \in {MatterAt(p, kept.temp), "destruct"}
  BY DEF MatterInv
<1> HIDE DEF kept
<1>4. /\ contents' \in [Rooms -> Seq(Bodies)]
      /\ \A r \in Rooms : Elements(contents'[r]) \subseteq Elements(contents[r]) \cup {p}
  BY <1>1, <1>2, PutInto
<1>5. \A b \in Bodies : /\ temp'[b] = IF b = p THEN kept.temp ELSE temp[b]
                        /\ matter'[b] = IF b = p THEN kept.matter ELSE matter[b]
  BY <1>1 DEF HeatInv, MatterInv
<1>6. \A r \in Rooms : \A b \in Things \cap Elements(contents'[r]) : b \in Elements(contents[r]) /\ b # p
  BY <1>4, BodiesAssumption
<1>7. PlaceInv'
  BY <1>1, <1>2, <1>4, <1>6 DEF PlaceInv
<1>8. \A r \in Rooms : \A b \in Things \cap Elements(contents'[r]) : Agrees(b)'
  BY <1>5, <1>6 DEF MatterInv, Agrees, MatterAt, Bodies
<1>9. ASSUME NEW q \in Players PROVE Rests(q)'
  BY <1>3, <1>5 DEF MatterInv, Rests, Agrees, MatterAt, Bodies
<1>10. matter' = [b \in Bodies |-> matter'[b]]
  BY <1>1 DEF MatterInv
<1>11. MatterInv'
  BY <1>1, <1>8, <1>9, <1>10 DEF MatterInv, MatterAt
<1> QED
  BY <1>7, <1>11

\* Physical::physicalSave saves them together.
LEMMA SaveAgrees ==
  ASSUME BodyInv, PlaceInv, MatterInv, NEW p \in Players, Save(p)
  PROVE  PlaceInv' /\ MatterInv'
<1>1. /\ file' = [file EXCEPT ![p] = [Physical |-> PhysicalSave(p), Living |-> life[p]]]
      /\ contents' = contents /\ location' = location /\ temp' = temp /\ matter' = matter
  BY DEF Save, body
<1>2. \A q \in Players : file'[q].Physical = IF q = p THEN PhysicalSave(p) ELSE file[q].Physical
  BY <1>1 DEF BodyInv, FileInv
<1>3. PhysicalSave(p).location \in Rooms
  BY DEF PlaceInv, PhysicalSave
<1>4. PhysicalSave(p).matter \in {MatterAt(p, PhysicalSave(p).temp), "destruct"}
  BY DEF MatterInv, Rests, Agrees, PhysicalSave
<1>5. PlaceInv'
  BY <1>1, <1>2, <1>3 DEF PlaceInv
<1>6. \A q \in Players : LET k == file'[q].Physical IN k.matter \in {MatterAt(q, k.temp), "destruct"}
  BY <1>2, <1>4 DEF MatterInv
<1>7. MatterInv'
  BY <1>1, <1>6 DEF MatterInv, Rests, Agrees, MatterAt
<1> QED
  BY <1>5, <1>7

LEMMA StepKeepsMatter ==
  ASSUME BodyInv, PlaceInv, MatterInv, [Next]_vars
  PROVE  PlaceInv' /\ MatterInv'
<1>1. CASE Equalize
  BY <1>1, EqualizeKeeps DEF BodyInv
<1>2. CASE UNCHANGED <<contents, location, temp, matter, file>>
  BY <1>2 DEF PlaceInv, MatterInv, Rests, Agrees, MatterAt
<1>3. CASE BeginBeat \/ EndRoom \/ PastEnd \/ UNCHANGED vars
  BY <1>2, <1>3 DEF BeginBeat, EndRoom, PastEnd, body, vars
<1>4. ASSUME NEW p \in Players, Login(p) \/ Save(p) PROVE PlaceInv' /\ MatterInv'
  BY <1>4, LoginAgrees, SaveAgrees DEF BodyInv
<1>5. ASSUME NEW p \in Players, Leave(p) PROVE PlaceInv' /\ MatterInv'
  <2>1. contents' = TakenOut(location[p], p) /\ UNCHANGED <<location, temp, matter, file>>
    BY <1>5 DEF Leave, body
  <2>2. location[p] \in Rooms /\ location' \in [Players -> Rooms]
    BY <2>1 DEF PlaceInv
  <2>3. /\ contents' \in [Rooms -> Seq(Bodies)]
        /\ \A r \in Rooms : Elements(contents'[r]) \subseteq Elements(contents[r])
    BY <2>1, <2>2, TakenFrom
  <2> QED
    BY <2>1, <2>2, <2>3, MovesKeep
<1>6. ASSUME NEW p \in Players, NEW r \in Rooms, Walk(p, r) PROVE PlaceInv' /\ MatterInv'
  <2> DEFINE C == TakenOut(location[p], p)
  <2>1. /\ contents' = [C EXCEPT ![r] = Append(@, p)]
        /\ location' = [location EXCEPT ![p] = r] /\ UNCHANGED <<temp, matter, file>>
    BY <1>6 DEF Walk, body
  <2>2. location[p] \in Rooms /\ location' \in [Players -> Rooms]
    BY <2>1 DEF PlaceInv
  <2>3. C \in [Rooms -> Seq(Bodies)] /\ \A q \in Rooms : Elements(C[q]) \subseteq Elements(contents[q])
    BY <2>2, TakenFrom
  <2> HIDE DEF C
  <2>4. /\ contents' \in [Rooms -> Seq(Bodies)]
        /\ \A q \in Rooms : Elements(contents'[q]) \subseteq Elements(C[q]) \cup {p}
    BY <2>1, <2>3, PutInto
  <2>5. \A q \in Rooms : Elements(contents'[q]) \subseteq Elements(contents[q]) \cup {p}
    BY <2>3, <2>4
  <2> QED
    BY <2>1, <2>2, <2>4, <2>5, MovesKeep
<1> QED
  BY <1>1, <1>3, <1>4, <1>5, <1>6 DEF Next, Heart

\* What is in a room is in the state its temperature gives it, whatever it went
\* through: Physical::changeState is given the state of the new temperature and
\* lets the body have it or destroys it, a thing that is destroyed is taken out
\* of the only room it can be in, and temperature and state are saved together
\* and loaded together.
THEOREM MatterAlwaysAgrees == Spec => []MatterAgrees
<1> DEFINE I == BodyInv /\ PlaceInv /\ MatterInv
<1>1. Init => I
  BY InitBodies, InitMatter
<1>2. I /\ [Next]_vars => I'
  BY StepKeepsBodies, StepKeepsMatter
<1>3. I => MatterAgrees
  <2> SUFFICES ASSUME MatterInv, NEW r \in Rooms, NEW b \in Bodies, In(r, b)
               PROVE  Agrees(b) \/ (b \in Players /\ matter[b] = "destruct")
    BY DEF MatterAgrees, Agrees
  <2>1. b \in Elements(contents[r])
    BY DEF In, Elements
  <2> QED
    BY <2>1 DEF MatterInv, Rests, Bodies
<1> QED
  BY <1>1, <1>2, <1>3, PTL DEF Spec

-----------------------------------------------------------------------------
(* Timed events.                                                           *)

Event == [target : Name, left : Nat, age : Int]

EventInv ==
  /\ events \in Seq(Event) /\ pos \in Nat
  /\ slapped \subseteq listed /\ listed \subseteq Name
  /\ SlapHasEvent

\* What is left after some are erased were all there, and nothing else went.
LEMMA Left ==
  ASSUME NEW S, NEW s \in Seq(S), NEW I \in SUBSET DOMAIN s
  PROVE  /\ InOrder(s, I) \in Seq(S)
         /\ \A k \in I : \E m \in DOMAIN InOrder(s, I) : InOrder(s, I)[m] = s[k]
<1> DEFINE m == Cardinality(I)
           o == InOrder(s, I)
<1>1. o \in Seq(S) /\ DOMAIN o = 1 .. m
  BY Chosen
<1>2. PICK place \in [1 .. Cardinality(I) -> I] : Placed(s, I, place)
  BY Chosen
<1>3. /\ \A k \in 1 .. m : o[k] = s[place[k]]
      /\ \A i \in I : \E k \in 1 .. m : place[k] = i
  BY <1>2 DEF Placed
<1> HIDE DEF m, o
<1>4. \A k \in I : \E l \in DOMAIN o : o[l] = s[k]
  BY <1>1, <1>3
<1> QED
  BY <1>1, <1>4 DEF o

\* clearEventsForTarget leaves the events of others.
LEMMA Clearing ==
  ASSUME NEW list \in Seq(Event), NEW n
  PROVE  \E I \in SUBSET DOMAIN list :
           /\ ClearEvents(list, n) = InOrder(list, I)
           /\ \A k \in DOMAIN list : list[k].target # n => k \in I
<1> DEFINE others == {0} \cup {j \in DOMAIN list : list[j].target # n}
           last(k) == CHOOSE j \in others : j < k /\ \A i \in others : i < k => i <= j
           I == {k \in DOMAIN list : list[k].target # n \/ (k - last(k)) % 2 = 0}
<1>1. ClearEvents(list, n) = InOrder(list, I)
  BY DEF ClearEvents
<1> HIDE DEF last
<1>2. I \in SUBSET DOMAIN list /\ \A k \in DOMAIN list : list[k].target # n => k \in I
  OBVIOUS
<1> HIDE DEF I
<1> QED
  BY <1>1, <1>2

-----------------------------------------------------------------------------
(* Every step.                                                             *)

LEMMA Decrementing ==
  ASSUME NEW e \in Event
  PROVE  Decrement(e) \in Event /\ Decrement(e).target = e.target
<1>1. (IF e.left - 1 < 1 THEN 0 ELSE e.left - 1) \in Nat
  BY DEF Event
<1> QED
  BY <1>1 DEF Decrement, Event

LEMMA Ageing ==
  ASSUME NEW s \in Seq(Event)
  PROVE  /\ Aged(s) \in Seq(Event) /\ DOMAIN Aged(s) = DOMAIN s
         /\ \A k \in DOMAIN s : Aged(s)[k].target = s[k].target
<1>1. Len(s) \in Nat /\ DOMAIN s = 1 .. Len(s) /\ \A k \in DOMAIN s : s[k] \in Event
  BY Positions
<1>2. Aged(s) = [k \in DOMAIN s |-> [s[k] EXCEPT !.age = @ + 1]]
  BY DEF Aged
<1>3. ASSUME NEW e \in Event
      PROVE  [e EXCEPT !.age = @ + 1] \in Event /\ [e EXCEPT !.age = @ + 1].target = e.target
  <2>1. e.age + 1 \in Int
    BY DEF Event
  <2> QED
    BY <2>1 DEF Event
<1>4. Aged(s) \in [1 .. Len(s) -> Event]
  BY <1>1, <1>2, <1>3
<1>5. Aged(s) \in Seq(Event)
  BY <1>1, <1>4, IsASeq
<1> QED
  BY <1>1, <1>2, <1>3, <1>5

LEMMA InitEvents == EventsInit => EventInv
<1> SUFFICES ASSUME EventsInit PROVE EventInv
  OBVIOUS
<1>1. events = <<>> /\ slapped = {} /\ listed = {} /\ pos = 0
  BY DEF EventsInit
<1>2. events \in Seq(Event) /\ DOMAIN events = {}
  BY <1>1
<1> QED
  BY <1>1, <1>2 DEF EventInv, SlapHasEvent

LEMMA BsotgKeeps ==
  ASSUME EventInv, NEW n \in Name, Bsotg(n)
  PROVE  EventInv'
<1> DEFINE e == [target |-> n, left |-> Delay, age |-> 0]
           l == Len(events)
<1>1. /\ events' = Append(events, e) /\ pos' = pos /\ n \in listed /\ listed' = listed
      /\ slapped' = slapped \cup {n} /\ loaded' = loaded \ {n}
  BY DEF Bsotg, Resting
<1>2. events \in Seq(Event) /\ l \in Nat /\ DOMAIN events = 1 .. l /\ Delay \in Nat
  BY Positions, EventsAssumption DEF EventInv
<1>3. e \in Event /\ e.target = n
  BY <1>2 DEF Event
<1> HIDE DEF e
<1>4. events' \in Seq(Event) /\ Len(events') = l + 1 /\ events'[l + 1] = e
      /\ \A i \in 1 .. l : events'[i] = events[i]
  BY <1>1, <1>2, <1>3, AppendProperties
<1>5. DOMAIN events' = 1 .. (l + 1)
  BY <1>4, Positions
<1> HIDE DEF l
<1>6. \A k \in 1 .. l : k \in 1 .. (l + 1)
  BY <1>2
<1>7. SlapHasEvent'
  <2> SUFFICES ASSUME NEW m \in slapped', m \notin loaded'
               PROVE  \E k \in DOMAIN events' : events'[k].target = m
    BY DEF SlapHasEvent
  <2>1. CASE m = n
    <3>1. l + 1 \in DOMAIN events'
      BY <1>2, <1>5
    <3> QED
      BY <1>3, <1>4, <2>1, <3>1
  <2>2. CASE m # n
    <3>1. PICK k \in DOMAIN events : events[k].target = m
      BY <1>1, <2>2 DEF EventInv, SlapHasEvent
    <3> QED
      BY <1>2, <1>4, <1>5, <1>6, <3>1
  <2> QED
    BY <2>1, <2>2
<1> QED
  BY <1>1, <1>4, <1>7 DEF EventInv

LEMMA CountDownKeeps == EventInv /\ CountDown => EventInv'
<1> SUFFICES ASSUME EventInv, CountDown PROVE EventInv'
  OBVIOUS
<1> DEFINE d == Decrement(events[pos])
<1>1. /\ pos \in DOMAIN events /\ events' = [events EXCEPT ![pos] = d] /\ pos' = pos + 1
      /\ listed' = listed /\ slapped' = slapped /\ loaded' = loaded
  BY DEF CountDown
<1>2. events \in Seq(Event) /\ pos \in Nat /\ events[pos] \in Event
  BY <1>1, Positions DEF EventInv
<1>3. d \in Event /\ d.target = events[pos].target
  BY <1>2, Decrementing
<1> HIDE DEF d
<1>4. /\ events' \in Seq(Event) /\ DOMAIN events' = DOMAIN events
      /\ \A k \in DOMAIN events : events'[k] = IF k = pos THEN d ELSE events[k]
  BY <1>1, <1>2, <1>3
<1>5. SlapHasEvent'
  BY <1>1, <1>3, <1>4 DEF EventInv, SlapHasEvent
<1> QED
  BY <1>1, <1>2, <1>4, <1>5 DEF EventInv

\* An event fires: it goes, and so does the condition of its target.
LEMMA FireKeeps == EventInv /\ Fire => EventInv'
<1> SUFFICES ASSUME EventInv, Fire PROVE EventInv'
  OBVIOUS
<1> DEFINE n == events[pos].target
           I == DOMAIN events \ {pos}
           o == InOrder(events, I)
<1>1. /\ pos \in DOMAIN events /\ events' = o /\ pos' = pos + 1 /\ listed' = listed
      /\ slapped' = slapped \ {n} /\ loaded' = loaded \ {n}
  BY DEF Fire
<1>2. events \in Seq(Event) /\ pos \in Nat
  BY DEF EventInv
<1>3. o \in Seq(Event) /\ \A k \in I : \E m \in DOMAIN o : o[m] = events[k]
  <2>1. I \in SUBSET DOMAIN events
    OBVIOUS
  <2> HIDE DEF I
  <2> QED
    BY <1>2, <2>1, Left
<1>4. \A k \in DOMAIN events : k # pos => k \in I
  OBVIOUS
<1> HIDE DEF o, I
<1>5. SlapHasEvent'
  <2> SUFFICES ASSUME NEW m \in slapped', m \notin loaded'
               PROVE  \E k \in DOMAIN events' : events'[k].target = m
    BY DEF SlapHasEvent
  <2>1. PICK k \in DOMAIN events : events[k].target = m
    BY <1>1 DEF EventInv, SlapHasEvent
  <2>2. k \in I
    BY <1>1, <1>4, <2>1
  <2> QED
    BY <1>1, <1>3, <2>1, <2>2
<1> QED
  BY <1>1, <1>2, <1>3, <1>5 DEF EventInv

\* An event is due for somebody who is gone: its target has no condition, and
\* nobody else's event goes.
LEMMA FireAtAbsentKeeps == EventInv /\ FireAtAbsent => EventInv'
<1> SUFFICES ASSUME EventInv, FireAtAbsent PROVE EventInv'
  OBVIOUS
<1> DEFINE n == events[pos].target
           d == Decrement(events[pos])
           counted == [events EXCEPT ![pos] = Decrement(@)]
<1>1. /\ pos \in DOMAIN events /\ n \notin listed /\ events' = Aged(ClearEvents(counted, n)) /\ pos' = 0
      /\ listed' = listed /\ slapped' = slapped /\ loaded' = loaded
  BY DEF FireAtAbsent
<1>2. events \in Seq(Event) /\ events[pos] \in Event
  BY <1>1, Positions DEF EventInv
<1>3. d \in Event
  BY <1>2, Decrementing
<1>4. counted = [events EXCEPT ![pos] = d]
  OBVIOUS
<1> HIDE DEF d, counted
<1>5. /\ counted \in Seq(Event) /\ DOMAIN counted = DOMAIN events
      /\ \A k \in DOMAIN events : counted[k] = IF k = pos THEN d ELSE events[k]
  BY <1>1, <1>2, <1>3, <1>4
<1>6. PICK I \in SUBSET DOMAIN counted :
        /\ ClearEvents(counted, n) = InOrder(counted, I)
        /\ \A k \in DOMAIN counted : counted[k].target # n => k \in I
  <2> HIDE DEF n
  <2> QED
    BY <1>5, Clearing
<1> DEFINE o == InOrder(counted, I)
<1>7. o \in Seq(Event) /\ \A k \in I : \E m \in DOMAIN o : o[m] = counted[k]
  BY <1>5, Left
<1>8. events' = Aged(o)
  BY <1>1, <1>6
<1> HIDE DEF o
<1>9. /\ events' \in Seq(Event) /\ DOMAIN events' = DOMAIN o
      /\ \A m \in DOMAIN o : events'[m].target = o[m].target
  BY <1>7, <1>8, Ageing
<1>10. SlapHasEvent'
  <2> SUFFICES ASSUME NEW x \in slapped', x \notin loaded'
               PROVE  \E k \in DOMAIN events' : events'[k].target = x
    BY DEF SlapHasEvent
  <2>1. PICK k \in DOMAIN events : events[k].target = x
    BY <1>1 DEF EventInv, SlapHasEvent
  <2>2. x # n
    BY <1>1 DEF EventInv
  <2>3. counted[k] = events[k]
    BY <1>5, <2>1, <2>2
  <2>4. k \in I
    BY <1>5, <1>6, <2>1, <2>2, <2>3
  <2>5. PICK m \in DOMAIN o : o[m] = counted[k]
    BY <1>7, <2>4
  <2> QED
    BY <1>9, <2>1, <2>3, <2>5
<1> QED
  BY <1>1, <1>9, <1>10 DEF EventInv

LEMMA EndEventsKeeps == EventInv /\ EndEvents => EventInv'
<1> SUFFICES ASSUME EventInv, EndEvents PROVE EventInv'
  OBVIOUS
<1>1. /\ events' = Aged(events) /\ pos' = 0
      /\ listed' = listed /\ slapped' = slapped /\ loaded' = loaded
  BY DEF EndEvents
<1>2. /\ events' \in Seq(Event) /\ DOMAIN events' = DOMAIN events
      /\ \A k \in DOMAIN events : events'[k].target = events[k].target
  BY <1>1, Ageing DEF EventInv
<1>3. SlapHasEvent'
  BY <1>1, <1>2 DEF EventInv, SlapHasEvent
<1> QED
  BY <1>1, <1>2, <1>3 DEF EventInv

LEMMA StepKeepsEvents == EventInv /\ [EventsNext]_eventVars => EventInv'
<1> SUFFICES ASSUME EventInv, [EventsNext]_eventVars PROVE EventInv'
  OBVIOUS
<1>1. CASE CountDown \/ Fire \/ FireAtAbsent \/ EndEvents
  BY <1>1, CountDownKeeps, FireKeeps, FireAtAbsentKeeps, EndEventsKeeps
<1>2. CASE BeginEvents
  <2>1. pos' = 1 /\ UNCHANGED <<events, listed, slapped, loaded>>
    BY <1>2 DEF BeginEvents
  <2> QED
    BY <2>1 DEF EventInv, SlapHasEvent
<1>3. ASSUME NEW n \in Name, Bsotg(n) PROVE EventInv'
  BY <1>3, BsotgKeeps
<1>4. ASSUME NEW n \in Name, Arrive(n) \/ Unlisted(n) \/ SaveConditions(n) PROVE EventInv'
  <2>1. events' = events /\ pos' = pos
    BY <1>4 DEF Arrive, Unlisted, SaveConditions
  <2>2. slapped' \subseteq listed' /\ listed' \subseteq Name
    BY <1>4 DEF Arrive, Unlisted, SaveConditions, EventInv
  <2>3. slapped' \ loaded' \subseteq slapped \ loaded
    BY <1>4 DEF Arrive, Unlisted, SaveConditions
  <2>4. SlapHasEvent'
    BY <2>1, <2>3 DEF EventInv, SlapHasEvent
  <2> QED
    BY <2>1, <2>2, <2>4 DEF EventInv
<1>5. CASE UNCHANGED eventVars
  BY <1>5 DEF eventVars, EventInv, SlapHasEvent
<1> QED
  BY <1>1, <1>2, <1>3, <1>4, <1>5 DEF EventsNext, Heartbeat

\* Whoever bsotg gave the condition has an event that will take it back:
\* EventDaemon erases an event only when it fires, or for somebody who is gone,
\* and then passes over others and erases none of theirs.
THEOREM EverySlapHasItsEvent == EventsSpec => []SlapHasEvent
<1>1. EventInv => SlapHasEvent
  BY DEF EventInv
<1> QED
  BY <1>1, InitEvents, StepKeepsEvents, PTL DEF EventsSpec
==============================================================================
