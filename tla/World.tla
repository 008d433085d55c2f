------------------------------- MODULE World -------------------------------
(* Where things are: the contents of rooms and of players, and what moves    *)
(* them, walking, `get` and `create` in the process thread, and the removal  *)
(* of a player in the driver thread.  Only players and rooms are containers. *)
(* A player here is one Player object, made by one login.  Coins are the     *)
(* only collections, so two collections always have the same name.           *)
EXTENDS Vectors, FiniteSetsExt

CONSTANTS
    Players, Books, Piles, Rooms,   \* objects; Piles are Coin objects
    StartRoom,                      \* StartingRoom of the configuration
    Exits,                          \* pairs of rooms joined by an exit that lets pass
    Admins,                         \* players allowed to create
    Called,                         \* the words an object answers to
    Words,                          \* what may be typed
    RoomCapacity, PlayerCapacity,
    MaxNumber,                      \* bound: the largest number typed
    MaxCoins                        \* bound: coins created or doubled

Holders == Players \cup Rooms
Things == Players \cup Books \cup Piles
Nowhere == "nowhere"
Nobody == "nobody"

ASSUME WorldAssumption ==
    /\ StartRoom \in Rooms /\ Exits \subseteq Rooms \X Rooms /\ Admins \subseteq Players
    /\ Called \in [Things -> SUBSET Words]
    /\ RoomCapacity \in Nat /\ PlayerCapacity \in Nat /\ MaxNumber \in Nat /\ MaxCoins \in Nat
    /\ IsFiniteSet(Piles) /\ Piles \cap (Players \cup Books) = {}
    /\ Players \cap Books = {} /\ Players \cap Rooms = {}
    /\ {Nowhere, Nobody} \cap (Holders \cup Things) = {}

(* Constructors name books and coins, and these have no name in common; but  *)
(* a player may call himself what coins are called.                          *)
ASSUME NamesAssumption == \A b \in Books, u \in Piles : Called[b] \cap Called[u] = {}

VARIABLES
    contents,   \* mContents of a holder
    location,   \* the holder that mObjectLocation names; of a pile nothing here reads it
    quantity,   \* mQuantity of a pile
    changed,    \* mChanged of a room
    online,     \* players on the list
    walking,    \* the process thread between containerAdd() and setLocation()
    removing,   \* the driver thread in PlayerDatabase::remove()
    running     \* no read past the end of a vector so far

vars == <<contents, location, quantity, changed, online, walking, removing, running>>

NoWalk == [who |-> Nobody, to |-> StartRoom]
NoRemoval == [who |-> Nobody, from |-> StartRoom]

Init ==
    /\ contents = [h \in Holders |-> <<>>]
    /\ location = [t \in Things \ Piles |-> Nowhere]
    /\ quantity = [u \in Piles |-> 0]
    /\ changed = [r \in Rooms |-> FALSE]
    /\ online = {} /\ running = TRUE
    /\ walking = NoWalk
    /\ removing = NoRemoval

Made(t) == location[t] # Nowhere
Fresh(S) == {t \in S : ~Made(t)}
Capacity(h) == IF h \in Rooms THEN RoomCapacity ELSE PlayerCapacity

----------------------------------------------------------------------------
(* Container *)

RemoveThingNot(t, s) == IF t \in Books THEN s ELSE Without(s, t)

RemoveThing(t, s) == Without(s, t)

Find(h, w) == InOrder(contents[h], {i \in DOMAIN contents[h] : w \in Called[contents[h][i]]})

HasRoom(h) == Len(contents[h]) < Capacity(h)

(* The first pile in h, which a pile that is added to h is merged into *)
MergesInto(h) == LET at == {i \in DOMAIN contents[h] : contents[h][i] \in Piles}
                 IN  IF at = {} THEN {} ELSE {contents[h][Min(at)]}

(* The objects a new pile can be: whatever nobody holds has been freed *)
FreshPiles == Piles \ UNION {Elements(contents[h]) : h \in Holders}

(* Every coin there is, by its pile, and how many                            *)
Coins(q) == UNION {{u} \X (1 .. q[u]) : u \in Piles}
Total(q) == Cardinality(Coins(q))

(* containerAdd() of a new pile of n, which keeps m of them if it is not merged *)
AddNew(h, n, m) ==
    \/ \E v \in MergesInto(h) :
          /\ Total(quantity) + n <= MaxCoins
          /\ quantity' = [quantity EXCEPT ![v] = @ + n]
          /\ UNCHANGED contents
    \/ \E u \in FreshPiles :
          /\ MergesInto(h) = {} /\ Total(quantity) + m <= MaxCoins
          /\ quantity' = [quantity EXCEPT ![u] = m]
          /\ contents' = [contents EXCEPT ![h] = Append(@, u)]

----------------------------------------------------------------------------
(* Players come *)

Idle == running /\ walking.who = Nobody

(* A login, with the location of the player's file; a full room refuses it *)
Login(p, r) ==
    /\ Idle /\ p \in Fresh(Players)
    /\ location' = [location EXCEPT ![p] = r]
    /\ IF HasRoom(r)
       THEN /\ contents' = [contents EXCEPT ![r] = Append(@, p)]
            /\ online' = online \cup {p}
       ELSE UNCHANGED <<contents, online>>
    /\ UNCHANGED <<quantity, changed, walking, removing, running>>

(* A new character plays without being put in its room *)
FirstLogin(p) ==
    /\ Idle /\ p \in Fresh(Players)
    /\ location' = [location EXCEPT ![p] = StartRoom]
    /\ online' = online \cup {p}
    /\ UNCHANGED <<contents, quantity, changed, walking, removing, running>>

Playing(p) == Idle /\ p \in online
InRoom(p) == location[p] \in Rooms

----------------------------------------------------------------------------
(* Walking; a full destination is not noticed *)

PassExit(p, r) ==
    /\ Playing(p) /\ InRoom(p) /\ <<location[p], r>> \in Exits
    /\ LET out == [contents EXCEPT ![location[p]] = RemoveThing(p, @)]
       IN  contents' = IF Len(out[r]) < RoomCapacity THEN [out EXCEPT ![r] = Append(@, p)] ELSE out
    /\ changed' = [changed EXCEPT ![location[p]] = TRUE, ![r] = TRUE]
    /\ walking' = [who |-> p, to |-> r]
    /\ UNCHANGED <<location, quantity, online, removing, running>>

Arrive ==
    /\ running /\ walking.who # Nobody
    /\ location' = [location EXCEPT ![walking.who] = walking.to]
    /\ walking' = NoWalk
    /\ UNCHANGED <<contents, quantity, changed, online, removing, running>>

----------------------------------------------------------------------------
(* Create *)

FlagChange(r) == changed' = [changed EXCEPT ![r] = TRUE]

CreateBook(p, b) ==
    /\ Playing(p) /\ p \in Admins /\ InRoom(p) /\ b \in Fresh(Books)
    /\ HasRoom(location[p])
    /\ contents' = [contents EXCEPT ![location[p]] = Append(@, b)]
    /\ location' = [location EXCEPT ![b] = location[p]]
    /\ FlagChange(location[p])
    /\ UNCHANGED <<quantity, online, walking, removing, running>>

CreateCoin(p) ==
    /\ Playing(p) /\ p \in Admins /\ InRoom(p)
    /\ AddNew(location[p], 1, 1)
    /\ FlagChange(location[p])
    /\ UNCHANGED <<location, online, walking, removing, running>>

----------------------------------------------------------------------------
(* Get *)

(* A number that is left out is 0, as one typed as 0; a negative one is,     *)
(* unsigned, larger than any number here.                                    *)
Numbers == 0..MaxNumber

NthOf(s, n) == IF s = <<>> \/ n > Len(s) THEN {} ELSE {s[IF n = 0 THEN 1 ELSE n]}

(* findContainer(): the player itself stands for none                        *)
FindContainer(p, from, n) ==
    LET own == Find(p, from)
        found == IF own # <<>> THEN own ELSE Find(location[p], from)
    IN  IF NthOf(found, n) \cap Players = {} THEN {p} ELSE NthOf(found, n)

Searched(p, from, n) == FindContainer(p, from, n) \ {p}

(* getAction() compares the number with the size only when there are several *)
Past(found, n) == Len(found) = 1 /\ n > 0

TakeThingUnmoved(p, c, t) ==
    /\ t \notin Piles /\ HasRoom(p)
    /\ contents' = [contents EXCEPT ![p] = Append(@, t), ![c] = RemoveThing(t, @)]
    /\ UNCHANGED <<location, quantity, running>>
TakeThingUnchecked(p, c, t) ==
    /\ t \notin Piles
    /\ contents' = [contents EXCEPT ![p] = IF HasRoom(p) THEN Append(@, t) ELSE @,
                                    ![c] = RemoveThing(t, @)]
    /\ location' = [location EXCEPT ![t] = p]
    /\ UNCHANGED <<quantity, running>>

TakeThing(p, c, t) ==
    /\ t \notin Piles /\ HasRoom(p)
    /\ contents' = [contents EXCEPT ![p] = Append(@, t), ![c] = RemoveThing(t, @)]
    /\ location' = [location EXCEPT ![t] = p]
    /\ UNCHANGED <<quantity, running>>

(* Pile t merged into the pile in h, if there is one, and left with nothing *)
Poured(h, t) ==
    [u \in Piles |-> IF MergesInto(h) # {} /\ u = t THEN 0
                     ELSE IF u \in MergesInto(h) THEN quantity[u] + quantity[t]
                     ELSE quantity[u]]

(* All of a pile: pile t is added, and the first thing found is moved away *)
TakePile(p, c, t, first, n) ==
    /\ t \in Piles /\ n \in {0, quantity[t]}
    /\ contents' = [contents EXCEPT ![p] = IF MergesInto(p) = {} THEN Append(@, t) ELSE @,
                                    ![c] = RemoveThing(first, @)]
    /\ quantity' = Poured(p, t)
    /\ location' = [u \in DOMAIN location |-> IF u = first THEN p ELSE location[u]]
    /\ UNCHANGED running

(* Part of a pile: a new pile gets n and, merged or not, loses n again if it *)
(* has them; the pile that was named keeps what it has                       *)
TakePart(p, t, n) ==
    /\ t \in Piles /\ 0 < n /\ n < quantity[t]
    /\ AddNew(p, n, 0)
    /\ UNCHANGED <<location, running>>

(* The element past the end is no pointer *)
ReadPast == running' = FALSE /\ UNCHANGED <<contents, location, quantity>>

(* getAction() *)
Take(p, c, item, nth) ==
    LET found == Find(c, item)
    IN  \/ Past(found, nth) /\ ReadPast
        \/ /\ ~Past(found, nth)
           /\ \E t \in NthOf(found, nth) :
                  \/ TakeThing(p, c, t)
                  \/ \E many \in Numbers : \/ TakePile(p, c, t, found[1], many)
                                           \/ TakePart(p, t, many)

(* get [many] item [nth] *)
GetHere(p) == \E item \in Words, nth \in Numbers : Take(p, location[p], item, nth)

(* get [many] item [nth] from word [number] *)
GetFrom(p) ==
    \E from \in Words, n \in Numbers : \E c \in Searched(p, from, n) :
        \E item \in Words, nth \in Numbers : Take(p, c, item, nth)

Get(p) ==
    /\ Playing(p) /\ InRoom(p)
    /\ GetHere(p) \/ GetFrom(p)
    /\ UNCHANGED <<changed, online, walking, removing>>

----------------------------------------------------------------------------
(* Players leave: the process thread removes one at once, the driver thread  *)
(* reads the location first                                                  *)

Leaves(p, h) ==
    /\ contents' = IF h \in Rooms THEN [contents EXCEPT ![h] = RemoveThing(p, @)] ELSE contents
    /\ online' = online \ {p}

Quit(p) ==
    /\ Playing(p) /\ Leaves(p, location[p])
    /\ UNCHANGED <<location, quantity, changed, walking, removing, running>>

BeginRemove(p) ==
    /\ running /\ removing.who = Nobody /\ p \in online
    /\ removing' = [who |-> p, from |-> location[p]]
    /\ UNCHANGED <<contents, location, quantity, changed, online, walking, running>>

EndRemove ==
    /\ running /\ removing.who # Nobody /\ Leaves(removing.who, removing.from)
    /\ removing' = NoRemoval
    /\ UNCHANGED <<location, quantity, changed, walking, running>>

(* The save thread writes a room that has changed *)
SaveRoom(r) ==
    /\ running /\ changed[r]
    /\ changed' = [changed EXCEPT ![r] = FALSE]
    /\ UNCHANGED <<contents, location, quantity, online, walking, removing, running>>

Next ==
    \/ \E p \in Players : \/ FirstLogin(p) \/ Quit(p) \/ BeginRemove(p)
                          \/ \E r \in Rooms : Login(p, r) \/ PassExit(p, r)
                          \/ \E b \in Books : CreateBook(p, b)
                          \/ CreateCoin(p) \/ Get(p)
    \/ Arrive \/ EndRemove
    \/ \E r \in Rooms : SaveRoom(r)

Spec == Init /\ [][Next]_vars
----------------------------------------------------------------------------

Places(t) == {at \in UNION {{h} \X DOMAIN contents[h] : h \in Holders} :
                 contents[at[1]][at[2]] = t}

(* What is not a pile of coins is in one place at most, however it is taken, *)
(* walked or removed.                                                        *)
HeldOnce == \A t \in Things \ Piles : Cardinality(Places(t)) <= 1

(* And it is where its mObjectLocation says, which is what every command     *)
(* that needs the room of a player, and the removal of one, relies on; only  *)
(* a player between containerAdd() and setLocation() is ahead of it.         *)
WhereItSays ==
    \A h \in Holders : \A t \in Elements(contents[h]) \ Piles :
        \/ location[t] = h
        \/ walking = [who |-> t, to |-> h]

(* A book is never lost, neither when the taker's hands are full nor when it *)
(* is found by a number or taken from somebody.                              *)
NotLost == \A b \in Books : Made(b) => Places(b) # {}

(* What the help of get promises (get.cpp:50-59): it "lets you retrieve an   *)
(* item", and "a number preceding the item denotes quantity", as in "get 30  *)
(* coins"; so that no coin is made but by create.  The code gives the new    *)
(* pile that many and does not take them from the old one.                   *)
NoCoinsFromNothing ==
    [][Total(quantity') = Total(quantity) \/ \E p \in Players : CreateCoin(p)]_vars
=============================================================================
