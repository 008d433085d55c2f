------------------------------ MODULE MCRooms ------------------------------
(* Rooms on a small instance.  Things: one administrator and a player whose  *)
(* name is what coins are called, two rooms with a way from one to the       *)
(* other; hands hold one thing, rooms two.  Weather: a map of three by       *)
(* three, two of its rooms with a file, one watched; every weather character *)
(* is of its own, so that a turned map shows how.  Weather moves nothing and *)
(* nothing that is moved makes weather, so the initial state chooses which   *)
(* is watched, and the other rests: the run has the states of both, not the  *)
(* product.                                                                  *)
EXTENDS World, Weather, TLC

CONSTANTS ann, coin, hall, yard, book1, pile1, pile2

MCCalled == [t \in Things |-> IF t = ann THEN {"ann"} ELSE IF t \in Books THEN {"book"}
                                 ELSE {"coin"}]
MCSymmetry == Permutations(Books) \cup Permutations(Piles)
MCExits == {<<hall, yard>>}

MCSky == <<<<"a", "b", "c">>, <<"d", "e", "f">>, <<"g", "h", "i">>>>
MCFixed == {<<1, 1>>, <<2, 0>>}
MCFixedExits == [c \in MCFixed |-> {}]
MCWatched == {<<0, 2>>}
MCWaterMark == 0 :> 2 @@ 5 :> 1

VARIABLE watched
everything == <<vars, weatherVars, watched>>

Moving == watched = "things" /\ Next /\ UNCHANGED <<weatherVars, watched>>
Blowing == watched = "weather" /\ WeatherNext /\ UNCHANGED <<vars, watched>>

RoomsInit ==
    /\ Init /\ WeatherInit
    /\ \/ watched = "weather"
       \/ watched = "things" /\ LET still == CHOOSE w \in Winds : TRUE IN
                                wind = still /\ \A c \in Cells : shown[c].wind = still

RoomsSpec ==
    /\ RoomsInit
    /\ [][Moving \/ Blowing]_everything
=============================================================================
