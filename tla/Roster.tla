------------------------------- MODULE Roster -------------------------------
(***************************************************************************)
(* What PlayerDatabase promises to the rest of the game: a changing set of *)
(* present players, each of whom may hold a character name, and no name    *)
(* held by two present players.  How connections, threads and vector       *)
(* iterators bring that about is the business of module Sessions, which    *)
(* implements this one.                                                    *)
(***************************************************************************)
CONSTANTS
  Player,   \* Player objects
  Name,     \* character names
  NoName    \* the name of a Player before anybody typed one

VARIABLES
  present,  \* players somebody can look up
  claim     \* the name each present player holds

rosterVars == <<present, claim>>

Init == present = {} /\ claim = [p \in Player |-> NoName]

\* somebody present already holds n
Held(n) == \E q \in present : claim[q] = n

Arrive(p) ==
  /\ p \notin present
  /\ present' = present \cup {p}
  /\ UNCHANGED claim

\* a present player takes a name nobody present holds; NoName is nobody's
Claim(p, n) ==
  /\ p \in present
  /\ n = NoName \/ ~Held(n)
  /\ claim' = [claim EXCEPT ![p] = n]
  /\ UNCHANGED present

Leave(p) ==
  /\ p \in present
  /\ present' = present \ {p}
  /\ claim' = [claim EXCEPT ![p] = NoName]

Next ==
  \E p \in Player :
    \/ Arrive(p)
    \/ \E n \in Name \cup {NoName} : Claim(p, n)
    \/ Leave(p)

Spec == Init /\ [][Next]_rosterVars
=============================================================================
