----------------------------- MODULE MCHeartbeat -----------------------------
(* The heartbeat on a small instance: timed events of two players, and two   *)
(* rooms, one of them hot, with ice that melts and goes up, an insulated     *)
(* stone, and a player who freezes in one room and burns and melts in the    *)
(* other.  The calls share no data (callHeartbeats does not look at          *)
(* conditions), so the initial state chooses whose turns are taken, and the  *)
(* other part rests: the run has the states of both, not the product.        *)
EXTENDS Events, Bodies, TLC

CONSTANTS p, ice, stone

MCRoomTemp == <<0, 12>>
MCFound == <<<<>>, <<ice, stone>>>>
MCInsulation == (p :> 1) @@ (ice :> 0) @@ (stone :> 5)
MCMelts == (p :> 9) @@ (ice :> 4) @@ (stone :> 30)
MCBoils == (p :> 60) @@ (ice :> 7) @@ (stone :> 30)

VARIABLE turns
heartbeat == <<eventVars, vars, turns>>

OfEvents(A) == turns = "events" /\ A /\ UNCHANGED <<vars, turns>>
OfBodies(A) == turns = "bodies" /\ A /\ UNCHANGED <<eventVars, turns>>

HeartbeatInit == EventsInit /\ Init /\ turns \in {"events", "bodies"}

HeartbeatSpec ==
  /\ HeartbeatInit
  /\ [][OfEvents(EventsNext) \/ OfBodies(Next)]_heartbeat
  /\ WF_heartbeat(OfEvents(Heartbeat)) /\ WF_heartbeat(OfBodies(Heart))

\* Things take the temperature of their room, where they take their turns.
SettlesInTurn == turns = "bodies" => Settles
=============================================================================
