---------------------------- MODULE MCConnection ----------------------------
(* One client's connection on a small instance.  What comes in and what goes *)
(* out share the mutex and no data; that a read waits for the mutex is       *)
(* ReadSocket in ClientSocket.  So the initial state chooses a direction,    *)
(* and the other one rests: the run has the states of both, not the product. *)
EXTENDS Input, ClientSocket

AllSpecial == {Space, Iac}

VARIABLE direction
connection == <<inputVars, vars, direction>>

Reads == direction = "in" /\ InputNext /\ UNCHANGED <<vars, direction>>
Out(A) == direction = "out" /\ A /\ UNCHANGED <<inputVars, direction>>

ConnectionInit == InputInit /\ Init /\ direction \in {"in", "out"}

ConnectionSpec ==
  /\ ConnectionInit
  /\ [][Reads \/ Out(Next)]_connection
  /\ \A t \in Thread : WF_connection(Out(Step(t)))
=============================================================================
