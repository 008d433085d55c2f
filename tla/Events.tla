------------------------------- MODULE Events -------------------------------
(***************************************************************************)
(* EventDaemon's timed events and the one effect they have: the condition  *)
(* that the command bsotg puts on a player and that its event takes away.  *)
(*                                                                         *)
(* The process thread runs the commands and, at each heartbeat,            *)
(* EventDaemon::processEvents, one event a step.  Meanwhile the driver     *)
(* thread may drop the connection of any player.  A player that leaves is  *)
(* never destroyed (its ConnectionState object points back to it), so      *)
(* ~Player, which would clear its events, is not run.  All events are for  *)
(* players and named "bsotg": the branches for rooms and for unknown       *)
(* events are not reached.                                                 *)
(***************************************************************************)
EXTENDS Vectors

CONSTANTS
  Name,       \* players, by name
  Delay,      \* heartbeats from bsotg to the end of its effect
  MaxEvents   \* bound of the model: events registered at a time

ASSUME EventsAssumption ==
  /\ Delay \in Nat \ {0}
  /\ MaxEvents \in Nat \ {0}

VARIABLES
  events,   \* EventDaemon::mEventList; an event also has its age in whole
            \* heartbeats
  listed,   \* names of the players PlayerDatabase lists
  slapped,  \* who has the condition "bitchslapped"
  saved,    \* whose player file has it
  loaded,   \* who got it from the player file
  pos       \* the iterator of processEvents; 0 between heartbeats

eventVars == <<events, listed, slapped, saved, loaded, pos>>

EventsInit ==
  /\ events = <<>>
  /\ listed = {} /\ slapped = {} /\ saved = {} /\ loaded = {}
  /\ pos = 0

Resting == pos = 0

\* a player logs in: Login loads its file
Arrive(n) ==
  /\ Resting /\ n \notin listed
  /\ listed' = listed \cup {n}
  /\ slapped' = slapped \cup ({n} \cap saved)
  /\ loaded' = loaded \cup ({n} \cap saved)
  /\ UNCHANGED <<events, saved, pos>>

\* quit, or the driver drops the connection; nothing is saved
Unlisted(n) ==
  /\ n \in listed
  /\ listed' = listed \ {n}
  /\ slapped' = slapped \ {n} /\ loaded' = loaded \ {n}
  /\ UNCHANGED <<events, saved, pos>>

\* the save command writes the conditions to the player file
SaveConditions(n) ==
  /\ Resting /\ n \in listed
  /\ saved' = IF n \in slapped THEN saved \cup {n} ELSE saved \ {n}
  /\ UNCHANGED <<events, listed, slapped, loaded, pos>>

\* Bsotg::process: addCondition, then addEvent
Bsotg(n) ==
  /\ Resting /\ n \in listed
  /\ Len(events) < MaxEvents
  /\ slapped' = slapped \cup {n} /\ loaded' = loaded \ {n}
  /\ events' = Append(events, [target |-> n, left |-> Delay, age |-> 0])
  /\ UNCHANGED <<listed, saved, pos>>

\* clearEventsForTarget: erase(pos) moves the next event under the iterator,
\* and ++pos goes past it, so that of neighbours for n every other one is erased
ClearEvents(list, n) ==
  LET others  == {0} \cup {j \in DOMAIN list : list[j].target # n}
      last(k) == CHOOSE j \in others : j < k /\ \A i \in others : i < k => i <= j
  IN  InOrder(list, {k \in DOMAIN list : list[k].target # n \/ (k - last(k)) % 2 = 0})

\* Event::decrement
Decrement(e) == [e EXCEPT !.left = IF e.left - 1 < 1 THEN 0 ELSE e.left - 1]

\* heartbeat(): processEvents begins
BeginEvents ==
  /\ Resting
  /\ pos' = 1
  /\ UNCHANGED <<events, listed, slapped, saved, loaded>>

\* processEvents: an event whose time has not come
CountDown ==
  /\ pos \in DOMAIN events
  /\ Decrement(events[pos]).left # 0
  /\ events' = [events EXCEPT ![pos] = Decrement(@)]
  /\ pos' = pos + 1
  /\ UNCHANGED <<listed, slapped, saved, loaded>>

\* mistaken version: the event is dropped and the condition left
FireNothing ==
  /\ pos \in DOMAIN events
  /\ Decrement(events[pos]).left = 0
  /\ events[pos].target \in listed
  /\ events' = InOrder(events, DOMAIN events \ {pos})
  /\ pos' = pos + 1
  /\ UNCHANGED <<listed, slapped, saved, loaded>>

\* processEvents: an event fires, is erased, and ++pos goes past the next one;
\* eBsotg::process looks its target up again
Fire ==
  /\ pos \in DOMAIN events
  /\ Decrement(events[pos]).left = 0
  /\ events[pos].target \in listed
  /\ slapped' = slapped \ {events[pos].target}
  /\ loaded' = loaded \ {events[pos].target}
  /\ events' = InOrder(events, DOMAIN events \ {pos})
  /\ pos' = pos + 1
  /\ UNCHANGED <<listed, saved>>

\* one heartbeat older, at the end of processEvents
Aged(list) == [k \in DOMAIN list |-> [list[k] EXCEPT !.age = @ + 1]]

\* processEvents: an event's target is not logged in; its events are cleared
\* and the rest of the list is left for the next heartbeat
FireAtAbsent ==
  /\ pos \in DOMAIN events
  /\ Decrement(events[pos]).left = 0
  /\ events[pos].target \notin listed
  /\ LET counted == [events EXCEPT ![pos] = Decrement(@)]
     IN  events' = Aged(ClearEvents(counted, events[pos].target))
  /\ pos' = 0
  /\ UNCHANGED <<listed, slapped, saved, loaded>>

\* processEvents: past the end of the list
EndEvents ==
  /\ pos > Len(events)
  /\ events' = Aged(events)
  /\ pos' = 0
  /\ UNCHANGED <<listed, slapped, saved, loaded>>

Heartbeat == BeginEvents \/ CountDown \/ Fire \/ FireAtAbsent \/ EndEvents

EventsNext ==
  \/ Heartbeat
  \/ \E n \in Name : Arrive(n) \/ Unlisted(n) \/ SaveConditions(n) \/ Bsotg(n)

EventsSpec == EventsInit /\ [][EventsNext]_eventVars

\* the process thread keeps coming back to the heartbeat, whatever players do
FairEvents == EventsSpec /\ WF_eventVars(Heartbeat)

-----------------------------------------------------------------------------
(* Properties.                                                             *)

\* A player that bsotg gave the condition has an event on its way to take it
\* back, whoever left and came back, and whichever events were skipped or
\* cleared: bsotg, processEvents and clearEventsForTarget together.
SlapHasEvent ==
  \A n \in slapped \ loaded : \E k \in DOMAIN events : events[k].target = n

\* What processEvents says of itself (eventDaemon.cpp:25-30): "It gets called
\* every heartbeat, where it goes through all registered Event objects and
\* tells them to decrement themselves."  The code does not keep to it: the
\* event behind one that fires is passed over, and none is looked at behind
\* one whose target is gone.
AllCounted ==
  Resting => \A k \in DOMAIN events :
    LET e == events[k] IN Delay - e.left = e.age

\* The condition that bsotg gives ends, however many others are given it, unless
\* the player leaves: no event is passed over for ever.
SlapEnds == \A n \in Name : n \in slapped \ loaded ~> n \notin slapped \ loaded
=============================================================================
