------------------------------ MODULE MCFiles ------------------------------
(* The files on a small instance: two rooms under the threads that save,     *)
(* through one run of the program; and settings, bans, a room and a player   *)
(* through two.  The first looks at who writes when and not at what, the     *)
(* second at what and not at the threads, so the initial state chooses       *)
(* which is watched and the other rests: the run has the states of both,     *)
(* not the product.                                                          *)
EXTENDS Autosave, Restart

MCMetals == <<"copper", "iron">>
MCEnded == [t \in {"I", "~"} |-> IF t = "I" THEN "I." ELSE "~."]
MCKeys == <<"Greeting", "Quiet", "StartingRoom">>
MCCommands == <<"north", "chat">>

HallForBoth == [k \in {"StartingRoom", "Quiet"} |-> "hall"]
Ones == [k \in {"StartingRoom", "Quiet"} |-> 1]
OneUnreadable(f) == [f EXCEPT !["StartingRoom"] = Unreadable]

\* as shipped: no Boolean is set
MCShipped ==
    [Greeting |-> "hello", Strings |-> HallForBoth, Integers |-> Ones, Floats |-> Ones,
     Booleans |-> NullSection]

MCDocuments ==
    {[MCShipped EXCEPT !.Booleans = Ones],
     [MCShipped EXCEPT !.Booleans = OneUnreadable(Ones)],
     [MCShipped EXCEPT !.Booleans = Ones, !.Integers = OneUnreadable(Ones)],
     [MCShipped EXCEPT !.Booleans = Ones, !.Strings = NotAMap]}

MCShippedBans == [ip \in {"here"} |-> "spam"]

MCShippedRoom ==
    [interest |-> [w \in {"sign"} |-> "a sign"],
     exits |-> <<[name |-> "north", to |-> "yard", key |-> "", closed |-> TRUE, locked |-> FALSE]>>,
     contents |-> <<[type |-> "milestone", id |-> "stone", nicknames |-> <<"stone">>,
                     conditions |-> <<"mossy">>, title |-> "", pages |-> <<"I">>],
                    [type |-> "coin", nicknames |-> <<"coins", "copper">>, conditions |-> <<>>,
                     quantity |-> 2, alloys |-> [m \in {"copper", "iron"} |-> 50]]>>]

VARIABLE watched
everything == <<autosaveVars, vars, watched>>

OfThreads(A) == watched = "threads" /\ A /\ UNCHANGED <<vars, watched>>
OfStarts == watched = "starts" /\ Next /\ UNCHANGED <<autosaveVars, watched>>

FilesInit == AutosaveInit /\ Init /\ watched \in {"threads", "starts"}

\* the fairness of FairAutosave, where its threads run
FilesSpec ==
    /\ FilesInit
    /\ [][OfThreads(AutosaveNext) \/ OfStarts]_everything
    /\ WF_everything(OfThreads(pc["main"] # "ended" /\ SaveThread))
    /\ SF_everything(OfThreads(pc["main"] # "ended" /\ LockFile("save")))
    /\ WF_everything(OfThreads(Main))
    /\ WF_everything(OfThreads(pc["main"] # "ended" /\ (EndPlayerFile \/ ProcessEnds)))
    /\ SF_everything(OfThreads(pc["main"] # "ended" /\ Heartbeat))
=============================================================================
