--------------------------- MODULE SessionsProofs ---------------------------
(***************************************************************************)
(* What module Sessions preserves, proved for every number of players,     *)
(* names and descriptors.  The inductive invariant is Consistent: each of  *)
(* its conjuncts has a lemma that says a step keeps it, and each lemma     *)
(* looks one by one at the actions that touch what the conjunct is about.  *)
(***************************************************************************)
EXTENDS Sessions, SequenceTheorems, TLAPS

-----------------------------------------------------------------------------
(* The player list as a sequence.                                          *)

\* Taking out element k closes the gap: the elements after it move up by one.
LEMMA RemoveAtFacts ==
  ASSUME NEW S, NEW l \in Seq(S), NEW k \in DOMAIN l
  PROVE  /\ RemoveAt(l, k) \in Seq(S)
         /\ Len(RemoveAt(l, k)) = Len(l) - 1
         /\ \A j \in 1..(Len(l) - 1) :
              RemoveAt(l, k)[j] = IF j < k THEN l[j] ELSE l[j + 1]
<1> DEFINE a == SubSeq(l, 1, k - 1)
           b == SubSeq(l, k + 1, Len(l))
<1>1. k \in 1..Len(l) /\ Len(l) \in Nat
  OBVIOUS
<1>2. /\ a \in Seq(S) /\ Len(a) = k - 1
      /\ \A j \in 1..(k - 1) : a[j] = l[j]
  BY <1>1, SubSeqProperties
<1>3. /\ b \in Seq(S) /\ Len(b) = Len(l) - k
      /\ \A j \in 1..(Len(l) - k) : b[j] = l[k + j]
  BY <1>1, SubSeqProperties
<1> HIDE DEF a, b
<1>4. /\ a \o b \in Seq(S)
      /\ Len(a \o b) = Len(a) + Len(b)
      /\ \A j \in 1..(Len(a) + Len(b)) :
           (a \o b)[j] = IF j <= Len(a) THEN a[j] ELSE b[j - Len(a)]
  BY <1>2, <1>3, ConcatProperties
<1>5. Len(a) + Len(b) = Len(l) - 1
  BY <1>1, <1>2, <1>3
<1>6. ASSUME NEW j \in 1..(Len(l) - 1)
      PROVE  (a \o b)[j] = IF j < k THEN l[j] ELSE l[j + 1]
  <2>1. CASE j < k
    <3>1. j \in 1..(k - 1) /\ j <= Len(a) /\ j \in 1..(Len(a) + Len(b))
      BY <1>1, <1>2, <1>5, <2>1
    <3> QED
      BY <2>1, <3>1, <1>2, <1>4
  <2>2. CASE ~(j < k)
    <3>1. /\ j - (k - 1) \in 1..(Len(l) - k) /\ ~(j <= Len(a))
          /\ j \in 1..(Len(a) + Len(b)) /\ j - Len(a) = j - (k - 1)
          /\ k + (j - (k - 1)) = j + 1
      BY <1>1, <1>2, <1>5, <2>2
    <3> QED
      BY <2>2, <3>1, <1>3, <1>4
  <2> QED
    BY <2>1, <2>2
<1>7. RemoveAt(l, k) = a \o b
  BY DEF RemoveAt, a, b
<1> QED
  BY <1>4, <1>5, <1>6, <1>7

\* Erasing a player takes it, and nobody else, off the list.
LEMMA EraseFacts ==
  ASSUME list \in Seq(Player), ListedOnce, NEW p, Erase(p)
  PROVE  list' \in Seq(Player) /\ ListedOnce' /\ Listed' = Listed \ {p}
<1>1. CASE p \notin Listed
  BY <1>1 DEF Erase, Listed, ListedOnce
<1>2. CASE p \in Listed
  <2>1. PICK k \in DOMAIN list : list[k] = p /\ list' = RemoveAt(list, k)
    BY <1>2 DEF Erase
  <2>2. /\ list' \in Seq(Player) /\ Len(list') = Len(list) - 1
        /\ \A j \in 1..(Len(list) - 1) :
             list'[j] = IF j < k THEN list[j] ELSE list[j + 1]
    BY <2>1, RemoveAtFacts
  <2>3. k \in 1..Len(list) /\ Len(list) \in Nat /\ DOMAIN list = 1..Len(list)
    OBVIOUS
  <2>4. DOMAIN list' = 1..(Len(list) - 1)
    BY <2>2
  <2>5. ListedOnce'
    <3>1. SUFFICES ASSUME NEW i \in 1..(Len(list) - 1), NEW j \in 1..(Len(list) - 1),
                          list'[i] = list'[j]
                   PROVE  i = j
      BY <2>4 DEF ListedOnce
    <3> DEFINE old(m) == IF m < k THEN m ELSE m + 1
    <3>2. list[old(i)] = list[old(j)]
      BY <2>2, <3>1
    <3>3. old(i) \in DOMAIN list /\ old(j) \in DOMAIN list
      BY <2>3
    <3>4. old(i) = old(j)
      BY <3>2, <3>3 DEF ListedOnce
    <3> QED
      BY <2>3, <3>4
  <2>6. Listed' \subseteq Listed \ {p}
    BY <2>1, <2>2, <2>3, <2>4 DEF Listed, ListedOnce
  <2>7. ASSUME NEW q \in Listed, q # p PROVE q \in Listed'
    <3>1. PICK j \in 1..Len(list) : list[j] = q
      BY <2>3 DEF Listed
    <3>2. CASE j < k
      BY <2>2, <2>3, <2>4, <3>1, <3>2 DEF Listed
    <3>3. CASE j > k
      <4>1. j - 1 \in 1..(Len(list) - 1) /\ ~(j - 1 < k) /\ (j - 1) + 1 = j
        BY <2>3, <3>3
      <4>2. list'[j - 1] = q
        BY <2>2, <3>1, <4>1
      <4> QED
        BY <2>4, <4>1, <4>2 DEF Listed
    <3>4. j # k
      BY <2>1, <2>7, <3>1
    <3>5. j < k \/ j > k
      BY <2>3, <3>1, <3>4
    <3> QED
      BY <3>2, <3>3, <3>5
  <2> QED
    BY <2>2, <2>5, <2>6, <2>7
<1> QED
  BY <1>1, <1>2

\* Appending a player that is not listed puts it last.
LEMMA AppendFacts ==
  ASSUME list \in Seq(Player), ListedOnce, NEW p \in Player, p \notin Listed,
         list' = Append(list, p)
  PROVE  /\ list' \in Seq(Player) /\ ListedOnce' /\ Listed' = Listed \cup {p}
         /\ Len(list') \in DOMAIN list' /\ list'[Len(list')] = p
<1>1. /\ list' \in Seq(Player) /\ Len(list') = Len(list) + 1
      /\ \A j \in 1..Len(list) : list'[j] = list[j]
      /\ list'[Len(list) + 1] = p
  BY AppendProperties
<1>2. /\ Len(list) \in Nat /\ DOMAIN list = 1..Len(list)
      /\ DOMAIN list' = 1..(Len(list) + 1)
  BY <1>1
<1>3. ListedOnce'
  BY <1>1, <1>2 DEF ListedOnce, Listed
<1>4. Listed' = Listed \cup {p}
  BY <1>1, <1>2 DEF Listed
<1> QED
  BY <1>1, <1>2, <1>3, <1>4

\* A lookup finds a listed player with the value asked for, or nobody.
LEMMA LookupFacts ==
  ASSUME NEW l \in Seq(Player), NEW attr, NEW v, NEW b, LastWith(l, attr, v, b)
  PROVE  /\ b \in Player \cup {NoPlayer}
         /\ b # NoPlayer => \E k \in DOMAIN l : b = l[k] /\ attr[b] = v
         /\ b = NoPlayer => \A k \in DOMAIN l : attr[l[k]] # v
BY SessionsAssumption DEF LastWith

-----------------------------------------------------------------------------
(* Types.                                                                  *)

\* Both ways to move on leave the iterator a position and the process thread
\* at a place of its loop.
LEMMA AdvanceTypes ==
  ASSUME TypeOK, Advance
  PROVE  cursor' \in Nat \ {0} /\ pc' = "loop"
<1>1. cursor \in Nat \ {0}
  BY DEF TypeOK
<1> QED
  BY <1>1 DEF Advance

\* A new state object keeps the types of everything it replaces.
LEMMA SetStateTypes ==
  ASSUME TypeOK, NEW p, NEW s \in States, NEW l \in Seq(Player), NEW d,
         SetState(p, s, l, d)
  PROVE  /\ conn' \in [Player -> States] /\ bound' \in [Player -> MaybePlayer]
         /\ waiting' \in [Player -> BOOLEAN] /\ attempts' \in [Player -> Nat]
<1>1. /\ conn \in [Player -> States] /\ bound \in [Player -> MaybePlayer]
      /\ waiting \in [Player -> BOOLEAN] /\ attempts \in [Player -> Nat]
  BY DEF TypeOK
<1>2. conn' \in [Player -> States]
  BY <1>1 DEF SetState
<1>3. waiting' \in [Player -> BOOLEAN] /\ attempts' \in [Player -> Nat]
  BY <1>1 DEF SetState
<1>4. PICK b \in MaybePlayer : bound' = [bound EXCEPT ![p] = b]
  BY DEF SetState, MaybePlayer
<1> QED
  BY <1>1, <1>2, <1>3, <1>4

\* Closing a descriptor keeps the type of the table.
LEMMA CloseFdTypes ==
  ASSUME TypeOK, NEW p, CloseFd(p)
  PROVE  owner' \in [Fd -> MaybePlayer]
<1>1. owner \in [Fd -> MaybePlayer]
  BY DEF TypeOK
<1> QED
  BY <1>1 DEF CloseFd, MaybePlayer

\* The player whose command is processed is on the list, where the iterator is.
LEMMA ProcessingListed ==
  ASSUME Consistent, NEW w, NEW s \in States \ {"closed"}, Processing(s, w)
  PROVE  w \in Listed /\ w \in Player /\ conn[w] = s /\ bound[w] \in Player
<1>1. list \in Seq(Player) /\ cursor \in Nat \ {0} /\ bound \in [Player -> MaybePlayer]
  BY DEF Consistent, TypeOK
<1>2. cursor \in DOMAIN list
  BY <1>1 DEF Processing
<1>3. w \in Listed /\ w \in Player /\ conn[w] = s
  BY <1>1, <1>2 DEF Processing, Listed
<1>4. bound[w] # NoPlayer
  BY <1>3 DEF Consistent, HandlersBound
<1> QED
  BY <1>1, <1>3, <1>4 DEF MaybePlayer

\* Every step keeps the types.
LEMMA TypeStep ==
  ASSUME Consistent, [Next]_vars
  PROVE  TypeOK'
<1>0. TypeOK
  BY DEF Consistent
<1>1. CASE CopyFdset
  BY <1>0, <1>1, SessionsAssumption DEF TypeOK, MaybePlayer, CopyFdset, Goto, StartRemove, LeaveRoom, Processing, lists, handler, world, flags, process, driver
<1>2. CASE DriverStops
  BY <1>0, <1>2, SessionsAssumption DEF TypeOK, MaybePlayer, DriverStops, Goto, StartRemove, LeaveRoom, Processing, lists, handler, world, flags, process, driver
<1>3. CASE SelectFails
  BY <1>0, <1>3, SessionsAssumption DEF TypeOK, MaybePlayer, SelectFails, Goto, StartRemove, LeaveRoom, Processing, lists, handler, world, flags, process, driver
<1>4. CASE SelectReturns
  BY <1>0, <1>4, SessionsAssumption DEF TypeOK, MaybePlayer, SelectReturns, Goto, StartRemove, LeaveRoom, Processing, lists, handler, world, flags, process, driver
<1>5. CASE PollSkips
  BY <1>0, <1>5, SessionsAssumption DEF TypeOK, MaybePlayer, PollSkips, Goto, StartRemove, LeaveRoom, Processing, lists, handler, world, flags, process, driver
<1>6. CASE PollEnds
  BY <1>0, <1>6, SessionsAssumption DEF TypeOK, MaybePlayer, PollEnds, Goto, StartRemove, LeaveRoom, Processing, lists, handler, world, flags, process, driver
<1>7. CASE DriverUnrooms
  BY <1>0, <1>7, SessionsAssumption DEF TypeOK, MaybePlayer, DriverUnrooms, Goto, StartRemove, LeaveRoom, Processing, lists, handler, world, flags, process, driver
<1>8. CASE DriverErases
  <2>1. list' \in Seq(Player)
    BY <1>8, EraseFacts DEF DriverErases, Consistent, TypeOK
  <2> QED
    BY <1>0, <1>8, <2>1 DEF TypeOK, DriverErases, Erase, lists, handler, world, flags, process, driver
<1>9. CASE DriverCloses
  <2>1. owner' \in [Fd -> MaybePlayer]
    BY <1>0, <1>9, CloseFdTypes DEF DriverCloses
  <2> QED
    BY <1>0, <1>9, <2>1 DEF TypeOK, MaybePlayer, DriverCloses, lists, handler, world, flags, process, driver
<1>10. CASE BeginPass
  <2>1. /\ pc' = "loop" /\ cursor' = 1 /\ stale' = FALSE
        /\ UNCHANGED <<lists, owner, queue, handler, world, flags, driver, who, wanted, target, after>>
    BY <1>10 DEF BeginPass
  <2>2. stale' \in BOOLEAN
    BY <2>1, Zenon
  <2>3. cursor' \in Nat \ {0}
    BY <2>1
  <2>4. /\ pc' = "loop"
        /\ UNCHANGED <<lists, owner, queue, handler, world, flags, driver, who, wanted, target, after>>
    BY <2>1
  <2> QED
    BY <1>0, <2>2, <2>3, <2>4 DEF TypeOK, lists, handler, world, flags, process, driver
<1>11. CASE ProcessStops
  BY <1>0, <1>11, SessionsAssumption DEF TypeOK, MaybePlayer, ProcessStops, Goto, StartRemove, LeaveRoom, Processing, lists, handler, world, flags, process, driver
<1>12. CASE EndPass
  BY <1>0, <1>12, SessionsAssumption DEF TypeOK, MaybePlayer, EndPass, Goto, StartRemove, LeaveRoom, Processing, lists, handler, world, flags, process, driver
<1>13. CASE Fetch
  <2> DEFINE p == list[cursor]
  <2>1. p \in Player
    BY <1>0, <1>13 DEF Fetch, TypeOK
  <2>2. CASE queue[p] = 0 /\ Advance /\ UNCHANGED <<queue, who>>
    BY <1>0, <1>13, <2>2, AdvanceTypes DEF TypeOK, Fetch, lists, handler, world, flags, process, driver
  <2>3. CASE queue[p] > 0 /\ queue' = [queue EXCEPT ![p] = @ - 1] /\ who' = p /\ Goto("dispatch")
    <3>1. queue \in [Player -> 0..MaxQueue]
      BY <1>0 DEF TypeOK
    <3>2. queue[p] - 1 \in 0..MaxQueue
      BY <2>1, <2>3, <3>1, SessionsAssumption
    <3>3. queue' \in [Player -> 0..MaxQueue]
      BY <2>3, <3>1, <3>2
    <3> QED
      BY <1>0, <1>13, <2>1, <2>3, <3>3 DEF TypeOK, MaybePlayer, Fetch, Goto, lists, handler, world, flags, process, driver
  <2> QED
    BY <1>13, <2>2, <2>3 DEF Fetch, TakeCommand
<1>14. CASE BadIterator
  BY <1>0, <1>14, SessionsAssumption DEF TypeOK, MaybePlayer, BadIterator, Goto, StartRemove, LeaveRoom, Processing, lists, handler, world, flags, process, driver
<1>15. CASE LoginNames
  <2>1. name' \in [Player -> Name \cup {NoName}]
    BY <1>0, <1>15 DEF LoginNames, TypeOK
  <2>2. /\ conn' \in [Player -> States] /\ bound' \in [Player -> MaybePlayer]
        /\ waiting' \in [Player -> BOOLEAN] /\ attempts' \in [Player -> Nat]
    <3>1. CASE wanted \in accounts
      BY <1>0, <1>15, <3>1, SetStateTypes DEF LoginNames, TypeOK, States
    <3>2. CASE wanted \notin accounts
      BY <1>0, <1>15, <3>2 DEF LoginNames, TypeOK
    <3> QED
      BY <3>1, <3>2
  <2>3. cursor' \in Nat \ {0} /\ pc' = "loop"
    BY <1>0, <1>15, AdvanceTypes DEF LoginNames
  <2> QED
    BY <1>0, <1>15, <2>1, <2>2, <2>3 DEF TypeOK, LoginNames, lists, handler, world, flags, process, driver
<1>16. CASE PasswordEnters
  <2>1. bound[who] \in Player
    BY <1>16 DEF PasswordEnters, Consistent, MidCommand
  <2>2. room' \subseteq Player /\ target' \in MaybePlayer /\ after' \in {"loop", "play"}
    BY <1>0, <1>16, <2>1 DEF PasswordEnters, StartRemove, TypeOK, MaybePlayer
  <2>3. cursor' = cursor /\ pc' \in {"play", "unroom"}
    BY <1>16 DEF PasswordEnters, StartRemove, Goto
  <2> QED
    BY <1>0, <1>16, <2>2, <2>3 DEF TypeOK, PasswordEnters, lists, handler, world, flags, process, driver
<1>17. CASE PasswordPlays
  <2>1. /\ conn' \in [Player -> States] /\ bound' \in [Player -> MaybePlayer]
        /\ waiting' \in [Player -> BOOLEAN] /\ attempts' \in [Player -> Nat]
    BY <1>0, <1>17, SetStateTypes DEF PasswordPlays, TypeOK, States
  <2>2. cursor' \in Nat \ {0} /\ pc' = "loop"
    BY <1>0, <1>17, AdvanceTypes DEF PasswordPlays
  <2> QED
    BY <1>0, <1>17, <2>1, <2>2 DEF TypeOK, PasswordPlays, lists, handler, world, flags, process, driver
<1>18. CASE ProcessUnrooms
  BY <1>0, <1>18, SessionsAssumption DEF TypeOK, MaybePlayer, ProcessUnrooms, Goto, StartRemove, LeaveRoom, Processing, lists, handler, world, flags, process, driver
<1>19. CASE ProcessErases
  <2>1. list' \in Seq(Player)
    BY <1>19, EraseFacts DEF ProcessErases, Consistent, TypeOK
  <2> QED
    BY <1>0, <1>19, <2>1 DEF TypeOK, ProcessErases, Erase, Goto, lists, handler, world, flags, process, driver
<1>20. CASE ProcessCloses
  <2>1. owner' \in [Fd -> MaybePlayer]
    BY <1>0, <1>20, CloseFdTypes DEF ProcessCloses
  <2>2. cursor' \in Nat \ {0} /\ pc' \in {"loop", "play"}
    BY <1>0, <1>20, AdvanceTypes DEF ProcessCloses, Goto, TypeOK
  <2> QED
    BY <1>0, <1>20, <2>1, <2>2 DEF TypeOK, MaybePlayer, ProcessCloses, lists, handler, world, flags, process, driver
<1>21. ASSUME NEW p \in Player, NewConnection(p) PROVE TypeOK'
  <2>1. PICK f \in Fd : /\ owner' = [owner EXCEPT ![f] = p]
                        /\ AddPlayer(p, f)
    BY <1>21 DEF NewConnection, Free
  <2>2. owner' \in [Fd -> MaybePlayer] /\ fd' \in [Player -> Fd \cup {NoFd}]
    BY <1>0, <2>1 DEF TypeOK, AddPlayer, MaybePlayer
  <2>3. list' \in Seq(Player)
    BY <1>0, <2>1 DEF TypeOK, AddPlayer
  <2>4. reserved' \in Nat /\ stale' \in BOOLEAN
    <3>1. reserved \in Nat /\ stale \in BOOLEAN
      BY <1>0 DEF TypeOK
    <3>2. reserved' \in Nat
      BY <2>1, <3>1 DEF AddPlayer
    <3>3. stale' \in BOOLEAN
      BY <2>1, <3>1 DEF AddPlayer
    <3> QED
      BY <3>2, <3>3
  <2>5. /\ conn' \in [Player -> States] /\ bound' \in [Player -> MaybePlayer]
        /\ waiting' \in [Player -> BOOLEAN] /\ attempts' \in [Player -> Nat]
        /\ dpc' \in {"copy", "unroom"} /\ gone' \in MaybePlayer
    <3>1. CASE SetState(p, "login", list', fd') /\ dpc' = "copy" /\ UNCHANGED gone
      BY <1>0, <2>3, <3>1, SetStateTypes DEF TypeOK, States
    <3>2. CASE /\ conn' = [conn EXCEPT ![p] = "closed"]
               /\ dpc' = "unroom" /\ gone' = p
               /\ UNCHANGED <<bound, waiting, attempts>>
      BY <1>0, <3>2 DEF TypeOK, States, MaybePlayer
    <3> QED
      BY <1>21, <3>1, <3>2 DEF NewConnection
  <2> QED
    BY <1>0, <1>21, <2>2, <2>3, <2>4, <2>5 DEF TypeOK, NewConnection, lists, handler, world, flags, process, driver
<1>22. ASSUME NEW p \in Player, PollReads(p) PROVE TypeOK'
  <2>1. queue' \in [Player -> 0..MaxQueue]
    <3>1. queue \in [Player -> 0..MaxQueue] /\ MaxQueue \in Nat
      BY <1>0, SessionsAssumption DEF TypeOK
    <3>2. CASE UNCHANGED queue
      BY <3>1, <3>2
    <3>3. CASE QueueCommands(p)
      <4>1. PICK n \in queue[p]..MaxQueue : queue' = [queue EXCEPT ![p] = n]
        BY <3>3 DEF QueueCommands
      <4>2. n \in 0..MaxQueue
        BY <3>1
      <4> QED
        BY <3>1, <4>1, <4>2
    <3> QED
      BY <1>22, <3>2, <3>3 DEF PollReads
  <2>2. snap' \subseteq Fd /\ gone' \in MaybePlayer /\ dpc' \in {"poll", "unroom"}
    BY <1>0, <1>22 DEF PollReads, TypeOK, MaybePlayer
  <2> QED
    BY <1>0, <1>22, <2>1, <2>2 DEF TypeOK, PollReads, lists, handler, world, flags, process, driver
<1>23. ASSUME NEW w \in Player, LoginCreates(w) PROVE TypeOK'
  <2>1. /\ conn' \in [Player -> States] /\ bound' \in [Player -> MaybePlayer]
        /\ waiting' \in [Player -> BOOLEAN] /\ attempts' \in [Player -> Nat]
    BY <1>0, <1>23, SetStateTypes DEF LoginCreates, SetStateAndGoOn, TypeOK, States
  <2>2. cursor' \in Nat \ {0} /\ pc' = "loop" /\ who' = w
    BY <1>0, <1>23, AdvanceTypes DEF LoginCreates, Processing
  <2>3. fault' \in BOOLEAN
    BY <1>0, <1>23 DEF TypeOK, LoginCreates, SetStateAndGoOn
  <2> QED
    BY <1>0, <1>23, <2>1, <2>2, <2>3 DEF TypeOK, MaybePlayer, LoginCreates, lists, handler, world, flags, process, driver
<1>24. ASSUME NEW w \in Player, LoginDeclines(w) PROVE TypeOK'
  <2>1. waiting' \in [Player -> BOOLEAN]
    BY <1>0, <1>24 DEF TypeOK, LoginDeclines
  <2>2. cursor' \in Nat \ {0} /\ pc' = "loop" /\ who' = w
    BY <1>0, <1>24, AdvanceTypes DEF LoginDeclines, Processing
  <2> QED
    BY <1>0, <1>24, <2>1, <2>2 DEF TypeOK, MaybePlayer, LoginDeclines, lists, handler, world, flags, process, driver
<1>25. ASSUME NEW w \in Player, LoginTooShort(w) PROVE TypeOK'
  <2>1. cursor' \in Nat \ {0} /\ pc' = "loop" /\ who' = w
    BY <1>0, <1>25, AdvanceTypes DEF LoginTooShort, Processing
  <2> QED
    BY <1>0, <1>25, <2>1 DEF TypeOK, MaybePlayer, LoginTooShort, lists, handler, world, flags, process, driver
<1>26. ASSUME NEW w \in Player, PasswordWrong(w) PROVE TypeOK'
  <2>1. attempts' \in [Player -> Nat]
    BY <1>0, <1>26 DEF TypeOK, PasswordWrong
  <2>2. w \in Player /\ bound[w] \in MaybePlayer /\ who' = w
    BY <1>0, <1>26 DEF TypeOK, PasswordWrong, Processing
  <2>3. /\ cursor' \in Nat \ {0} /\ pc' \in {"loop", "unroom"}
        /\ target' \in MaybePlayer /\ after' \in {"loop", "play"}
    <3>1. CASE StartRemove(bound[w], "loop")
      BY <1>0, <2>2, <3>1 DEF TypeOK, StartRemove, Goto
    <3>2. CASE Advance /\ UNCHANGED <<target, after>>
      BY <1>0, <3>2, AdvanceTypes DEF TypeOK
    <3> QED
      BY <1>26, <3>1, <3>2 DEF PasswordWrong
  <2> QED
    BY <1>0, <1>26, <2>1, <2>2, <2>3 DEF TypeOK, MaybePlayer, PasswordWrong, lists, handler, world, flags, process, driver
<1>27. ASSUME NEW w \in Player, PasswordRight(w) PROVE TypeOK'
  BY <1>0, <1>27, SessionsAssumption DEF TypeOK, MaybePlayer, PasswordRight, Goto, StartRemove, LeaveRoom, Processing, lists, handler, world, flags, process, driver
<1>28. ASSUME NEW w \in Player, CreatePlays(w) PROVE TypeOK'
  <2>1. /\ conn' \in [Player -> States] /\ bound' \in [Player -> MaybePlayer]
        /\ waiting' \in [Player -> BOOLEAN] /\ attempts' \in [Player -> Nat]
    BY <1>0, <1>28, SetStateTypes DEF CreatePlays, SetStateAndGoOn, TypeOK, States
  <2>2. cursor' \in Nat \ {0} /\ pc' = "loop" /\ who' = w
    BY <1>0, <1>28, AdvanceTypes DEF CreatePlays, Processing
  <2>3. bound[w] \in Player
    BY <1>28, ProcessingListed DEF CreatePlays, States
  <2>4. accounts' \subseteq Name \cup {NoName}
    BY <1>0, <1>28, <2>3 DEF TypeOK, CreatePlays, SavePlayer
  <2>5. fault' \in BOOLEAN
    BY <1>0, <1>28 DEF TypeOK, CreatePlays, SetStateAndGoOn
  <2> QED
    BY <1>0, <1>28, <2>1, <2>2, <2>4, <2>5 DEF TypeOK, MaybePlayer, CreatePlays, lists, handler, world, flags, process, driver
<1>29. ASSUME NEW w \in Player, PlayOther(w) PROVE TypeOK'
  <2>1. cursor' \in Nat \ {0} /\ pc' = "loop" /\ who' = w
    BY <1>0, <1>29, AdvanceTypes DEF PlayOther, Processing
  <2> QED
    BY <1>0, <1>29, <2>1 DEF TypeOK, MaybePlayer, PlayOther, lists, handler, world, flags, process, driver
<1>30. ASSUME NEW w \in Player, PlayQuits(w) PROVE TypeOK'
  <2>1. /\ cursor' \in Nat \ {0} /\ pc' \in {"loop", "unroom"}
        /\ target' \in MaybePlayer /\ after' \in {"loop", "play"} /\ who' = w
    <3>1. PICK p \in MaybePlayer :
            IF p = NoPlayer THEN Advance /\ UNCHANGED <<target, after>>
                            ELSE StartRemove(p, "loop")
      BY <1>30 DEF PlayQuits, MaybePlayer
    <3>2. CASE p = NoPlayer
      BY <1>0, <1>30, <3>1, <3>2, AdvanceTypes DEF PlayQuits, Processing, TypeOK
    <3>3. CASE p # NoPlayer
      BY <1>0, <1>30, <3>1, <3>3 DEF PlayQuits, Processing, StartRemove, Goto, TypeOK
    <3> QED
      BY <3>2, <3>3
  <2> QED
    BY <1>0, <1>30, <2>1 DEF TypeOK, MaybePlayer, PlayQuits, lists, handler, world, flags, process, driver
<1>31. ASSUME NEW w \in Player, PlayShutsDown(w) PROVE TypeOK'
  <2>1. cursor' \in Nat \ {0} /\ pc' = "loop" /\ who' = w
    BY <1>0, <1>31, AdvanceTypes DEF PlayShutsDown, Processing
  <2> QED
    BY <1>0, <1>31, <2>1 DEF TypeOK, MaybePlayer, PlayShutsDown, lists, handler, world, flags, process, driver
<1>32. ASSUME NEW w \in Player, NEW n \in Name \cup {NoName}, LoginRefused(w, n) PROVE TypeOK'
  BY <1>0, <1>32, SessionsAssumption DEF TypeOK, MaybePlayer, LoginRefused, Goto, StartRemove, LeaveRoom, Processing, lists, handler, world, flags, process, driver
<1>33. ASSUME NEW w \in Player, NEW n \in Name \cup {NoName}, LoginAccepted(w, n) PROVE TypeOK'
  BY <1>0, <1>33, SessionsAssumption DEF TypeOK, MaybePlayer, LoginAccepted, Goto, StartRemove, LeaveRoom, Processing, lists, handler, world, flags, process, driver
<1>34. CASE UNCHANGED vars
  BY <1>0, <1>34 DEF TypeOK, vars, Listed
<1>35. CASE ProcessCancelled
  BY <1>0, <1>35, SessionsAssumption DEF TypeOK, MaybePlayer, ProcessCancelled, lists, handler, world, flags, driver
<1> QED
  BY <1>1, <1>2, <1>3, <1>4, <1>5, <1>6, <1>7, <1>8, <1>9, <1>10, <1>11, <1>12, <1>13, <1>14, <1>15, <1>16, <1>17, <1>18, <1>19, <1>20, <1>21, <1>22, <1>23, <1>24, <1>25, <1>26, <1>27, <1>28, <1>29, <1>30, <1>31, <1>32, <1>33, <1>34, <1>35 DEF Next, DriverStep, ProcessStep, Handle, Stopped

-----------------------------------------------------------------------------
(* Which steps touch what.                                                 *)

\* The list and the descriptors change when a connection is accepted, the list
\* when a removal erases.
LEMMA ListSteps ==
  ASSUME [Next]_vars
  PROVE  \/ UNCHANGED <<list, fd>>
         \/ \E p \in Player : NewConnection(p)
         \/ DriverErases \/ ProcessErases
BY DEF Next, DriverStep, ProcessCancelled, ProcessStep, Handle, Stopped, vars, lists,
       CopyFdset, DriverStops, SelectFails, SelectReturns, PollSkips, PollReads,
       PollEnds, DriverUnrooms, DriverCloses, BeginPass, ProcessStops, EndPass,
       Fetch, BadIterator, LoginNames, PasswordEnters, PasswordPlays,
       ProcessUnrooms, ProcessCloses, LoginCreates, SetStateAndGoOn, LoginDeclines, LoginTooShort,
       LoginRefused, LoginAccepted, PasswordWrong, PasswordRight, CreatePlays,
       PlayOther, PlayQuits, PlayShutsDown

\* The table of open descriptors changes at an accept and at a close.
LEMMA OwnerSteps ==
  ASSUME [Next]_vars
  PROVE  \/ UNCHANGED owner
         \/ \E p \in Player : NewConnection(p)
         \/ DriverCloses \/ ProcessCloses
BY DEF Next, DriverStep, ProcessCancelled, ProcessStep, Handle, Stopped, vars,
       CopyFdset, DriverStops, SelectFails, SelectReturns, PollSkips, PollReads,
       PollEnds, DriverUnrooms, DriverErases, BeginPass, ProcessStops, EndPass,
       Fetch, BadIterator, LoginNames, PasswordEnters, PasswordPlays,
       ProcessUnrooms, ProcessErases, LoginCreates, SetStateAndGoOn, LoginDeclines, LoginTooShort,
       LoginRefused, LoginAccepted, PasswordWrong, PasswordRight, CreatePlays,
       PlayOther, PlayQuits, PlayShutsDown

\* Names change in Login only.
LEMMA NameSteps ==
  ASSUME [Next]_vars
  PROVE  UNCHANGED name \/ LoginNames
BY DEF Next, DriverStep, ProcessCancelled, ProcessStep, Handle, Stopped, vars, world,
       CopyFdset, DriverStops, SelectFails, SelectReturns, NewConnection, PollSkips,
       PollReads, PollEnds, DriverUnrooms, DriverErases, DriverCloses, BeginPass,
       ProcessStops, EndPass, Fetch, BadIterator, PasswordEnters, PasswordPlays,
       ProcessUnrooms, ProcessErases, ProcessCloses, LoginCreates, SetStateAndGoOn, LoginDeclines,
       LoginTooShort, LoginRefused, LoginAccepted, PasswordWrong, PasswordRight,
       CreatePlays, PlayOther, PlayQuits, PlayShutsDown

\* Player files are written, never deleted.
LEMMA AccountSteps ==
  ASSUME [Next]_vars
  PROVE  accounts \subseteq accounts'
BY DEF Next, DriverStep, ProcessCancelled, ProcessStep, Handle, Stopped, vars, world,
       CopyFdset, DriverStops, SelectFails, SelectReturns, NewConnection, PollSkips,
       PollReads, PollEnds, DriverUnrooms, DriverErases, DriverCloses, BeginPass,
       ProcessStops, EndPass, Fetch, BadIterator, LoginNames, PasswordEnters,
       PasswordPlays, ProcessUnrooms, ProcessErases, ProcessCloses, LoginCreates,
       LoginDeclines, LoginTooShort, LoginRefused, LoginAccepted, PasswordWrong,
       PasswordRight, CreatePlays, SavePlayer, PlayOther, PlayQuits, PlayShutsDown

\* The state objects change at an accept, and when the process thread gives the
\* player of the running state object its next one.
LEMMA HandlerSteps ==
  ASSUME [Next]_vars
  PROVE  \/ UNCHANGED <<conn, bound>>
         \/ \E p \in Player : NewConnection(p)
         \/ LoginNames \/ PasswordPlays
         \/ \E w \in Player : LoginCreates(w) \/ CreatePlays(w)
BY DEF Next, DriverStep, ProcessCancelled, ProcessStep, Handle, Stopped, vars, handler,
       CopyFdset, DriverStops, SelectFails, SelectReturns, PollSkips, PollReads,
       PollEnds, DriverUnrooms, DriverErases, DriverCloses, BeginPass, ProcessStops,
       EndPass, Fetch, BadIterator, PasswordEnters, ProcessUnrooms, ProcessErases,
       ProcessCloses, LoginDeclines, LoginTooShort, LoginRefused, LoginAccepted,
       PasswordWrong, PasswordRight, PlayOther, PlayQuits, PlayShutsDown


\* What an accept does to list, descriptors and handlers.
LEMMA AcceptFacts ==
  ASSUME Consistent, NEW p \in Player, NewConnection(p)
  PROVE  /\ conn[p] = "new" /\ p \notin Listed /\ name[p] = NoName /\ fd[p] = NoFd
         /\ list' \in Seq(Player) /\ ListedOnce' /\ Listed' = Listed \cup {p}
         /\ \E f \in Fd : /\ owner[f] = NoPlayer
                          /\ owner' = [owner EXCEPT ![f] = p]
                          /\ fd' = [fd EXCEPT ![p] = f]
         /\ \/ /\ conn' = [conn EXCEPT ![p] = "login"]
               /\ bound' = [bound EXCEPT ![p] = p]
            \/ /\ conn' = [conn EXCEPT ![p] = "closed"]
               /\ UNCHANGED bound
<1>1. /\ list \in Seq(Player) /\ ListedOnce
      /\ fd \in [Player -> Fd \cup {NoFd}] /\ bound \in [Player -> MaybePlayer]
  BY DEF Consistent, TypeOK
<1>2. conn[p] = "new" /\ p \notin Listed /\ name[p] = NoName /\ fd[p] = NoFd
  BY DEF Consistent, NewUnknown, NewConnection
<1>3. PICK f \in Fd : /\ owner[f] = NoPlayer
                      /\ owner' = [owner EXCEPT ![f] = p]
                      /\ AddPlayer(p, f)
  BY DEF NewConnection, Free
<1>4. list' = Append(list, p) /\ fd' = [fd EXCEPT ![p] = f]
  BY <1>3 DEF AddPlayer
<1>5. /\ list' \in Seq(Player) /\ ListedOnce' /\ Listed' = Listed \cup {p}
      /\ Len(list') \in DOMAIN list' /\ list'[Len(list')] = p
  BY <1>1, <1>2, <1>4, AppendFacts
<1>6. CASE SetState(p, "login", list', fd')
  <2>1. PICK b \in MaybePlayer : /\ LastWith(list', fd', fd'[p], b)
                                 /\ bound' = [bound EXCEPT ![p] = b]
    BY <1>6 DEF SetState, MaybePlayer
  <2>2. b = p
    <3>1. b # NoPlayer
      BY <1>5, <2>1, LookupFacts
    <3>2. PICK k \in DOMAIN list' :
            b = list'[k] /\ \A j \in DOMAIN list' : j > k => fd'[list'[j]] # fd'[p]
      BY <2>1, <3>1 DEF LastWith
    <3>3. ~(Len(list') > k)
      BY <1>5, <3>2
    <3>4. k \in 1..Len(list') /\ Len(list') \in Nat
      BY <1>5, <3>2
    <3>5. k = Len(list')
      BY <3>3, <3>4
    <3> QED
      BY <1>5, <3>2, <3>5
  <2> QED
    BY <1>2, <1>3, <1>4, <1>5, <1>6, <2>1, <2>2 DEF SetState
<1>7. CASE conn' = [conn EXCEPT ![p] = "closed"] /\ UNCHANGED bound
  BY <1>2, <1>3, <1>4, <1>5, <1>7
<1> QED
  BY <1>6, <1>7 DEF NewConnection

\* A state object made for p that is not a login object: it knows a listed player,
\* some player if p is listed itself.
LEMMA SetStateFacts ==
  ASSUME TypeOK, NEW p \in MaybePlayer, NEW s, SetState(p, s, list, fd)
  PROVE  \E b \in Listed \cup {NoPlayer} :
           /\ p \in Listed => b # NoPlayer
           /\ conn' = [q \in Player |-> IF q = p THEN s ELSE conn[q]]
           /\ bound' = [q \in Player |-> IF q = p THEN b ELSE bound[q]]
           /\ attempts' = [q \in Player |-> IF q = p THEN 0 ELSE attempts[q]]
<1>1. /\ list \in Seq(Player) /\ conn \in [Player -> States]
      /\ bound \in [Player -> MaybePlayer] /\ attempts \in [Player -> Nat]
  BY DEF TypeOK
<1>2. PICK b \in MaybePlayer : LastWith(list, fd, fd[p], b) /\ bound' = [bound EXCEPT ![p] = b]
  BY DEF SetState, MaybePlayer
<1>3. b \in Listed \cup {NoPlayer}
  BY <1>1, <1>2, LookupFacts DEF Listed
<1>4. p \in Listed => b # NoPlayer
  BY <1>1, <1>2, LookupFacts DEF Listed
<1>5. /\ conn' = [q \in Player |-> IF q = p THEN s ELSE conn[q]]
      /\ attempts' = [q \in Player |-> IF q = p THEN 0 ELSE attempts[q]]
  BY <1>1 DEF SetState
<1>6. bound' = [q \in Player |-> IF q = p THEN b ELSE bound[q]]
  BY <1>1, <1>2
<1> QED
  BY <1>3, <1>4, <1>5, <1>6

\* An erase takes one player off the list and leaves descriptors alone.
LEMMA RemovalFacts ==
  ASSUME Consistent, DriverErases \/ ProcessErases
  PROVE  /\ Listed' \subseteq Listed /\ ListedOnce' /\ list' \in Seq(Player)
         /\ DriverErases => Listed' = Listed \ {gone}
         /\ ProcessErases => Listed' = Listed \ {target}
         /\ UNCHANGED <<fd, conn, bound, attempts, name, owner>>
<1>1. list \in Seq(Player) /\ ListedOnce
  BY DEF Consistent, TypeOK
<1>2. CASE DriverErases
  BY <1>1, <1>2, EraseFacts DEF DriverErases, ProcessErases, Erase, handler, world
<1>3. CASE ProcessErases
  BY <1>1, <1>3, EraseFacts DEF DriverErases, ProcessErases, Erase, handler, world
<1> QED
  BY <1>2, <1>3

-----------------------------------------------------------------------------
(* The conjuncts of Consistent, one lemma each.                            *)

\* A step keeps the list free of duplicates: only an accept adds, and adds a new player.
LEMMA ListedOnceStep ==
  ASSUME Consistent, [Next]_vars
  PROVE  ListedOnce'
<1>1. CASE UNCHANGED <<list, fd>>
  BY <1>1 DEF Consistent, ListedOnce
<1>2. ASSUME NEW p \in Player, NewConnection(p) PROVE ListedOnce'
  BY <1>2, AcceptFacts
<1>3. CASE DriverErases \/ ProcessErases
  BY <1>3, RemovalFacts
<1> QED
  BY <1>1, <1>2, <1>3, ListSteps

\* A step keeps descriptors and their owners in agreement: a number is given to a
\* player when it is opened, and only ever cleared by a close.
LEMMA OwnersFdStep ==
  ASSUME Consistent, [Next]_vars
  PROVE  OwnersFd'
<1>1. /\ owner \in [Fd -> MaybePlayer] /\ fd \in [Player -> Fd \cup {NoFd}]
      /\ OwnersFd /\ NoFd \notin Fd
  BY SessionsAssumption DEF Consistent, TypeOK, NoFd
<1>2. ASSUME NEW p \in Player, NewConnection(p) PROVE OwnersFd'
  <2>1. PICK f \in Fd : /\ owner[f] = NoPlayer
                        /\ owner' = [owner EXCEPT ![f] = p]
                        /\ fd' = [fd EXCEPT ![p] = f]
    BY <1>2, AcceptFacts
  <2>2. fd[p] = NoFd
    BY <1>2, AcceptFacts
  <2> SUFFICES ASSUME NEW g \in Fd, owner'[g] # NoPlayer PROVE fd'[owner'[g]] = g
    BY DEF OwnersFd
  <2>3. CASE g = f
    BY <1>1, <2>1, <2>3
  <2>4. CASE g # f
    BY <1>1, <2>1, <2>2, <2>4 DEF OwnersFd, MaybePlayer
  <2> QED
    BY <2>3, <2>4
<1>3. ASSUME NEW p, CloseFd(p), UNCHANGED fd PROVE OwnersFd'
  BY <1>1, <1>3 DEF CloseFd, OwnersFd
<1>4. CASE DriverCloses
  BY <1>3, <1>4 DEF DriverCloses, lists
<1>5. CASE ProcessCloses
  BY <1>3, <1>5 DEF ProcessCloses, lists
<1>6. CASE UNCHANGED owner /\ UNCHANGED fd
  BY <1>1, <1>6 DEF OwnersFd
<1>7. CASE DriverErases \/ ProcessErases
  BY <1>6, <1>7, RemovalFacts
<1> QED
  BY <1>2, <1>4, <1>5, <1>6, <1>7, ListSteps, OwnerSteps


\* The state object of a step of the process thread is replaced by one that is
\* neither new nor a login object.
LEMMA ReplacedHandlers ==
  ASSUME Consistent,
         \/ LoginNames \/ PasswordPlays
         \/ \E w \in Player : LoginCreates(w) \/ CreatePlays(w)
  PROVE  \/ UNCHANGED <<conn, bound, list, fd>>
         \/ \E p \in MaybePlayer, s \in {"password", "create", "play"} :
              SetState(p, s, list, fd) /\ UNCHANGED <<list, fd>>
<1>1. TypeOK /\ MidCommand
  BY DEF Consistent
<1>2. CASE LoginNames
  <2>1. bound[who] \in MaybePlayer
    BY <1>1, <1>2 DEF TypeOK, MidCommand, LoginNames
  <2> QED
    BY <1>2, <2>1 DEF LoginNames, lists
<1>3. CASE PasswordPlays
  <2>1. bound[who] \in MaybePlayer
    BY <1>1, <1>3 DEF TypeOK, MidCommand, PasswordPlays
  <2> QED
    BY <1>3, <2>1 DEF PasswordPlays, lists
<1>4. ASSUME NEW w \in Player, LoginCreates(w) \/ CreatePlays(w)
      PROVE  \E p \in MaybePlayer, s \in {"password", "create", "play"} :
               SetState(p, s, list, fd) /\ UNCHANGED <<list, fd>>
  <2>1. bound[w] \in MaybePlayer
    BY <1>1 DEF TypeOK
  <2> QED
    BY <1>4, <2>1 DEF LoginCreates, CreatePlays, SetStateAndGoOn, lists
<1> QED
  BY <1>2, <1>3, <1>4

\* A listed player's handler keeps knowing a player: setConnectionState() looks up the
\* descriptor of somebody who is on the list.
LEMMA HandlersBoundStep ==
  ASSUME Consistent, [Next]_vars
  PROVE  HandlersBound'
<1>1. /\ TypeOK /\ HandlersBound /\ NewUnknown
      /\ conn \in [Player -> States] /\ bound \in [Player -> MaybePlayer]
      /\ Listed \subseteq Player
  BY DEF Consistent, TypeOK, Listed
<1>2. ASSUME NEW p \in Player, NewConnection(p) PROVE HandlersBound'
  BY <1>1, <1>2, AcceptFacts, SessionsAssumption DEF HandlersBound
<1>3. CASE UNCHANGED <<conn, bound>> /\ Listed' \subseteq Listed
  BY <1>1, <1>3 DEF HandlersBound
<1>4. ASSUME NEW p \in MaybePlayer, NEW s \in {"password", "create", "play"},
             SetState(p, s, list, fd), UNCHANGED <<list, fd>>
      PROVE  HandlersBound'
  <2>1. PICK b \in Listed \cup {NoPlayer} :
           /\ p \in Listed => b # NoPlayer
           /\ conn' = [q \in Player |-> IF q = p THEN s ELSE conn[q]]
           /\ bound' = [q \in Player |-> IF q = p THEN b ELSE bound[q]]
    BY <1>1, <1>4, SetStateFacts
  <2>2. Listed' = Listed
    BY <1>4 DEF Listed
  <2> QED
    BY <1>1, <2>1, <2>2 DEF HandlersBound
<1>5. CASE DriverErases \/ ProcessErases
  BY <1>3, <1>5, RemovalFacts
<1>6. CASE UNCHANGED <<list, fd>> /\ UNCHANGED <<conn, bound>>
  BY <1>3, <1>6 DEF Listed
<1>7. CASE \/ LoginNames \/ PasswordPlays
           \/ \E w \in Player : LoginCreates(w) \/ CreatePlays(w)
  BY <1>4, <1>6, <1>7, ReplacedHandlers
<1> QED
  BY <1>2, <1>5, <1>6, <1>7, ListSteps, HandlerSteps

\* A login handler keeps its own player: it is made at the accept, when that player is
\* the last of the list.
LEMMA LoginBoundStep ==
  ASSUME Consistent, [Next]_vars
  PROVE  LoginBound'
<1>1. /\ TypeOK /\ LoginBound
      /\ conn \in [Player -> States] /\ bound \in [Player -> MaybePlayer]
  BY DEF Consistent, TypeOK
<1>2. ASSUME NEW p \in Player, NewConnection(p) PROVE LoginBound'
  BY <1>1, <1>2, AcceptFacts DEF LoginBound
<1>3. CASE UNCHANGED <<conn, bound>>
  BY <1>1, <1>3 DEF LoginBound
<1>4. ASSUME NEW p \in MaybePlayer, NEW s \in {"password", "create", "play"},
             SetState(p, s, list, fd)
      PROVE  LoginBound'
  BY <1>1, <1>4, SetStateFacts DEF LoginBound
<1>5. CASE \/ LoginNames \/ PasswordPlays
           \/ \E w \in Player : LoginCreates(w) \/ CreatePlays(w)
  BY <1>3, <1>4, <1>5, ReplacedHandlers
<1> QED
  BY <1>2, <1>3, <1>5, HandlerSteps

\* A player not accepted yet stays unknown to list, handlers, names and descriptors.
LEMMA NewUnknownStep ==
  ASSUME Consistent, [Next]_vars
  PROVE  NewUnknown'
<1>1. /\ TypeOK /\ NewUnknown /\ LoginBound /\ MidCommand
      /\ conn \in [Player -> States] /\ bound \in [Player -> MaybePlayer]
      /\ fd \in [Player -> Fd \cup {NoFd}] /\ name \in [Player -> Name \cup {NoName}]
  BY DEF Consistent, TypeOK
<1>2. ASSUME NEW p \in Player, NewConnection(p), UNCHANGED name PROVE NewUnknown'
  <2>1. PICK f \in Fd : fd' = [fd EXCEPT ![p] = f]
    BY <1>2, AcceptFacts
  <2>2. /\ Listed' = Listed \cup {p} /\ conn'[p] # "new"
        /\ \A q \in Player \ {p} : conn'[q] = conn[q] /\ fd'[q] = fd[q]
        /\ \A q \in Player : bound'[q] \in {bound[q], p}
    BY <1>1, <1>2, <2>1, AcceptFacts
  <2> QED
    BY <1>1, <1>2, <2>2 DEF NewUnknown
<1>3. CASE UNCHANGED <<conn, bound, name, fd>> /\ Listed' \subseteq Listed
  BY <1>1, <1>3 DEF NewUnknown
<1>4. ASSUME NEW p \in MaybePlayer, NEW s \in {"password", "create", "play"},
             SetState(p, s, list, fd), UNCHANGED <<list, fd>>,
             \A q \in Player : conn'[q] = "new" => name'[q] = name[q]
      PROVE  NewUnknown'
  <2>1. PICK b \in Listed \cup {NoPlayer} :
           /\ conn' = [q \in Player |-> IF q = p THEN s ELSE conn[q]]
           /\ bound' = [q \in Player |-> IF q = p THEN b ELSE bound[q]]
    BY <1>1, <1>4, SetStateFacts
  <2>2. Listed' = Listed
    BY <1>4 DEF Listed
  <2> QED
    BY <1>1, <1>4, <2>1, <2>2, SessionsAssumption DEF NewUnknown
<1>5. CASE LoginNames
  <2>1. who \in Player /\ conn[who] = "login" /\ bound[who] = who
    BY <1>1, <1>5 DEF MidCommand, LoginBound, LoginNames
  <2>2. \A q \in Player \ {who} : name'[q] = name[q]
    BY <1>1, <1>5, <2>1 DEF LoginNames
  <2>3. CASE UNCHANGED <<conn, bound, list, fd>>
    BY <1>1, <2>1, <2>2, <2>3 DEF NewUnknown, Listed
  <2>4. CASE wanted \in accounts /\ SetState(who, "password", list, fd) /\ UNCHANGED <<list, fd>>
    <3>1. conn'[who] # "new"
      BY <1>1, <2>1, <2>4 DEF SetState
    <3> QED
      BY <1>4, <2>1, <2>2, <2>4, <3>1 DEF MaybePlayer
  <2> QED
    BY <1>5, <2>1, <2>3, <2>4 DEF LoginNames, lists
<1>6. CASE UNCHANGED name /\ (DriverErases \/ ProcessErases)
  BY <1>3, <1>6, RemovalFacts
<1>7. CASE UNCHANGED name /\ UNCHANGED <<list, fd>> /\ UNCHANGED <<conn, bound>>
  BY <1>3, <1>7 DEF Listed
<1>8. CASE UNCHANGED name /\ (PasswordPlays \/ \E w \in Player : LoginCreates(w) \/ CreatePlays(w))
  BY <1>4, <1>7, <1>8, ReplacedHandlers
<1> QED
  BY <1>2, <1>5, <1>6, <1>7, <1>8, ListSteps, HandlerSteps, NameSteps

\* A step keeps typed names unique: the only claim is of a name nobody listed has.
LEMMA UniqueNamesStep ==
  ASSUME Consistent, [Next]_vars
  PROVE  UniqueNames'
<1>1. /\ UniqueNames /\ MidCommand /\ LoginBound
      /\ name \in [Player -> Name \cup {NoName}] /\ Listed \subseteq Player
  BY DEF Consistent, TypeOK, Listed
<1>2. ASSUME NEW p \in Player, NewConnection(p), UNCHANGED name PROVE UniqueNames'
  BY <1>1, <1>2, AcceptFacts DEF UniqueNames
<1>3. CASE UNCHANGED name /\ Listed' \subseteq Listed
  BY <1>1, <1>3 DEF UniqueNames
<1>4. CASE LoginNames
  <2>1. /\ who \in Player /\ bound[who] = who
        /\ wanted = NoName \/ ~Taken(wanted)
    BY <1>1, <1>4 DEF MidCommand, LoginBound, LoginNames
  <2>2. name' = [name EXCEPT ![who] = wanted] /\ Listed' = Listed
    BY <1>4, <2>1 DEF LoginNames, lists, Listed
  <2> QED
    BY <1>1, <2>1, <2>2 DEF UniqueNames, Taken
<1>5. CASE DriverErases \/ ProcessErases
  BY <1>3, <1>5, RemovalFacts
<1>6. CASE UNCHANGED name /\ UNCHANGED <<list, fd>>
  BY <1>3, <1>6 DEF Listed
<1> QED
  BY <1>2, <1>4, <1>5, <1>6, ListSteps, NameSteps


\* The driver thread leaves the process thread's command alone.
LEMMA MidCommandDriver ==
  ASSUME Consistent, DriverStep
  PROVE  MidCommand'
<1>1. /\ MidCommand /\ NewUnknown
      /\ conn \in [Player -> States] /\ bound \in [Player -> MaybePlayer]
      /\ name \in [Player -> Name \cup {NoName}] /\ Listed \subseteq Player
  BY DEF Consistent, TypeOK, Listed
<1>2. ASSUME UNCHANGED <<conn, bound>>, UNCHANGED <<name, accounts>>, UNCHANGED <<pc, who, wanted, target, after>>,
             Listed' \subseteq Listed,
             dpc' \in {"unroom", "erase", "close"} => gone' \in Player
      PROVE  MidCommand'
  BY <1>1, <1>2 DEF MidCommand, Taken
<1>3. CASE DriverErases
  <2>1. Listed' \subseteq Listed
    BY <1>3, RemovalFacts
  <2> QED
    BY <1>1, <1>2, <1>3, <2>1 DEF DriverErases, handler, world, process, MidCommand
<1>4. ASSUME NEW p \in Player, NewConnection(p) PROVE MidCommand'
  <2>1. /\ conn[p] = "new" /\ name[p] = NoName
        /\ Listed' = Listed \cup {p}
        /\ conn'[p] # "new" /\ \A q \in Player \ {p} : conn'[q] = conn[q] /\ bound'[q] = bound[q]
    BY <1>1, <1>4, AcceptFacts
  <2>2. UNCHANGED <<name, accounts>> /\ UNCHANGED <<pc, who, wanted, target, after>>
    BY <1>4 DEF NewConnection, world
  <2>3. dpc' \in {"unroom", "erase", "close"} => gone' \in Player
    BY <1>4 DEF NewConnection
  <2>4. who \in Player /\ conn[who] # "new" => conn'[who] = conn[who] /\ bound'[who] = bound[who]
    BY <2>1
  <2>5. wanted # NoName /\ ~Taken(wanted) => ~Taken(wanted)'
    BY <2>1, <2>2 DEF Taken
  <2>6. pc = "name" => who \in Player /\ conn[who] = "login" /\ (wanted = NoName \/ ~Taken(wanted))
    BY <1>1 DEF MidCommand
  <2>7. /\ pc = "enter" => bound[who] \in Player
        /\ pc = "enter" \/ pc = "play" \/ (pc \in {"unroom", "erase", "close"} /\ after = "play") =>
             /\ who \in Player /\ conn[who] \notin {"new", "login"}
             /\ bound[who] # NoPlayer => name[bound[who]] \in accounts
        /\ pc \in {"unroom", "erase", "close"} => target \in Player
    BY <1>1 DEF MidCommand
  <2>8. (pc = "name" => who \in Player /\ conn[who] = "login" /\ (wanted = NoName \/ ~Taken(wanted)))'
    BY <2>2, <2>4, <2>5, <2>6
  <2>9. (/\ pc = "enter" => bound[who] \in Player
         /\ pc = "enter" \/ pc = "play" \/ (pc \in {"unroom", "erase", "close"} /\ after = "play") =>
              /\ who \in Player /\ conn[who] \notin {"new", "login"}
              /\ bound[who] # NoPlayer => name[bound[who]] \in accounts
         /\ pc \in {"unroom", "erase", "close"} => target \in Player)'
    BY <2>2, <2>4, <2>7
  <2> QED
    BY <2>3, <2>8, <2>9 DEF MidCommand
<1>5. ASSUME NEW p \in Player, PollReads(p) PROVE MidCommand'
  BY <1>1, <1>2, <1>5 DEF PollReads, lists, handler, world, process, Listed, MidCommand
<1>6. CASE \/ CopyFdset \/ DriverStops \/ SelectFails \/ SelectReturns
           \/ PollSkips \/ PollEnds \/ DriverUnrooms \/ DriverCloses
  <2>1. /\ UNCHANGED <<conn, bound>> /\ UNCHANGED <<name, accounts>>
        /\ UNCHANGED <<pc, who, wanted, target, after>> /\ UNCHANGED list
    BY <1>6 DEF CopyFdset, DriverStops, SelectFails, SelectReturns, PollSkips, PollEnds,
       DriverUnrooms, DriverCloses, lists, handler, world, process
  <2>2. dpc' \in {"unroom", "erase", "close"} => gone' \in Player
    BY <1>1, <1>6 DEF CopyFdset, DriverStops, SelectFails, SelectReturns, PollSkips, PollEnds,
       DriverUnrooms, DriverCloses, MidCommand
  <2> QED
    BY <1>2, <2>1, <2>2 DEF Listed
<1>7. CASE ProcessCancelled
  BY <1>1, <1>7 DEF ProcessCancelled, driver, MidCommand
<1> QED
  BY <1>3, <1>4, <1>5, <1>6, <1>7 DEF DriverStep

\* The process thread hands what it knows of its command from one step to the next.
LEMMA MidCommandProcess ==
  ASSUME Consistent, ProcessStep
  PROVE  MidCommand'
<1>1. /\ TypeOK /\ MidCommand
      /\ bound \in [Player -> MaybePlayer] /\ Listed \subseteq Player
  BY DEF Consistent, TypeOK, Listed
<1>2. UNCHANGED <<dpc, gone>>
  BY DEF ProcessStep, Handle, driver, BeginPass, ProcessStops, EndPass,
       Fetch, BadIterator, LoginNames, PasswordEnters, PasswordPlays,
       ProcessUnrooms, ProcessErases, ProcessCloses, LoginCreates, LoginDeclines,
       LoginTooShort, LoginRefused, LoginAccepted, PasswordWrong, PasswordRight,
       CreatePlays, PlayOther, PlayQuits, PlayShutsDown
<1>3. CASE pc' \in {"rest", "loop", "dispatch", "done"}
  BY <1>1, <1>2, <1>3 DEF MidCommand
<1>4. ASSUME NEW p \in Player, StartRemove(p, "loop") PROVE MidCommand'
  BY <1>1, <1>2, <1>4 DEF MidCommand, StartRemove, Goto
<1>5. CASE BeginPass \/ ProcessStops \/ EndPass \/ Fetch
  BY <1>3, <1>5 DEF BeginPass, ProcessStops, EndPass, Fetch, Advance, Goto
<1>6. CASE BadIterator
  BY <1>1, <1>6 DEF BadIterator, MidCommand, Taken, Listed, lists, handler, world, process, driver
<1>7. CASE LoginNames \/ PasswordPlays
  BY <1>3, <1>7 DEF LoginNames, PasswordPlays, Advance
<1>8. CASE PasswordEnters
  <2>1. /\ pc = "enter" /\ UNCHANGED <<who, conn, bound, name, accounts>>
        /\ \/ pc' = "play"
           \/ pc' = "unroom" /\ target' = bound[who] /\ after' = "play"
    BY <1>8 DEF PasswordEnters, StartRemove, Goto, handler
  <2> QED
    BY <1>1, <1>2, <2>1 DEF MidCommand
<1>9. CASE ProcessUnrooms
  BY <1>1, <1>9 DEF ProcessUnrooms, Goto, MidCommand, handler, driver
<1>10. CASE ProcessErases
  BY <1>1, <1>10 DEF ProcessErases, Goto, MidCommand, handler, world, driver
<1>11. CASE ProcessCloses
  <2>1. CASE after = "loop"
    BY <1>3, <1>11, <2>1 DEF ProcessCloses, Advance
  <2>2. CASE after = "play"
    BY <1>1, <1>2, <1>11, <2>2 DEF ProcessCloses, Goto, MidCommand, handler, world
  <2> QED
    BY <1>1, <2>1, <2>2 DEF TypeOK
<1>12. ASSUME NEW w \in Player, NEW n \in Name \cup {NoName}, LoginRefused(w, n)
       PROVE  MidCommand'
  <2>1. bound[w] \in Player
    BY <1>12, ProcessingListed DEF LoginRefused, States
  <2> QED
    BY <1>4, <1>12, <2>1 DEF LoginRefused
<1>13. ASSUME NEW w \in Player, NEW n \in Name \cup {NoName}, LoginAccepted(w, n)
       PROVE  MidCommand'
  <2>1. /\ who' = w /\ conn[w] = "login" /\ ~Taken(n) /\ wanted' = n /\ pc' = "name"
        /\ UNCHANGED <<list, name, conn>>
    BY <1>13 DEF LoginAccepted, Processing, Goto, lists, world, handler
  <2> QED
    BY <1>1, <1>2, <2>1 DEF MidCommand, Taken, Listed
<1>14. ASSUME NEW w \in Player, PasswordWrong(w) PROVE MidCommand'
  <2>1. bound[w] \in Player
    BY <1>14, ProcessingListed DEF PasswordWrong, States
  <2> QED
    BY <1>3, <1>4, <1>14, <2>1 DEF PasswordWrong, Advance
<1>15. ASSUME NEW w \in Player, PasswordRight(w) PROVE MidCommand'
  <2>1. /\ who' = w /\ conn[w] = "password" /\ bound[w] \in Player
        /\ name[bound[w]] \in accounts /\ pc' = "enter"
        /\ UNCHANGED <<name, accounts, conn, bound>>
    BY <1>15, ProcessingListed DEF PasswordRight, Processing, Goto, world, handler, States
  <2> QED
    BY <1>1, <1>2, <2>1, SessionsAssumption DEF MidCommand
<1>16. ASSUME NEW w \in Player, PlayQuits(w) PROVE MidCommand'
  BY <1>3, <1>4, <1>16 DEF PlayQuits, Advance
<1>17. ASSUME NEW w \in Player,
              \/ LoginCreates(w) \/ LoginDeclines(w) \/ LoginTooShort(w)
              \/ CreatePlays(w) \/ PlayOther(w) \/ PlayShutsDown(w)
       PROVE  MidCommand'
  BY <1>3, <1>17 DEF LoginCreates, LoginDeclines, LoginTooShort, CreatePlays, PlayOther,
     PlayShutsDown, Advance
<1> QED
  BY <1>5, <1>6, <1>7, <1>8, <1>9, <1>10, <1>11, <1>12, <1>13, <1>14, <1>15, <1>16, <1>17
     DEF ProcessStep, Handle


\* No step of either thread invalidates what the process thread knows of its command.
LEMMA MidCommandStep ==
  ASSUME Consistent, [Next]_vars
  PROVE  MidCommand'
<1>1. CASE UNCHANGED vars
  BY <1>1 DEF Consistent, vars, MidCommand, Taken, Listed
<1> QED
  BY <1>1, MidCommandDriver, MidCommandProcess DEF Next, Stopped

\* Whoever starts to play has a file by then, and a playing player is never renamed.
LEMMA PlayersHaveFilesStep ==
  ASSUME Consistent, [Next]_vars
  PROVE  PlayersHaveFiles'
<1>1. /\ TypeOK /\ PlayersHaveFiles /\ MidCommand /\ LoginBound
      /\ conn \in [Player -> States] /\ bound \in [Player -> MaybePlayer]
      /\ name \in [Player -> Name \cup {NoName}]
      /\ accounts \subseteq accounts'
  BY AccountSteps DEF Consistent, TypeOK
<1>2. ASSUME NEW p \in Player, NewConnection(p) PROVE PlayersHaveFiles'
  <2>1. /\ UNCHANGED name /\ conn'[p] # "play"
        /\ \A q \in Player \ {p} : conn'[q] = conn[q]
    BY <1>1, <1>2, AcceptFacts DEF NewConnection, world
  <2> QED
    BY <1>1, <2>1 DEF PlayersHaveFiles
<1>3. CASE UNCHANGED <<conn, name>>
  BY <1>1, <1>3 DEF PlayersHaveFiles
<1>4. ASSUME NEW p \in MaybePlayer, NEW s, SetState(p, s, list, fd), UNCHANGED name,
             s = "play" /\ p # NoPlayer => name[p] \in accounts'
      PROVE  PlayersHaveFiles'
  <2>1. conn' = [q \in Player |-> IF q = p THEN s ELSE conn[q]]
    BY <1>1, <1>4, SetStateFacts
  <2> QED
    BY <1>1, <1>4, <2>1, SessionsAssumption DEF PlayersHaveFiles
<1>5. CASE LoginNames
  <2>1. who \in Player /\ bound[who] = who /\ conn[who] = "login"
    BY <1>1, <1>5 DEF MidCommand, LoginBound, LoginNames
  <2>2. /\ \A q \in Player \ {who} : name'[q] = name[q] /\ conn'[q] = conn[q]
        /\ conn'[who] # "play"
    BY <1>1, <1>5, <2>1 DEF LoginNames, SetState
  <2> QED
    BY <1>1, <2>2 DEF PlayersHaveFiles
<1>6. CASE PasswordPlays
  <2>1. bound[who] \in MaybePlayer /\ (bound[who] # NoPlayer => name[bound[who]] \in accounts)
    BY <1>1, <1>6 DEF MidCommand, PasswordPlays
  <2> QED
    BY <1>1, <1>4, <1>6, <2>1 DEF PasswordPlays, world
<1>7. ASSUME NEW w \in Player, CreatePlays(w) PROVE PlayersHaveFiles'
  <2>1. bound[w] \in MaybePlayer /\ name[bound[w]] \in accounts'
    BY <1>1, <1>7 DEF CreatePlays, SavePlayer
  <2> QED
    BY <1>4, <1>7, <2>1 DEF CreatePlays, SetStateAndGoOn
<1>8. ASSUME NEW w \in Player, LoginCreates(w) PROVE PlayersHaveFiles'
  <2>1. bound[w] \in MaybePlayer
    BY <1>1
  <2> QED
    BY <1>4, <1>8, <2>1 DEF LoginCreates, SetStateAndGoOn, world
<1> QED
  BY <1>2, <1>3, <1>5, <1>6, <1>7, <1>8, HandlerSteps, NameSteps

\* Attempts are counted in Password and reset with every new state object.
LEMMA AttemptSteps ==
  ASSUME [Next]_vars
  PROVE  \/ UNCHANGED <<conn, bound, attempts>>
         \/ \E p \in Player : NewConnection(p)
         \/ LoginNames \/ PasswordPlays
         \/ \E w \in Player : LoginCreates(w) \/ CreatePlays(w) \/ PasswordWrong(w)
BY DEF Next, DriverStep, ProcessCancelled, ProcessStep, Handle, Stopped, vars, handler,
       CopyFdset, DriverStops, SelectFails, SelectReturns, PollSkips, PollReads,
       PollEnds, DriverUnrooms, DriverErases, DriverCloses, BeginPass, ProcessStops,
       EndPass, Fetch, BadIterator, PasswordEnters, ProcessUnrooms, ProcessErases,
       ProcessCloses, LoginDeclines, LoginTooShort, LoginRefused, LoginAccepted,
       PasswordRight, PlayOther, PlayQuits, PlayShutsDown

\* While remove() runs its target stays, and it goes through its three steps.
LEMMA RemoveSteps ==
  ASSUME [Next]_vars
  PROVE  /\ pc \in {"unroom", "erase", "close"} =>
              \/ UNCHANGED <<pc, target>>
              \/ ProcessUnrooms \/ ProcessErases \/ ProcessCloses \/ ProcessCancelled
         /\ dpc \in {"unroom", "erase", "close"} =>
              \/ UNCHANGED <<dpc, gone>>
              \/ DriverUnrooms \/ DriverErases \/ DriverCloses
BY DEF Next, DriverStep, ProcessCancelled, ProcessStep, Handle, Stopped, vars, process, driver,
       CopyFdset, DriverStops, SelectFails, SelectReturns, NewConnection, PollSkips,
       PollReads, PollEnds, DriverUnrooms, DriverErases, DriverCloses, BeginPass,
       ProcessStops, EndPass, Fetch, BadIterator, LoginNames, PasswordEnters,
       PasswordPlays, ProcessUnrooms, ProcessErases, ProcessCloses, Processing,
       LoginCreates, SetStateAndGoOn, LoginDeclines, LoginTooShort, LoginRefused, LoginAccepted,
       PasswordWrong, PasswordRight, CreatePlays, PlayOther, PlayQuits, PlayShutsDown

\* A thread that has ended, by itself or cancelled, stays where it ended.
LEMMA DoneSteps ==
  ASSUME [Next]_vars, pc = "done"
  PROVE  UNCHANGED <<pc, target>>
BY DEF Next, DriverStep, ProcessCancelled, ProcessStep, Handle, Stopped, vars, process, driver,
       CopyFdset, DriverStops, SelectFails, SelectReturns, NewConnection, PollSkips,
       PollReads, PollEnds, DriverUnrooms, DriverErases, DriverCloses, BeginPass,
       ProcessStops, EndPass, Fetch, BadIterator, LoginNames, PasswordEnters,
       PasswordPlays, ProcessUnrooms, ProcessErases, ProcessCloses, Processing,
       LoginCreates, LoginDeclines, LoginTooShort, LoginRefused, LoginAccepted,
       PasswordWrong, PasswordRight, CreatePlays, PlayOther, PlayQuits, PlayShutsDown

\* A descriptor loses its listed owner only to a remover that will close it next.
LEMMA NoDescriptorLeakStep ==
  ASSUME Consistent, [Next]_vars
  PROVE  NoDescriptorLeak'
<1>1. /\ NoDescriptorLeak /\ OwnersFd
      /\ owner \in [Fd -> MaybePlayer] /\ fd \in [Player -> Fd \cup {NoFd}]
  BY DEF Consistent, TypeOK
<1>2. ASSUME NEW p \in Player, NewConnection(p) PROVE NoDescriptorLeak'
  <2>1. PICK f \in Fd : owner' = [owner EXCEPT ![f] = p]
    BY <1>2, AcceptFacts
  <2>2. Listed' = Listed \cup {p} /\ dpc = "select" /\ UNCHANGED <<pc, target>>
    BY <1>2, AcceptFacts DEF NewConnection
  <2> QED
    BY <1>1, <2>1, <2>2 DEF NoDescriptorLeak
<1>3. CASE ProcessErases
  <2>1. /\ pc' = "close" /\ UNCHANGED <<target, dpc, gone, owner>>
        /\ Listed' = Listed \ {target}
    BY <1>3, RemovalFacts DEF ProcessErases, Goto, driver
  <2> QED
    BY <1>1, <1>3, <2>1 DEF NoDescriptorLeak, ProcessErases
<1>4. CASE DriverErases
  <2>1. /\ dpc' = "close" /\ UNCHANGED <<gone, pc, target, owner>>
        /\ Listed' = Listed \ {gone}
    BY <1>4, RemovalFacts DEF DriverErases, process
  <2> QED
    BY <1>1, <1>4, <2>1 DEF NoDescriptorLeak, DriverErases
<1>5. CASE DriverCloses
  <2>1. /\ \A f \in Fd : owner'[f] # NoPlayer => owner'[f] = owner[f] /\ owner[f] # gone
        /\ Listed' = Listed /\ UNCHANGED <<pc, target>>
    BY <1>1, <1>5 DEF DriverCloses, CloseFd, OwnersFd, Listed, lists, process
  <2> QED
    BY <1>1, <1>5, <2>1 DEF NoDescriptorLeak
<1>6. CASE ProcessCloses
  <2>1. /\ \A f \in Fd : owner'[f] # NoPlayer => owner'[f] = owner[f] /\ owner[f] # target
        /\ Listed' = Listed /\ UNCHANGED <<dpc, gone>>
    BY <1>1, <1>6 DEF ProcessCloses, CloseFd, OwnersFd, Listed, lists, driver
  <2> QED
    BY <1>1, <1>6, <2>1 DEF NoDescriptorLeak
<1>7. CASE UNCHANGED owner /\ UNCHANGED <<list, fd>> /\ ~DriverCloses /\ ~ProcessCloses
  <2>1. Listed' = Listed
    BY <1>7 DEF Listed
  <2>2. pc \in {"close", "done"} => pc' \in {"close", "done"} /\ target' = target
    BY <1>7, RemoveSteps, DoneSteps DEF ProcessUnrooms, ProcessErases, ProcessCancelled
  <2>3. dpc = "close" => dpc' = "close" /\ gone' = gone
    BY <1>7, RemoveSteps DEF DriverUnrooms, DriverErases
  <2> QED
    BY <1>1, <1>7, <2>1, <2>2, <2>3 DEF NoDescriptorLeak
<1> QED
  BY <1>2, <1>3, <1>4, <1>5, <1>6, <1>7, ListSteps, OwnerSteps

\* The attempt that reaches the limit starts the removal, and the player is off the
\* list before the removal ends.
LEMMA AttemptsEnforcedStep ==
  ASSUME Consistent, [Next]_vars
  PROVE  AttemptsEnforced'
<1>1. /\ TypeOK /\ AttemptsEnforced /\ MidCommand /\ LoginBound
      /\ conn \in [Player -> States] /\ bound \in [Player -> MaybePlayer]
      /\ attempts \in [Player -> Nat] /\ Listed \subseteq Player
      /\ MaxAttempts \in Nat \ {0}
  BY SessionsAssumption DEF Consistent, TypeOK, Listed
<1> DEFINE Spent(p) == conn[p] = "password" /\ bound[p] = p /\ attempts[p] >= MaxAttempts
           AtWork == pc \in {"unroom", "erase"}
<1>0. SUFFICES ASSUME pc # "done" PROVE AttemptsEnforced'
  BY DoneSteps DEF AttemptsEnforced
<1>2. \A p \in Listed : Spent(p) => target = p /\ AtWork
  BY <1>0, <1>1 DEF AttemptsEnforced
<1>3. SUFFICES ASSUME NEW p \in Listed', Spent(p)'
               PROVE  pc' = "done" \/ (target = p /\ AtWork)'
  BY DEF AttemptsEnforced
<1> HIDE DEF Spent, AtWork
<1>4. ASSUME NEW q \in Player, NewConnection(q) PROVE (target = p /\ AtWork)'
  <2>1. Listed' = Listed \cup {q} /\ conn'[q] # "password"
    BY <1>1, <1>4, AcceptFacts
  <2>2. p # q /\ p \in Player
    BY <1>1, <1>3, <1>4, <2>1 DEF Spent
  <2>3. conn'[p] = conn[p] /\ bound'[p] = bound[p] /\ attempts'[p] = attempts[p]
    <3>1. CASE SetState(q, "login", list', fd')
      BY <1>1, <2>2, <3>1 DEF SetState
    <3>2. CASE conn' = [conn EXCEPT ![q] = "closed"] /\ UNCHANGED <<bound, waiting, attempts>>
      BY <1>1, <2>2, <3>2
    <3> QED
      BY <1>4, <3>1, <3>2 DEF NewConnection
  <2>4. Spent(p) /\ p \in Listed
    BY <1>3, <2>1, <2>2, <2>3 DEF Spent
  <2> QED
    BY <1>2, <1>4, <2>4 DEF NewConnection, AtWork
<1>5. ASSUME NEW q \in MaybePlayer, NEW s \in States, SetState(q, s, list, fd), UNCHANGED <<list, fd>>,
             ~AtWork
      PROVE  FALSE
  <2>1. /\ conn'[p] = IF p = q THEN s ELSE conn[p]
        /\ attempts'[p] = IF p = q THEN 0 ELSE attempts[p]
        /\ p # q => bound'[p] = bound[p]
        /\ p \in Listed
    BY <1>1, <1>3, <1>5, SetStateFacts DEF Listed
  <2>2. p # q
    BY <1>1, <1>3, <2>1 DEF Spent
  <2> QED
    BY <1>2, <1>3, <1>5, <2>1, <2>2 DEF Spent
<1>6. ASSUME NEW w \in Player, PasswordWrong(w) PROVE (target = p /\ AtWork)'
  <2>1. ~AtWork /\ p \in Listed /\ UNCHANGED <<conn, bound>>
        /\ attempts' = [attempts EXCEPT ![w] = @ + 1]
    BY <1>3, <1>6 DEF PasswordWrong, Processing, AtWork, Listed, lists
  <2>2. p = w
    BY <1>1, <1>2, <1>3, <2>1 DEF Spent
  <2>3. attempts'[w] >= MaxAttempts /\ bound[w] = w
    BY <1>3, <2>1, <2>2 DEF Spent
  <2> QED
    BY <1>6, <2>2, <2>3 DEF PasswordWrong, Exhausted, StartRemove, Goto, AtWork
<1>7. ASSUME UNCHANGED <<conn, bound, attempts>>, ~(\E q \in Player : NewConnection(q))
      PROVE  pc' = "done" \/ (target = p /\ AtWork)'
  <2>1. Spent(p)
    BY <1>3, <1>7 DEF Spent
  <2>2. Listed' \subseteq Listed
    BY <1>7, ListSteps, RemovalFacts DEF Listed
  <2>3. target = p /\ AtWork
    BY <1>2, <1>3, <2>1, <2>2
  <2>4. ~ProcessErases
    BY <1>3, <2>3, RemovalFacts
  <2> QED
    BY <2>3, <2>4, RemoveSteps DEF AtWork, ProcessUnrooms, ProcessCloses, ProcessCancelled, Goto
<1>8. CASE LoginNames
  <2>1. bound[who] \in MaybePlayer
    BY <1>1, <1>8 DEF MidCommand, LoginNames
  <2>2. CASE wanted \in accounts
    BY <1>5, <1>8, <2>1, <2>2 DEF LoginNames, AtWork, lists, States
  <2>3. CASE wanted \notin accounts
    BY <1>7, <1>8, <2>3, <1>2, <1>3 DEF LoginNames, AtWork, Spent, Listed, lists
  <2> QED
    BY <2>2, <2>3
<1>9. CASE PasswordPlays
  <2>1. bound[who] \in MaybePlayer
    BY <1>1, <1>9 DEF MidCommand, PasswordPlays
  <2> QED
    BY <1>5, <1>9, <2>1 DEF PasswordPlays, AtWork, lists, States
<1>10. ASSUME NEW w \in Player, LoginCreates(w) \/ CreatePlays(w) PROVE FALSE
  <2>1. bound[w] \in MaybePlayer
    BY <1>1
  <2> QED
    BY <1>5, <1>10, <2>1 DEF LoginCreates, CreatePlays, SetStateAndGoOn, Processing, AtWork, lists, States
<1> QED
  BY <1>4, <1>6, <1>7, <1>8, <1>9, <1>10, AttemptSteps


-----------------------------------------------------------------------------
(* The theorems.                                                           *)

\* The empty server is consistent.
LEMMA InitConsistent == Init => Consistent
<1> SUFFICES ASSUME Init PROVE Consistent
  OBVIOUS
<1>1. Listed = {} /\ DOMAIN list = {}
  BY DEF Init, Listed
<1>2. TypeOK
  <2>1. /\ list \in Seq(Player) /\ reserved \in Nat
        /\ fd \in [Player -> Fd \cup {NoFd}] /\ owner \in [Fd -> MaybePlayer]
        /\ queue \in [Player -> 0..MaxQueue]
    BY SessionsAssumption DEF Init, MaybePlayer
  <2>2. /\ conn \in [Player -> States] /\ bound \in [Player -> MaybePlayer]
        /\ attempts \in [Player -> Nat]
    BY DEF Init, MaybePlayer, States
  <2>3. waiting \in [Player -> BOOLEAN]
    BY DEF Init
  <2>4. /\ name \in [Player -> Name \cup {NoName}] /\ accounts \subseteq Name \cup {NoName}
        /\ room \subseteq Player /\ snap \subseteq Fd
        /\ who \in MaybePlayer /\ target \in MaybePlayer /\ gone \in MaybePlayer
        /\ wanted \in Name \cup {NoName}
    BY SessionsAssumption DEF Init, MaybePlayer
  <2>5. shutdown \in BOOLEAN /\ fault \in BOOLEAN /\ stale \in BOOLEAN
    BY Zenon DEF Init
  <2>6. /\ pc \in {"rest", "loop", "dispatch", "name", "enter", "play",
                   "unroom", "erase", "close", "done"}
        /\ cursor \in Nat \ {0}
        /\ after \in {"loop", "play"}
        /\ dpc \in {"copy", "select", "poll", "unroom", "erase", "close", "done"}
    BY DEF Init
  <2> QED
    BY <2>1, <2>2, <2>3, <2>4, <2>5, <2>6 DEF TypeOK
<1>3. ListedOnce /\ OwnersFd /\ LoginBound /\ MidCommand
  BY <1>1 DEF Init, ListedOnce, OwnersFd, LoginBound, MidCommand
<1>4. NewUnknown
  BY <1>1, SessionsAssumption DEF Init, NewUnknown
<1>5. UniqueNames /\ HandlersBound /\ PlayersHaveFiles /\ AttemptsEnforced /\ NoDescriptorLeak
  BY <1>1 DEF Init, UniqueNames, HandlersBound, PlayersHaveFiles, AttemptsEnforced, NoDescriptorLeak
<1> QED
  BY <1>2, <1>3, <1>4, <1>5 DEF Consistent

\* Every step of either thread keeps the inductive invariant.
LEMMA StepConsistent == Consistent /\ [Next]_vars => Consistent'
BY TypeStep, ListedOnceStep, NewUnknownStep, OwnersFdStep, LoginBoundStep, MidCommandStep,
   UniqueNamesStep, HandlersBoundStep, PlayersHaveFilesStep, AttemptsEnforcedStep,
   NoDescriptorLeakStep
   DEF Consistent

\* The inductive invariant holds of every behaviour, for any number of players,
\* names and descriptors: list, handlers, names, descriptors and the removals of
\* the two threads stay tied together.
THEOREM ConsistentAlways == Spec => []Consistent
<1>1. Init => Consistent
  BY InitConsistent
<1>2. Consistent /\ [Next]_vars => Consistent'
  BY StepConsistent
<1> QED
  BY <1>1, <1>2, PTL DEF Spec

\* Every variable keeps its type.
THEOREM TypeCorrect == Spec => []TypeOK
BY ConsistentAlways, PTL DEF Consistent

\* No two listed players carry the same typed name, although the lookup and the
\* claim in connStateLogin.cpp are two steps and the list changes in between.
THEOREM NamesStayUnique == Spec => []UniqueNames
BY ConsistentAlways, PTL DEF Consistent

\* No command is ever handled by a state object without a player, so the
\* unchecked mPlayer of Create and Playing is never null.
THEOREM HandlersStayBound == Spec => []HandlersBound
BY ConsistentAlways, PTL DEF Consistent

\* Whoever plays has a player file.
THEOREM PlayersKeepFiles == Spec => []PlayersHaveFiles
BY ConsistentAlways, PTL DEF Consistent

\* The last wrong password removes the connection that spent it.
THEOREM AttemptsAreEnforced == Spec => []AttemptsEnforced
BY ConsistentAlways, PTL DEF Consistent

\* No descriptor is leaked, although both threads remove players and close
\* descriptors by number.
THEOREM DescriptorsNeverLeak == Spec => []NoDescriptorLeak
BY ConsistentAlways, PTL DEF Consistent

-----------------------------------------------------------------------------
(* Sessions implements Roster.                                             *)

\* The empty list is the empty roster.
LEMMA RosterInit == Init => RosterOf!Init
BY DEF Init, RosterOf!Init, Listed

\* Every step is an arrival, a claim or a departure of the roster, or does not show.
LEMMA RosterStep ==
  ASSUME Consistent, [Next]_vars
  PROVE  [RosterOf!Next]_(RosterOf!rosterVars)
<1>1. /\ MidCommand /\ LoginBound /\ Listed \subseteq Player
      /\ name \in [Player -> Name \cup {NoName}] /\ wanted \in Name \cup {NoName}
  BY DEF Consistent, TypeOK, Listed
<1>2. CASE Listed' = Listed /\ \A p \in Listed : name'[p] = name[p]
  BY <1>2 DEF RosterOf!rosterVars
<1>3. ASSUME NEW p \in Player, NewConnection(p), UNCHANGED name
      PROVE  RosterOf!Arrive(p)
  BY <1>3, AcceptFacts DEF RosterOf!Arrive
<1>4. ASSUME NEW p, Listed' = Listed \ {p}, UNCHANGED name
      PROVE  [RosterOf!Next]_(RosterOf!rosterVars)
  <2>1. CASE p \in Listed
    <3>1. RosterOf!Leave(p)
      BY <1>1, <1>4, <2>1 DEF RosterOf!Leave
    <3> QED
      BY <1>1, <2>1, <3>1 DEF RosterOf!Next
  <2>2. CASE p \notin Listed
    BY <1>2, <1>4, <2>2
  <2> QED
    BY <2>1, <2>2
<1>5. CASE LoginNames
  <2>1. /\ who \in Player /\ bound[who] = who
        /\ wanted = NoName \/ ~Taken(wanted)
    BY <1>1, <1>5 DEF MidCommand, LoginBound, LoginNames
  <2>2. name' = [name EXCEPT ![who] = wanted] /\ Listed' = Listed
    BY <1>5, <2>1 DEF LoginNames, lists, Listed
  <2>3. ASSUME NEW p \in Player, NEW n \in Name \cup {NoName}, p = who, n = wanted, p \in Listed
        PROVE  RosterOf!Claim(p, n)
    <3>1. n = NoName \/ ~RosterOf!Held(n)
      BY <1>1, <2>1, <2>3 DEF RosterOf!Held, Taken
    <3> QED
      BY <1>1, <2>2, <2>3, <3>1 DEF RosterOf!Claim
  <2>4. CASE who \in Listed
    BY <1>1, <2>1, <2>3, <2>4 DEF RosterOf!Next
  <2>5. CASE who \notin Listed
    BY <1>1, <1>2, <2>2, <2>5
  <2> QED
    BY <2>4, <2>5
<1>6. CASE UNCHANGED name /\ (DriverErases \/ ProcessErases)
  BY <1>4, <1>6, RemovalFacts
<1>7. CASE UNCHANGED name /\ UNCHANGED <<list, fd>>
  BY <1>2, <1>7 DEF Listed
<1>8. CASE \E p \in Player : NewConnection(p) /\ UNCHANGED name
  BY <1>3, <1>8 DEF RosterOf!Next
<1> QED
  BY <1>5, <1>6, <1>7, <1>8, ListSteps, NameSteps DEF LoginNames, NewConnection, DriverErases,
     ProcessErases, lists, world

\* The list with its names, as two unlocked threads change it, is a roster in
\* which names are claimed one at a time and held by one player at most.
THEOREM ImplementsRoster == Spec => RosterSpec
<1>1. Init => RosterOf!Init
  BY RosterInit
<1>2. Consistent /\ [Next]_vars => [RosterOf!Next]_(RosterOf!rosterVars)
  BY RosterStep
<1> QED
  BY <1>1, <1>2, ConsistentAlways, PTL DEF Spec, RosterSpec, RosterOf!Spec
=============================================================================
