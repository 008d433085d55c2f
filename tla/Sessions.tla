------------------------------ MODULE Sessions ------------------------------
(***************************************************************************)
(* The life of a connection: SocketDriver, Connection and its states,      *)
(* PlayerDatabase, and the two threads that share them with no lock.       *)
(*                                                                         *)
(*  - The driver thread (thread_driver_func) runs select(), accepts        *)
(*    connections, reads sockets and removes players whose socket died.    *)
(*  - The process thread (thread_process_func) walks the player list and   *)
(*    hands each waiting command to the player's connection state.         *)
(*                                                                         *)
(* A step of this module is a run of code in which the other thread's      *)
(* interference would make no difference; PlayerDatabase::remove, the      *)
(* commands' look-then-act pairs and the two dereferences of the list      *)
(* iterator are split where it does.  What a command says is chosen when   *)
(* it is processed, so a queue is only a length.  An undefined access (an  *)
(* iterator outside the list or into a buffer the vector gave up, a state  *)
(* object read after it replaced itself) sets `fault', or may set it,      *)
(* after which nothing is claimed about the program.                       *)
(***************************************************************************)
EXTENDS Integers, Sequences, FiniteSets, SequencesExt

CONSTANTS
  Player,        \* Player objects, one per accepted connection
  NoPlayer,      \* the null PlayerPointer
  Name,          \* names a client can type
  NoName,        \* "Not Initialized", the name a Player is built with
  Registered,    \* names with a player file when the server starts
  Fd,            \* descriptor numbers the process may get for clients
  MaxAttempts,   \* MAX_LOGIN_ATTEMPTS
  RoomCapacity,  \* how many objects the characters' room holds
  MaxQueue       \* bound of the model: waiting commands per player

ASSUME SessionsAssumption ==
  /\ NoPlayer \notin Player
  /\ NoName \notin Name
  /\ Registered \subseteq Name
  /\ Fd \subseteq Nat
  /\ MaxAttempts \in Nat \ {0}
  /\ RoomCapacity \in Nat
  /\ MaxQueue \in Nat \ {0}

VARIABLES
  list,      \* PlayerDatabase::mPlayerList
  reserved,  \* elements that vector's buffer has room for
  fd,        \* each Player's descriptor
  owner,     \* the connection each open descriptor stands for; mFdset is its domain of use
  queue,     \* length of each mCommandQueue
  conn,      \* which ConnectionState object a player has; "new" before the accept
  bound,     \* that object's mPlayer
  waiting,   \* ConnectionState_Login::mWaiting
  attempts,  \* ConnectionState_Password::mNumberOfAttempts
  name,      \* each Player's name
  accounts,  \* names with a player file
  room,      \* players in the contents of the characters' room
  shutdown,  \* glob.shutdownMUD
  fault,     \* the program did something undefined
  pc,        \* where the process thread is
  cursor,    \* the iterator of processCommands, as a position
  stale,     \* the iterator points into a buffer the vector has given up
  who,       \* the player whose command was taken, then the one processing it
  wanted,    \* the name being logged in with
  target,    \* the player process-thread remove() is removing
  after,     \* where the process thread goes on after remove()
  dpc,       \* where the driver thread is
  snap,      \* its copy of the descriptor set, then select()'s result
  gone       \* the player the driver thread is removing

lists   == <<list, reserved, fd>>
handler == <<conn, bound, waiting, attempts>>
world   == <<name, accounts, room>>
flags   == <<shutdown, fault>>
process == <<pc, cursor, stale, who, wanted, target, after>>
driver  == <<dpc, snap, gone>>
vars == <<list, reserved, fd, owner, queue, conn, bound, waiting, attempts,
          name, accounts, room, shutdown, fault, pc, cursor, stale, who,
          wanted, target, after, dpc, snap, gone>>

Listed == {list[k] : k \in DOMAIN list}
NoFd   == -1   \* ClientSocket's mFd before set_fd()
States == {"new", "closed", "login", "password", "create", "play"}

Init ==
  /\ list = <<>> /\ reserved = 0
  /\ fd = [p \in Player |-> NoFd]
  /\ owner = [f \in Fd |-> NoPlayer]
  /\ queue = [p \in Player |-> 0]
  /\ conn = [p \in Player |-> "new"]
  /\ bound = [p \in Player |-> NoPlayer]
  /\ waiting = [p \in Player |-> FALSE]
  /\ attempts = [p \in Player |-> 0]
  /\ name = [p \in Player |-> NoName]
  /\ accounts = Registered
  /\ room = {}
  /\ shutdown = FALSE /\ fault = FALSE
  /\ pc = "rest" /\ cursor = 1 /\ stale = FALSE
  /\ who = NoPlayer /\ wanted = NoName /\ target = NoPlayer /\ after = "loop"
  /\ dpc = "copy" /\ snap = {} /\ gone = NoPlayer

-----------------------------------------------------------------------------
(* PlayerDatabase and Socket, as both threads use them.                    *)

\* p is the last player of list l whose attribute attr is v, the null pointer
\* when none is: what getPlayer(fd) and getPlayer(name) return
LastWith(l, attr, v, p) ==
  \/ \E k \in DOMAIN l :
       /\ p = l[k] /\ attr[p] = v
       /\ \A j \in DOMAIN l : j > k => attr[l[j]] # v
  \/ p = NoPlayer /\ \A j \in DOMAIN l : attr[l[j]] # v

\* mistaken version: only players already in the game count
TakenByPlaying(n) == \E q \in Listed : conn[q] = "play" /\ name[q] = n

\* somebody listed answers to that name
Taken(n) == \E q \in Listed : name[q] = n

\* remove(), first half: take the player out of its room
LeaveRoom(p) == room' = room \ {p}

\* remove(): erase the player from the vector, which keeps its buffer
Erase(p) ==
  /\ IF p \in Listed
       THEN \E k \in DOMAIN list : list[k] = p /\ list' = RemoveAt(list, k)
       ELSE UNCHANGED list
  /\ UNCHANGED <<reserved, fd>>

\* mistaken version: the descriptor is looked up in a list that lost its player
CloseListedFd(p) ==
  owner' = IF p \in Listed THEN [owner EXCEPT ![fd[p]] = NoPlayer] ELSE owner

\* remove(), last step: close_connection() on the player's descriptor number,
\* whichever connection that number stands for by now
CloseFd(p) ==
  owner' = IF fd[p] \in Fd THEN [owner EXCEPT ![fd[p]] = NoPlayer] ELSE owner

\* setConnectionState(): a fresh state object, its mPlayer whoever getPlayer(fd)
\* finds in the list l with the descriptors d
SetState(p, s, l, d) ==
  /\ conn' = [conn EXCEPT ![p] = s]
  /\ waiting' = [waiting EXCEPT ![p] = FALSE]
  /\ attempts' = [attempts EXCEPT ![p] = 0]
  /\ \E b \in Player \cup {NoPlayer} :
       LastWith(l, d, d[p], b) /\ bound' = [bound EXCEPT ![p] = b]

-----------------------------------------------------------------------------
(* The driver thread.                                                      *)

\* descriptors are polled, and given out, lowest first
Lowest(f, S) == f \in S /\ \A g \in S : f <= g
Free == {f \in Fd : owner[f] = NoPlayer}

\* mistaken version: the flag is never looked at again
RunsForever == TRUE

\* the loop condition of both threads
Running == shutdown = FALSE

\* top of the loop: copy the descriptor set
CopyFdset ==
  /\ dpc = "copy" /\ Running
  /\ snap' = Fd \ Free
  /\ dpc' = "select"
  /\ UNCHANGED <<lists, owner, queue, handler, world, flags, process, gone>>

DriverStops ==
  /\ dpc = "copy" /\ shutdown
  /\ dpc' = "done"
  /\ UNCHANGED <<lists, owner, queue, handler, world, flags, process, snap, gone>>

\* a descriptor of the copy was closed meanwhile: EBADF closes the driver down
SelectFails ==
  /\ dpc = "select" /\ snap \cap Free # {}
  /\ shutdown' = TRUE
  /\ dpc' = "copy" /\ snap' = {}
  /\ UNCHANGED <<lists, owner, queue, handler, world, fault, process, gone>>

\* timeout, or some of the client sockets are readable
SelectReturns ==
  /\ dpc = "select" /\ snap \cap Free = {}
  /\ \E ready \in SUBSET snap :
       /\ snap' = ready
       /\ dpc' = IF ready = {} THEN "copy" ELSE "poll"
  /\ UNCHANGED <<lists, owner, queue, handler, world, flags, process, gone>>

\* PlayerDatabase::add() and the vector's growth; a pass of processCommands
\* that is under way keeps an iterator into the old buffer
AddPlayer(p, f) ==
  /\ list' = Append(list, p)
  /\ fd' = [fd EXCEPT ![p] = f]
  /\ IF Len(list) < reserved
       THEN UNCHANGED <<reserved, stale>>
       ELSE /\ reserved' = IF reserved = 0 THEN 1 ELSE 2 * reserved
            /\ stale' = (stale \/ pc \notin {"rest", "done"})

\* the listening socket is readable: accept, list the player, greet it, or
\* remove it again when its address is banned
NewConnection(p) ==
  /\ dpc = "select" /\ snap \cap Free = {}
  /\ conn[p] = "new"
  /\ \E f \in Free :
       /\ Lowest(f, Free)
       /\ owner' = [owner EXCEPT ![f] = p]
       /\ AddPlayer(p, f)
  /\ snap' = {}
  /\ \/ /\ SetState(p, "login", list', fd')
        /\ dpc' = "copy"
        /\ UNCHANGED gone
     \/ /\ conn' = [conn EXCEPT ![p] = "closed"]
        /\ dpc' = "unroom" /\ gone' = p
        /\ UNCHANGED <<bound, waiting, attempts>>
  /\ UNCHANGED <<queue, world, flags, pc, cursor, who, wanted, target, after>>

\* the polling loop, lowest descriptor first: find the player and read it
PollSkips ==
  /\ dpc = "poll"
  /\ \E f \in snap :
       /\ Lowest(f, snap) /\ LastWith(list, fd, f, NoPlayer)
       /\ snap' = snap \ {f}
  /\ UNCHANGED <<lists, owner, queue, handler, world, flags, process, dpc, gone>>

\* parseBuffer(): each line of what was read is a command; telnet options and
\* empty lines are none
QueueCommands(p) ==
  \E n \in queue[p]..MaxQueue : queue' = [queue EXCEPT ![p] = n]

\* Read() then Flush(); when either fails, or the descriptor is closed by now,
\* the player is removed
PollReads(p) ==
  /\ dpc = "poll"
  /\ \E f \in snap :
       /\ Lowest(f, snap) /\ LastWith(list, fd, f, p)
       /\ \/ owner[f] # NoPlayer /\ QueueCommands(p)
          \/ UNCHANGED queue
       /\ \/ owner[f] # NoPlayer /\ UNCHANGED <<dpc, gone>>
          \/ dpc' = "unroom" /\ gone' = p
       /\ snap' = snap \ {f}
  /\ UNCHANGED <<lists, owner, handler, world, flags, process>>

PollEnds ==
  /\ dpc = "poll" /\ snap = {}
  /\ dpc' = "copy"
  /\ UNCHANGED <<lists, owner, queue, handler, world, flags, process, snap, gone>>

\* the driver thread inside PlayerDatabase::remove()
DriverUnrooms ==
  /\ dpc = "unroom"
  /\ LeaveRoom(gone)
  /\ dpc' = "erase"
  /\ UNCHANGED <<lists, owner, queue, handler, name, accounts, flags, process, snap, gone>>

DriverErases ==
  /\ dpc = "erase"
  /\ Erase(gone)
  /\ dpc' = "close"
  /\ UNCHANGED <<owner, queue, handler, world, flags, process, snap, gone>>

DriverCloses ==
  /\ dpc = "close"
  /\ CloseFd(gone)
  /\ dpc' = "poll" /\ gone' = NoPlayer
  /\ UNCHANGED <<lists, queue, handler, world, flags, process, snap>>

\* the driver's loop is over: main() cancels the process thread wherever it is,
\* and does not wait for it
ProcessCancelled ==
  /\ dpc = "done" /\ pc # "done"
  /\ pc' = "done"
  /\ UNCHANGED <<lists, owner, queue, handler, world, flags, driver, cursor, stale, who, wanted, target, after>>

DriverStep ==
  \/ ProcessCancelled
  \/ CopyFdset \/ DriverStops \/ SelectFails \/ SelectReturns
  \/ PollSkips \/ PollEnds
  \/ DriverUnrooms \/ DriverErases \/ DriverCloses
  \/ \E p \in Player : NewConnection(p) \/ PollReads(p)

-----------------------------------------------------------------------------
(* The process thread.                                                     *)

\* mistaken version: the iterator does not move
AdvanceNot == pc' = "loop" /\ UNCHANGED cursor

\* ++it, back to the top of the loop over the list
Advance == pc' = "loop" /\ cursor' = cursor + 1

\* continue at pc value l with the iterator where it is
Goto(l) == pc' = l /\ UNCHANGED cursor

BeginPass ==
  /\ pc = "rest" /\ Running
  /\ pc' = "loop" /\ cursor' = 1 /\ stale' = FALSE
  /\ UNCHANGED <<lists, owner, queue, handler, world, flags, driver, who, wanted, target, after>>

ProcessStops ==
  /\ pc = "rest" /\ shutdown
  /\ pc' = "done"
  /\ UNCHANGED <<lists, owner, queue, handler, world, flags, driver, cursor, stale, who, wanted, target, after>>

\* it == end()
EndPass ==
  /\ pc = "loop" /\ ~stale /\ cursor = Len(list) + 1
  /\ pc' = "rest" /\ cursor' = 1 /\ who' = NoPlayer
  /\ UNCHANGED <<lists, owner, queue, handler, world, flags, driver, stale, wanted, target, after>>

\* the iterator is dereferenced where there is no element
BadIterator ==
  /\ \/ pc = "loop" /\ (stale \/ cursor > Len(list) + 1)
     \/ pc = "dispatch" /\ (stale \/ cursor > Len(list))
  /\ fault' = TRUE
  /\ UNCHANGED <<lists, owner, queue, handler, world, shutdown, process, driver>>

\* getNextCommand() of a player who has one
TakeCommand(p) == queue[p] > 0 /\ queue' = [queue EXCEPT ![p] = @ - 1]

\* the first use of the iterator; a player without a command is passed over
Fetch ==
  /\ pc = "loop" /\ ~stale /\ cursor <= Len(list)
  /\ LET p == list[cursor] IN
       \/ queue[p] = 0 /\ Advance /\ UNCHANGED <<queue, who>>
       \/ /\ TakeCommand(p)
          /\ who' = p
          /\ Goto("dispatch")
  /\ UNCHANGED <<lists, owner, handler, world, flags, driver, stale, wanted, target, after>>

\* (*it)->process(command): the iterator is dereferenced a second time, and the
\* player it finds runs its connection state on the command
Processing(s, w) ==
  /\ pc = "dispatch" /\ ~stale /\ cursor <= Len(list)
  /\ w = list[cursor] /\ conn[w] = s
  /\ who' = w

\* the process thread starts remove(p) and goes on at l when it is done
StartRemove(p, l) ==
  /\ target' = p /\ after' = l
  /\ Goto("unroom")

(* Login and Password return at once when their mPlayer is null, a Closed   *)
(* state ignores its command: HandlersBound says neither is ever reached.   *)

\* setConnectionState() on the player of w, which destroys the state object it is
\* called from; the code behind it goes on to read that object's mPlayer
SetStateAndGoOn(w, s) ==
  /\ SetState(bound[w], s, list, fd)
  /\ IF bound[w] = w THEN fault' \in BOOLEAN ELSE UNCHANGED fault

\* Login, answering whether to create a character
LoginCreates(w) ==
  /\ Processing("login", w) /\ waiting[w] /\ bound[w] # NoPlayer
  /\ SetStateAndGoOn(w, "create")
  /\ Advance
  /\ UNCHANGED <<lists, owner, queue, world, shutdown, driver, stale, wanted, target, after>>

LoginDeclines(w) ==
  /\ Processing("login", w) /\ waiting[w] /\ bound[w] # NoPlayer
  /\ waiting' = [waiting EXCEPT ![w] = FALSE]
  /\ Advance
  /\ UNCHANGED <<lists, owner, queue, conn, bound, attempts, world, flags, driver, stale, wanted, target, after>>

\* Login, a name: refused when it is taken, looked up otherwise (too short: ignored)
LoginTooShort(w) ==
  /\ Processing("login", w) /\ ~waiting[w] /\ bound[w] # NoPlayer
  /\ Advance
  /\ UNCHANGED <<lists, owner, queue, handler, world, flags, driver, stale, wanted, target, after>>

LoginRefused(w, n) ==
  /\ Processing("login", w) /\ ~waiting[w] /\ bound[w] # NoPlayer
  /\ Taken(n)
  /\ StartRemove(bound[w], "loop")
  /\ UNCHANGED <<lists, owner, queue, handler, world, flags, driver, stale, wanted>>

LoginAccepted(w, n) ==
  /\ Processing("login", w) /\ ~waiting[w] /\ bound[w] # NoPlayer
  /\ ~Taken(n)
  /\ wanted' = n
  /\ Goto("name")
  /\ UNCHANGED <<lists, owner, queue, handler, world, flags, driver, stale, target, after>>

\* setName() and Load()
LoginNames ==
  /\ pc = "name"
  /\ name' = [name EXCEPT ![bound[who]] = wanted]
  /\ \/ /\ wanted \in accounts
        /\ SetState(bound[who], "password", list, fd)
     \/ /\ wanted \notin accounts
        /\ waiting' = [waiting EXCEPT ![who] = TRUE]
        /\ UNCHANGED <<conn, bound, attempts>>
  /\ wanted' = NoName
  /\ Advance
  /\ UNCHANGED <<lists, owner, queue, accounts, room, flags, driver, stale, who, target, after>>

\* the attempt that costs the connection
Exhausted(n) == n >= MaxAttempts

\* Password: only a loaded record has a password a command can equal
PasswordWrong(w) ==
  /\ Processing("password", w) /\ bound[w] # NoPlayer
  /\ attempts' = [attempts EXCEPT ![w] = @ + 1]
  /\ IF Exhausted(attempts'[w])
       THEN StartRemove(bound[w], "loop")
       ELSE Advance /\ UNCHANGED <<target, after>>
  /\ UNCHANGED <<lists, owner, queue, conn, bound, waiting, world, flags, driver, stale, wanted>>

PasswordRight(w) ==
  /\ Processing("password", w) /\ bound[w] # NoPlayer
  /\ name[bound[w]] \in accounts
  /\ Goto("enter")
  /\ UNCHANGED <<lists, owner, queue, handler, world, flags, driver, stale, wanted, target, after>>

\* room->containerAdd(mPlayer): a full room removes the player, and the code
\* then carries on as if it had not
PasswordEnters ==
  /\ pc = "enter"
  /\ IF Cardinality(room) < RoomCapacity
       THEN room' = room \cup {bound[who]} /\ Goto("play") /\ UNCHANGED <<target, after>>
       ELSE StartRemove(bound[who], "play") /\ UNCHANGED room
  /\ UNCHANGED <<lists, owner, queue, handler, name, accounts, flags, driver, stale, who, wanted>>

PasswordPlays ==
  /\ pc = "play"
  /\ SetState(bound[who], "play", list, fd)
  /\ Advance
  /\ UNCHANGED <<lists, owner, queue, world, flags, driver, stale, who, wanted, target, after>>

\* Player::Save()
SavePlayer(p) == accounts' = accounts \cup {name[p]}

\* Create: any command is the password; Save(), then straight to play
CreatePlays(w) ==
  /\ Processing("create", w)
  /\ SavePlayer(bound[w])
  /\ SetStateAndGoOn(w, "play")
  /\ Advance
  /\ UNCHANGED <<lists, owner, queue, name, room, shutdown, driver, stale, wanted, target, after>>

\* Playing: any command that changes nothing here
PlayOther(w) ==
  /\ Processing("play", w)
  /\ Advance
  /\ UNCHANGED <<lists, owner, queue, handler, world, flags, driver, stale, wanted, target, after>>

\* Playing: quit removes the player found under the quitter's name
PlayQuits(w) ==
  /\ Processing("play", w)
  /\ \E p \in Player \cup {NoPlayer} :
       /\ LastWith(list, name, name[bound[w]], p)
       /\ IF p = NoPlayer THEN Advance /\ UNCHANGED <<target, after>> ELSE StartRemove(p, "loop")
  /\ UNCHANGED <<lists, owner, queue, handler, world, flags, driver, stale, wanted>>

\* Playing: an administrator's shutdown
PlayShutsDown(w) ==
  /\ Processing("play", w)
  /\ shutdown' = TRUE
  /\ Advance
  /\ UNCHANGED <<lists, owner, queue, handler, world, fault, driver, stale, wanted, target, after>>

\* the process thread inside PlayerDatabase::remove()
ProcessUnrooms ==
  /\ pc = "unroom"
  /\ LeaveRoom(target)
  /\ Goto("erase")
  /\ UNCHANGED <<lists, owner, queue, handler, name, accounts, flags, driver, stale, who, wanted, target, after>>

ProcessErases ==
  /\ pc = "erase"
  /\ Erase(target)
  /\ Goto("close")
  /\ UNCHANGED <<owner, queue, handler, world, flags, driver, stale, who, wanted, target, after>>

ProcessCloses ==
  /\ pc = "close"
  /\ CloseFd(target)
  /\ IF after = "loop" THEN Advance ELSE Goto(after)
  /\ target' = NoPlayer /\ after' = "loop"
  /\ UNCHANGED <<lists, queue, handler, world, flags, driver, stale, who, wanted>>

\* the connection state of w takes the command
Handle(w) ==
  \/ LoginCreates(w) \/ LoginDeclines(w) \/ LoginTooShort(w)
  \/ \E n \in Name \cup {NoName} : LoginRefused(w, n) \/ LoginAccepted(w, n)
  \/ PasswordWrong(w) \/ PasswordRight(w)
  \/ CreatePlays(w)
  \/ PlayOther(w) \/ PlayQuits(w) \/ PlayShutsDown(w)

ProcessStep ==
  \/ BeginPass \/ ProcessStops \/ EndPass \/ Fetch \/ BadIterator
  \/ LoginNames \/ PasswordEnters \/ PasswordPlays
  \/ ProcessUnrooms \/ ProcessErases \/ ProcessCloses
  \/ \E w \in Player : Handle(w)

-----------------------------------------------------------------------------

\* both threads have ended, or the program is beyond description
Stopped == (fault \/ (pc = "done" /\ dpc = "done")) /\ UNCHANGED vars

Next == (~fault /\ (DriverStep \/ ProcessStep)) \/ Stopped

Spec == Init /\ [][Next]_vars

-----------------------------------------------------------------------------
(* Properties.                                                             *)

MaybePlayer == Player \cup {NoPlayer}

\* Every variable holds what the C++ declarations allow.
TypeOK ==
  /\ list \in Seq(Player) /\ reserved \in Nat
  /\ fd \in [Player -> Fd \cup {NoFd}]
  /\ owner \in [Fd -> MaybePlayer]
  /\ queue \in [Player -> 0..MaxQueue]
  /\ conn \in [Player -> States]
  /\ bound \in [Player -> MaybePlayer]
  /\ waiting \in [Player -> BOOLEAN]
  /\ attempts \in [Player -> Nat]
  /\ name \in [Player -> Name \cup {NoName}]
  /\ accounts \subseteq Name \cup {NoName}
  /\ room \subseteq Player
  /\ shutdown \in BOOLEAN /\ fault \in BOOLEAN
  /\ pc \in {"rest", "loop", "dispatch", "name", "enter", "play",
             "unroom", "erase", "close", "done"}
  /\ cursor \in Nat \ {0} /\ stale \in BOOLEAN
  /\ who \in MaybePlayer /\ target \in MaybePlayer
  /\ wanted \in Name \cup {NoName}
  /\ after \in {"loop", "play"}
  /\ dpc \in {"copy", "select", "poll", "unroom", "erase", "close", "done"}
  /\ snap \subseteq Fd
  /\ gone \in MaybePlayer

\* Two listed players never carry the same typed name, although a name is looked
\* up and taken in two steps while the driver thread changes the list
\* (connStateLogin.cpp).
UniqueNames ==
  \A p, q \in Listed : p # q /\ name[p] = name[q] => name[p] = NoName

\* A listed player's state object knows its player, so neither the null check of
\* Login and Password nor the missing one of Create and Playing is ever reached
\* (setConnectionState looks the player up by descriptor).
HandlersBound ==
  \A p \in Listed : conn[p] # "closed" => bound[p] # NoPlayer

\* Whoever plays has a player file, so a later login finds the character.
PlayersHaveFiles ==
  \A p \in Player : conn[p] = "play" => name[p] \in accounts

\* A connection that used up its password attempts is on its way out, as long as
\* the process thread, which has to remove it, is there.
AttemptsEnforced ==
  \A p \in Listed :
    conn[p] = "password" /\ bound[p] = p /\ attempts[p] >= MaxAttempts
      => pc = "done" \/ (target = p /\ pc \in {"unroom", "erase"})

\* Every open descriptor belongs to a listed player or to one whose remover is
\* about to close it, or was cancelled in that place at the end of the program:
\* removal from two threads at once leaks none.
NoDescriptorLeak ==
  \A f \in Fd :
    owner[f] # NoPlayer =>
      \/ owner[f] \in Listed
      \/ owner[f] = target /\ pc \in {"close", "done"}
      \/ owner[f] = gone /\ dpc = "close"

-----------------------------------------------------------------------------
(* The inductive invariant that carries the properties above.              *)

\* A player is accepted once, so the list holds it at most once.
ListedOnce == \A j, k \in DOMAIN list : list[j] = list[k] => j = k

\* Before its accept a player is nowhere: no list, no handler, no name.
NewUnknown ==
  \A p \in Player :
    conn[p] = "new" =>
      /\ p \notin Listed
      /\ name[p] = NoName /\ fd[p] = NoFd
      /\ \A q \in Player : bound[q] # p

\* An open descriptor is the descriptor of the player it was opened for.
OwnersFd == \A f \in Fd : owner[f] # NoPlayer => fd[owner[f]] = f

\* Only a login handler is sure to have its own player, which is why it alone
\* sets names.
LoginBound == \A p \in Player : conn[p] = "login" => bound[p] = p

\* What the process thread knows of the command it is in the middle of.
MidCommand ==
  /\ pc = "name" =>
       /\ who \in Player /\ conn[who] = "login"
       /\ wanted = NoName \/ ~Taken(wanted)
  /\ pc = "enter" => bound[who] \in Player
  /\ pc = "enter" \/ pc = "play" \/ (pc \in {"unroom", "erase", "close"} /\ after = "play") =>
       /\ who \in Player /\ conn[who] \notin {"new", "login"}
       /\ bound[who] # NoPlayer => name[bound[who]] \in accounts
  /\ pc \in {"unroom", "erase", "close"} => target \in Player
  /\ dpc \in {"unroom", "erase", "close"} => gone \in Player

\* All of it: what Spec preserves from one step to the next, the link between
\* lists, handlers, names, descriptors and the two removals included.
Consistent ==
  /\ TypeOK
  /\ ListedOnce /\ NewUnknown /\ OwnersFd /\ LoginBound /\ MidCommand
  /\ UniqueNames /\ HandlersBound /\ PlayersHaveFiles
  /\ AttemptsEnforced /\ NoDescriptorLeak

-----------------------------------------------------------------------------
(* The promise to the rest of the game, and progress.                      *)

\* The list and the names in it behave like the abstract roster: names are
\* claimed by present players only, and only when nobody present has them.
RosterOf == INSTANCE Roster WITH
  present <- Listed,
  claim <- [p \in Player |-> IF p \in Listed THEN name[p] ELSE NoName]
RosterSpec == RosterOf!Spec

\* Both threads keep being scheduled by the operating system.
FairSpec ==
  Spec /\ WF_vars(~fault /\ ProcessStep) /\ WF_vars(~fault /\ DriverStep)

\* A waiting command of a listed player is taken up, unless the player goes first
\* or the server ends, however often the pass it should be in is cut short.  Writes
\* to clients return: ClientSocket says what becomes of the threads when one fails.
CommandsServed ==
  \A p \in Player :
    (p \in Listed /\ queue[p] > 0) ~> (who = p \/ p \notin Listed \/ shutdown \/ fault)

\* Once shutdownMUD is set the driver comes to the end of its loop and main()
\* ends the process thread with it, whatever that one is in the middle of.
ShutdownCompletes == shutdown ~> (fault \/ (pc = "done" /\ dpc = "done"))

-----------------------------------------------------------------------------
(* What comments of the repository say, which the code does not do.        *)

\* processCommands() "calls the process() func for each player that has a waiting
\* command" (playerDatabase.cpp:231) and for no other: the second use of the
\* iterator finds the player whose command the first one took.
OwnCommand ==
  pc = "dispatch" /\ ~stale /\ cursor <= Len(list) => list[cursor] = who
=============================================================================
