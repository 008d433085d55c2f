# forevermud: TLA+ models and proofs

forevermud is a multi-user text game server in C++ (`MUD/mud3/src`). Clients connect by
telnet, log in or create a character, and send commands that the server runs in passes
a few times a second. This directory holds TLA+ modules of the server's own logic, TLC
configurations that check them on small instances, and proofs checked by TLAPS.

All source paths below are relative to `src/MUD/mud3/src/`.

## 1. The system

### Threads

| thread | entry | what it does |
| --- | --- | --- |
| driver | `thread_driver_func`, on the main thread | `select()` over all client sockets; accepts, reads, removes players whose socket died |
| process | `thread_process_func` | every `TIME_RESOLUTION`: the heartbeat when it is due, then one pass of `PlayerDatabase::processCommands` |
| save | `thread_saveRooms_func` | sleeps; when `saveRooms` is set writes all rooms, then clears it |
| look-up | `reverseDNSLookup`, one detached thread per public address | sets the connection's host name through a raw `Connection *` |

`main` starts the process and save threads, runs the driver, and when the driver returns
cancels both without waiting for them and lets the global destructors run. The player list, the command queues,
the descriptor set, the event list and the channels are shared without a lock; rooms,
client sockets, the log and file access have mutexes.

### Components

| component | state | operations | must be true of it |
| --- | --- | --- | --- |
| PlayerDatabase | `mPlayerList`, `mHighestFd` | `add`, `remove`, `getPlayer` by descriptor and name, `processCommands`, `broadcast`, `callHeartbeats` | one player per name; every listed player connected; every waiting command served, and as its sender's |
| SocketDriver, Socket | `mFdset`, listening socket | `new_connection`, `shutdown_connection`, `copy_fdset` | no descriptor leaked or closed twice |
| Connection and its states | state object with its `mPlayer`, command queue | `process`, `setConnectionState`, `Read`, `parseBuffer`, `getNextCommand` | the state object knows its player; login, password, creation and play in that order |
| ClientSocket | in and out buffers, `mBusy` | `read_socket`, `to_client`, `flush` | what is written is sent once and whole; the mutex is given back |
| Player, Living, Sentient, Physical | attributes, conditions, location, nicknames | `Save`, `Load`, `heartbeat`, `processMessage`, `changeState`, `addLife` | what is saved is loaded; a condition ends when its event does |
| CommandHandler and the commands | the command map | `call`, movement through exits, one class per command | a command runs with the rights it needs; movement keeps a player in one room |
| Room, Container, Collection, Coin | contents, capacity, weather, `mChanged` | `containerAdd`, `containerRemove`, `containerFind`, the commands `get` and `create`, merging of piles | nothing is duplicated or lost; capacities hold; a change is flagged |
| Exit | door, closed, locked, key | `canPass`; nothing in the program calls `open`, `close`, `lock`, `unlock` | a closed door lets nobody pass |
| Zone, ZoneDaemon, ZoneMap | rooms, weather counters, map grid | heartbeat, weather, autosave request, map shifts | saves happen on time; shifts keep every room |
| EventDaemon | timed events | `addEvent`, `processEvents`, `clearEventsForTarget` | each event fires once, when due; none for a target that is gone |
| MessageDaemon, ChatChannel | channels, listeners, bans | `processMessage`, `joinChannel`, `leaveChannel`, `broadcast` | a message reaches whom it is meant for, once, and nobody else |
| Save thread, IODaemon, FileIO | `saveRooms`, the read and write mutexes | `saveAllZones`, `Room::Save`, `saveResource`, `loadResource` | a changed room is eventually written, whole, and never replaced by an older text |
| BanMap, RuntimeConfig | bans, configuration values | `addBan`, `removeBan`, `save`, `load` | bans survive; what an administrator wrote is not cut down |
| Readable, Book, Milestone; player files | pages, titles; what a player has and is | `Save` and `Load` of each class, `read`, `alias`, `description` | what is saved is loaded; nobody's record is written over |
| Text on its way out | colours seen or not, width, prompt | `parseColor`, `formatWidth`, `Prompt`, columns, `config` | a text keeps its letters, its lines fit, the loops end |
| StatEngine, Log, Utility, UUID, random | counters, files | formatting, logging | |
| mudsql, Query, MySQL_Server | database connection | none in the default build (`USE_MYSQL` is off) | |

### What is hard here

* Two threads change one vector, one by accepting and by dropping dead connections, the
  other by quits, failed logins and full rooms, the latter while it iterates over it.
* Descriptors are numbers. They are looked up, remembered, closed late and reused.
* A name is looked up and claimed in two steps, and claimed before the character exists.
* A state object is replaced from inside its own `process`, which goes on in what was
  destroyed.
* Timers, weather and autosave count heartbeats; a flag set during a save is cleared by it.
* Locks are given back on most paths only.
* Files are truncated before they are filled, behind one mutex; rooms, players, bans and
  settings are written at different times, and what is read at the next start decides what is
  written over.
* Texts are broken by a loop with two counters that walks back without looking for an end.

The list `hazards` of `PROJECT.json` names each of these at its line, with the property
that watches it or the reason why none does.

## 2. The modules

| module | what it is |
| --- | --- |
| `Roster` | abstract: present players and the names they hold |
| `Sessions` | the driver and process threads over PlayerDatabase, Socket, Connection and its states |
| `MCSessions` | instances of `Sessions` for TLC |
| `SessionsProofs` | the inductive invariant of `Sessions`, its safety properties and the refinement of `Roster`, proved |
| `Input` | from a client's bytes to its commands: `read_socket` and `parseBuffer` |
| `ClientSocket` | one client's output: the threads that write, the buffer and its mutex |
| `MCConnection` | an instance of `Input` and `ClientSocket` |
| `ConnectionProofs` | a client's bytes: the order of the output, and the commands of its input, proved |
| `Vectors`, `VectorsProofs` | searching a `std::vector` and erasing from it, and what that finds and leaves, proved |
| `Events` | timed events and the condition one of them ends |
| `Autosave` | how rooms reach the disk, from the timer to the destructors of `ZoneDaemon` and `Zone` |
| `World` | where players, books and coins are: walking, `get`, `create`, logins and removals |
| `Talk` | who is written which message: broadcasts, rooms, channels, tells and socials |
| `Weather` | a zone with a map: the rooms made for it, the weather blown over it, what people are told |
| `MCRooms` | an instance of `World` and `Weather` |
| `Bodies` | heat, matter and life: the heartbeat, and what the player file keeps of a body |
| `MCHeartbeat` | an instance of `Events` and `Bodies` |
| `Records` | what things, rooms and players write into files and make of them: every `Save` and `Load` |
| `Settings` | how the settings and the bans are read and written |
| `Restart` | the four files through starts, ends and crashes, over `Records` and `Settings` |
| `MCFiles` | an instance of `Autosave` and `Restart` |
| `DiskProofs` | room files and the file mutex through cancellation, bans, settings, rooms and players through starts and crashes, proved |
| `Terminal` | a text on its way to a client: colours, prompt, columns, the breaking of lines |
| `MCMessages` | an instance of `Talk` and `Terminal` |
| `MessageProofs` | who hears what, and the loop that breaks lines, proved |
| `WeatherProofs` | the rooms made for a map, the weather over it and what people know of it, proved |
| `WorldProofs` | where players, books and coins are, proved |
| `HeartbeatProofs` | life, heat and matter, and timed events, proved |

`World`, `Talk`, `Bodies`, `Events` and `Input` search their vectors with `Vectors`;
`Terminal` leaves characters out with it.
A proof module that is about two modules extends both; their names are kept apart. So does an
`MC` module: its two halves share no variable, and its initial state chooses which of them
moves while the other rests, so that one run has the states of both and not their product.

The modules meet at few places, which each states as an environment of its own: `Input`
delivers what `Sessions` takes as a number of waiting commands; `ClientSocket` is what
`Sessions` assumes returns; `Events` sees players come and go as `Sessions` lets them;
`Autosave` starts its end where `Sessions` stops; `World` and `Talk` take the end of a
login and the removal of a player, which `Sessions` has in detail, as steps; so do
`Weather` and `Bodies`, whose rooms people walk into as in `World`. `Restart` composes
`Records` and `Settings` with one room and one player; it takes `get` and the savers' mutexes
short, which `World` and `Autosave` have. `Terminal` makes the text that `ClientSocket`
numbers and sends.

### Sessions

State. `list` is `mPlayerList`, `reserved` the capacity of its buffer, `fd` each player's
descriptor, `owner` the connection each open descriptor stands for (its domain of use is
`mFdset`), `queue` the lengths of the command queues, `conn` and `bound` the kind of each
state object and its `mPlayer`, `waiting` and `attempts` the members of the Login and
Password objects, `accounts` the names with a player file, `room` who is in the contents
of the one room all characters are in. Each thread has a program counter (`dpc`, `pc`)
and the locals that live across a step: the driver's copy of the descriptor set and the
player it removes, the process thread's iterator, whose command it has, the name being
claimed, the player it removes and where it goes on afterwards.

Steps. A step is a run of code in which interference by the other thread makes no
difference. The two threads interleave at: the copy of the descriptor set, `select()`,
each polled descriptor; the two uses of the iterator; the lookup of a name, its claim;
the password check, the room, the playing state; and the three effects of
`PlayerDatabase::remove` (room, list, descriptor), on either thread. Inside a step
vector operations are atomic: the model says nothing about torn vectors. When the driver has
returned, `main` cancels the process thread (`ProcessCancelled`), which ends where it is, if
it does not see the flag first (`ProcessStops`).

Undefined behaviour. An iterator used past the list's end or after the vector moved its
buffer sets `fault`, after which nothing is claimed. So may a state object that has replaced
itself and reads its own member afterwards (`SetStateAndGoOn`, in Login and Create); as long as
the memory is as it was, it goes on as if it were there. A use at the element that has moved
into the iterator's place is what the build does, and is modelled.

Left out: what commands say (a command is chosen when it is processed, so a queue is a
length), broadcasts and prompts, Player objects being reused (each `Player` value is one
accepted connection), more than one room, a missing room or zone, failing `Save`.
Administrator rights of `shutdown` are not checked: any player may give it. Two code
paths that `HandlersBound` shows unreachable are not written out: a null `mPlayer` in
Login and Password, and a command to a Closed state.

### Input

State. `buffer` is the array of `read_socket`, `text` is `mIn_buffer`, `queue` is
`mCommandQueue` without the processing that shortens it; `typed` and `taken` say what the
client has sent and the kernel has delivered. Letters are numbered by the line they are
on, so a command shows which lines it was made of.

Steps. `Type` and `Close` are the client's. `FirstRead` and `ReadAgain` are the loop of
`read_socket`: the same array is read into again when a read filled it, and is appended
as a C string, which runs past its end when there is no final zero. `Parse` is
`parseBuffer` with `stringToVector` and `stringClean`; on a line of spaces the last loop of
`stringClean` does not end, and the driver thread hangs.

Left out: carriage returns and zero bytes, the answers to telnet options (a read that
begins with one is used up by it).

### ClientSocket

State. `out` is `mOut_buffer`, `holder` who has `mBusy`, `sent` what `write()` has taken.
Characters are numbered as they are appended. `link` is the peer: it takes what it is
offered, stalls, or is gone.

Steps. `Write` is `Connection::Write`: `to_client` (one critical section, `AppendText`),
then `flush`, whose test of the buffer, `lock`, `write()` and clear are steps of their own,
because the two threads meet there. `flush` gives the whole buffer up after one `write()`
of at most one chunk, and returns with the mutex when `write()` fails. `ReadSocket` is the
driver's other use of the mutex. Colours and line breaking, which `Write` does before, are in
`Terminal`.

### Events

State. `events` is `mEventList`, `listed` the names in the player list, `slapped` the players
with the condition, `saved` those whose file has it and `loaded` those who got it from there.
An event also carries its age, with which `AllCounted` compares its countdown.

Steps. `Bsotg` gives a condition and adds its event. One heartbeat of the process thread
is `BeginEvents`, then `CountDown`, `Fire` or `FireAtAbsent` event by event, then
`EndEvents`; erasing under the iterator passes the next event over, and an event whose
player is absent ends the pass and clears every second of the player's events
(`ClearEvents`). `Arrive`, `Unlisted` and `SaveConditions` are the players'; a player that
leaves is not destroyed, so its events stay. Left out: events for rooms, which nothing adds.

### Autosave

State. `world` is what a room is, `disk` what its file holds (a version, or partial),
`toSave` is `mHeartbeatsToNextSave`, `saveRooms` and `shutdown` are the global flags,
`reader` and `writer` the mutexes of a room and of `FileIO::write`. `pc`, `at` and `got`
are the places and locals of the threads; `newest` is a history variable.

Steps. The save thread and `main()` both go through the rooms; `main()` does so in the
destructor of `ZoneDaemon`, and again in those of its zones (`SaveZones`, `again`). A pass is
`LockRoom`, `ReadRoom`, `LockFile`, `OpenFile` and `CloseRoomFile` for each room. `Zone::saveAll`
is called without an argument, so its default writes every room, changed or not, and
`mChanged` decides nothing. The process thread raises the flag (`Heartbeat`), changes
rooms with or without their mutex, and writes player files under the same file mutex.
`CancelThreads` is `main()` cancelling both threads: a cancelled thread dies at its next `open()`,
`write()` or `sleep()` with the mutexes it holds.

Left out: the log and its mutex, reading files (another mutex), a crash of the process.

### World

State. `contents` is `mContents` of rooms and players, `location` is `mObjectLocation` of
everything but piles (nothing reads a pile's), `quantity` is `mQuantity` of a pile of
coins, `changed` is a room's `mChanged`, `online` the player list.

Steps. The process thread's commands are one step each, except walking, which is split
between `containerAdd` and `setLocation` (`PassExit`, `Arrive`) because the driver's
`remove` reads the location (`BeginRemove`, `EndRemove`). `Get` is the three functions of
`get.cpp`: `FindContainer` and `Searched` for `from`, and `Take`, which takes a thing, all of
a pile or part of it, by its place among the matches. Adding a pile merges it into the
first pile there. A read past the end of a vector sets `running` to FALSE, after which
nothing happens. Exits let pass or do not for ever. Left out: descriptions, weights, and
everything a room has that is not in it.

### Talk

State. `list`, `stage`, `name` and `location` are the clients', `inside` the contents of
rooms, `listeners` a channel's names, `heard` what the last step wrote to whom.

Steps. A message is a type, a sender and a header. `Ignores` is what
`Player::processMessage` drops, `Written` what it writes; `Broadcast`, `ToRoom`, `ToName`,
`Around` and `ToChannel` are the five ways a message takes. One command is one step,
except the end of a login, which announces the player and then puts it in its room
(`Announce`, `EnterRoom`), with the driver's `Drop` in between. Left out: what is said,
pronouns, the breath that is seen when it is cold, the condition deaf (which changes the
words), prompts, nicknames of things.

### Weather

State. `rooms` is `mRoomList` by coordinates, `exits` the exits of each, `sky` is `mWeather`,
`wind` the strength and direction, `sinceWind` and `sinceShift` the two counters, `shown` what
a room remembers of its weather. `known` is the last a person in a room was told.

Steps. `CheckCell` is one turn of the loops of `consistencyCheck`, which makes a room with its
exits, or fails to save it. `Heartbeat` is `handleWeather`: the wind may turn, the map may
shift (`doWeather`), and after each `setWeather` goes to every room, which tells what changed to
whoever is in it (`Told`). `Enter`, `LeaveRoom` and `Look` are the people's; `look` asks the map,
not the room. A room's wind is not initialised, and is any wind at first. Left out: weather
maps of another size than the map (logged and used all the same), drawing a part of the
map, the keys. No weather map comes with the repository; a zone that has one runs this.

### Bodies

State. `contents`, `online` and `location` are as in `World`; `temp` and `matter` are
`mTemperature` and `mState` of players and things, `life` and `living` a player's `mLife` and
`mLivingState`, `file` the sections Physical and Living of a player file. `room` and `at` are
where the heartbeat is: the room and the iterator into its contents.

Steps. `BeginBeat` is `callHeartbeats`, which hurts whoever is too hot or too cold. Then each
turn of `containerEqualizeTemp` is an `Equalize`, which warms or cools one body, looks at its
state of matter and takes it out of the vector if it is destroyed; `EndRoom` goes on to the
next room. The driver's `Leave` may take a player out of the vector between two turns, as
`remove` takes no mutex of the room. `PastEnd` is the iterator beyond the end, after which
nothing happens. `Login` is `Player::Load` with a room entered, `Save` is `Player::Save`.
Left out: plasma, what is carried (no heartbeat reaches it), posture, the other sections of
a player file, a room that is full.

### Records and Settings

Two modules without variables. `Records` has an operator for each `Save` and `Load` of
Physical, Readable, Book, Milestone, Coin, Container, Exit, Room, Sentient and Player, and
for what they call (`AddNickname`, `AddAlloy`, `ContainerAdd`, the object factory). A node of a
file is a record; `yaml-cpp`, which is not in the repository, is modelled by what the code
meets: a null in a sequence is an item, a null read as a text is "~", a text written as a
literal block is read back with an end of line (`LineEnded`), and a null written straight into
a block map puts the emitter in a bad state, after which it writes nothing (`SpoilsEmitter`). What is written and read back as it is, sizes and attributes for instance,
is left out.

`Settings` has `RuntimeConfig::load`, which reads four sections until something is wrong, and
`save`, and the same for `BanMap`. A map is read in the order of its keys, so what is kept of a
section with a mistake is what comes before it (`ReadInto`).

### Restart

State. `phase` is what the program does: "up", one of the four destructors that write ("rooms"
and "zones" both write the rooms), or "down". `config`, `bans`, `room` and `player` are in
memory, `files` on the disk, `write` is the file between `open` (which truncates it) and its
end, with the history of what it was before. `waits` says that the process thread has changed
the bans and may still wait for the file mutex. `kept`, `settled` and `left` are histories: of
what was last written, of the bans before such a change, and of the bans a run ended with.

Steps. `Start` is the constructors of `Global`. `Stop` is `main()` cancelling the process thread,
also one that waits, after which Global's members are destroyed in the reverse order
(`SaveRooms`, `SaveBanMap`, `SaveSettings`, each an `Open` and a `CloseFile`, or
`NothingToSave`). `Ban` and `RemoveBan` change the list in memory, `WriteBans` opens the file
once the mutex is free. `Crash` may happen anywhere, also in a write, which then leaves the empty
file; so do `LoginFails` and `ReadBlank`, which are the code's own ends. `Edit` is the
administrator's. In between the process thread serves (`Born`, `Login`, `Quit`, `Save`, `Ban`,
`RemoveBan`, `Alias`, `Describe`, `CreateBook`, `CreateCoin`, `TakeWhole`, `TakePart`) and the
save thread saves the room (`Autosave`). Every file of the size these have goes out in one
write, so a file is old, empty or new. Left out: more than one room or player, and with them
`get` from a player, passwords, the write of a room at the same time as a player's (in
`Autosave`).

### Terminal

State. `said` is the text given to `Connection::Write`, `text` the same with its colours
parsed, `out` what `formatWidth` has put out, `idx`, `count` and `start` its locals. `blind` and
`width` are what the player chose with `config`. A character stands for all of its kind; an
ANSI sequence is one character, an end of line is one.

Steps. `Write`, `Prompt` and `WriteList` give a text, parsed by `ParseColor`, filled in by
`Expanded`, or set in columns by `InColumns`. A turn of the loop of `formatWidth` is one of
`Newline`, `Color`, `Character`, `Break` and `WalksBackTooFar`, which ends in "lost": the code
then reads before the text or finds its last break again for ever. `EndText` and `Flush` end
the call. `listed` remembers a list that was set in columns. Left out: two texts at a time (both
threads format texts of their own), what commands say, and escapes that a client types: a
sequence is whole here.

### What the runs check

| run | instance | shows |
| --- | --- | --- |
| `login` | 2 connections, a new name, 2 attempts, a room for one, fair threads | `UniqueNames`, `NoDescriptorLeak`; `Consistent`, among whose conjuncts are `HandlersBound`, `PlayersHaveFiles` and `AttemptsEnforced`; that `Sessions` implements `Roster` (`RosterSpec`); `CommandsServed`; `ShutdownCompletes`: both threads come to an end, by the flag or by the cancellation |
| `connection` | in: up to 5 characters, a buffer of 4. Out: 2 threads, chunks of 2, a connection that stalls and breaks | `InputKept`, `LinesKeptApart`: however input is cut into reads; `SentInOrder`; `WakesWhileUp` while writes succeed |
| `heartbeat` | 2 players, 3 events, a delay of 2. A player, ice and an insulated stone, a cold and a hot room, three life points | `SlapHasEvent`, `SlapEnds`; `LifeAgrees`, `MatterAgrees`; `Toward`; `SettlesInTurn` |
| `messages` | 3 clients, 2 names, 2 rooms, 1 channel, a thing with a player's name. Texts of up to five pieces, widths 3 and 4, 3 lists, 2 prompts | `HeardOnce`, `NotOverheard`, `Echoed`; `OnlySpacesBecomeEnds`, `PlainLinesFit`, `AllReadTheSame`; `Sent` |
| `rooms` | 2 players, one called coin, 2 rooms, a book, 2 piles, hands for one, numbers to 2. 3 by 3 cells, 2 rooms with files, 1 watched, 2 directions, 2 strengths | `HeldOnce`, `WhereItSays`, `NotLost`; `WaysBack`, `Informed`; `Blown`: a shift turns the whole map round, the way the wind goes |
| `files` | 2 rooms, a timer of 1, a shutdown. 2 starts, 2 changes, a shipped room with a milestone and a pile, 4 documents with and without mistakes, 2 addresses | `DiskGoesForward`; `Consistent`, one of whose conjuncts is `PartialIsLocked`; `SavedEventually` while the server runs; `Restored`: whole files give back what was saved; `BansSurvive`, `NeverCutDown`, `NotOverwritten` |

Six runs end in a violation. Each states what a comment or a help text says and the code does
not do; the trace is in TLC's output, the quotation in section 3.

| run | property | what happens |
| --- | --- | --- |
| `dispatch` | `OwnCommand` | the driver erases between the iterator's two uses; a command goes to the next player |
| `holes` | `NothingSkipped` | a write takes a part of the buffer, and all of it is cleared; what comes next is sent behind the hole |
| `counted` | `AllCounted` | an event fires and is erased; the one behind it is not decremented in that heartbeat |
| `members` | `ChatForPlayers` | a listener leaves the game, somebody types his name, and is written the channel before the password |
| `width` | `LinesFit` | a colour stands just at the margin, and the line runs on behind it |
| `coins` | `NoCoinsFromNothing` | who has a pile gets a part of another; the old one keeps its coins |

Bounds. In `Sessions` `MaxQueue` caps waiting commands; one is enough, since a command's
effect does not depend on how many follow. `Player` bounds how many connections a
behaviour sees: two compete for a name and a place, and in `dispatch` a third is served in
the second one's place. In `Input` five characters and a buffer of four fill it, overflow
it by one and leave two lines. In `ClientSocket` `MaxText` is one more than `ChunkSize`, so
texts are shorter, equal and longer than a chunk, and `MaxSaid` lets two of them meet. In
`Events` three events give one that fires, one that is passed over and one behind it. In
`Autosave` two rooms make a pass that other steps fall between, a timer of 1 lets a request come
at every place of a pass, and two versions make an old one and a new one. In `World` numbers
to 2 reach the second match and the place behind the last, two coins make a pile that can be parted, and a player whose name is what coins
are called can stand before a pile; one thing fills hands and two a room. In `Talk` three
clients are a speaker, a hearer and one without a password, and two of them can want one
name. In `Weather` every cell of the first sky is of its own, a shift goes in all four
directions (southwest and east-northeast), three cells let two steps fit and wrap, and a
stable period of 2 lets the wind turn before and after a shift. In `Bodies` the rooms differ
by more than the ten degrees at which bodies change faster, insulation of 5 uses the faster
change up, ice melts and boils on its way and stands before a stone, and a player is hurt in
either room, destroyed in one, and can pass both limits of his life. In `Restart` two
starts (`MaxStarts`) are one that changes the shipped files and one that reads what it left,
changes and writes it again (what that leaves is no other than what the first may leave; a
third start doubles the states); two changes (`MaxChanges`) make a thing and take it, ban somebody and lift a ban, or make a mistake in the settings and ban somebody, with a
save, an end or a crash anywhere in between; a room for four and hands for two can be filled;
two coins (`MaxCoins`) can be parted. In `coins` four may lie about, so that there is room for
what comes from nothing. In `Terminal` five pieces, of up to four characters each, at a
width of three make words that fit, words that do not, spaces at, before and behind the
margin, and colours anywhere; `Floor` is the smallest width that `config` takes.

Fairness. `Sessions` and `ClientSocket`: each thread takes steps for ever, as the operating
system's scheduler provides; in `Sessions` neither waits for the other, which assumes that
writes to clients return. `Events`: the process thread comes
back to its heartbeat, whatever players do; so it does in `Bodies`. `Terminal`: the process
thread stays in a call until it returns. `Autosave`: each thread runs; strong fairness
says that the save thread is not starved of `mWriteLock` by player files, and that the
process thread's heartbeats go on between other commands. The properties `WakesWhileUp` and
`SavedEventually` are conditional: on writes that succeed, and on the server not being shut
down. In a run of two halves the fairness is that of the half that moves.

## 3. What the models show

### Where the repository says otherwise

The code does not do what these say. For each of the first six a run ends in a violation.

* `playerDatabase.cpp:231`: "This function calls the process() func for each player that has a
  waiting command". The iterator is used twice and the driver erases in between (`dispatch`).
* `connection.cpp:190`: "Sends text to the client and makes sure it gets written out";
  `client_socket.cpp:191`: "takes the current out_buffer and writes it out to the client in
  predefined chunk sizes". A short write, or a text longer than a chunk, loses the rest, as the
  buffer is cleared after one `write()` (`client_socket.cpp:220`; `holes`).
* `eventDaemon.cpp:26`: "It gets called every heartbeat, where it goes through all registered Event
  objects and tells them to decrement themselves". An event that fires makes the next one late
  by a heartbeat, and one whose player is gone makes all behind it late (`eventDaemon.cpp:74`,
  `94`; `counted`).
* `messageDaemon.cpp:231`: "This function, called during client logout, removes the client from all
  channels so messages won't be sent to the client anymore"; `player.cpp:24`: "The destructor
  removes all ChatChannel and Event subscriptions that were set up". The destructor never runs, as a
  player and its state object share each other (`player.cpp:27`, `connection.cpp:366`): a channel
  keeps the name of who left, events keep their targets, and whoever types the name is written
  the channel before the password (`members`).
* `client_socket.cpp:526-532`: "will skip over and not count color sequences", "not exceeding clients
  specified width in printable characters". A sequence is counted as one, and just at the margin
  it lets the line run on (`client_socket.cpp:550`; `width`).
* `get.cpp:54-59`: `get` "lets you retrieve an item", "A number preceding the item denotes quantity",
  "get 30 coins". For a part of a pile an inner `collection` hides the outer one (`get.cpp:705`), so
  the named pile keeps its coins; they are doubled when the taker has a pile, else his is empty
  (`coins`).
* `eventDaemon.cpp:119-120`: "removes all registered Event objects for a specific" player. Erasing
  under the iterator leaves every second one (`ClearEvents`).
* `playerDatabase.cpp:156`: "sends a message to every player object that is logged in". It goes to
  everybody in the list, also to those who are asked for a name or a password (`Broadcast`).
* `client_socket.cpp:197`: "This function only returns false if unable to lock the mutex". It does
  when `write()` fails, and keeps the mutex.
* `zoneDaemon.cpp:24`: "saves all the zones before it exits". A thread that was cancelled inside
  `FileIO::write` keeps the mutex that these saves need (`main.cpp:45`), and they do not come.
* `banMap.cpp:73`: "writes out the banned client information to preserve between reboots". An empty
  list cannot be written (`banMap.cpp:96`): the last ban that is lifted is there again after the
  next start.
* `config.cpp:215`: "config prompt default ... to reset your prompt to the default value". The prompt
  becomes the rest of what was typed, the word "default" (`config.cpp:244`).

### What no property says

These follow from the code and are in the models. Where one of them is an exception made by
a property, the property says so. We have found no comment, help text or test that settles
these cases.

* A player that leaves during a pass of `processCommands` makes the pass skip the next one
  (`playerDatabase.cpp:234`); it is served in a later pass, which is `CommandsServed`.
* A player removed by the driver while its password is being checked is put in the room
  afterwards and stays in its contents (`connStatePassword.cpp:87`).
* A new character is not put in its room until it moves or logs in again
  (`connStateCreate.cpp`).
* Declining to create a character and typing the name again meets one's own claim
  (`connStateLogin.cpp:54`): the name is refused.
* Login and Create read their `mPlayer` after `setConnectionState` has destroyed them
  (`connStateLogin.cpp:30`, `connStateCreate.cpp:70`), which Password avoids
  (`connStatePassword.cpp:110`).
* A write to a closed connection raises SIGPIPE, which nothing ignores
  (`client_socket.cpp:212`).
* A descriptor closed between `copy_fdset` and `select()` shuts the server down
  (`thread_functions.cpp:48`).
* Part of a line that arrives alone is a command of its own (`connection.cpp:232`), and a
  second read into the same array repeats the tail of the first (`client_socket.cpp:85`):
  `InputKept` stops there.
* A line of spaces does not let `stringClean` return, and the driver thread hangs
  (`utility.cpp:375`): the state "hung" of `Input`.
* The first wind told in a room is as its uninitialised memory has it (`room.cpp:26`), even
  "no change"; a room shows no weather until the wind turns or the map shifts.
* A condition that was saved with the player and loaded has no event and never ends
  (`physical.cpp:173`).
* An autosave request raised during a pass is cleared at its end
  (`thread_functions.cpp:247`); the change waits for the next one.
* A removal by the other thread closes a descriptor number read earlier, which may be
  somebody else's by now (`playerDatabase.cpp:101`); a write that fails keeps the mutex, and
  the next thread to write to that client waits for ever (`client_socket.cpp:216`).
* `get book 1` with one book reads past the end of a vector (`get.cpp:646`).
* All of a pile that is not the first match: the pile is taken, and the first match is
  taken out of where it was and told it is with the taker (`get.cpp:686`). A pile is then
  in two places, and a player may be in none.
* `get` flags no room as changed; a room that loses something is written all the same, as
  every room is.
* Who walks into a full room is in no room (`commandHandler.cpp:134`); who is removed by the
  driver between two rooms stays in the second (`commandHandler.cpp:140`).
* A player can be picked up, and then hears nothing and is in no room.
* A tell reaches whoever has claimed the name, before the password.
* Through an exit that leads back to its own room, those who are in it hear of the walk
  twice (`commandHandler.cpp:129`, `135`): as of somebody who leaves and who comes.
* A social at a thing with a player's name reaches that player wherever he is
  (`social.cpp:204`). An emote shows nobody what it says (`player.cpp:160`).
* Something fragile is destroyed by its second change of state, not by its first
  (`physical.cpp:408`): molten ice is destroyed by freezing again or by boiling.
* Large differences of temperature never take the branches written for them, which come
  after those for smaller ones (`physical.cpp:317`).
* When the last thing in a room is destroyed the iterator passes the end of the contents;
  when another is, the next one misses a heartbeat (`container.cpp:372`).
* A player who is destroyed is in no room and plays on; saved like that, he is destroyed
  again after each login. The dead walk, too.
* Who loses the connection comes back as he was last saved, alive again if he died since.
* Rooms are changed without their mutex while the save thread reads them
  (`commandHandler.cpp:128`). The look-up thread writes through a raw pointer to a connection
  that may be gone (`connection.cpp:281`).
* The settings are only written if no section is empty, so with the shipped file never. Once
  they are, the greeting is among the strings and no longer where it is read
  (`runtimeConfig.cpp:109`): the next start reads nothing.
* A mistake among the Booleans, the last section, costs those behind it.
* What is behind a pile without alloys in a room's or a player's contents is not written
  (`coin.cpp:140`); a part of a pile taken with `get` is such a pile.
* Players are not saved when the program stops; rooms are. After a crash a thing can be in
  two files or in none. With two players this needs no crash, as `get` also takes from a player
  in the room (`get.cpp:806-840`): one saves a book, the other gets it from him and saves, the
  first quits and comes back, and both have it. `Restart` has one player and does not show it.
* The empty file that a crash in a write leaves is no list of bans, no room and no player at the
  next start (`fileio.cpp:45`): bans are gone, and the player is a new one.
* A command that changes the bans may wait for the file mutex after it has changed them in
  memory; a crash then leaves the file as it was (`banMap.cpp:130`, `152`).
* A description is read from the player file and never written (`player.cpp:399`).
* A page comes back with an end to its last line, being written as a literal block
  (`readable.cpp:80`). A book without pages comes back with a page that says "~"
  (`readable.cpp:83`); reading one before that takes the page before the first (`read.cpp:165`).
* A word as long as the line, with no space before it in the line, sends the walk back past
  the line's beginning (`client_socket.cpp:564`); the process thread does not come back.
* The walk to the "m" of an escape sequence has no end either (`client_socket.cpp:552-554`): an
  escape typed by a client and told to others, with no "m" behind it, is read past the text.
* A prompt with the room or the exits in it takes the player's location for a room
  (`player.cpp:538`, `562-567`): while he is carried it is none, and a null is dereferenced.
  `Expanded` has the room there, or the text for none.
* Columns wider than the screen make no line at all, and all is in one.

## 4. What is proved

`SessionsProofs` proves, for any finite or infinite sets of players, names and
descriptors and any limits, from `SessionsAssumption` alone:

* `ConsistentAlways`: the inductive invariant `Consistent`.
* `TypeCorrect`, `NamesStayUnique`, `HandlersStayBound`, `PlayersKeepFiles`,
  `AttemptsAreEnforced`, `DescriptorsNeverLeak`: its conjuncts. The runs check the type
  invariant as part of `Consistent`.
* `ImplementsRoster`: `Spec => RosterSpec`.

The argument. None of the properties is inductive alone. `UniqueNames` needs to know that
between the lookup and the claim nobody else claims (`MidCommand`: only the process
thread sets names) and that whoever arrives has no name (`NewUnknown`). That a name is set
on the right player needs `LoginBound`: a login object was made when its player was last
in the list, so the lookup by descriptor found that player; later objects may be bound to
a stranger with the same number, and do not set names. `NoDescriptorLeak` needs `OwnersFd`
(a number is cleared only for its owner, or wrongly for a newer one, never missed) and
`AttemptsEnforced` needs `ListedOnce` (one erase is enough); both allow for a process thread that
was cancelled on the way. `Consistent` is their
conjunction; each conjunct has a lemma saying a step keeps it, which looks at the actions
that touch its variables one by one and dismisses the others by a lemma about who
changes what (`ListSteps`, `OwnerSteps`, `HandlerSteps`, `NameSteps`, `RemoveSteps`).

`ConnectionProofs` proves, of the output, for any threads, chunk size, lengths and conditions of the
connection, `ConsistentAlways` and from it `SentStaysInOrder`. What has been sent is in
order because what is still in the buffer is the latest run of characters (`OutIsLatest`),
nothing of it has been sent unless a clear is due (`UnsentInOut`), and between the write and
the clear the thread has the mutex, so nobody appends (`WritersHold`). Steps append, write,
clear or do neither; there is a lemma for each kind.

Of the input it proves, for buffers and texts of any length and any cut into reads,
`NoCommandOfTwoLines` and `EveryLetterQueued`. The commands in the queue are pieces of what
was typed, in its order (`Pieces`), and there is a function from each letter to the place it
was typed at; the program has no such function, and the invariant `InputInv` says that there
is one. Up to the place `Heard` nothing but ends of lines and spaces at the ends of lines
lies between the pieces (`NoneMissing`). Both properties speak of plain input: no read
filled the array and none began with an option.

`DiskProofs` proves, of the rooms, for any number of rooms, any timer and any number of changes,
`ConsistentAlways`, and from it `TypeCorrect`, `PartialStaysLocked` and `NoOldVersion`. Old
text could replace new text because `Room::Save` writes after it unlocks the room. It does
not, because the save thread reads and writes alone until `main()` starts its own saves,
and by then the save thread is cancelled and dies before its next write: `CopiesAgree` says
that a saver's copy is as new as the file unless the saver will die, and `LocksAgree` that
`main()` saves only after it cancelled. A partial file stays behind the mutex because only
its holder can be between opening and closing, dead or alive.

Of the next start it proves, for any addresses, reasons, keys and documents and any number of
starts, `BansAreKept` and `SettingsAreKept`. For the bans the invariant `BansKept` says that
while `BanMap` exists its file says what `settled` says, or is being written, or there is no ban
(`FileAgrees`), that `settled` is what is in memory unless the process thread waits to write
it, and that afterwards the file says what it said last or was cut short (`FileKeeps`); only
the process thread and the destructor write it, so nothing comes between (`WriteOfBans`). For the settings `SettingsKept` says that what is in memory is what could be
read of the file that is there, which nobody changes while the program is up. The rest is
about reading: a save that happens found no section empty, so every section but the last
was read to its end (`ReadToTheEnd`, `NothingCut`).

Of the room and the player it proves, for any capacities, texts, metals, amounts, aliases and
changes, any number of starts and ends wherever they come, `FilesGiveBack` and
`NobodyIsOverwritten`. The first half of the argument has no state: a class loads what it
saved, but for what `Restored` excepts (`Back`). `PhysicalKept` says so of nicknames and
conditions, `BookKept`, `MilestoneKept` and `CoinKept` of things, `ContentsKept` of what a
container holds, `ExitsKept` and `RoomKept` of rooms, `PlayerKept` of players. Three of these
loads add to what is there one node at a time and may refuse: a nickname twice, an alloy
beyond the whole, a thing beyond the capacity. Each proof follows the fold (`IsNicknamed`,
`IsAlloyed`, `IsLoaded`) and shows that after k nodes the first k things are there, because
what was saved had been accepted in that order before (`Distinct`, `WellAlloyed`, `ContentsOf`).
A pile may be beyond a full container's capacity, since nothing refuses it, and so
`ContentsOf` lets it.

The second half is what rooms and players are at any time. `RecordsInv` says of what is in
memory that such an operation made it (`InMemory`), of a file that is whole that it was saved
from the record in `kept` (`InFiles`), and of the file that is open that its text is the record's
and that its player still waits for it (`OnTheWay`), since the process thread saves. A load that
returns nothing thus had no record to read: that is `NobodyIsOverwritten`.

`VectorsProofs` has what the others rest on. `Chosen` says of `InOrder(s, I)`, the elements
of `s` at the places `I`, that there is an increasing function from its places onto `I`
(`Placed`); `Ordered`, `Taken` and `Longer` follow. `Least` stands in for induction: a set of
numbers that has a member has a least one, so a claim about every number follows from there
being no first exception. A `FoldLeft` of the model is a function on sets of positions that takes
the highest one first; `Iterates` says so, and `Coursed` turns it into a sequence of values, one
per element (`Course`), so that what every step keeps holds at the end.

`WorldProofs` proves, for any players, books, piles, rooms, ways and capacities,
`NothingIsTwice`, `LocationsAreTrue` and `NoBookIsLost`. The invariant
`WorldInv` binds everything that is not a pile to one holder: the one its location names, or,
for a player in an exit, the room ahead (`Bound`). Nothing is put anywhere that was not just
taken out of the place it is bound to, by a command or by the driver. `BooksInv` is that
every book there is has a holder: `get` into full hands puts it back or never took it.

`HeartbeatProofs` proves, for any limits, temperatures, insulation and contents, of `Bodies`
`LifeAlwaysAgrees`, `HeatGoesTowards` and `MatterAlwaysAgrees`. `WoundsAgree` compares the two
places that decide who lives; `DegreesTowards` shows that whatever branch is taken a step is in
the right direction and not too long. For matter `MatterInv` holds of what is in a room, of
who plays and of what files keep, and `PlaceInv` says that a thing is in no room but the one
it was found in, so that what is destroyed in its room is gone. Of `Events` it proves, for any
players and any delay, `EverySlapHasItsEvent`: an event goes only when it fires, and takes the condition with it, or
when its player is gone and has none; what erasing under the iterator passes over stays.

`MessageProofs` proves, of who hears what, for any clients, names, rooms, exits and channels,
`NobodyHearsTwice`, `RoomsAreNotForStrangers` and `WhoSpeaksIsAnswered`. The invariant
`TalkInv` says that the list has no name twice, as only the process thread claims names
(`ListedInv`), that a room has nobody twice and only players that were let in and say they
are in it (`InsideInv`), and that a channel has no listener twice (`ListenersInv`). A
delivery to one of these tells nobody twice (`ToldByRoom`, `ToldByName`, `ToldByChannel`); two
deliveries of one command have no hearer in common, since a player is in one room and a
social spares its target the others' version (`ToldOfWalk`, `ToldOfSocial`).
`NobodyHearsTwice` has the hypothesis that no exit leads back to its own room (section 3).

`MessageProofs` proves, of the texts, for any widths and characters, `LinesAreKept`,
`NeverLostIfWordsFit`, `NoLineIsTooWide` and `ColoursAreNotLetters`. The first rests on `Kept`:
what is out is as long as the text before
`start`, `start` is not past the place looked at, and character by character only spaces
became ends (`Stretch`, `StretchAndEnd`). The second rests on `Counted`: the `count - 1`
characters behind belong to this line and none is an end, so at the margin a stretch of a
line's length lies behind, which has a space if words fit. The third is about texts without colours, as section 3 says why, and rests on `WidthInv`: in the
text as it would be if nothing more were broken (`Line`), no line before the place looked
at is too wide, and the last one began `count` places behind (`FilledTo`). A list set in
columns is a row of cells of one width with an end after so many (`Cells`, `CellFits`), which
`ListFills` brings to the same form. The fourth compares two parses of one text, which skip the
same characters and put out the same letters at every one (`SameSoFar`); it speaks of texts
that bring no escape sequences of their own. That every call also ends is
liveness, and `Sent` is model-checked.

`WeatherProofs` proves, for a map of any size, any sky and any winds, `ThereIsAWayBack`,
`PeopleAreInformed` and `TheMapIsBlown`. For the rooms `ExitsOf` gives the neighbours on the
map and nothing else (`ExitsAreNeighbours`), the eight ways are in opposite pairs, and the
counter of the check visits every cell (`Counting`). For what people know the invariant
`SeenInv` says that a room shows the weather of its cell or has never shown any, and that
then nobody in it knows of a wind who did not look. A shift is a turn of the whole map by one
cell (`Turned`), whatever the wind, and by two steps in the wind's direction if it has one.

Assumptions. Each proof uses the named assumptions of its module's constants and nothing
else, and TLC evaluates them in the runs. Most are about types, or keep the markers of a
model (`Nobody`, `Nowhere`, `Carried`, `None`) and its kinds of things apart. The others:
`BansAssumption`: a missing or truncated file is no list of bans. `DocumentsAssumption`: a
section that is a map uses the keys there are. `WeatherAssumption`: the maps fit each other.
`NamesAssumption`: books and coins, which constructors name, have no name in common.
`BodiesAssumption`: a body begins no warmer than it melts, melts no warmer than it boils, and
a thing is found in one room. `TalkAssumption`: what lies about is no player.
`RecordsAssumption`: the metals are in the order of `std::map`, so copper is before iron.
`NullAssumption`: a null is no text, no list and no map. `ShippedAssumption`: the room there is at
first could be loaded, and its exits have names of their own.
`RestartAssumption`: the identities of books are texts.

Only model-checked: liveness under fairness (`CommandsServed`, `ShutdownCompletes`,
`WakesWhileUp`, `SlapEnds`, `SavedEventually`, `SettlesInTurn`, `Sent`), which this proof
system does not reach. Every invariant and every action property that a passing run checks
is proved. What a run of section 3 refutes is proved of nothing, but for what remains of it:
`SentInOrder` of `NothingSkipped`, `SlapHasEvent` of `AllCounted`, `NotOverheard` of
`ChatForPlayers`, `PlainLinesFit` of `LinesFit`.

## 5. Not modelled, and plan

Not modelled: the database (`mudsql`, `Query`, `MySQL_Server`), which the default build leaves
out; the loading of plug-ins and of commands; the log and the statistics, which only format
and append; commands that only show something (`who`, `look` at things, `help` and the like);
the experiments beside the program; parsers of map keys and the drawing of maps; telnet
options; opening the listening socket and looking names up. `Wearable`, `Item`, most of
`Exit`, `RuntimeConfig::set` and `Readable`'s changes have no callers in the program.

Plan, in this order:

1. Two players in `Restart`, with `get` from a player.
2. The reading of zone and map files, and drawing a part of a map at its edges.
3. The escapes that clients type, character by character, in `Terminal`.
