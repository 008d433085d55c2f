------------------------------ MODULE Restart ------------------------------
(***************************************************************************)
(* What a run of the program leaves to the next: settings, bans, a room    *)
(* and a player, each with its file.  Global's members are built in their  *)
(* order and destroyed in the reverse one: the rooms, the bans and the     *)
(* settings are saved at the end, players are not.  FileIO::write          *)
(* truncates a file and then fills it, and the program may die at any      *)
(* moment.  Every file fits the stream's buffer, so it is empty or whole.  *)
(*                                                                         *)
(* There is one player, so the part of `get` that takes from somebody else *)
(* is not here: with two, a book that one of them has saved can go to the  *)
(* other, and both files have it.                                          *)
(*                                                                         *)
(* How two savers share a room and the file mutex is in Autosave; all of   *)
(* `get` is in World.  RuntimeConfig::set() is called by nobody.           *)
(***************************************************************************)
EXTENDS Records, Settings

CONSTANTS
    NoFile, Torn,       \* a file that is not there; one that was only truncated
    Ips, Reasons,
    Ids,                \* what books can be called
    ShippedConfig, ShippedBans, ShippedRoom,   \* the files of the first start
    Documents,          \* what an administrator may make of the settings
    Words, Commands,    \* of aliases
    RoomName,
    RoomCapacity, PlayerCapacity,
    MaxStarts,          \* bound: how often the program is started
    MaxChanges,         \* bound: how many commands change something
    MaxCoins            \* bound: coins in one pile

ASSUME RestartAssumption ==
    /\ RoomCapacity \in Nat /\ PlayerCapacity \in Nat
    /\ MaxStarts \in Nat /\ MaxChanges \in Nat /\ MaxCoins \in Nat
    /\ Ids \subseteq Text /\ 1 \in DOMAIN Commands

\* the room there is at first is one that could be loaded
Exits == [name : Text, to : Text, key : Text, closed : BOOLEAN, locked : {FALSE}]
AliasMaps == [Words -> Elements(Commands)]
ASSUME ShippedAssumption ==
    /\ ShippedRoom = [interest |-> ShippedRoom.interest, exits |-> ShippedRoom.exits,
                      contents |-> ShippedRoom.contents]
    /\ ShippedRoom.interest = [w \in DOMAIN ShippedRoom.interest |-> ShippedRoom.interest[w]]
    /\ ShippedRoom.exits \in Seq(Exits)
    /\ \A i, j \in DOMAIN ShippedRoom.exits :
          ShippedRoom.exits[i].name = ShippedRoom.exits[j].name => i = j
    /\ ShippedRoom.contents \in ContentsOf(RoomCapacity)
    /\ Null # ShippedRoom.interest /\ Null \notin AliasMaps

BanMaps == UNION {[banned -> Reasons] : banned \in SUBSET Ips}

\* a file that is missing or empty, or no file at all, is no list of bans
ASSUME BansAssumption ==
    /\ ShippedBans \in BanMaps
    /\ NoFile \notin BanMaps /\ Torn \notin BanMaps /\ Unwritten \notin BanMaps
    /\ NoFile # Torn

Already(doc, kind) == IF kind = "Strings" THEN [k \in {"Greeting"} |-> doc.Greeting] ELSE NoKeys

\* a section that is a map uses the keys there are, and is a map when it was read
ASSUME DocumentsAssumption ==
    \A doc \in Documents \cup {ShippedConfig}, kind \in Kinds :
        IsMap(doc[kind]) =>
            DOMAIN doc[kind] \subseteq Key /\ IsMap(Joined(Already(doc, kind), doc[kind]))

VARIABLES
    phase,    \* what the program does
    config,   \* the maps of RuntimeConfig
    bans,     \* BanMap::mBannedList
    room,     \* the room, None if it was not loaded
    player,   \* the player, None if he is not playing
    files,
    write,    \* the file that is open in FileIO::write, what goes into it and who writes;
              \* history: what it is made of and what the file was before
    kept,     \* history: the player and the room that were last written
    waits,    \* the process thread has changed the bans and is not yet in FileIO::write
    settled,  \* history: the bans before that change, or as they are
    left,     \* history: what the bans were when the last run ended; if it ended while
              \* the process thread waited, also what they were before
    changes, starts

vars == <<phase, config, bans, room, player, files, write, kept, waits, settled, left,
          changes, starts>>

NoWrite == [file |-> "none", of |-> None, text |-> None, before |-> None, by |-> "nobody"]
NoBans == NoKeys
Complete(f) == files[f] \notin {NoFile, Torn}

Init ==
    /\ phase = "down"
    /\ config = Blank /\ bans = NoBans /\ room = None /\ player = None
    /\ files = [config |-> ShippedConfig,
                bans |-> IF DOMAIN ShippedBans = {} THEN NoFile ELSE ShippedBans,
                room |-> RoomSave(ShippedRoom), player |-> NoFile]
    /\ write = NoWrite
    /\ kept = [player |-> None, room |-> ShippedRoom]
    /\ waits = FALSE /\ settled = ShippedBans /\ left = {ShippedBans}
    /\ changes = 0 /\ starts = 0

-----------------------------------------------------------------------------
(* FileIO::write, in two steps *)

Open(f, of, text, by) ==
    /\ write = NoWrite
    /\ files' = [files EXCEPT ![f] = Torn]
    /\ write' = [file |-> f, of |-> of, text |-> text, before |-> files[f], by |-> by]

\* ~ZoneDaemon, ~Zone, ~BanMap and ~RuntimeConfig come one after the other
After(p) == CASE p = "rooms" -> "zones" [] p = "zones" -> "bans" [] p = "bans" -> "config"
             [] p = "config" -> "down" [] OTHER -> p

\* the members that are still there in a phase
Destroyed(p) ==
    /\ room' = IF p \in {"up", "rooms", "zones"} THEN room ELSE None
    /\ bans' = IF p \in {"up", "rooms", "zones", "bans"} THEN bans ELSE NoBans
    /\ left' = IF p = "config" /\ phase = "bans" THEN {bans, settled} ELSE left
    /\ config' = IF p = "down" THEN Blank ELSE config

CloseFile ==
    /\ write # NoWrite
    /\ files' = [files EXCEPT ![write.file] = write.text]
    /\ write' = NoWrite
    /\ kept' = IF write.file \in DOMAIN kept THEN [kept EXCEPT ![write.file] = write.of] ELSE kept
    /\ phase' = After(phase) /\ Destroyed(After(phase))
    /\ UNCHANGED <<player, waits, settled, changes, starts>>

-----------------------------------------------------------------------------
(* Starts and ends *)

LoadedRoom(text) == IF text \in {NoFile, Torn} THEN None ELSE RoomLoad(text, RoomCapacity)

Start ==
    /\ phase = "down" /\ starts < MaxStarts
    /\ phase' = "up" /\ starts' = starts + 1
    /\ config' = IF Complete("config") THEN LoadConfig(files.config) ELSE Blank
    /\ bans' = IF Complete("bans") THEN LoadBans(files.bans) ELSE NoBans
    /\ room' = LoadedRoom(files.room)
    /\ settled' = bans'
    /\ UNCHANGED <<player, files, write, kept, waits, left, changes>>

\* main() cancels the process thread, which may be waiting for the file mutex
Stop ==
    /\ phase = "up" /\ write = NoWrite
    /\ phase' = "rooms" /\ player' = None /\ waits' = FALSE
    /\ UNCHANGED <<config, bans, room, files, write, kept, settled, left, changes, starts>>

SaveRooms ==
    /\ phase \in {"rooms", "zones"} /\ room # None
    /\ Open("room", room, RoomSave(room), "main")
    /\ UNCHANGED <<phase, config, bans, room, player, kept, waits, settled, left, changes, starts>>

SaveBanMap ==
    /\ phase = "bans" /\ SaveBans(bans) # Unwritten
    /\ Open("bans", bans, SaveBans(bans), "main")
    /\ settled' = bans
    /\ UNCHANGED <<phase, config, bans, room, player, kept, waits, left, changes, starts>>

SaveSettings ==
    /\ phase = "config" /\ SaveConfig(config) # Unwritten
    /\ Open("config", config, SaveConfig(config), "main")
    /\ UNCHANGED <<phase, config, bans, room, player, kept, waits, settled, left, changes, starts>>

\* no room, or an emitter that is no good
NothingToSave ==
    /\ \/ phase \in {"rooms", "zones"} /\ room = None
       \/ phase = "bans" /\ SaveBans(bans) = Unwritten
       \/ phase = "config" /\ SaveConfig(config) = Unwritten
    /\ phase' = After(phase) /\ Destroyed(After(phase))
    /\ UNCHANGED <<player, files, write, kept, waits, settled, changes, starts>>

Dies ==
    /\ phase' = "down" /\ write' = NoWrite
    /\ config' = Blank /\ bans' = NoBans /\ room' = None /\ player' = None
    /\ waits' = FALSE
    /\ left' = IF phase = "config" THEN left ELSE {bans, settled}
    /\ UNCHANGED <<files, kept, settled, changes, starts>>

Crash == phase # "down" /\ Dies

\* an administrator changes the settings' file while the program is down
Edit ==
    /\ phase = "down" /\ changes < MaxChanges
    /\ \E doc \in Documents : files' = [files EXCEPT !.config = doc]
    /\ changes' = changes + 1
    /\ UNCHANGED <<phase, config, bans, room, player, write, kept, waits, settled, left, starts>>

-----------------------------------------------------------------------------
(* The process thread, which waits while it saves, and the save thread *)

Idle == phase = "up" /\ ~waits /\ (write # NoWrite => write.by = "save thread")

Changing == Idle /\ changes < MaxChanges /\ changes' = changes + 1

Autosave ==
    /\ phase = "up" /\ room # None
    /\ Open("room", room, RoomSave(room), "save thread")
    /\ UNCHANGED <<phase, config, bans, room, player, kept, waits, settled, left, changes, starts>>

Ban(ip, reason) ==
    /\ Changing /\ ~IsBanned(bans, ip)
    /\ bans' = Banned(bans, ip, reason)
    /\ waits' = TRUE
    /\ UNCHANGED <<phase, config, room, player, files, write, kept, settled, left, starts>>

\* mistaken: the file is not written
RemoveBanForgets(ip) ==
    /\ Changing /\ IsBanned(bans, ip)
    /\ bans' = Lifted(bans, ip) /\ settled' = bans'
    /\ UNCHANGED <<phase, config, room, player, files, write, kept, waits, left, starts>>

RemoveBan(ip) ==
    /\ Changing /\ IsBanned(bans, ip)
    /\ bans' = Lifted(bans, ip)
    /\ IF SaveBans(bans') = Unwritten THEN settled' = bans' /\ UNCHANGED waits
       ELSE waits' = TRUE /\ UNCHANGED settled
    /\ UNCHANGED <<phase, config, room, player, files, write, kept, left, starts>>

\* the list that was changed, once the file mutex is free
WriteBans ==
    /\ phase = "up" /\ waits
    /\ Open("bans", bans, SaveBans(bans), "process")
    /\ waits' = FALSE /\ settled' = bans
    /\ UNCHANGED <<phase, config, bans, room, player, kept, left, changes, starts>>

-----------------------------------------------------------------------------
(* Players.  Whether a client is banned is asked when it connects (Sessions), *)
(* not when it logs in.                                                    *)

WithPlayer(r) == [r EXCEPT !.contents = ContainerAdd(@, RoomCapacity, InRoom).contents]
WithoutPlayer(r) ==
    IF r = None THEN r ELSE [r EXCEPT !.contents = Without(@, InRoom)]

LoadedPlayer(text) ==
    IF text \in {NoFile, Torn} THEN None ELSE PlayerLoad(text, PlayerCapacity)

Arrives == Idle /\ player = None

StartingRoom == Value(config, "Strings", "StartingRoom", "")

\* a player without a record is a new one: he gets the default aliases, is
\* saved, and is in no room
Born ==
    /\ Arrives /\ LoadedPlayer(files.player) = None
    /\ player' = [NewPlayer EXCEPT !.location = StartingRoom,
                                   !.aliases = [w \in Words |-> Commands[1]]]
    /\ Open("player", player', PlayerSave(player'), "process")
    /\ UNCHANGED <<phase, config, bans, room, kept, waits, settled, left, changes, starts>>

\* his room, or else the starting room; a full room refuses him
Login ==
    /\ Arrives /\ room # None
    /\ \E who \in {LoadedPlayer(files.player)} \ {None} :
          /\ who.location = RoomName \/ StartingRoom = RoomName
          /\ IF Len(room.contents) < RoomCapacity
             THEN /\ player' = [who EXCEPT !.location = RoomName]
                  /\ room' = WithPlayer(room)
             ELSE UNCHANGED <<player, room>>
    /\ UNCHANGED <<phase, config, bans, files, write, kept, waits, settled, left, changes, starts>>

\* no such room and no starting room: assert(), or a null zone is asked for it
LoginFails ==
    /\ Arrives
    /\ \E who \in {LoadedPlayer(files.player)} \ {None} :
          room = None \/ (who.location # RoomName /\ StartingRoom # RoomName)
    /\ Dies

Quit ==
    /\ Idle /\ player # None
    /\ player' = None /\ room' = WithoutPlayer(room)
    /\ UNCHANGED <<phase, config, bans, files, write, kept, waits, settled, left, changes, starts>>

Save ==
    /\ Idle /\ player # None
    /\ Open("player", player, PlayerSave(player), "process")
    /\ UNCHANGED <<phase, config, bans, room, player, kept, waits, settled, left, changes, starts>>

Alias ==
    /\ Changing /\ player # None
    /\ \E w \in Words, i \in DOMAIN Commands : player' = AddAlias(player, w, Commands[i])
    /\ UNCHANGED <<phase, config, bans, room, files, write, kept, waits, settled, left, starts>>

\* appends a text, or clears what is there
Describe ==
    /\ Changing /\ player # None
    /\ player' = [player EXCEPT !.description = IF @ = "" THEN "described" ELSE ""]
    /\ UNCHANGED <<phase, config, bans, room, files, write, kept, waits, settled, left, starts>>

\* `read` of a book without pages: the page before the first one is no text
ReadBlank ==
    /\ Idle /\ player # None /\ room # None
    /\ \E c \in {player.contents, room.contents} : \E i \in DOMAIN c :
          c[i].type = "book" /\ c[i].pages = <<>>
    /\ Dies

-----------------------------------------------------------------------------
(* Things *)

ThingsIn(contents) == Without(contents, InRoom)
IdsIn(contents) == {contents[i].id : i \in {j \in DOMAIN contents :
                                               contents[j].type \in {"book", "milestone"}}}

AtWork == Changing /\ player # None /\ room # None /\ player.location = RoomName

CreateThing(t) ==
    /\ AtWork
    /\ room' = [room EXCEPT !.contents = ContainerAdd(@, RoomCapacity, t).contents]
    /\ UNCHANGED <<phase, config, bans, player, files, write, kept, waits, settled, left, starts>>

\* a new one is of no thing there is, nor of one in a file
UsedIds ==
    LET writing == IF write.file \in DOMAIN kept THEN {write.of} ELSE {}
    IN  UNION {IdsIn(p.contents) : p \in ({room, player, kept.player, kept.room} \cup writing) \ {None}}

CreateBook == \E id \in Ids \ UsedIds : CreateThing(NewReadable("book", id))

Quantity(contents) == MapThenSumSet(LAMBDA i : contents[i].quantity,
                                    {i \in DOMAIN contents : contents[i].type = "coin"})

CreateCoin ==
    /\ room # None /\ Quantity(room.contents) < MaxCoins
    /\ CreateThing(AddAlloy(AddAlloy(NewCoin(1), "copper", 90), "iron", 10))

\* `get` of a thing, or of all of the pile there
TakeWhole ==
    /\ AtWork
    /\ \E i \in DOMAIN room.contents :
          LET t == room.contents[i]
              to == ContainerAdd(player.contents, PlayerCapacity, t)
          IN  /\ t.type # "player" /\ to.added
              /\ Quantity(to.contents) <= MaxCoins
              /\ player' = [player EXCEPT !.contents = to.contents]
              /\ room' = [room EXCEPT !.contents = RemoveAt(@, i)]
    /\ UNCHANGED <<phase, config, bans, files, write, kept, waits, settled, left, starts>>

\* `get` of a part of a pile: the factory's new coin has no alloys; it is
\* merged with its quantity, or loses it again, and the pile there loses none
TakePart ==
    /\ AtWork
    /\ \E i \in DOMAIN room.contents :
          /\ room.contents[i].type = "coin"
          /\ \E n \in 1 .. room.contents[i].quantity - 1 :
                LET merges == \E j \in DOMAIN player.contents : player.contents[j].type = "coin"
                    to == ContainerAdd(player.contents, PlayerCapacity,
                                       NewCoin(IF merges THEN n ELSE 0))
                IN  /\ Quantity(to.contents) <= MaxCoins
                    /\ player' = [player EXCEPT !.contents = to.contents]
    /\ UNCHANGED <<phase, config, bans, room, files, write, kept, waits, settled, left, starts>>

-----------------------------------------------------------------------------

Serving ==
    \/ \E ip \in Ips, reason \in Reasons : Ban(ip, reason)
    \/ \E ip \in Ips : RemoveBan(ip)
    \/ WriteBans
    \/ Born \/ Login \/ LoginFails \/ Quit \/ Save
    \/ Alias \/ Describe \/ ReadBlank
    \/ CreateBook \/ CreateCoin \/ TakeWhole \/ TakePart

Next ==
    \/ Start \/ Stop \/ SaveRooms \/ SaveBanMap \/ SaveSettings \/ NothingToSave
    \/ CloseFile \/ Crash \/ Edit
    \/ Autosave \/ Serving

Spec == Init /\ [][Next]_vars

-----------------------------------------------------------------------------
(* What holds *)

\* what the code changes by saving and loading: a page ends its last line, and
\* a book without pages gets one
PagesBack(pages) ==
    IF pages = <<>> THEN <<"~">> ELSE [i \in DOMAIN pages |-> LineEnded(pages[i])]

Back(t) == IF t.type \in {"book", "milestone"} THEN [t EXCEPT !.pages = PagesBack(@)] ELSE t
ReadBack(contents) == [i \in DOMAIN contents |-> Back(contents[i])]

UpToSpoiler(things) ==
    IF \E i \in DOMAIN things : SpoilsEmitter(things[i])
    THEN SubSeq(things, 1, SelectInSeq(things, SpoilsEmitter)) ELSE things

\* A file that is whole gives back the room, or the player, that was last
\* written into it: exits, aliases, languages, nicknames, conditions, and
\* every thing with its alloys and pages, in order.  The exceptions are the
\* description, which is read and never written, blank books, the end of a
\* page's last line, and what is behind a pile of coins without alloys, which
\* is lost without a word.
Restored ==
    /\ Complete("room") =>
          LoadedRoom(files.room) =
             [kept.room EXCEPT !.contents = ReadBack(UpToSpoiler(ThingsIn(@)))]
    /\ Complete("player") =>
          LoadedPlayer(files.player) =
             [kept.player EXCEPT !.description = "",
                                 !.contents = ReadBack(UpToSpoiler(ThingsIn(@)))]

\* The bans at a start are those of the end of the last run, however it ended,
\* but for three cases: it died while it wrote them; it ended after a command
\* had changed the list and before the file was open, then they may be those
\* before the command; an empty list cannot be written, so the last ban that
\* was removed is there again.
BansSurvive ==
    [][phase = "down" /\ phase' = "up" =>
          bans' \in left \/ files.bans = Torn \/ NoBans \in left]_vars

Readable(section) ==
    IF IsMap(section) THEN Restricted(section, {k \in DOMAIN section : section[k] # Unreadable}) ELSE NoKeys

\* What an administrator wrote into the settings is not cut down when the
\* settings are saved, although reading stops at the first mistake and what
\* comes after it is not in memory: an empty map keeps the file from being
\* written.  Not so for a mistake among the Booleans, which come last.
NeverCutDown ==
    [][phase = "config" /\ files'.config # files.config /\ write # NoWrite =>
          \A k \in Kinds :
             LET old == Readable(write.before[k])
                 new == Readable(files'.config[k])
             IN  (k = "Booleans" /\ IsMap(write.before[k]) => old = write.before[k])
                 => \A x \in DOMAIN old : x \in DOMAIN new /\ new[x] = old[x]]_vars

\* A new player never takes the file of one who is there: his record loads,
\* empty-handed or not, unless the program died while it wrote it.
NotOverwritten ==
    [][write = NoWrite /\ write' # NoWrite /\ write'.file = "player" /\ player = None =>
          write'.before \in {NoFile, Torn}]_vars
=============================================================================
