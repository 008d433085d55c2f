-------------------------------- MODULE Talk --------------------------------
(* Who is written which message: the broadcasts of the player list, rooms,   *)
(* chat channels, tells and socials, while clients claim names, log in,      *)
(* walk, are picked up and leave.  A message is kept as its type, its sender *)
(* and its header; names are compared without case, so a Name has none.      *)
EXTENDS Vectors

CONSTANTS
    Clients,            \* Player objects, one for each accepted connection
    Names, NoName,      \* what players and things are called
    Registered,         \* names with a player file at the start
    Rooms, StartRoom, LostAndFound, Exits, RoomCapacity,
    Channels,
    Things, ThingName, Lying    \* things, their names, and what lies in a room

Nobody == "nobody"
Carried == "carried"    \* any location that is not a room: somebody's hands

ASSUME TalkAssumption ==
    /\ Registered \subseteq Names /\ NoName \notin Names
    /\ StartRoom \in Rooms /\ LostAndFound \in Rooms /\ Exits \subseteq Rooms \X Rooms /\ RoomCapacity \in Nat
    /\ ThingName \in [Things -> Names] /\ Lying \in [Rooms -> Seq(Things)]
    /\ Clients \cap Things = {} /\ Carried \notin Rooms /\ Nobody \notin Clients

VARIABLES
    list,       \* mPlayerList
    stage,      \* of a client: its connection state, "absent" before and "gone" after
    name,       \* mName, claimed before the password is known
    location,   \* mObjectLocation
    inside,     \* mContents of a room: players and things
    files,      \* names with a player file
    listeners,  \* mListeners of a channel: names
    entering,   \* the client between its announcement and its room
    heard       \* what the step just taken wrote to clients

talkVars == <<list, stage, name, location, inside, files, listeners, entering, heard>>

(* A new Player object says it is in the lost-and-found room, whose contents *)
(* do not have it                                                            *)
TalkInit ==
    /\ list = <<>>
    /\ stage = [p \in Clients |-> "absent"]
    /\ name = [p \in Clients |-> NoName]
    /\ location = [p \in Clients |-> LostAndFound]
    /\ inside = Lying
    /\ files = Registered
    /\ listeners = [c \in Channels |-> <<>>]
    /\ entering = Nobody
    /\ heard = <<>>

----------------------------------------------------------------------------
(* Delivery *)

NameOf(x) == IF x \in Clients THEN name[x] ELSE ThingName[x]

(* getPlayer(): the last of the list with this name; a sequence of at most one *)
Named(n) == LET at == {i \in DOMAIN list : name[list[i]] = n}
            IN  IF at = {} THEN <<>> ELSE <<list[CHOOSE i \in at : \A j \in at : j <= i]>>

Msg(type, from, header) == [type |-> type, from |-> from, header |-> header]

(* What processMessage() keeps from a player: its own doings, and what others *)
(* are shown of a social that was done to it                                  *)
Ignores(p, m) ==
    \/ location[p] \notin Rooms
    \/ m.type \in {"Login", "Quit", "Social", "EntranceExit"} /\ m.from = name[p]
    \/ m.type = "Social" /\ m.header = name[p]

(* The message m, written to those of the sequence s that do not ignore it *)
Written(s, m) ==
    LET able == InOrder(s, {i \in DOMAIN s : s[i] \in Clients /\ ~Ignores(s[i], m)})
    IN  [i \in DOMAIN able |-> [who |-> able[i], type |-> m.type, from |-> m.from]]

Broadcast(m) == Written(list, m)

ToLocation(r, m) == Written(InOrder(list, {i \in DOMAIN list : location[list[i]] = r}), m)

(* resendMessage() of a room.  Speech and weather are passed on to what a    *)
(* player carries, which is not in a room and ignores them.                  *)
ToRoom(r, m) == IF r \in Rooms THEN Written(inside[r], m) ELSE <<>>

(* MessageDaemon::processMessage() with a recipient *)
ToName(n, m) == Written(Named(n), m)

Playing(p) == entering = Nobody /\ p \in Elements(list) /\ stage[p] = "playing"

----------------------------------------------------------------------------
(* Coming and going *)

(* PlayerDatabase::remove() *)
Removed(p) ==
    /\ list' = Without(list, p)
    /\ stage' = [stage EXCEPT ![p] = "gone"]
    /\ inside' = [r \in Rooms |-> IF r = location[p] THEN Without(inside[r], p) ELSE inside[r]]

(* The driver accepts *)
Connect(p) ==
    /\ stage[p] = "absent"
    /\ list' = Append(list, p)
    /\ stage' = [stage EXCEPT ![p] = "login"]
    /\ heard' = <<>>
    /\ UNCHANGED <<name, location, inside, files, listeners, entering>>

(* The driver finds the connection dead *)
Drop(p) ==
    /\ p \in Elements(list) /\ Removed(p) /\ heard' = <<>>
    /\ UNCHANGED <<name, location, files, listeners, entering>>

HeldByPlaying(n) == Named(n) # <<>> /\ stage[Named(n)[1]] = "playing"

Held(n) == Named(n) # <<>>

(* A name is typed.  A player with a file is loaded, with the room it was    *)
(* saved in; without one the client is asked whether to create it, and may   *)
(* then type another name.                                                   *)
Login(p, n) ==
    /\ entering = Nobody /\ p \in Elements(list) /\ stage[p] = "login" /\ heard' = <<>>
    /\ \/ /\ Held(n) /\ Removed(p)
          /\ UNCHANGED <<name, location>>
       \/ /\ ~Held(n)
          /\ name' = [name EXCEPT ![p] = n]
          /\ IF n \in files
             THEN /\ stage' = [stage EXCEPT ![p] = "password"]
                  /\ \E r \in Rooms : location' = [location EXCEPT ![p] = r]
             ELSE UNCHANGED <<stage, location>>
          /\ UNCHANGED <<list, inside>>
    /\ UNCHANGED <<files, listeners, entering>>

AgreesToCreate(p) ==
    /\ entering = Nobody /\ p \in Elements(list) /\ stage[p] = "login" /\ name[p] \notin files \cup {NoName}
    /\ stage' = [stage EXCEPT ![p] = "create"] /\ heard' = <<>>
    /\ UNCHANGED <<list, name, location, inside, files, listeners, entering>>

(* The right password: everybody is told, then the player is put in its room *)
Announce(p) ==
    /\ entering = Nobody /\ p \in Elements(list) /\ stage[p] = "password"
    /\ heard' = Broadcast(Msg("Login", name[p], NoName))
    /\ entering' = p
    /\ UNCHANGED <<list, stage, name, location, inside, files, listeners>>

(* The driver may have removed the player since; it is put in the room all   *)
(* the same.  A full room removes it.                                        *)
EnterRoom(p) ==
    /\ entering = p
    /\ IF Len(inside[location[p]]) < RoomCapacity
       THEN /\ inside' = [inside EXCEPT ![location[p]] = Append(@, p)]
            /\ stage' = [stage EXCEPT ![p] = IF p \in Elements(list) THEN "playing" ELSE "gone"]
            /\ UNCHANGED list
       ELSE Removed(p)
    /\ entering' = Nobody /\ heard' = <<>>
    /\ UNCHANGED <<name, location, files, listeners>>

(* A new character is in the starting room for messages, not in its contents *)
Create(p) ==
    /\ entering = Nobody /\ p \in Elements(list) /\ stage[p] = "create"
    /\ location' = [location EXCEPT ![p] = StartRoom]
    /\ heard' = Broadcast(Msg("Login", name[p], NoName))
    /\ files' = files \cup {name[p]}
    /\ stage' = [stage EXCEPT ![p] = "playing"]
    /\ UNCHANGED <<list, name, inside, listeners, entering>>

Quit(p) ==
    /\ Playing(p)
    /\ heard' = Broadcast(Msg("Quit", name[p], NoName))
    /\ Removed(p)
    /\ UNCHANGED <<name, location, files, listeners, entering>>

(* Walking: those left behind are told, then those in the new room, full or not *)
Walk(p, r) ==
    /\ Playing(p) /\ <<location[p], r>> \in Exits
    /\ LET m == Msg("EntranceExit", name[p], NoName)
           left == [inside EXCEPT ![location[p]] = Without(@, p)]
       IN  /\ inside' = IF Len(left[r]) < RoomCapacity THEN [left EXCEPT ![r] = Append(@, p)] ELSE left
           /\ heard' = Written(left[location[p]], m) \o Written(inside'[r], m)
    /\ location' = [location EXCEPT ![p] = r]
    /\ UNCHANGED <<list, stage, name, files, listeners, entering>>

(* `get` of a player *)
PickUp(p, q) ==
    /\ Playing(p) /\ location[p] \in Rooms /\ q \in Elements(inside[location[p]])
    /\ inside' = [inside EXCEPT ![location[p]] = Without(@, q)]
    /\ location' = [location EXCEPT ![q] = Carried]
    /\ heard' = <<>>
    /\ UNCHANGED <<list, stage, name, files, listeners, entering>>

----------------------------------------------------------------------------
(* Commands *)

Silent == UNCHANGED <<list, stage, name, location, inside, files, entering>>

(* ChatChannel::add() and remove(); nothing bans, and nothing calls leaveAll() *)
AddListener(c, n) ==
    listeners' = [listeners EXCEPT ![c] = IF n \in Elements(@) THEN @ ELSE Append(@, n)]

RemoveListener(c, n) ==
    listeners' = [listeners EXCEPT ![c] =
                     LET at == {i \in DOMAIN @ : @[i] = n}
                     IN  InOrder(@, DOMAIN @ \ {i \in at : \A j \in at : i <= j})]

Join(p, c)  == Playing(p) /\ AddListener(c, name[p]) /\ heard' = <<>> /\ Silent
Leave(p, c) == Playing(p) /\ RemoveListener(c, name[p]) /\ heard' = <<>> /\ Silent

(* ChatChannel::broadcast(): to every listener whose name is on the list *)
ToChannel(c, m) ==
    IF m.from \in Elements(listeners[c])
    THEN LET reached == InOrder(listeners[c], {i \in DOMAIN listeners[c] : ToName(listeners[c][i], m) # <<>>})
         IN  [i \in DOMAIN reached |-> ToName(reached[i], m)[1]]
    ELSE <<>>

Chat(p, c) ==
    /\ Playing(p) /\ Silent /\ UNCHANGED listeners
    /\ heard' = ToChannel(c, Msg("Chat", name[p], NoName))

Answer(p) == ToName(name[p], Msg("Information", NoName, NoName))

(* A tell to a name that is not on the list is answered by the daemon *)
Tell(p, n) ==
    /\ Playing(p) /\ n # name[p] /\ Silent /\ UNCHANGED listeners
    /\ heard' = IF Named(n) = <<>> THEN Answer(p) ELSE ToName(n, Msg("Tell", name[p], NoName))

(* To the room that the player of the sender's name is in *)
Around(p, m) == ToRoom(location[Named(name[p])[1]], m)

ToAllHere(p, type) ==
    /\ Playing(p) /\ heard' = Around(p, Msg(type, name[p], NoName))
    /\ Silent /\ UNCHANGED listeners

Speak(p)       == ToAllHere(p, "Speech")
Emote(p)       == ToAllHere(p, "Emote")
SocialAlone(p) == ToAllHere(p, "Social")

Found(p, w) == IF location[p] \in Rooms
               THEN {x \in Elements(inside[location[p]]) : NameOf(x) = w}
               ELSE {}

(* The header that says whom the others' version of a social is about *)
HeaderNothing(w) == NoName

Header(w) == w

(* A social at the first thing here that is called w, or at a player of its  *)
(* name wherever he is, and then told to the room                            *)
SocialAt(p, w) ==
    /\ Playing(p) /\ Found(p, w) # {}
    /\ heard' = ToName(w, Msg("Social", name[p], NoName))
                  \o Around(p, Msg("Social", name[p], Header(w)))
    /\ Silent /\ UNCHANGED listeners

(* Room::setWeather() in a heartbeat *)
Weather(r) ==
    /\ entering = Nobody
    /\ heard' = ToRoom(r, Msg("Information", NoName, NoName))
    /\ Silent /\ UNCHANGED listeners

TalkNext ==
    \/ \E p \in Clients :
          \/ Connect(p) \/ Drop(p) \/ AgreesToCreate(p) \/ Announce(p) \/ EnterRoom(p)
          \/ Create(p) \/ Quit(p) \/ Speak(p) \/ Emote(p) \/ SocialAlone(p)
          \/ \E n \in Names : Login(p, n) \/ Tell(p, n) \/ SocialAt(p, n)
          \/ \E r \in Rooms : Walk(p, r)
          \/ \E q \in Clients : PickUp(p, q)
          \/ \E c \in Channels : Join(p, c) \/ Leave(p, c) \/ Chat(p, c)
    \/ \E r \in Rooms : Weather(r)

TalkSpec == TalkInit /\ [][TalkNext]_talkVars
----------------------------------------------------------------------------

(* One command writes nobody two messages: not to a listener, whose channel  *)
(* keeps a name once, not to the target of a social, who is spared the       *)
(* others' version by its header, and not to somebody walked past, unless an *)
(* exit leads back to the room it is in.                                     *)
HeardOnce == \A i, j \in DOMAIN heard : heard[i].who = heard[j].who => i = j

(* What is said or done in a room, and what its weather does, is not for     *)
(* those who have not given a password, although each of them has a location *)
(* from the start, the room its character was saved in or the one a new      *)
(* Player is made with.                                                      *)
NotOverheard ==
    \A i \in DOMAIN heard :
        heard[i].type \in {"Speech", "Emote", "EntranceExit", "Information"} =>
            stage[heard[i].who] \notin {"login", "password", "create"}

(* What MessageDaemon::leaveAll() says of itself (messageDaemon.cpp:231-233): *)
(* "This function, called during client logout, removes the client from all  *)
(* channels so messages won't be sent to the client anymore."  Nothing calls *)
(* it but ~Player, which is not run (see Events), so the name stays a        *)
(* listener, and who types it next hears the channel before the password.    *)
ChatForPlayers ==
    \A i \in DOMAIN heard : heard[i].type = "Chat" => stage[heard[i].who] = "playing"

Hearers(log) == {log[i].who : i \in DOMAIN log}

(* Who chats as a listener reads its own line back, which the command relies *)
(* on for the next prompt, and who tells is answered if nobody is; only hands *)
(* that carry a player keep it from him.                                     *)
Echoed ==
    [][\A p \in Clients : location[p] \in Rooms =>
          /\ \A c \in Channels :
                Chat(p, c) /\ name[p] \in Elements(listeners[c]) => p \in Hearers(heard')
          /\ \A n \in Names : Tell(p, n) =>
                \/ Hearers(heard') # {}
                \/ \E q \in Elements(list) : name[q] = n /\ location[q] = Carried]_talkVars
=============================================================================
