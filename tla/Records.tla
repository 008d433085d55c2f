------------------------------ MODULE Records ------------------------------
(***************************************************************************)
(* What things, players and rooms write into their files and what they    *)
(* make of a file when they are loaded: the Save and Load of every class. *)
(*                                                                         *)
(* A node of a file is a record of what the properties tell apart; what    *)
(* is written and read back as it is (sizes, temperatures, attributes,     *)
(* sex, resolution, password, coordinates, descriptions of rooms) is left  *)
(* out.  yaml-cpp is external: a null inside a sequence is an item, a null *)
(* read as a text is "~", a text written as a literal block ends its last  *)
(* line when it is read, and a null written straight into a block map      *)
(* spoils the emitter, which writes nothing more.                          *)
(***************************************************************************)
EXTENDS Vectors, FiniteSetsExt, SequencesExt

CONSTANTS
    Null, Metals,
    Ended     \* of each text whose last line has no end: the same text with one

\* every text; that these are strings is beyond the prover
Text == STRING \cup {"", "~", "coins"}

\* the keys of a coin's alloys are in the order of std::map
ASSUME RecordsAssumption ==
    /\ Metals \in Seq(Text) /\ IsInjective(Metals)
    /\ \E i, j \in DOMAIN Metals : i < j /\ Metals[i] = "copper" /\ Metals[j] = "iron"

ASSUME EndedAssumption ==
    /\ DOMAIN Ended \subseteq Text
    /\ \A t \in DOMAIN Ended : Ended[t] \in Text /\ Ended[t] \notin DOMAIN Ended

None == [null |-> TRUE]   \* a pointer to nothing: it has no field of anything there is
Nothing == <<>>           \* the map without keys
InRoom == [type |-> "player"]
AsText(node) == IF node = Null THEN "~" ELSE node
SeqOrNull(s) == IF s = <<>> THEN <<Null>> ELSE s
MapOrNull(f) == IF DOMAIN f = {} THEN Null ELSE f
TextOrNull(t) == IF t = "" THEN Null ELSE t

With(f, k, v) == [x \in DOMAIN f \cup {k} |-> IF x = k THEN v ELSE f[x]]

-----------------------------------------------------------------------------
(* Physical: nicknames and conditions *)

AddNickname(nicknames, n) == IF Contains(nicknames, n) THEN nicknames ELSE Append(nicknames, n)

UntilNull(s) ==
    IF Contains(s, Null) THEN SubSeq(s, 1, SelectInSeq(s, LAMBDA x : x = Null) - 1) ELSE s

PhysicalSave(p) ==
    [nicknames |-> SeqOrNull(p.nicknames), conditions |-> SeqOrNull(p.conditions)]

PhysicalLoad(new, node) ==
    [new EXCEPT !.nicknames = FoldLeft(AddNickname, @, UntilNull(node.nicknames)),
                !.conditions = @ \o UntilNull(node.conditions)]

-----------------------------------------------------------------------------
(* Readable, Book and Milestone.  A page is written as a literal block.  No *)
(* page is written as one null, which is read as a page that says "~".     *)

LineEnded(t) == IF t \in DOMAIN Ended THEN Ended[t] ELSE t

ReadableSave(pages) == SeqOrNull([i \in DOMAIN pages |-> LineEnded(pages[i])])
ReadableLoad(new, node) == [new EXCEPT !.pages = @ \o [i \in DOMAIN node |-> AsText(node[i])]]

NewReadable(type, id) ==
    [type |-> type, id |-> id, nicknames |-> <<>>, conditions |-> <<>>, title |-> "",
     pages |-> <<>>]

BookSave(b) ==
    [type |-> "book", id |-> b.id, physical |-> PhysicalSave(b), title |-> TextOrNull(b.title),
     pages |-> ReadableSave(b.pages)]

BookLoad(node) ==
    LET read == ReadableLoad(PhysicalLoad(NewReadable("book", node.id), node.physical), node.pages)
    IN  [read EXCEPT !.title = IF node.title = Null THEN @ ELSE node.title]

MilestoneSave(m) ==
    [type |-> "milestone", id |-> m.id, physical |-> PhysicalSave(m),
     pages |-> ReadableSave(m.pages)]

MilestoneLoad(node) ==
    ReadableLoad(PhysicalLoad(NewReadable("milestone", node.id), node.physical), node.pages)

-----------------------------------------------------------------------------
(* Coin: a collection with alloys.  Without any, the null goes straight    *)
(* into their map.                                                         *)

NewCoin(quantity) ==
    [type |-> "coin", nicknames |-> <<"coins">>, conditions |-> <<>>, quantity |-> quantity,
     alloys |-> Nothing]

Percent(alloys) == MapThenSumSet(LAMBDA m : alloys[m], DOMAIN alloys)

Highest(alloys) ==
    LET most == {m \in DOMAIN alloys : \A o \in DOMAIN alloys : alloys[o] <= alloys[m]}
        first == SelectInSeq(Metals, LAMBDA m : m \in most)
    IN  IF most = {} THEN "" ELSE Metals[first]

AddAlloy(c, metal, percent) ==
    LET alloys == IF metal \notin DOMAIN c.alloys /\ Percent(c.alloys) + percent <= 100
                  THEN With(c.alloys, metal, percent) ELSE c.alloys
    IN  [c EXCEPT !.alloys = alloys, !.nicknames = AddNickname(@, Highest(alloys))]

CoinSave(c) ==
    [type |-> "coin", physical |-> PhysicalSave(c), quantity |-> c.quantity,
     alloys |-> MapOrNull(c.alloys)]

CoinLoad(node) ==
    LET new == PhysicalLoad(NewCoin(node.quantity), node.physical)
        alloys == IF node.alloys = Null THEN Nothing ELSE node.alloys
        Add(c, m) == IF m \in DOMAIN alloys THEN AddAlloy(c, m, alloys[m]) ELSE c
    IN  FoldLeft(Add, new, Metals)

\* A pile as the program makes them: its alloys make no more than the whole,
\* added in the order of their keys, and the nicknames they give it are there.
AlloyMaps == UNION {[metals -> 0 .. 100] : metals \in SUBSET Elements(Metals)}
UpTo(alloys, k) == [m \in DOMAIN alloys \cap {Metals[j] : j \in 1 .. k} |-> alloys[m]]
WellAlloyed(c) ==
    /\ c.nicknames # <<>> /\ c.nicknames[1] = "coins"
    /\ \A k \in DOMAIN Metals : Metals[k] \in DOMAIN c.alloys =>
          /\ Percent(UpTo(c.alloys, k - 1)) + c.alloys[Metals[k]] <= 100
          /\ Highest(UpTo(c.alloys, k)) \in Elements(c.nicknames)

SpoilsEmitter(t) == t.type = "coin" /\ DOMAIN t.alloys = {}

-----------------------------------------------------------------------------
(* ObjectFactory: an unknown type is no object *)

ThingSave(t) == CASE t.type = "book" -> BookSave(t)
                  [] t.type = "milestone" -> MilestoneSave(t)
                  [] t.type = "coin" -> CoinSave(t)

Create(node) == CASE node.type = "book" -> BookLoad(node)
                  [] node.type = "milestone" -> MilestoneLoad(node)
                  [] node.type = "coin" -> CoinLoad(node)
                  [] OTHER -> None

\* the things there are, whose nodes are no nulls
Distinct == {s \in Seq(Text) : IsInjective(s)}
Books == [type : {"book"}, id : Text, nicknames : Distinct, conditions : Seq(Text),
          title : Text, pages : Seq(Text)]
Milestones == [type : {"milestone"}, id : Text, nicknames : Distinct,
               conditions : Seq(Text), title : {""}, pages : Seq(Text)]
Coins == {c \in [type : {"coin"}, nicknames : Distinct, conditions : Seq(Text),
                 quantity : Nat, alloys : AlloyMaps] : WellAlloyed(c)}
Things == Books \cup Milestones \cup Coins

Texts == Text \cup {Null}
PhysicalNodes == [nicknames : Seq(Texts), conditions : Seq(Texts)]
ASSUME NullAssumption ==
    /\ Null \notin Text /\ Null # <<>> /\ Null \notin AlloyMaps
    /\ Null \notin [type : {"book"}, id : Text, physical : PhysicalNodes, title : Texts,
                   pages : Seq(Texts)]
    /\ Null \notin [type : {"milestone"}, id : Text, physical : PhysicalNodes, pages : Seq(Texts)]
    /\ Null \notin [type : {"coin"}, physical : PhysicalNodes, quantity : Nat,
                   alloys : AlloyMaps \cup {Null}]
    /\ Null \notin Seq([name : Text, to : Text, key : Texts, closed : BOOLEAN])

-----------------------------------------------------------------------------
(* Container *)

\* Things and players: one pile, and only it beyond the capacity.
ContentsOf(capacity) ==
    {c \in Seq(Things \cup {InRoom}) :
        /\ \A i, j \in DOMAIN c : c[i].type = "coin" /\ c[j].type = "coin" => i = j
        /\ \A i \in DOMAIN c : c[i].type = "coin" \/ i <= capacity}

\* a pile goes to the first pile there; anything else needs a free place
ContainerAdd(contents, capacity, t) ==
    LET pile == SelectInSeq(contents, LAMBDA x : x.type = "coin")
    IN  IF t.type = "coin" /\ pile # 0
        THEN [added |-> TRUE, contents |-> [contents EXCEPT ![pile].quantity = @ + t.quantity]]
        ELSE IF t.type = "coin" \/ Len(contents) < capacity
        THEN [added |-> TRUE, contents |-> Append(contents, t)]
        ELSE [added |-> FALSE, contents |-> contents]

\* players are not saved, and nothing is behind a thing that spoils the emitter
ContainerSave(contents) ==
    LET things == Without(contents, InRoom)
        spoilt == SelectInSeq(things, SpoilsEmitter)
        written == IF spoilt = 0 THEN things ELSE SubSeq(things, 1, spoilt)
    IN  SeqOrNull([i \in DOMAIN written |-> ThingSave(written[i])])

\* mistaken: success needs one thing
ContainerLoadThing(node, capacity) ==
    LET Add(sofar, n) ==
            IF n = Null THEN sofar
            ELSE LET t == Create(n)
                     to == ContainerAdd(sofar.contents, capacity, t)
                 IN  IF t = None \/ ~to.added THEN sofar
                     ELSE [ok |-> TRUE, contents |-> to.contents]
    IN  FoldLeft(Add, [ok |-> FALSE, contents |-> <<>>], node)

\* success needs one thing added, or a null
ContainerLoad(node, capacity) ==
    LET Add(sofar, n) ==
            IF sofar.ended THEN sofar
            ELSE IF n = Null THEN [sofar EXCEPT !.ok = TRUE, !.ended = TRUE]
            ELSE LET t == Create(n)
                     to == ContainerAdd(sofar.contents, capacity, t)
                 IN  IF t = None \/ ~to.added THEN sofar
                     ELSE [sofar EXCEPT !.ok = TRUE, !.contents = to.contents]
    IN  FoldLeft(Add, [ok |-> FALSE, ended |-> FALSE, contents |-> <<>>], node)

-----------------------------------------------------------------------------
(* Exit and Room *)

ExitSave(e) == [name |-> e.name, to |-> e.to, key |-> TextOrNull(e.key), closed |-> e.closed]
ExitLoad(node) ==
    [name |-> node.name, to |-> node.to, key |-> IF node.key = Null THEN "" ELSE node.key,
     closed |-> node.closed, locked |-> FALSE]

AddExit(exits, e) ==
    IF \E i \in DOMAIN exits : exits[i].name = e.name THEN exits ELSE Append(exits, e)

LoadExits(node) ==
    IF node = Null THEN <<>>
    ELSE FoldLeft(AddExit, <<>>, [i \in DOMAIN node |-> ExitLoad(node[i])])

RoomSave(r) ==
    [interest |-> MapOrNull(r.interest),
     exits |-> IF r.exits = <<>> THEN Null ELSE [i \in DOMAIN r.exits |-> ExitSave(r.exits[i])],
     contents |-> ContainerSave(r.contents)]

RoomLoad(node, capacity) ==
    LET inside == ContainerLoad(node.contents, capacity)
    IN  IF ~inside.ok \/ node.exits = <<>> THEN None
        ELSE [interest |-> IF node.interest = Null THEN Nothing ELSE node.interest,
              exits |-> LoadExits(node.exits), contents |-> inside.contents]

-----------------------------------------------------------------------------
(* Player, with what Sentient adds.  The description is read if it is      *)
(* there, and never written.                                               *)

NewPlayer ==
    [nicknames |-> <<>>, conditions |-> <<>>, location |-> "", description |-> "",
     aliases |-> Nothing, languages |-> Nothing, contents |-> <<>>]

AddAlias(p, alias, command) == [p EXCEPT !.aliases = With(@, alias, command)]

Clamp(fluency) == IF fluency < 0 THEN 0 ELSE IF fluency > 100 THEN 100 ELSE fluency

SentientSave(p) == MapOrNull(p.languages)
SentientLoad(node) == IF node = Null THEN Nothing ELSE [l \in DOMAIN node |-> Clamp(node[l])]

PlayerSave(p) ==
    [physical |-> PhysicalSave(p), location |-> p.location, aliases |-> MapOrNull(p.aliases),
     languages |-> SentientSave(p), contents |-> ContainerSave(p.contents)]

\* mistaken: the aliases are not read
PlayerLoadNoAliases(node, capacity) ==
    LET inside == ContainerLoad(node.contents, capacity)
    IN  IF ~inside.ok THEN None
        ELSE [PhysicalLoad(NewPlayer, node.physical) EXCEPT
                !.location = node.location, !.languages = SentientLoad(node.languages),
                !.contents = inside.contents]

PlayerLoad(node, capacity) ==
    LET inside == ContainerLoad(node.contents, capacity)
    IN  IF ~inside.ok THEN None
        ELSE [PhysicalLoad(NewPlayer, node.physical) EXCEPT
                !.location = node.location,
                !.aliases = IF node.aliases = Null THEN @ ELSE node.aliases,
                !.languages = SentientLoad(node.languages),
                !.contents = inside.contents]
=============================================================================
