---------------------------- MODULE MessageProofs ---------------------------
(***************************************************************************)
(* What modules Talk and Terminal keep, for every number of clients, rooms *)
(* and channels, every text and every width.                               *)
(*                                                                         *)
(* Who hears a message rests on TalkInv: the list has no name twice, a     *)
(* room has nobody twice and only players that were let in and say they    *)
(* are in it, and a channel has no listener twice.  No two of the          *)
(* deliveries of one command can then meet in one client.                  *)
(*                                                                         *)
(* That breaking lines keeps a text rests on Kept: while a line is looked  *)
(* at, `start' is behind all that has been put out and never past the end. *)
(* That the loop ends rests on Counted: since the beginning of the line    *)
(* count - 1 characters have been passed and none was an end of line, so   *)
(* at the margin a whole line of the text lies behind.                     *)
(*                                                                         *)
(* Parsing colours, filling in a prompt and setting a list in columns are  *)
(* folds; Coursed unfolds each into its steps.  Parsed with and without    *)
(* colours a text agrees after every step (SameSoFar).  What is out fits   *)
(* the width (WidthInv) because a line grows by what count counts, and a   *)
(* row of columns by one column at a time (ListFills).                     *)
(***************************************************************************)
EXTENDS Talk, Terminal, VectorsProofs, FiniteSetTheorems, SequenceTheorems, TLAPS

-----------------------------------------------------------------------------
(* Delivery.                                                               *)

\* Nothing of X is twice in s.
OnceIn(X, s) == \A i, j \in DOMAIN s : s[i] \in X /\ s[i] = s[j] => i = j

\* The log h tells nobody twice and those who hear it are of the type.
ToldOnce(h) == \A i, j \in DOMAIN h : h[i].who = h[j].who => i = j

AllOf(h, type) == \A i \in DOMAIN h : h[i].type = type

\* What is left of a sequence has nothing twice that was not.
LEMMA ChosenOnce ==
  ASSUME NEW S, NEW X, NEW s \in Seq(S), NEW I \in SUBSET DOMAIN s, OnceIn(X, s)
  PROVE  OnceIn(X, InOrder(s, I))
<1> DEFINE o == InOrder(s, I)
           m == Cardinality(I)
<1>1. DOMAIN o = 1 .. m /\ m \in Nat
  BY Chosen
<1>2. PICK place \in [1 .. Cardinality(I) -> I] : Placed(s, I, place)
  BY Chosen
<1>3. /\ \A k \in 1 .. m : o[k] = s[place[k]] /\ place[k] \in DOMAIN s
      /\ \A k, l \in 1 .. m : k < l => place[k] < place[l]
  BY <1>2 DEF Placed
<1>4. \A k \in 1 .. m : place[k] \in Int
  BY <1>3, Positions
<1> HIDE DEF o, m
<1>5. ASSUME NEW k \in DOMAIN o, NEW l \in DOMAIN o, o[k] \in X, o[k] = o[l]
      PROVE  k = l
  <2>1. k \in 1 .. m /\ l \in 1 .. m
    BY <1>1
  <2>2. place[k] = place[l]
    BY <1>3, <1>5, <2>1 DEF OnceIn
  <2>3. ~(k < l)
    BY <1>3, <1>4, <2>1, <2>2
  <2>4. ~(l < k)
    BY <1>3, <1>4, <2>1, <2>2
  <2>5. k \in Int /\ l \in Int
    BY <1>1, <2>1
  <2>6. \A a, b \in Int : a < b \/ b < a \/ a = b
    OBVIOUS
  <2> QED
    BY <2>3, <2>4, <2>5, <2>6, Zenon
<1> QED
  BY <1>5 DEF OnceIn, o

LEMMA WithoutOnce ==
  ASSUME NEW S, NEW X, NEW s \in Seq(S), NEW x, OnceIn(X, s)
  PROVE  OnceIn(X, Without(s, x))
<1>1. {i \in DOMAIN s : s[i] # x} \in SUBSET DOMAIN s
  OBVIOUS
<1> QED
  BY <1>1, ChosenOnce DEF Without

LEMMA JoinedOnce ==
  ASSUME NEW S, NEW X, NEW s \in Seq(S), NEW x \in S, OnceIn(X, s), x \notin Elements(s)
  PROVE  OnceIn(X, Append(s, x))
<1> DEFINE n == Len(s)
           a == Append(s, x)
<1>1. n \in Nat /\ DOMAIN s = 1 .. n
  BY Positions
<1>2. a \in Seq(S) /\ Len(a) = n + 1 /\ a[n + 1] = x /\ \A i \in 1 .. n : a[i] = s[i]
  BY AppendProperties
<1>3. DOMAIN a = 1 .. n + 1
  BY <1>2, Positions
<1> HIDE DEF n, a
<1>4. \A i \in 1 .. n + 1 : i \in 1 .. n \/ i = n + 1
  BY <1>1
<1>5. \A i \in 1 .. n : s[i] # x
  BY <1>1 DEF Elements
<1>6. ASSUME NEW i \in DOMAIN a, NEW j \in DOMAIN a, a[i] \in X, a[i] = a[j]
      PROVE  i = j
  <2>1. (i \in 1 .. n \/ i = n + 1) /\ (j \in 1 .. n \/ j = n + 1)
    BY <1>3, <1>4
  <2>2. CASE i \in 1 .. n /\ j \in 1 .. n
    BY <1>1, <1>2, <1>6, <2>2 DEF OnceIn
  <2> QED
    BY <1>2, <1>5, <1>6, <2>1, <2>2
<1> QED
  BY <1>6 DEF OnceIn, a

\* Who is written a message that is shown to s: the clients in it that do not
\* ignore it, each once.
LEMMA WrittenTo ==
  ASSUME NEW S, NEW s \in Seq(S), NEW m
  PROVE  /\ Written(s, m) \in Seq([who : Clients, type : {m.type}, from : {m.from}])
         /\ AllOf(Written(s, m), m.type)
         /\ Hearers(Written(s, m)) = {p \in Elements(s) : p \in Clients /\ ~Ignores(p, m)}
         /\ OnceIn(Clients, s) => ToldOnce(Written(s, m))
<1> DEFINE I == {i \in DOMAIN s : s[i] \in Clients /\ ~Ignores(s[i], m)}
           able == InOrder(s, I)
           W == Written(s, m)
<1>1. I \in SUBSET DOMAIN s
  OBVIOUS
<1>2. W = [i \in DOMAIN able |-> [who |-> able[i], type |-> m.type, from |-> m.from]]
  BY DEF Written
<1>3. {s[i] : i \in I} = {p \in Elements(s) : p \in Clients /\ ~Ignores(p, m)}
  BY DEF Elements
<1> HIDE DEF I
<1>4. DOMAIN able = 1 .. Cardinality(I) /\ Cardinality(I) \in Nat
  BY <1>1, Chosen
<1>5. Elements(able) = {p \in Elements(s) : p \in Clients /\ ~Ignores(p, m)}
  BY <1>1, <1>3, Ordered
<1>6. OnceIn(Clients, s) => OnceIn(Clients, able)
  BY <1>1, ChosenOnce
<1> HIDE DEF able, W
<1>7. DOMAIN W = DOMAIN able /\ \A i \in DOMAIN W : W[i].who = able[i] /\ W[i].type = m.type
  BY <1>2
<1>8. Hearers(W) = Elements(able)
  BY <1>7 DEF Hearers, Elements
<1>9. OnceIn(Clients, able) => ToldOnce(W)
  <2>1. \A i \in DOMAIN W : W[i].who \in Clients
    BY <1>5, <1>7 DEF Elements
  <2> QED
    BY <1>7, <2>1 DEF OnceIn, ToldOnce
<1>10. W \in Seq([who : Clients, type : {m.type}, from : {m.from}])
  <2> DEFINE T == [who : Clients, type : {m.type}, from : {m.from}]
  <2>1. \A i \in DOMAIN able : able[i] \in Clients
    BY <1>5 DEF Elements
  <2>2. W \in [1 .. Cardinality(I) -> T]
    BY <1>2, <1>4, <2>1
  <2> HIDE DEF T
  <2>3. \E n \in Nat : W \in [1 .. n -> T]
    BY <1>4, <2>2
  <2>4. W \in Seq(T)
    BY <2>3, SeqDef
  <2> QED
    BY <2>4 DEF T
<1> QED
  BY <1>5, <1>6, <1>7, <1>8, <1>9, <1>10 DEF AllOf, W

\* Two deliveries, one after the other, to different clients.
LEMMA BothWritten ==
  ASSUME NEW S, NEW g \in Seq(S), NEW h \in Seq(S)
  PROVE  /\ Hearers(g \o h) = Hearers(g) \cup Hearers(h)
         /\ ToldOnce(g) /\ ToldOnce(h) /\ Hearers(g) \cap Hearers(h) = {} => ToldOnce(g \o h)
         /\ \A type : AllOf(g, type) /\ AllOf(h, type) => AllOf(g \o h, type)
<1> DEFINE n == Len(g)
           k == Len(h)
           b == g \o h
<1>1. n \in Nat /\ k \in Nat /\ DOMAIN g = 1 .. n /\ DOMAIN h = 1 .. k
  BY Positions
<1>2. /\ b \in Seq(S) /\ Len(b) = n + k
      /\ \A i \in 1 .. n + k : b[i] = IF i <= n THEN g[i] ELSE h[i - n]
  BY ConcatProperties
<1>3. DOMAIN b = 1 .. n + k
  BY <1>2, Positions
<1> HIDE DEF n, k, b
<1>4. \A i \in 1 .. n : i \in DOMAIN b /\ b[i] = g[i]
  BY <1>1, <1>2, <1>3
<1>5. \A j \in 1 .. k : j + n \in DOMAIN b /\ b[j + n] = h[j]
  <2> SUFFICES ASSUME NEW j \in 1 .. k PROVE j + n \in DOMAIN b /\ b[j + n] = h[j]
    OBVIOUS
  <2>1. j + n \in 1 .. n + k /\ ~(j + n <= n) /\ (j + n) - n = j
    BY <1>1
  <2> QED
    BY <1>2, <1>3, <2>1
<1>6. ASSUME NEW i \in DOMAIN b, ~(i \in 1 .. n) PROVE \E j \in 1 .. k : i = j + n
  <2>1. i - n \in 1 .. k /\ i = (i - n) + n
    BY <1>1, <1>3, <1>6
  <2> QED
    BY <2>1
<1>7. Hearers(b) = Hearers(g) \cup Hearers(h)
  <2>1. ASSUME NEW i \in DOMAIN b PROVE b[i].who \in Hearers(g) \cup Hearers(h)
    <3>1. CASE i \in 1 .. n
      BY <1>1, <1>4, <3>1 DEF Hearers
    <3>2. CASE ~(i \in 1 .. n)
      BY <1>1, <1>5, <1>6, <3>2 DEF Hearers
    <3> QED
      BY <3>1, <3>2
  <2>2. \A i \in DOMAIN g : g[i].who \in Hearers(b)
    BY <1>1, <1>4 DEF Hearers
  <2>3. \A j \in DOMAIN h : h[j].who \in Hearers(b)
    BY <1>1, <1>5 DEF Hearers
  <2> QED
    BY <2>1, <2>2, <2>3 DEF Hearers
<1>8. ASSUME ToldOnce(g), ToldOnce(h), Hearers(g) \cap Hearers(h) = {},
             NEW i \in DOMAIN b, NEW j \in DOMAIN b, b[i].who = b[j].who
      PROVE  i = j
  <2>1. CASE i \in 1 .. n /\ j \in 1 .. n
    BY <1>1, <1>4, <1>8, <2>1 DEF ToldOnce
  <2>2. CASE ~(i \in 1 .. n) /\ ~(j \in 1 .. n)
    <3>1. PICK x \in 1 .. k : i = x + n
      BY <1>6, <2>2
    <3>2. PICK y \in 1 .. k : j = y + n
      BY <1>6, <2>2
    <3>3. h[x].who = h[y].who
      BY <1>5, <1>8, <3>1, <3>2
    <3>4. x = y
      BY <1>1, <1>8, <3>3 DEF ToldOnce
    <3> QED
      BY <3>1, <3>2, <3>4
  <2>3. CASE i \in 1 .. n /\ ~(j \in 1 .. n)
    <3>1. PICK y \in 1 .. k : j = y + n
      BY <1>6, <2>3
    <3>2. g[i].who = h[y].who
      BY <1>4, <1>5, <1>8, <2>3, <3>1
    <3> QED
      BY <1>1, <1>8, <2>3, <3>2 DEF Hearers
  <2>4. CASE ~(i \in 1 .. n) /\ j \in 1 .. n
    <3>1. PICK x \in 1 .. k : i = x + n
      BY <1>6, <2>4
    <3>2. h[x].who = g[j].who
      BY <1>4, <1>5, <1>8, <2>4, <3>1
    <3> QED
      BY <1>1, <1>8, <2>4, <3>2 DEF Hearers
  <2> QED
    BY <2>1, <2>2, <2>3, <2>4
<1>9. ASSUME NEW type, AllOf(g, type), AllOf(h, type) PROVE AllOf(b, type)
  <2>1. (\A i \in 1 .. n : g[i].type = type) /\ \A j \in 1 .. k : h[j].type = type
    BY <1>1, <1>9 DEF AllOf
  <2> SUFFICES ASSUME NEW i \in DOMAIN b PROVE b[i].type = type
    BY DEF AllOf
  <2>2. CASE i \in 1 .. n
    BY <1>4, <2>1, <2>2
  <2>3. CASE ~(i \in 1 .. n)
    <3>1. PICK j \in 1 .. k : i = j + n
      BY <1>6, <2>3
    <3> QED
      BY <1>5, <2>1, <3>1
  <2> QED
    BY <2>2, <2>3
<1> QED
  BY <1>7, <1>8, <1>9 DEF ToldOnce, b

-----------------------------------------------------------------------------
(* The invariant.                                                          *)

Stages == {"absent", "login", "password", "create", "playing", "gone"}

TalkTypes ==
  /\ list \in Seq(Clients) /\ stage \in [Clients -> Stages]
  /\ name \in [Clients -> Names \cup {NoName}]
  /\ location \in [Clients -> Rooms \cup {Carried}]
  /\ inside \in [Rooms -> Seq(Clients \cup Things)]
  /\ listeners \in [Channels -> Seq(Names)]
  /\ entering \in Clients \cup {Nobody}

\* The list has nobody twice and no name twice.
ListedInv ==
  /\ OnceIn(Clients, list)
  /\ \A p \in Elements(list) : stage[p] \in {"login", "password", "create", "playing"}
  /\ \A p \in Elements(list) : stage[p] # "login" => name[p] \in Names
  /\ \A p, q \in Elements(list) : name[p] \in Names /\ name[p] = name[q] => p = q
  /\ \A p \in Elements(list) : p = entering => stage[p] = "password"
  /\ \A p \in Clients : stage[p] = "absent" => name[p] = NoName /\ p # entering

\* A room has nobody twice, and only players who were let in, who say they are in it.
InsideInv ==
  /\ \A r \in Rooms : OnceIn(Clients, inside[r])
  /\ \A r \in Rooms : \A p \in Clients : p \in Elements(inside[r]) =>
       location[p] = r /\ stage[p] \in {"playing", "gone"} /\ p # entering
  /\ \A p \in Clients : location[p] = Carried => stage[p] \in {"playing", "gone"} /\ p # entering

ListenersInv == \A c \in Channels : OnceIn(Names, listeners[c])

TalkInv == TalkTypes /\ ListedInv /\ InsideInv /\ ListenersInv

LEMMA TalkStarts ==
  ASSUME TalkInit
  PROVE  TalkInv
<1>1. list = <<>> /\ DOMAIN list = {} /\ Elements(list) = {} /\ list \in Seq(Clients)
  BY DEF TalkInit, Elements
<1>2. \A c \in Channels : listeners[c] = <<>> /\ DOMAIN listeners[c] = {}
  BY DEF TalkInit
<1>3. /\ inside = Lying /\ Lying \in [Rooms -> Seq(Things)] /\ Clients \cap Things = {}
      /\ LostAndFound \in Rooms /\ Carried \notin Rooms
  BY TalkAssumption DEF TalkInit
<1>4. \A r \in Rooms : inside[r] \in Seq(Things)
  BY <1>3
<1>5. \A r \in Rooms : inside[r] \in Seq(Clients \cup Things) /\ \A i \in DOMAIN inside[r] : inside[r][i] \notin Clients
  <2> SUFFICES ASSUME NEW r \in Rooms
               PROVE  inside[r] \in Seq(Clients \cup Things) /\ \A i \in DOMAIN inside[r] : inside[r][i] \notin Clients
    OBVIOUS
  <2> DEFINE s == inside[r]
  <2>1. s \in Seq(Things)
    BY <1>4
  <2> HIDE DEF s
  <2>2. s \in Seq(Clients \cup Things)
    BY <2>1
  <2>3. \A i \in DOMAIN s : s[i] \in Things
    BY <2>1, Positions
  <2> QED
    BY <1>3, <2>2, <2>3 DEF s
<1>6. TalkTypes
  <2>1. inside \in [Rooms -> Seq(Clients \cup Things)]
    BY <1>3, <1>5
  <2>2. listeners \in [Channels -> Seq(Names)]
    BY DEF TalkInit
  <2> QED
    BY <1>1, <1>3, <2>1, <2>2 DEF TalkTypes, TalkInit, Stages
<1>7. ListedInv
  <2>1. Nobody \notin Clients
    BY TalkAssumption
  <2> QED
    BY <1>1, <2>1 DEF ListedInv, OnceIn, TalkInit
<1>8. InsideInv
  <2>1. \A p \in Clients : location[p] # Carried
    BY <1>3 DEF TalkInit
  <2>2. \A r \in Rooms : \A p \in Clients : p \notin Elements(inside[r])
    BY <1>5 DEF Elements
  <2>3. \A r \in Rooms : OnceIn(Clients, inside[r])
    BY <1>5 DEF OnceIn
  <2> QED
    BY <2>1, <2>2, <2>3 DEF InsideInv
<1>9. ListenersInv
  BY <1>2 DEF ListenersInv, OnceIn
<1> QED
  BY <1>6, <1>7, <1>8, <1>9 DEF TalkInv

\* A room that is as it was, or that somebody was taken out of.
LEMMA RoomWithout ==
  ASSUME NEW s \in Seq(Clients \cup Things), NEW p, OnceIn(Clients, s)
  PROVE  /\ Without(s, p) \in Seq(Clients \cup Things)
         /\ Elements(Without(s, p)) = Elements(s) \ {p}
         /\ OnceIn(Clients, Without(s, p))
<1> DEFINE S == Clients \cup Things
<1>1. s \in Seq(S)
  OBVIOUS
<1> HIDE DEF S
<1>2. Without(s, p) \in Seq(S) /\ Elements(Without(s, p)) = Elements(s) \ {p}
  BY <1>1, Taken
<1>3. OnceIn(Clients, Without(s, p))
  BY <1>1, WithoutOnce
<1> QED
  BY <1>2, <1>3 DEF S

\* The rooms, when one player p goes in or out of none of them.
LEMMA RoomsStay ==
  ASSUME InsideInv, NEW p \in Clients, UNCHANGED inside,
         \A r \in Rooms : p \notin Elements(inside[r]),
         \A q \in Clients \ {p} : stage'[q] = stage[q] /\ location'[q] = location[q],
         entering' \in {entering, p, Nobody}, location'[p] \in Rooms
  PROVE  InsideInv'
<1>1. Carried \notin Rooms /\ Nobody \notin Clients
  BY TalkAssumption
<1>2. \A r \in Rooms : \A q \in Clients : q \in Elements(inside[r]) => q # p
  OBVIOUS
<1>3. \A q \in Clients : q # p /\ q # entering => q # entering'
  BY <1>1
<1> QED
  BY <1>1, <1>2, <1>3 DEF InsideInv

\* Who is not let in yet is in no room and is carried by nobody.
LEMMA OutsideYet ==
  ASSUME TalkInv, NEW p \in Clients, stage[p] \in {"absent", "login", "password", "create"} \/ p = entering
  PROVE  location[p] \in Rooms /\ \A r \in Rooms : p \notin Elements(inside[r])
BY DEF TalkInv, TalkTypes, InsideInv, Stages

\* PlayerDatabase::remove().
LEMMA RemovedKept ==
  ASSUME TalkInv, NEW p \in Clients, Removed(p), UNCHANGED <<name, location, listeners>>,
         entering' \in {entering, Nobody}
  PROVE  TalkInv'
<1>1. TalkTypes /\ ListedInv /\ InsideInv /\ ListenersInv
  BY DEF TalkInv
<1>2. /\ list \in Seq(Clients) /\ list' = Without(list, p)
      /\ stage \in [Clients -> Stages] /\ stage' = [stage EXCEPT ![p] = "gone"]
      /\ inside' = [r \in Rooms |-> IF r = location[p] THEN Without(inside[r], p) ELSE inside[r]]
      /\ inside \in [Rooms -> Seq(Clients \cup Things)]
  BY <1>1 DEF Removed, TalkTypes
<1>3. list' \in Seq(Clients) /\ Elements(list') = Elements(list) \ {p} /\ OnceIn(Clients, list')
  BY <1>1, <1>2, Taken, WithoutOnce DEF ListedInv
<1>4. /\ stage' \in [Clients -> Stages] /\ stage'[p] = "gone"
      /\ \A q \in Clients \ {p} : stage'[q] = stage[q]
  BY <1>2 DEF Stages
<1>5. ASSUME NEW r \in Rooms
      PROVE  /\ inside'[r] \in Seq(Clients \cup Things) /\ OnceIn(Clients, inside'[r])
             /\ Elements(inside'[r]) \subseteq Elements(inside[r])
             /\ p \notin Elements(inside'[r])
  <2>1. inside[r] \in Seq(Clients \cup Things) /\ OnceIn(Clients, inside[r])
    BY <1>1, <1>2 DEF InsideInv
  <2>2. CASE r = location[p]
    <3>1. inside'[r] = Without(inside[r], p)
      BY <1>2, <2>2
    <3>2. /\ Without(inside[r], p) \in Seq(Clients \cup Things)
          /\ Elements(Without(inside[r], p)) = Elements(inside[r]) \ {p}
          /\ OnceIn(Clients, Without(inside[r], p))
      BY <2>1, RoomWithout
    <3> QED
      BY <3>1, <3>2
  <2>3. CASE r # location[p]
    <3>1. inside'[r] = inside[r] /\ p \notin Elements(inside[r])
      BY <1>1, <1>2, <2>3 DEF InsideInv
    <3> QED
      BY <2>1, <3>1
  <2> QED
    BY <2>2, <2>3
<1>6. Elements(list) \subseteq Clients
  BY <1>2, Positions DEF Elements
<1>7. Nobody \notin Clients
  BY TalkAssumption
<1>8. \A q \in Clients : q = entering' => q = entering
  BY <1>7
<1>9. TalkTypes'
  <2>1. inside' \in [Rooms -> Seq(Clients \cup Things)]
    <3>1. DOMAIN inside' = Rooms /\ inside' = [r \in Rooms |-> inside'[r]]
      BY <1>2
    <3> QED
      BY <1>5, <3>1
  <2>2. entering' \in Clients \cup {Nobody}
    BY <1>1 DEF TalkTypes
  <2> QED
    BY <1>1, <1>3, <1>4, <2>1, <2>2 DEF TalkTypes
<1>10. ListedInv'
  <2>1. \A q \in Elements(list') : q \in Elements(list) /\ stage'[q] = stage[q] /\ q \in Clients
    BY <1>3, <1>4, <1>6
  <2>2. \A q \in Clients : stage'[q] = "absent" => stage[q] = "absent"
    BY <1>4
  <2> QED
    BY <1>1, <1>3, <1>8, <2>1, <2>2 DEF ListedInv
<1>11. InsideInv'
  <2>1. \A r \in Rooms : \A q \in Clients : q \in Elements(inside'[r]) =>
          q # p /\ q \in Elements(inside[r]) /\ stage'[q] = stage[q]
    BY <1>4, <1>5
  <2>2. \A q \in Clients : stage[q] \in {"playing", "gone"} => stage'[q] \in {"playing", "gone"}
    BY <1>4
  <2>3. \A r \in Rooms : OnceIn(Clients, inside'[r])
    BY <1>5
  <2> QED
    BY <1>1, <1>8, <2>1, <2>2, <2>3 DEF InsideInv
<1>12. ListenersInv'
  BY <1>1 DEF ListenersInv
<1> QED
  BY <1>9, <1>10, <1>11, <1>12 DEF TalkInv

\* getPlayer() finds a player of the name if there is one.
LEMMA NamedOne ==
  ASSUME list \in Seq(Clients), NEW n
  PROVE  /\ Named(n) \in Seq(Clients) /\ OnceIn(Clients, Named(n))
         /\ Held(n) <=> \E p \in Elements(list) : name[p] = n
         /\ Held(n) => /\ Elements(Named(n)) = {Named(n)[1]}
                       /\ Named(n)[1] \in Elements(list) /\ name[Named(n)[1]] = n
         /\ ~Held(n) => Elements(Named(n)) = {}
<1> DEFINE at == {i \in DOMAIN list : name[list[i]] = n}
           last == CHOOSE i \in at : \A j \in at : j <= i
<1>1. Len(list) \in Nat /\ DOMAIN list = 1 .. Len(list) /\ \A i \in DOMAIN list : list[i] \in Clients
  BY Positions
<1>2. Named(n) = IF at = {} THEN <<>> ELSE <<list[last]>>
  BY DEF Named
<1>3. at # {} => last \in at
  <2> SUFFICES ASSUME at # {} PROVE \E i \in at : \A j \in at : j <= i
    OBVIOUS
  <2>1. at \subseteq Nat /\ \A i \in at : i < Len(list) + 1
    BY <1>1
  <2>2. Len(list) + 1 \in Nat
    BY <1>1
  <2> HIDE DEF at
  <2>3. PICK i \in at : i < Len(list) + 1 /\ \A j \in at : j < Len(list) + 1 => j <= i
    BY <2>1, <2>2, NextBelow
  <2> QED
    BY <2>1, <2>3
<1>4. at # {} <=> \E p \in Elements(list) : name[p] = n
  BY DEF Elements
<1>5. at # {} => list[last] \in Elements(list) /\ list[last] \in Clients /\ name[list[last]] = n
  BY <1>1, <1>3 DEF Elements
<1> HIDE DEF at, last
<1>6. CASE at = {}
  <2>1. Named(n) = <<>> /\ ~Held(n)
    BY <1>2, <1>6 DEF Held
  <2>2. Elements(Named(n)) = {} /\ OnceIn(Clients, Named(n)) /\ Named(n) \in Seq(Clients)
    BY <2>1 DEF Elements, OnceIn
  <2> QED
    BY <1>4, <1>6, <2>1, <2>2
<1>7. CASE at # {}
  <2>1. Named(n) = <<list[last]>> /\ list[last] \in Clients
    BY <1>2, <1>5, <1>7
  <2>2. Named(n) # <<>> /\ Named(n)[1] = list[last] /\ DOMAIN Named(n) = {1}
    BY <2>1
  <2>3. Held(n) /\ Elements(Named(n)) = {Named(n)[1]} /\ OnceIn(Clients, Named(n))
    BY <2>2 DEF Held, Elements, OnceIn
  <2>4. Named(n) \in Seq(Clients)
    BY <2>1
  <2> QED
    BY <1>4, <1>5, <1>7, <2>2, <2>3, <2>4
<1> QED
  BY <1>6, <1>7

\* Who is listed.
LEMMA TheListed ==
  ASSUME TalkInv
  PROVE  /\ TalkTypes /\ ListedInv /\ InsideInv /\ ListenersInv /\ list \in Seq(Clients)
         /\ Elements(list) \subseteq Clients /\ NoName \notin Names /\ Nobody \notin Clients
<1>1. list \in Seq(Clients)
  BY DEF TalkInv, TalkTypes
<1>2. Elements(list) \subseteq Clients
  BY <1>1, Positions DEF Elements
<1> QED
  BY <1>1, <1>2, TalkAssumption DEF TalkInv

LEMMA ConnectKept ==
  ASSUME TalkInv, NEW p \in Clients, Connect(p)
  PROVE  TalkInv'
<1>1. /\ TalkTypes /\ ListedInv /\ InsideInv /\ ListenersInv /\ list \in Seq(Clients)
      /\ Elements(list) \subseteq Clients /\ NoName \notin Names
  BY TheListed
<1>2. /\ stage[p] = "absent" /\ list' = Append(list, p) /\ stage' = [stage EXCEPT ![p] = "login"]
      /\ UNCHANGED <<name, location, inside, files, listeners, entering>>
  BY DEF Connect
<1>3. stage \in [Clients -> Stages]
  BY <1>1 DEF TalkTypes
<1>4. stage' \in [Clients -> Stages] /\ stage'[p] = "login" /\ \A q \in Clients \ {p} : stage'[q] = stage[q]
  BY <1>2, <1>3 DEF Stages
<1>5. p \notin Elements(list) /\ name[p] \notin Names /\ p # entering
  BY <1>1, <1>2 DEF ListedInv
<1>6. list' \in Seq(Clients) /\ Elements(list') = Elements(list) \cup {p} /\ OnceIn(Clients, list')
  BY <1>1, <1>2, <1>5, Longer, JoinedOnce DEF ListedInv
<1>7. location[p] \in Rooms /\ \A r \in Rooms : p \notin Elements(inside[r])
  BY <1>2, OutsideYet
<1>8. TalkTypes'
  BY <1>1, <1>2, <1>4, <1>6 DEF TalkTypes
<1>9. ListedInv'
  <2>1. \A q \in Elements(list) : q # p /\ stage'[q] = stage[q]
    BY <1>1, <1>4, <1>5
  <2>2. \A q \in Clients : stage'[q] = "absent" => stage[q] = "absent"
    BY <1>4
  <2> QED
    BY <1>1, <1>2, <1>4, <1>5, <1>6, <2>1, <2>2 DEF ListedInv
<1>10. InsideInv'
  BY <1>1, <1>2, <1>4, <1>7, RoomsStay
<1>11. ListenersInv'
  BY <1>1, <1>2 DEF ListenersInv
<1> QED
  BY <1>8, <1>9, <1>10, <1>11 DEF TalkInv

\* A name is typed that nobody listed has.
LEMMA LoginKept ==
  ASSUME TalkInv, NEW p \in Clients, NEW n \in Names, Login(p, n)
  PROVE  TalkInv'
<1>1. /\ TalkTypes /\ ListedInv /\ InsideInv /\ ListenersInv /\ list \in Seq(Clients)
      /\ Elements(list) \subseteq Clients /\ NoName \notin Names
  BY TheListed
<1>2. /\ entering = Nobody /\ p \in Elements(list) /\ stage[p] = "login"
      /\ UNCHANGED <<files, listeners, entering>>
  BY DEF Login
<1>3. CASE Removed(p) /\ UNCHANGED <<name, location>>
  BY <1>2, <1>3, RemovedKept
<1>4. CASE ~(Removed(p) /\ UNCHANGED <<name, location>>)
  <2>1. /\ ~Held(n) /\ name' = [name EXCEPT ![p] = n] /\ UNCHANGED <<list, inside>>
        /\ \/ /\ stage' = [stage EXCEPT ![p] = "password"]
              /\ \E r \in Rooms : location' = [location EXCEPT ![p] = r]
           \/ UNCHANGED <<stage, location>>
    BY <1>4 DEF Login
  <2>2. \A q \in Elements(list) : name[q] # n
    BY <1>1, <2>1, NamedOne
  <2>3. stage \in [Clients -> Stages] /\ name \in [Clients -> Names \cup {NoName}] /\ location \in [Clients -> Rooms \cup {Carried}]
    BY <1>1 DEF TalkTypes
  <2>4. /\ stage' \in [Clients -> Stages] /\ stage'[p] \in {"login", "password"}
        /\ \A q \in Clients \ {p} : stage'[q] = stage[q]
    BY <1>2, <2>1, <2>3 DEF Stages
  <2>5. name' \in [Clients -> Names \cup {NoName}] /\ name'[p] = n /\ \A q \in Clients \ {p} : name'[q] = name[q]
    BY <2>1, <2>3
  <2>6. location[p] \in Rooms /\ \A r \in Rooms : p \notin Elements(inside[r])
    BY <1>2, OutsideYet
  <2>7. /\ location' \in [Clients -> Rooms \cup {Carried}] /\ location'[p] \in Rooms
        /\ \A q \in Clients \ {p} : location'[q] = location[q]
    <3>1. CASE UNCHANGED location
      BY <2>3, <2>6, <3>1
    <3>2. CASE \E r \in Rooms : location' = [location EXCEPT ![p] = r]
      BY <2>3, <3>2
    <3> QED
      BY <2>1, <3>1, <3>2
  <2>8. TalkTypes'
    BY <1>1, <1>2, <2>1, <2>4, <2>5, <2>7 DEF TalkTypes
  <2>9. ListedInv'
    <3>1. \A q \in Elements(list) : q \in Clients
      BY <1>1
    <3>2. \A q \in Clients : stage'[q] = "absent" => q # p /\ stage[q] = "absent"
      BY <2>4
    <3>3. \A q, r \in Elements(list) : name'[q] \in Names /\ name'[q] = name'[r] => q = r
      <4> SUFFICES ASSUME NEW q \in Elements(list), NEW r \in Elements(list),
                          name'[q] \in Names, name'[q] = name'[r], q # r
                   PROVE  FALSE
        OBVIOUS
      <4>1. CASE q = p
        BY <2>2, <2>5, <3>1, <4>1
      <4>2. CASE r = p
        BY <2>2, <2>5, <3>1, <4>2
      <4>3. CASE q # p /\ r # p
        BY <1>1, <2>5, <3>1, <4>3 DEF ListedInv
      <4> QED
        BY <4>1, <4>2, <4>3
    <3>4. \A q \in Elements(list) : q # entering'
      BY <1>1, <1>2, TalkAssumption
    <3>5. \A q \in Elements(list) : /\ stage'[q] \in {"login", "password", "create", "playing"}
                                    /\ stage'[q] # "login" => name'[q] \in Names
      <4> SUFFICES ASSUME NEW q \in Elements(list)
                   PROVE  /\ stage'[q] \in {"login", "password", "create", "playing"}
                          /\ stage'[q] # "login" => name'[q] \in Names
        OBVIOUS
      <4>1. CASE q = p
        BY <2>4, <2>5, <4>1
      <4>2. CASE q # p
        BY <1>1, <2>4, <2>5, <3>1, <4>2 DEF ListedInv
      <4> QED
        BY <4>1, <4>2
    <3>6. \A q \in Clients : stage'[q] = "absent" => name'[q] = NoName /\ q # entering'
      BY <1>1, <1>2, <2>5, <3>2 DEF ListedInv
    <3> QED
      BY <1>1, <2>1, <3>3, <3>4, <3>5, <3>6 DEF ListedInv
  <2>10. InsideInv'
    BY <1>1, <1>2, <2>1, <2>4, <2>6, <2>7, RoomsStay
  <2>11. ListenersInv'
    BY <1>1, <1>2 DEF ListenersInv
  <2> QED
    BY <2>8, <2>9, <2>10, <2>11 DEF TalkInv
<1> QED
  BY <1>3, <1>4

\* Somebody goes on to another stage, outside the rooms.
LEMMA StageKept ==
  ASSUME TalkInv, NEW p \in Clients, NEW g, p \in Elements(list),
         stage[p] \in {"login", "password", "create"}, g \in {"password", "create", "playing"},
         stage' = [stage EXCEPT ![p] = g], name[p] \in Names,
         UNCHANGED <<list, name, inside, listeners>>,
         location' \in [Clients -> Rooms \cup {Carried}], location'[p] \in Rooms,
         \A q \in Clients \ {p} : location'[q] = location[q],
         entering' = entering \/ entering' = p,
         entering' \in Clients => entering' = p /\ g = "password"
  PROVE  TalkInv'
<1>1. /\ TalkTypes /\ ListedInv /\ InsideInv /\ ListenersInv /\ list \in Seq(Clients)
      /\ Elements(list) \subseteq Clients /\ NoName \notin Names
  BY TheListed
<1>2. /\ stage' \in [Clients -> Stages] /\ stage'[p] = g
      /\ \A q \in Clients \ {p} : stage'[q] = stage[q]
  BY <1>1 DEF TalkTypes, Stages
<1>3. \A r \in Rooms : p \notin Elements(inside[r])
  BY OutsideYet
<1>4. TalkTypes'
  BY <1>1, <1>2 DEF TalkTypes
<1>5. ListedInv'
  <2>1. \A q \in Elements(list) : q \in Clients
    BY <1>1
  <2>2. \A q \in Elements(list) : q = entering' => q = p /\ stage'[q] = "password"
    BY <1>2, <2>1
  <2>3. \A q \in Clients : stage'[q] = "absent" => q # p /\ stage[q] = "absent"
    BY <1>2
  <2>4. \A q \in Clients : stage'[q] = "absent" => name[q] = NoName /\ q # entering'
    BY <1>1, <2>3 DEF ListedInv
  <2>5. \A q \in Elements(list) : /\ stage'[q] \in {"login", "password", "create", "playing"}
                                  /\ stage'[q] # "login" => name[q] \in Names
    BY <1>1, <1>2, <2>1 DEF ListedInv
  <2> QED
    BY <1>1, <2>2, <2>4, <2>5 DEF ListedInv
<1>6. InsideInv'
  BY <1>1, <1>2, <1>3, RoomsStay
<1>7. ListenersInv'
  BY <1>1 DEF ListenersInv
<1> QED
  BY <1>4, <1>5, <1>6, <1>7 DEF TalkInv

\* The room is as it was, or p is now last in it.
LEMMA RoomWith ==
  ASSUME NEW s \in Seq(Clients \cup Things), NEW p \in Clients, OnceIn(Clients, s), p \notin Elements(s)
  PROVE  /\ Append(s, p) \in Seq(Clients \cup Things)
         /\ Elements(Append(s, p)) = Elements(s) \cup {p}
         /\ OnceIn(Clients, Append(s, p))
<1> DEFINE S == Clients \cup Things
<1>1. s \in Seq(S) /\ p \in S
  OBVIOUS
<1> HIDE DEF S
<1>2. Append(s, p) \in Seq(S) /\ Elements(Append(s, p)) = Elements(s) \cup {p}
  BY <1>1, Longer
<1>3. OnceIn(Clients, Append(s, p))
  BY <1>1, JoinedOnce
<1> QED
  BY <1>2, <1>3 DEF S

\* The player put in the room it was saved in, listed or not.
LEMMA EnterRoomKept ==
  ASSUME TalkInv, NEW p \in Clients, EnterRoom(p)
  PROVE  TalkInv'
<1>1. /\ TalkTypes /\ ListedInv /\ InsideInv /\ ListenersInv /\ list \in Seq(Clients)
      /\ Elements(list) \subseteq Clients /\ NoName \notin Names /\ Nobody \notin Clients
  BY TheListed
<1>2. entering = p /\ entering' = Nobody /\ UNCHANGED <<name, location, files, listeners>>
  BY DEF EnterRoom
<1>3. CASE Removed(p)
  BY <1>2, <1>3, RemovedKept
<1>4. CASE ~Removed(p)
  <2>1. /\ inside' = [inside EXCEPT ![location[p]] = Append(@, p)]
        /\ stage' = [stage EXCEPT ![p] = IF p \in Elements(list) THEN "playing" ELSE "gone"]
        /\ UNCHANGED list
    BY <1>4 DEF EnterRoom
  <2>2. /\ stage \in [Clients -> Stages] /\ inside \in [Rooms -> Seq(Clients \cup Things)]
        /\ location \in [Clients -> Rooms \cup {Carried}]
    BY <1>1 DEF TalkTypes
  <2>3. location[p] \in Rooms /\ \A r \in Rooms : p \notin Elements(inside[r])
    BY <1>2, OutsideYet
  <2>4. /\ stage' \in [Clients -> Stages] /\ stage'[p] = IF p \in Elements(list) THEN "playing" ELSE "gone"
        /\ \A q \in Clients \ {p} : stage'[q] = stage[q]
    BY <2>1, <2>2 DEF Stages
  <2> DEFINE here == location[p]
             new == Append(inside[here], p)
  <2>5. inside[here] \in Seq(Clients \cup Things) /\ OnceIn(Clients, inside[here])
    BY <1>1, <2>2, <2>3 DEF InsideInv
  <2>6. new \in Seq(Clients \cup Things) /\ Elements(new) = Elements(inside[here]) \cup {p} /\ OnceIn(Clients, new)
    BY <2>3, <2>5, RoomWith
  <2>7. here \in Rooms /\ inside' = [inside EXCEPT ![here] = new]
    BY <2>1, <2>3
  <2> HIDE DEF new, here
  <2>8. /\ inside' \in [Rooms -> Seq(Clients \cup Things)] /\ inside'[here] = new
        /\ \A r \in Rooms \ {here} : inside'[r] = inside[r]
    BY <2>2, <2>6, <2>7
  <2>9. TalkTypes'
    BY <1>1, <1>2, <2>1, <2>4, <2>8 DEF TalkTypes
  <2>10. ListedInv'
    <3>1. \A q \in Elements(list) : q # entering'
      BY <1>1, <1>2
    <3>2. \A q \in Clients : stage'[q] = "absent" => name[q] = NoName /\ q # entering'
      BY <1>1, <1>2, <2>4 DEF ListedInv
    <3>3. \A q \in Elements(list) : /\ stage'[q] \in {"login", "password", "create", "playing"}
                                    /\ stage'[q] # "login" => name[q] \in Names
      <4>1. \A q \in Elements(list) : q # p => stage'[q] = stage[q]
        BY <1>1, <2>4
      <4>2. p \in Elements(list) => stage[p] = "password" /\ name[p] \in Names /\ stage'[p] = "playing"
        BY <1>1, <1>2, <2>4 DEF ListedInv
      <4> QED
        BY <1>1, <4>1, <4>2 DEF ListedInv
    <3> QED
      BY <1>1, <1>2, <2>1, <3>1, <3>2, <3>3 DEF ListedInv
  <2>11. InsideInv'
    <3>1. \A q \in Clients : q # entering'
      BY <1>1, <1>2
    <3>2. \A q \in Clients : stage[q] \in {"playing", "gone"} => stage'[q] \in {"playing", "gone"}
      BY <2>4
    <3>3. stage'[p] \in {"playing", "gone"} /\ location[p] = here
      BY <2>4 DEF here
    <3>4. \A r \in Rooms : OnceIn(Clients, inside'[r])
      BY <1>1, <2>6, <2>8 DEF InsideInv
    <3>5. ASSUME NEW r \in Rooms, NEW q \in Clients, q \in Elements(inside'[r])
          PROVE  location[q] = r /\ stage'[q] \in {"playing", "gone"}
      <4>1. CASE r = here /\ q = p
        BY <3>3, <4>1
      <4>2. CASE ~(r = here /\ q = p)
        <5>1. q \in Elements(inside[r])
          BY <2>6, <2>8, <3>5, <4>2
        <5> QED
          BY <1>1, <3>2, <5>1 DEF InsideInv
      <4> QED
        BY <4>1, <4>2
    <3>6. \A q \in Clients : location[q] = Carried => stage'[q] \in {"playing", "gone"}
      BY <1>1, <3>2 DEF InsideInv
    <3> QED
      BY <1>2, <3>1, <3>4, <3>5, <3>6 DEF InsideInv
  <2>12. ListenersInv'
    BY <1>1, <1>2 DEF ListenersInv
  <2> QED
    BY <2>9, <2>10, <2>11, <2>12 DEF TalkInv
<1> QED
  BY <1>3, <1>4

\* The rooms change by one player that was let in, who says where it is.
LEMMA MovedKept ==
  ASSUME TalkInv, NEW p \in Clients, stage[p] \in {"playing", "gone"}, entering' = Nobody \/ (entering' = entering /\ p # entering),
         UNCHANGED <<list, stage, name, listeners>>,
         location' \in [Clients -> Rooms \cup {Carried}],
         \A q \in Clients \ {p} : location'[q] = location[q],
         inside' \in [Rooms -> Seq(Clients \cup Things)],
         \A r \in Rooms : OnceIn(Clients, inside'[r]),
         \A r \in Rooms : \A q \in Clients : q \in Elements(inside'[r]) =>
            (q # p /\ q \in Elements(inside[r])) \/ (q = p /\ location'[p] = r)
  PROVE  TalkInv'
<1>1. /\ TalkTypes /\ ListedInv /\ InsideInv /\ ListenersInv /\ list \in Seq(Clients)
      /\ Elements(list) \subseteq Clients /\ NoName \notin Names /\ Nobody \notin Clients
  BY TheListed
<1>2. \A q \in Clients : q = entering' => q = entering /\ q # p
  BY <1>1
<1>3. TalkTypes'
  BY <1>1 DEF TalkTypes
<1>4. ListedInv'
  BY <1>1, <1>2 DEF ListedInv
<1>5. InsideInv'
  <2>1. \A q \in Clients \ {p} : location'[q] = location[q]
    OBVIOUS
  <2>2. \A r \in Rooms : \A q \in Clients : q \in Elements(inside'[r]) =>
          location'[q] = r /\ stage[q] \in {"playing", "gone"} /\ q # entering'
    BY <1>1, <1>2, <2>1 DEF InsideInv
  <2>3. \A q \in Clients : location'[q] = Carried => stage[q] \in {"playing", "gone"} /\ q # entering'
    BY <1>1, <1>2, <2>1 DEF InsideInv
  <2> QED
    BY <2>2, <2>3 DEF InsideInv
<1>6. ListenersInv'
  BY <1>1 DEF ListenersInv
<1> QED
  BY <1>3, <1>4, <1>5, <1>6 DEF TalkInv

\* What walking does to the rooms: out of every room but the new one.
LEMMA Walked ==
  ASSUME TalkInv, NEW p \in Clients, NEW r \in Rooms, Walk(p, r)
  PROVE  /\ location[p] \in Rooms /\ Playing(p) /\ <<location[p], r>> \in Exits
         /\ inside' \in [Rooms -> Seq(Clients \cup Things)]
         /\ \A x \in Rooms : OnceIn(Clients, inside'[x])
         /\ \A x \in Rooms : Elements(inside'[x]) \ {p} = Elements(inside[x]) \ {p}
         /\ \A x \in Rooms : p \in Elements(inside'[x]) => x = r
<1> DEFINE here == location[p]
           less == Without(inside[here], p)
           left == [inside EXCEPT ![here] = less]
           in == Append(left[r], p)
<1>1. TalkTypes /\ InsideInv
  BY TheListed
<1>2. Playing(p) /\ <<here, r>> \in Exits
  BY DEF Walk
<1>3. here \in Rooms
  BY <1>2, TalkAssumption
<1>4. inside' = IF Len(left[r]) < RoomCapacity THEN [left EXCEPT ![r] = in] ELSE left
  <2>1. left = [inside EXCEPT ![here] = Without(@, p)]
    OBVIOUS
  <2> QED
    BY <2>1 DEF Walk
<1>5. inside \in [Rooms -> Seq(Clients \cup Things)] /\ \A x \in Rooms : OnceIn(Clients, inside[x])
  BY <1>1 DEF TalkTypes, InsideInv
<1>6. inside[here] \in Seq(Clients \cup Things) /\ OnceIn(Clients, inside[here])
  BY <1>3, <1>5
<1>7. less \in Seq(Clients \cup Things) /\ Elements(less) = Elements(inside[here]) \ {p} /\ OnceIn(Clients, less)
  BY <1>6, RoomWithout
<1>8. \A x \in Rooms : p \in Elements(inside[x]) => x = here
  BY <1>1 DEF InsideInv
<1> HIDE DEF less, here
<1>9. /\ left \in [Rooms -> Seq(Clients \cup Things)] /\ left[here] = less
      /\ \A x \in Rooms \ {here} : left[x] = inside[x]
  BY <1>3, <1>5, <1>7
<1> HIDE DEF left
<1>10. ASSUME NEW x \in Rooms
       PROVE  /\ left[x] \in Seq(Clients \cup Things) /\ OnceIn(Clients, left[x])
              /\ Elements(left[x]) = Elements(inside[x]) \ {p}
  <2>1. CASE x = here
    BY <1>7, <1>9, <2>1
  <2>2. CASE x # here
    <3>1. left[x] = inside[x] /\ p \notin Elements(inside[x])
      BY <1>8, <1>9, <2>2
    <3> QED
      BY <1>5, <3>1
  <2> QED
    BY <2>1, <2>2
<1>11. in \in Seq(Clients \cup Things) /\ Elements(in) = Elements(left[r]) \cup {p} /\ OnceIn(Clients, in)
  <2>1. left[r] \in Seq(Clients \cup Things) /\ OnceIn(Clients, left[r]) /\ p \notin Elements(left[r])
    BY <1>10
  <2> QED
    BY <2>1, RoomWith
<1> HIDE DEF in
<1>12. CASE inside' = left
  BY <1>2, <1>3, <1>9, <1>10, <1>12 DEF here
<1>13. CASE inside' = [left EXCEPT ![r] = in]
  <2>1. /\ inside' \in [Rooms -> Seq(Clients \cup Things)] /\ inside'[r] = in
        /\ \A x \in Rooms \ {r} : inside'[x] = left[x]
    BY <1>9, <1>11, <1>13
  <2>2. \A x \in Rooms : OnceIn(Clients, inside'[x])
    BY <1>10, <1>11, <2>1
  <2>3. \A x \in Rooms : Elements(inside'[x]) \ {p} = Elements(inside[x]) \ {p}
    BY <1>10, <1>11, <2>1
  <2>4. \A x \in Rooms : p \in Elements(inside'[x]) => x = r
    BY <1>10, <2>1
  <2> QED
    BY <1>2, <1>3, <2>1, <2>2, <2>3, <2>4 DEF here
<1> QED
  BY <1>4, <1>12, <1>13

LEMMA WalkKept ==
  ASSUME TalkInv, NEW p \in Clients, NEW r \in Rooms, Walk(p, r)
  PROVE  TalkInv'
<1>1. TalkTypes /\ location' = [location EXCEPT ![p] = r] /\ UNCHANGED <<list, stage, name, files, listeners, entering>>
  BY TheListed DEF Walk
<1>2. /\ Playing(p) /\ inside' \in [Rooms -> Seq(Clients \cup Things)]
      /\ \A x \in Rooms : OnceIn(Clients, inside'[x])
      /\ \A x \in Rooms : Elements(inside'[x]) \ {p} = Elements(inside[x]) \ {p}
      /\ \A x \in Rooms : p \in Elements(inside'[x]) => x = r
  BY Walked
<1>3. entering' = Nobody /\ stage[p] = "playing"
  BY <1>1, <1>2 DEF Playing
<1>4. /\ location' \in [Clients -> Rooms \cup {Carried}] /\ location'[p] = r
      /\ \A q \in Clients \ {p} : location'[q] = location[q]
  BY <1>1 DEF TalkTypes
<1>5. \A x \in Rooms : \A q \in Clients : q \in Elements(inside'[x]) =>
        (q # p /\ q \in Elements(inside[x])) \/ (q = p /\ location'[p] = x)
  BY <1>2, <1>4
<1> QED
  BY <1>1, <1>2, <1>3, <1>4, <1>5, MovedKept

\* A player is taken into somebody's hands.
LEMMA PickUpKept ==
  ASSUME TalkInv, NEW p \in Clients, NEW q \in Clients, PickUp(p, q)
  PROVE  TalkInv'
<1> DEFINE here == location[p]
           less == Without(inside[here], q)
<1>1. TalkTypes /\ InsideInv
  BY TheListed
<1>2. /\ Playing(p) /\ here \in Rooms /\ q \in Elements(inside[here])
      /\ inside' = [inside EXCEPT ![here] = less] /\ location' = [location EXCEPT ![q] = Carried]
      /\ UNCHANGED <<list, stage, name, files, listeners, entering>>
  BY DEF PickUp
<1>3. stage[q] = "playing" \/ stage[q] = "gone"
  BY <1>1, <1>2 DEF InsideInv
<1>4. entering' = Nobody
  BY <1>2 DEF Playing
<1>5. inside \in [Rooms -> Seq(Clients \cup Things)] /\ \A x \in Rooms : OnceIn(Clients, inside[x])
  BY <1>1 DEF TalkTypes, InsideInv
<1>6. inside[here] \in Seq(Clients \cup Things) /\ OnceIn(Clients, inside[here])
  BY <1>2, <1>5
<1>7. less \in Seq(Clients \cup Things) /\ Elements(less) = Elements(inside[here]) \ {q} /\ OnceIn(Clients, less)
  BY <1>6, RoomWithout
<1>8. \A x \in Rooms : q \in Elements(inside[x]) => x = here
  BY <1>1, <1>2 DEF InsideInv
<1> HIDE DEF less, here
<1>9. /\ inside' \in [Rooms -> Seq(Clients \cup Things)] /\ inside'[here] = less
      /\ \A x \in Rooms \ {here} : inside'[x] = inside[x]
  BY <1>2, <1>5, <1>7
<1>10. \A x \in Rooms : OnceIn(Clients, inside'[x])
  BY <1>5, <1>7, <1>9
<1>11. \A x \in Rooms : \A y \in Clients : y \in Elements(inside'[x]) => y # q /\ y \in Elements(inside[x])
  BY <1>7, <1>8, <1>9
<1>12. location' \in [Clients -> Rooms \cup {Carried}] /\ \A y \in Clients \ {q} : location'[y] = location[y]
  BY <1>1, <1>2 DEF TalkTypes
<1> QED
  BY <1>2, <1>3, <1>4, <1>9, <1>10, <1>11, <1>12, MovedKept

\* What leaves everything but the channels as it is.
LEMMA QuietKept ==
  ASSUME TalkInv, Silent, UNCHANGED listeners \/ \E c \in Channels, s \in Seq(Names) :
           OnceIn(Names, s) /\ listeners' = [listeners EXCEPT ![c] = s]
  PROVE  TalkInv'
<1>1. TalkTypes /\ ListedInv /\ InsideInv /\ ListenersInv
  BY TheListed
<1>2. listeners' \in [Channels -> Seq(Names)] /\ \A c \in Channels : OnceIn(Names, listeners'[c])
  <2>1. listeners \in [Channels -> Seq(Names)] /\ \A c \in Channels : OnceIn(Names, listeners[c])
    BY <1>1 DEF TalkTypes, ListenersInv
  <2>2. CASE UNCHANGED listeners
    BY <2>1, <2>2
  <2>3. CASE ~UNCHANGED listeners
    <3>1. PICK c \in Channels : \E s \in Seq(Names) : OnceIn(Names, s) /\ listeners' = [listeners EXCEPT ![c] = s]
      BY <2>3
    <3>2. PICK s \in Seq(Names) : OnceIn(Names, s) /\ listeners' = [listeners EXCEPT ![c] = s]
      BY <3>1
    <3>3. \A d \in Channels : listeners'[d] = IF d = c THEN s ELSE listeners[d]
      BY <2>1, <3>2
    <3>4. listeners' \in [Channels -> Seq(Names)]
      BY <2>1, <3>2
    <3> QED
      BY <2>1, <3>2, <3>3, <3>4
  <2> QED
    BY <2>2, <2>3
<1>3. TalkTypes'
  BY <1>1, <1>2 DEF TalkTypes, Silent
<1>4. ListedInv'
  BY <1>1 DEF ListedInv, Silent
<1>5. InsideInv'
  BY <1>1 DEF InsideInv, Silent
<1>6. ListenersInv'
  BY <1>2 DEF ListenersInv
<1> QED
  BY <1>3, <1>4, <1>5, <1>6 DEF TalkInv

\* ChatChannel::add() and remove() of the name of a player.
LEMMA ChannelKept ==
  ASSUME TalkInv, NEW p \in Clients, NEW c \in Channels, Join(p, c) \/ Leave(p, c)
  PROVE  TalkInv'
<1>1. /\ Playing(p) /\ Silent
      /\ AddListener(c, name[p]) \/ RemoveListener(c, name[p])
  BY DEF Join, Leave
<1> DEFINE n == name[p]
           s == listeners[c]
           at == {i \in DOMAIN s : s[i] = n}
           I == DOMAIN s \ {i \in at : \A j \in at : i <= j}
           less == InOrder(s, I)
<1>2. ListedInv /\ s \in Seq(Names) /\ OnceIn(Names, s)
  BY TheListed DEF TalkTypes, ListenersInv
<1>3. n \in Names
  BY <1>1, <1>2 DEF ListedInv, Playing
<1>4. /\ AddListener(c, n) => listeners' = [listeners EXCEPT ![c] = IF n \in Elements(s) THEN s ELSE Append(s, n)]
      /\ RemoveListener(c, n) => listeners' = [listeners EXCEPT ![c] = less]
  BY DEF AddListener, RemoveListener
<1>5. I \in SUBSET DOMAIN s
  OBVIOUS
<1> HIDE DEF n, s, at, I
<1>6. less \in Seq(Names) /\ OnceIn(Names, less)
  BY <1>2, <1>5, ChosenOnce, Ordered
<1>7. n \notin Elements(s) => Append(s, n) \in Seq(Names) /\ OnceIn(Names, Append(s, n))
  BY <1>2, <1>3, JoinedOnce, Longer
<1>8. AddListener(c, n) \/ RemoveListener(c, n)
  BY <1>1 DEF n
<1> QED
  BY <1>1, <1>2, <1>4, <1>6, <1>7, <1>8, QuietKept

LEMMA CommandsQuiet ==
  ASSUME TalkInv, Silent, UNCHANGED listeners
  PROVE  TalkInv'
BY QuietKept

\* Every step keeps the invariant.
LEMMA TalkStep ==
  ASSUME TalkInv, [TalkNext]_talkVars
  PROVE  TalkInv'
<1>1. CASE UNCHANGED talkVars
  BY <1>1, CommandsQuiet DEF talkVars, Silent
<1>2. ASSUME NEW p \in Clients,
             Connect(p) \/ Drop(p) \/ AgreesToCreate(p) \/ Announce(p) \/ EnterRoom(p) \/ Create(p) \/ Quit(p)
      PROVE  TalkInv'
  <2>1. /\ TalkTypes /\ ListedInv /\ NoName \notin Names /\ Nobody \notin Clients /\ StartRoom \in Rooms
        /\ stage \in [Clients -> Stages] /\ location \in [Clients -> Rooms \cup {Carried}]
    BY TheListed, TalkAssumption DEF TalkTypes
  <2>2. CASE Connect(p)
    BY <2>2, ConnectKept
  <2>3. CASE EnterRoom(p)
    BY <2>3, EnterRoomKept
  <2>4. CASE Drop(p) \/ Quit(p)
    BY <2>4, RemovedKept DEF Drop, Quit
  <2>5. CASE AgreesToCreate(p)
    <3>1. /\ entering = Nobody /\ p \in Elements(list) /\ stage[p] = "login" /\ name[p] \in Names
          /\ stage' = [stage EXCEPT ![p] = "create"]
          /\ UNCHANGED <<list, name, location, inside, files, listeners, entering>>
      BY <2>1, <2>5 DEF AgreesToCreate, TalkTypes
    <3>2. location[p] \in Rooms
      BY <3>1, OutsideYet
    <3> QED
      BY <2>1, <3>1, <3>2, StageKept
  <2>6. CASE Announce(p)
    <3>1. /\ p \in Elements(list) /\ stage[p] = "password" /\ entering' = p
          /\ UNCHANGED <<list, stage, name, location, inside, files, listeners>>
      BY <2>6 DEF Announce
    <3>2. stage' = [stage EXCEPT ![p] = "password"] /\ name[p] \in Names
      BY <2>1, <3>1 DEF ListedInv
    <3>3. location[p] \in Rooms
      BY <3>1, OutsideYet
    <3> QED
      BY <2>1, <3>1, <3>2, <3>3, StageKept
  <2>7. CASE Create(p)
    <3>1. /\ entering = Nobody /\ p \in Elements(list) /\ stage[p] = "create"
          /\ stage' = [stage EXCEPT ![p] = "playing"] /\ location' = [location EXCEPT ![p] = StartRoom]
          /\ UNCHANGED <<list, name, inside, listeners, entering>>
      BY <2>7 DEF Create
    <3>2. name[p] \in Names
      BY <2>1, <3>1 DEF ListedInv
    <3>3. /\ location' \in [Clients -> Rooms \cup {Carried}] /\ location'[p] \in Rooms
          /\ \A q \in Clients \ {p} : location'[q] = location[q]
      BY <2>1, <3>1
    <3> QED
      BY <2>1, <3>1, <3>2, <3>3, StageKept
  <2> QED
    BY <1>2, <2>2, <2>3, <2>4, <2>5, <2>6, <2>7
<1>3. ASSUME NEW p \in Clients, NEW n \in Names, Login(p, n)
      PROVE  TalkInv'
  BY <1>3, LoginKept
<1>4. ASSUME NEW p \in Clients, NEW r \in Rooms, Walk(p, r)
      PROVE  TalkInv'
  BY <1>4, WalkKept
<1>5. ASSUME NEW p \in Clients, NEW q \in Clients, PickUp(p, q)
      PROVE  TalkInv'
  BY <1>5, PickUpKept
<1>6. ASSUME NEW p \in Clients, NEW c \in Channels, Join(p, c) \/ Leave(p, c)
      PROVE  TalkInv'
  BY <1>6, ChannelKept
<1>7. ASSUME NEW p \in Clients, Speak(p) \/ Emote(p) \/ SocialAlone(p) \/ (\E n \in Names : Tell(p, n) \/ SocialAt(p, n))
                                \/ (\E c \in Channels : Chat(p, c))
      PROVE  TalkInv'
  BY <1>7, CommandsQuiet DEF Speak, Emote, SocialAlone, ToAllHere, Tell, SocialAt, Chat
<1>8. ASSUME NEW r \in Rooms, Weather(r)
      PROVE  TalkInv'
  BY <1>8, CommandsQuiet DEF Weather
<1>9. CASE \E p \in Clients :
          \/ Connect(p) \/ Drop(p) \/ AgreesToCreate(p) \/ Announce(p) \/ EnterRoom(p)
          \/ Create(p) \/ Quit(p) \/ Speak(p) \/ Emote(p) \/ SocialAlone(p)
          \/ \E n \in Names : Login(p, n) \/ Tell(p, n) \/ SocialAt(p, n)
          \/ \E r \in Rooms : Walk(p, r)
          \/ \E q \in Clients : PickUp(p, q)
          \/ \E c \in Channels : Join(p, c) \/ Leave(p, c) \/ Chat(p, c)
  BY <1>2, <1>3, <1>4, <1>5, <1>6, <1>7, <1>9
<1> QED
  BY <1>1, <1>8, <1>9 DEF TalkNext

\* Whatever happens, the list has no name twice, a room has nobody twice, and
\* only players that were let in, and a channel has no listener twice.
THEOREM TalkInvariant == TalkSpec => []TalkInv
<1>1. TalkInit => TalkInv
  BY TalkStarts
<1>2. TalkInv /\ [TalkNext]_talkVars => TalkInv'
  BY TalkStep
<1> QED
  BY <1>1, <1>2, PTL DEF TalkSpec

-----------------------------------------------------------------------------
(* Who hears what.                                                         *)

\* What is written to a name is written to the one player of the name.
LEMMA ToldByName ==
  ASSUME TalkInv, NEW n, NEW m
  PROVE  /\ ToName(n, m) \in Seq([who : Clients, type : {m.type}, from : {m.from}])
         /\ ToldOnce(ToName(n, m))
         /\ AllOf(ToName(n, m), m.type)
         /\ \A p \in Hearers(ToName(n, m)) : p \in Elements(list) /\ name[p] = n
         /\ ToName(n, m) # <<>> => /\ 1 \in DOMAIN ToName(n, m)
                                   /\ ToName(n, m)[1].who \in Hearers(ToName(n, m))
         /\ \A p \in Elements(list) : n \in Names /\ name[p] = n /\ ~Ignores(p, m) =>
              Hearers(ToName(n, m)) = {p}
<1> DEFINE T == [who : Clients, type : {m.type}, from : {m.from}]
           W == ToName(n, m)
<1>1. ListedInv /\ list \in Seq(Clients) /\ Elements(list) \subseteq Clients
  BY TheListed
<1>2. /\ Named(n) \in Seq(Clients) /\ OnceIn(Clients, Named(n))
      /\ Held(n) <=> \E p \in Elements(list) : name[p] = n
      /\ Held(n) => /\ Elements(Named(n)) = {Named(n)[1]}
                    /\ Named(n)[1] \in Elements(list) /\ name[Named(n)[1]] = n
      /\ ~Held(n) => Elements(Named(n)) = {}
  BY <1>1, NamedOne
<1>3. /\ W \in Seq(T) /\ AllOf(W, m.type) /\ ToldOnce(W)
      /\ Hearers(W) = {p \in Elements(Named(n)) : p \in Clients /\ ~Ignores(p, m)}
  BY <1>2, WrittenTo DEF ToName
<1> HIDE DEF T, W
<1>4. \A p \in Hearers(W) : p \in Elements(list) /\ name[p] = n
  BY <1>2, <1>3
<1>5. W # <<>> => 1 \in DOMAIN W /\ W[1].who \in Hearers(W)
  <2> SUFFICES ASSUME W # <<>> PROVE 1 \in DOMAIN W /\ W[1].who \in Hearers(W)
    OBVIOUS
  <2>1. Len(W) \in Nat /\ Len(W) # 0 /\ DOMAIN W = 1 .. Len(W)
    BY <1>3, Positions, EmptySeq
  <2>2. 1 \in DOMAIN W
    BY <2>1
  <2> QED
    BY <2>2 DEF Hearers
<1>6. ASSUME NEW p \in Elements(list), n \in Names, name[p] = n, ~Ignores(p, m)
      PROVE  Hearers(W) = {p}
  <2>1. Held(n)
    BY <1>2, <1>6
  <2>2. Named(n)[1] = p
    BY <1>1, <1>2, <1>6, <2>1 DEF ListedInv
  <2> QED
    BY <1>1, <1>2, <1>3, <1>6, <2>1, <2>2
<1> QED
  BY <1>3, <1>4, <1>5, <1>6 DEF T, W

\* ChatChannel::broadcast(): every listener that is found is told once, and who
\* speaks is among them.
LEMMA ToldByChannel ==
  ASSUME TalkInv, NEW c \in Channels, NEW m
  PROVE  /\ ToldOnce(ToChannel(c, m))
         /\ AllOf(ToChannel(c, m), m.type)
         /\ \A p \in Elements(list) : m.from = name[p] /\ name[p] \in Elements(listeners[c]) /\ ~Ignores(p, m)
              => p \in Hearers(ToChannel(c, m))
<1> DEFINE s == listeners[c]
           I == {i \in DOMAIN s : ToName(s[i], m) # <<>>}
           o == InOrder(s, I)
           W == ToChannel(c, m)
<1>1. s \in Seq(Names) /\ OnceIn(Names, s) /\ I \in SUBSET DOMAIN s
  BY TheListed DEF TalkTypes, ListenersInv
<1>2. W = IF m.from \in Elements(s) THEN [i \in DOMAIN o |-> ToName(o[i], m)[1]] ELSE <<>>
  BY DEF ToChannel
<1>3. Elements(o) = {s[i] : i \in I} /\ OnceIn(Names, o) /\ o \in Seq(Names)
  BY <1>1, Ordered, ChosenOnce
<1>4. \A i \in DOMAIN o : o[i] \in Names /\ ToName(o[i], m) # <<>>
  <2>1. \A x \in Elements(o) : ToName(x, m) # <<>>
    BY <1>3
  <2> QED
    BY <1>3, <2>1, Positions DEF Elements
<1>5. \A x \in Elements(s) : ToName(x, m) # <<>> => x \in Elements(o)
  BY <1>3 DEF Elements
<1> HIDE DEF s, I, o, W
<1>6. CASE m.from \notin Elements(s)
  <2>1. W = <<>>
    BY <1>2, <1>6
  <2>2. ToldOnce(W) /\ AllOf(W, m.type)
    BY <2>1 DEF ToldOnce, AllOf
  <2> QED
    BY <1>6, <2>2 DEF s, W
<1>7. CASE m.from \in Elements(s)
  <2>1. DOMAIN W = DOMAIN o /\ \A i \in DOMAIN W : W[i] = ToName(o[i], m)[1]
    BY <1>2, <1>7
  <2>2. ASSUME NEW i \in DOMAIN W
        PROVE  W[i].who \in Hearers(ToName(o[i], m)) /\ name[W[i].who] = o[i] /\ W[i].type = m.type /\ o[i] \in Names
    <3> DEFINE n == o[i]
               one == ToName(n, m)
    <3>1. n \in Names /\ one # <<>> /\ W[i] = one[1]
      BY <1>4, <2>1
    <3>2. /\ AllOf(one, m.type) /\ \A p \in Hearers(one) : name[p] = n
          /\ one # <<>> => 1 \in DOMAIN one /\ one[1].who \in Hearers(one)
      BY ToldByName
    <3> HIDE DEF n, one
    <3>3. W[i].who \in Hearers(one) /\ name[W[i].who] = n /\ W[i].type = m.type
      BY <3>1, <3>2 DEF AllOf
    <3> QED
      BY <3>1, <3>3 DEF n, one
  <2>3. ToldOnce(W)
    BY <1>3, <2>1, <2>2 DEF ToldOnce, OnceIn
  <2>4. AllOf(W, m.type)
    BY <2>2 DEF AllOf
  <2>5. ASSUME NEW p \in Elements(list), m.from = name[p], name[p] \in Elements(s), ~Ignores(p, m)
        PROVE  p \in Hearers(W)
    <3> DEFINE n == name[p]
    <3>1. n \in Names
      BY <1>1, <2>5, Positions DEF Elements
    <3>2. Hearers(ToName(n, m)) = {p}
      BY <2>5, <3>1, ToldByName
    <3>3. ToName(n, m) # <<>>
      BY <3>2 DEF Hearers
    <3>4. n \in Elements(o)
      BY <1>5, <2>5, <3>3
    <3>5. PICK i \in DOMAIN o : o[i] = n
      BY <3>4 DEF Elements
    <3>6. W[i].who \in Hearers(ToName(n, m)) /\ i \in DOMAIN W
      BY <2>1, <2>2, <3>5
    <3> QED
      BY <3>2, <3>6 DEF Hearers
  <2> QED
    BY <2>3, <2>4, <2>5 DEF s, W
<1> QED
  BY <1>6, <1>7

\* A message in a room is written once to each player in it, who was let in.
LEMMA ToldByRoom ==
  ASSUME TalkInv, NEW r, NEW m
  PROVE  /\ ToRoom(r, m) \in Seq([who : Clients, type : {m.type}, from : {m.from}])
         /\ ToldOnce(ToRoom(r, m)) /\ AllOf(ToRoom(r, m), m.type)
         /\ \A p \in Hearers(ToRoom(r, m)) : p \in Clients /\ ~Ignores(p, m) /\ stage[p] \in {"playing", "gone"}
<1>1. TalkTypes /\ InsideInv
  BY TheListed
<1>2. CASE r \in Rooms
  <2> DEFINE S == Clients \cup Things
             s == inside[r]
  <2>1. s \in Seq(S) /\ OnceIn(Clients, s) /\ ToRoom(r, m) = Written(s, m)
    BY <1>1, <1>2 DEF TalkTypes, InsideInv, ToRoom
  <2>2. \A p \in Clients : p \in Elements(s) => stage[p] \in {"playing", "gone"}
    BY <1>1, <1>2 DEF InsideInv
  <2> HIDE DEF S, s
  <2>3. /\ Written(s, m) \in Seq([who : Clients, type : {m.type}, from : {m.from}])
        /\ AllOf(Written(s, m), m.type)
        /\ Hearers(Written(s, m)) = {p \in Elements(s) : p \in Clients /\ ~Ignores(p, m)}
        /\ ToldOnce(Written(s, m))
    BY <2>1, WrittenTo
  <2> QED
    BY <2>1, <2>2, <2>3
<1>3. CASE r \notin Rooms
  <2>1. ToRoom(r, m) = <<>>
    BY <1>3 DEF ToRoom
  <2> QED
    BY <2>1 DEF ToldOnce, AllOf, Hearers
<1> QED
  BY <1>2, <1>3

\* Those left behind hear of a walk, and those in the new room; not the walker.
LEMMA ToldOfWalk ==
  ASSUME TalkInv, NEW p \in Clients, NEW r \in Rooms, Walk(p, r)
  PROVE  /\ AllOf(heard', "EntranceExit")
         /\ \A q \in Hearers(heard') : q \in Clients /\ stage'[q] \in {"playing", "gone"}
         /\ location[p] # r => ToldOnce(heard')
<1> DEFINE here == location[p]
           m == Msg("EntranceExit", name[p], NoName)
           T == [who : Clients, type : {m.type}, from : {m.from}]
           S == Clients \cup Things
           less == Without(inside[here], p)
           left == [inside EXCEPT ![here] = less]
           g == Written(less, m)
           h == Written(inside'[r], m)
<1>1. TalkTypes /\ InsideInv
  BY TheListed
<1>2. /\ here \in Rooms /\ inside' \in [Rooms -> Seq(S)]
      /\ \A x \in Rooms : OnceIn(Clients, inside'[x])
      /\ \A x \in Rooms : Elements(inside'[x]) \ {p} = Elements(inside[x]) \ {p}
  BY Walked
<1>3. inside \in [Rooms -> Seq(S)] /\ UNCHANGED stage
  BY <1>1 DEF TalkTypes, Walk
<1>4. heard' = g \o h
  <2>1. left = [inside EXCEPT ![here] = Without(@, p)] /\ left[here] = less
    BY <1>2, <1>3
  <2>2. heard' = Written(left[here], m) \o h
    BY <2>1 DEF Walk
  <2> QED
    BY <2>1, <2>2
<1>5. \A q : name[p] = name[q] => Ignores(q, m)
  BY DEF Ignores, Msg
<1>6. m.type = "EntranceExit"
  BY DEF Msg
<1>7. less \in Seq(S) /\ Elements(less) = Elements(inside[here]) \ {p} /\ OnceIn(Clients, less)
  <2>1. inside[here] \in Seq(S) /\ OnceIn(Clients, inside[here])
    BY <1>1, <1>2, <1>3 DEF InsideInv
  <2> QED
    BY <2>1, RoomWithout
<1>8. inside'[r] \in Seq(S) /\ OnceIn(Clients, inside'[r])
  BY <1>2
<1> HIDE DEF S, m, T, less
<1>9. /\ g \in Seq(T) /\ AllOf(g, m.type) /\ ToldOnce(g)
      /\ Hearers(g) = {q \in Elements(less) : q \in Clients /\ ~Ignores(q, m)}
  BY <1>7, WrittenTo DEF T
<1>10. /\ h \in Seq(T) /\ AllOf(h, m.type) /\ ToldOnce(h)
       /\ Hearers(h) = {q \in Elements(inside'[r]) : q \in Clients /\ ~Ignores(q, m)}
  BY <1>8, WrittenTo DEF T
<1>11. \A q \in Hearers(g) : q \in Clients /\ q \in Elements(inside[here])
  BY <1>7, <1>9
<1>12. \A q \in Hearers(h) : q \in Clients /\ q \in Elements(inside[r])
  BY <1>2, <1>5, <1>10
<1> HIDE DEF g, h, here
<1>13. /\ Hearers(heard') = Hearers(g) \cup Hearers(h)
       /\ ToldOnce(g) /\ ToldOnce(h) /\ Hearers(g) \cap Hearers(h) = {} => ToldOnce(heard')
       /\ AllOf(g, m.type) /\ AllOf(h, m.type) => AllOf(heard', m.type)
  BY <1>4, <1>9, <1>10, BothWritten
<1>14. \A q \in Hearers(heard') : q \in Clients /\ stage'[q] \in {"playing", "gone"}
  BY <1>1, <1>2, <1>3, <1>11, <1>12, <1>13 DEF InsideInv
<1>15. here # r => Hearers(g) \cap Hearers(h) = {}
  BY <1>1, <1>2, <1>11, <1>12 DEF InsideInv
<1> QED
  BY <1>6, <1>9, <1>10, <1>13, <1>14, <1>15 DEF here

\* The target of a social is spared what the room is shown.
LEMMA ToldOfSocial ==
  ASSUME TalkInv, NEW p \in Clients, NEW w \in Names, SocialAt(p, w)
  PROVE  AllOf(heard', "Social") /\ ToldOnce(heard')
<1> DEFINE m == Msg("Social", name[p], NoName)
           o == Msg("Social", name[p], Header(w))
           T == [who : Clients, type : {m.type}, from : {m.from}]
           g == ToName(w, m)
           h == Around(p, o)
<1>1. heard' = g \o h
  BY DEF SocialAt
<1>2. m.type = "Social" /\ o.type = m.type /\ o.from = m.from
  BY DEF Msg
<1>3. \A q : name[q] = w => Ignores(q, o)
  BY DEF Ignores, Msg, Header
<1> HIDE DEF m, o
<1>4. g \in Seq(T) /\ ToldOnce(g) /\ AllOf(g, m.type) /\ \A q \in Hearers(g) : name[q] = w
  BY ToldByName
<1>5. h \in Seq(T) /\ ToldOnce(h) /\ AllOf(h, m.type) /\ \A q \in Hearers(h) : ~Ignores(q, o)
  BY <1>2, ToldByRoom DEF Around
<1> HIDE DEF T, g, h
<1>6. Hearers(g) \cap Hearers(h) = {}
  BY <1>3, <1>4, <1>5
<1>7. /\ ToldOnce(g) /\ ToldOnce(h) /\ Hearers(g) \cap Hearers(h) = {} => ToldOnce(heard')
      /\ AllOf(g, m.type) /\ AllOf(h, m.type) => AllOf(heard', m.type)
  BY <1>1, <1>4, <1>5, BothWritten
<1> QED
  BY <1>2, <1>4, <1>5, <1>6, <1>7

\* What is announced is written once to each of the list.
LEMMA ToldToAll ==
  ASSUME TalkInv, NEW m
  PROVE  ToldOnce(Broadcast(m)) /\ AllOf(Broadcast(m), m.type)
<1>1. list \in Seq(Clients) /\ OnceIn(Clients, list)
  BY TheListed DEF ListedInv
<1> QED
  BY <1>1, WrittenTo DEF Broadcast

\* Who heard of a step that tells everybody once.
Fitting(h, at) ==
  \/ \E type \in {"Login", "Quit", "Chat", "Tell", "Social"} : AllOf(h, type)
  \/ \A p \in Hearers(h) : at[p] \in {"playing", "gone"}

LEMMA ToldStep ==
  ASSUME TalkInv, TalkNext
  PROVE  /\ (\A e \in Exits : e[1] # e[2]) => ToldOnce(heard')
         /\ Fitting(heard', stage')
<1> USE DEF Fitting
<1>1. ASSUME heard' = <<>> PROVE ToldOnce(heard') /\ Fitting(heard', stage')
  BY <1>1 DEF ToldOnce, Hearers
<1>2. ASSUME NEW p \in Clients,
             \/ Connect(p) \/ Drop(p) \/ AgreesToCreate(p) \/ EnterRoom(p)
             \/ \E n \in Names : Login(p, n)
             \/ \E q \in Clients : PickUp(p, q)
             \/ \E c \in Channels : Join(p, c) \/ Leave(p, c)
      PROVE  heard' = <<>>
  BY <1>2 DEF Connect, Drop, AgreesToCreate, EnterRoom, Login, PickUp, Join, Leave
<1>3. ASSUME NEW p \in Clients, Announce(p) \/ Create(p) \/ Quit(p)
      PROVE  ToldOnce(heard') /\ Fitting(heard', stage')
  <2>1. \E m : heard' = Broadcast(m) /\ m.type \in {"Login", "Quit"}
    <3>1. /\ Msg("Login", name[p], NoName).type = "Login" /\ Msg("Quit", name[p], NoName).type = "Quit"
          /\ \/ heard' = Broadcast(Msg("Login", name[p], NoName))
             \/ heard' = Broadcast(Msg("Quit", name[p], NoName))
      BY <1>3 DEF Announce, Create, Quit, Msg
    <3> QED
      BY <3>1
  <2> QED
    BY <2>1, ToldToAll
<1>4. ASSUME NEW r, NEW m, heard' = ToRoom(r, m), UNCHANGED stage
      PROVE  ToldOnce(heard') /\ Fitting(heard', stage')
  BY <1>4, ToldByRoom
<1>5. ASSUME NEW p \in Clients, Speak(p) \/ Emote(p) \/ SocialAlone(p)
      PROVE  ToldOnce(heard') /\ Fitting(heard', stage')
  <2>1. PICK type : ToAllHere(p, type)
    BY <1>5 DEF Speak, Emote, SocialAlone
  <2>2. \E r, m : heard' = ToRoom(r, m) /\ UNCHANGED stage
    BY <2>1 DEF ToAllHere, Around, Silent
  <2> QED
    BY <1>4, <2>2
<1>6. ASSUME NEW p \in Clients, NEW n \in Names, Tell(p, n)
      PROVE  ToldOnce(heard') /\ Fitting(heard', stage')
  <2>1. ListedInv /\ NoName \notin Names
    BY TheListed
  <2>2. Playing(p) /\ UNCHANGED stage /\ (heard' = Answer(p) \/ heard' = ToName(n, Msg("Tell", name[p], NoName)))
    BY <1>6 DEF Tell, Silent
  <2>3. CASE heard' = Answer(p)
    <3>1. p \in Elements(list) /\ stage[p] = "playing" /\ name[p] \in Names
      BY <2>1, <2>2 DEF Playing, ListedInv
    <3>2. ToldOnce(heard') /\ \A q \in Hearers(heard') : q \in Elements(list) /\ name[q] = name[p]
      BY <2>3, ToldByName DEF Answer
    <3>3. \A q \in Hearers(heard') : q = p
      BY <2>1, <3>1, <3>2 DEF ListedInv
    <3> QED
      BY <2>2, <3>1, <3>2, <3>3
  <2>4. CASE heard' = ToName(n, Msg("Tell", name[p], NoName))
    <3> DEFINE m == Msg("Tell", name[p], NoName)
    <3>1. m.type = "Tell" /\ heard' = ToName(n, m)
      BY <2>4 DEF Msg
    <3> HIDE DEF m
    <3>2. ToldOnce(ToName(n, m)) /\ AllOf(ToName(n, m), m.type)
      BY ToldByName
    <3>3. ToldOnce(heard') /\ AllOf(heard', "Tell")
      BY <3>1, <3>2
    <3> QED
      BY <3>3
  <2> QED
    BY <2>2, <2>3, <2>4
<1>7. ASSUME NEW p \in Clients, NEW n \in Names, SocialAt(p, n)
      PROVE  ToldOnce(heard') /\ Fitting(heard', stage')
  BY <1>7, ToldOfSocial
<1>8. ASSUME NEW p \in Clients, NEW c \in Channels, Chat(p, c)
      PROVE  ToldOnce(heard') /\ Fitting(heard', stage')
  <2>1. heard' = ToChannel(c, Msg("Chat", name[p], NoName)) /\ Msg("Chat", name[p], NoName).type = "Chat"
    BY <1>8 DEF Chat, Msg
  <2>2. ToldOnce(heard') /\ AllOf(heard', "Chat")
    BY <2>1, ToldByChannel
  <2> QED
    BY <2>2
<1>9. ASSUME NEW p \in Clients, NEW r \in Rooms, Walk(p, r)
      PROVE  ((\A e \in Exits : e[1] # e[2]) => ToldOnce(heard')) /\ Fitting(heard', stage')
  <2>1. <<location[p], r>> \in Exits
    BY <1>9 DEF Walk
  <2>2. (\A e \in Exits : e[1] # e[2]) => location[p] # r
    BY <2>1
  <2> QED
    BY <1>9, <2>2, ToldOfWalk
<1>10. ASSUME NEW r \in Rooms, Weather(r)
       PROVE  ToldOnce(heard') /\ Fitting(heard', stage')
  BY <1>4, <1>10 DEF Weather, Silent
<1> DEFINE Right == ((\A e \in Exits : e[1] # e[2]) => ToldOnce(heard')) /\ Fitting(heard', stage')
<1>11. ASSUME NEW p \in Clients,
          \/ Connect(p) \/ Drop(p) \/ AgreesToCreate(p) \/ Announce(p) \/ EnterRoom(p)
          \/ Create(p) \/ Quit(p) \/ Speak(p) \/ Emote(p) \/ SocialAlone(p)
          \/ \E n \in Names : Login(p, n) \/ Tell(p, n) \/ SocialAt(p, n)
          \/ \E r \in Rooms : Walk(p, r)
          \/ \E q \in Clients : PickUp(p, q)
          \/ \E c \in Channels : Join(p, c) \/ Leave(p, c) \/ Chat(p, c)
       PROVE  Right
  BY <1>1, <1>2, <1>3, <1>5, <1>6, <1>7, <1>8, <1>9, <1>11
<1>12. Right
  BY <1>10, <1>11 DEF TalkNext
<1> QED
  BY <1>12

\* One command writes nobody two messages, in a world without an exit back to its
\* own room: processMessage() and the list, the rooms and the channels.
THEOREM NobodyHearsTwice ==
  ASSUME \A e \in Exits : e[1] # e[2]
  PROVE  TalkSpec => []HeardOnce
<1>1. TalkInit => TalkInv /\ HeardOnce
  BY TalkStarts DEF TalkInit, HeardOnce
<1>2. TalkInv /\ HeardOnce /\ [TalkNext]_talkVars => TalkInv' /\ HeardOnce'
  <2>1. TalkInv /\ [TalkNext]_talkVars => TalkInv'
    BY TalkStep
  <2>2. TalkInv /\ TalkNext => ToldOnce(heard')
    BY ToldStep
  <2>3. ToldOnce(heard') => HeardOnce'
    BY DEF ToldOnce, HeardOnce
  <2>4. HeardOnce /\ UNCHANGED talkVars => HeardOnce'
    BY DEF HeardOnce, talkVars
  <2> QED
    BY <2>1, <2>2, <2>3, <2>4
<1> QED
  BY <1>1, <1>2, PTL DEF TalkSpec

\* Who has not given a password hears nothing of what is said or done in a room.
THEOREM RoomsAreNotForStrangers == TalkSpec => []NotOverheard
<1>1. TalkInit => TalkInv /\ NotOverheard
  BY TalkStarts DEF TalkInit, NotOverheard
<1>2. TalkInv /\ NotOverheard /\ [TalkNext]_talkVars => TalkInv' /\ NotOverheard'
  <2>1. TalkInv /\ [TalkNext]_talkVars => TalkInv'
    BY TalkStep
  <2>2. TalkInv /\ TalkNext => Fitting(heard', stage')
    BY ToldStep
  <2>3. Fitting(heard', stage') => NotOverheard'
    BY DEF Fitting, NotOverheard, AllOf, Hearers
  <2>4. NotOverheard /\ UNCHANGED talkVars => NotOverheard'
    BY DEF NotOverheard, talkVars
  <2> QED
    BY <2>1, <2>2, <2>3, <2>4
<1> QED
  BY <1>1, <1>2, PTL DEF TalkSpec

\* Who chats as a listener, or tells somebody who is not there, reads a line back.
THEOREM WhoSpeaksIsAnswered == TalkSpec => Echoed
<1> DEFINE Answered ==
      \A p \in Clients : location[p] \in Rooms =>
          /\ \A c \in Channels :
                Chat(p, c) /\ name[p] \in Elements(listeners[c]) => p \in Hearers(heard')
          /\ \A n \in Names : Tell(p, n) =>
                \/ Hearers(heard') # {}
                \/ \E q \in Elements(list) : name[q] = n /\ location[q] = Carried
<1>1. ASSUME TalkInv PROVE Answered
  <2>1. ListedInv /\ TalkTypes /\ list \in Seq(Clients) /\ Elements(list) \subseteq Clients
    BY <1>1, TheListed
  <2>2. ASSUME NEW p \in Clients, location[p] \in Rooms, NEW c \in Channels, Chat(p, c), name[p] \in Elements(listeners[c])
        PROVE  p \in Hearers(heard')
    <3> DEFINE m == Msg("Chat", name[p], NoName)
    <3>1. p \in Elements(list) /\ heard' = ToChannel(c, m)
      BY <2>2 DEF Chat, Playing
    <3>2. m.from = name[p] /\ ~Ignores(p, m)
      BY <2>2 DEF Ignores, Msg
    <3> HIDE DEF m
    <3> QED
      BY <1>1, <2>2, <3>1, <3>2, ToldByChannel
  <2>3. ASSUME NEW p \in Clients, location[p] \in Rooms, NEW n \in Names, Tell(p, n)
        PROVE  \/ Hearers(heard') # {}
               \/ \E q \in Elements(list) : name[q] = n /\ location[q] = Carried
    <3>1. p \in Elements(list) /\ stage[p] = "playing" /\ name[p] \in Names
      BY <2>1, <2>3 DEF Tell, Playing, ListedInv
    <3>2. CASE Named(n) = <<>>
      <4> DEFINE m == Msg("Information", NoName, NoName)
      <4>1. heard' = ToName(name[p], m)
        BY <2>3, <3>2 DEF Tell, Answer
      <4>2. ~Ignores(p, m)
        BY <2>3 DEF Ignores, Msg
      <4> HIDE DEF m
      <4>3. Hearers(heard') = {p}
        BY <1>1, <3>1, <4>1, <4>2, ToldByName
      <4> QED
        BY <4>3
    <3>3. CASE Named(n) # <<>>
      <4> DEFINE m == Msg("Tell", name[p], NoName)
      <4>1. heard' = ToName(n, m)
        BY <2>3, <3>3 DEF Tell
      <4>2. PICK q \in Elements(list) : name[q] = n /\ n \in Names
        BY <2>1, <3>3, NamedOne DEF Held
      <4>3. location[q] \in Rooms => ~Ignores(q, m)
        BY DEF Ignores, Msg
      <4>4. location[q] \in Rooms \cup {Carried}
        BY <2>1 DEF TalkTypes
      <4> HIDE DEF m
      <4>5. location[q] \in Rooms => Hearers(heard') = {q}
        BY <1>1, <3>1, <4>1, <4>2, <4>3, ToldByName
      <4> QED
        BY <4>2, <4>4, <4>5
    <3> QED
      BY <3>2, <3>3
  <2> QED
    BY <2>2, <2>3
<1>2. TalkInit => TalkInv
  BY TalkStarts
<1>3. TalkInv /\ [TalkNext]_talkVars => TalkInv' /\ Answered
  BY <1>1, TalkStep
<1> QED
  BY <1>2, <1>3, PTL DEF TalkSpec, Echoed

-----------------------------------------------------------------------------
(* The folds of Terminal, one character or one element at a time.          *)

\* What parsing has put out, and how many characters it still skips.
Parsing(S) == [text : Seq(S), skip : Nat]

ParseStep(t, b, sofar, i) ==
    IF sofar.skip > 0 THEN [sofar EXCEPT !.skip = @ - 1]
    ELSE IF t[i] # "~" THEN [sofar EXCEPT !.text = Append(@, t[i])]
    ELSE LET token == Token(t, i, b)
         IN  [text |-> sofar.text \o token.text, skip |-> token.skip]

LEMMA ParseStepType ==
  ASSUME NEW S, Esc \in S, NEW t \in Seq(S), NEW b, NEW v \in Parsing(S), NEW i \in 1 .. Len(t)
  PROVE  ParseStep(t, b, v, i) \in Parsing(S)
<1>1. v.text \in Seq(S) /\ v.skip \in Nat /\ v = [text |-> v.text, skip |-> v.skip]
  BY DEF Parsing
<1>2. t[i] \in S
  OBVIOUS
<1>3. CASE v.skip > 0
  BY <1>1, <1>3 DEF ParseStep, Parsing
<1>4. CASE ~(v.skip > 0) /\ t[i] # "~"
  <2>1. Append(v.text, t[i]) \in Seq(S)
    BY <1>1, <1>2
  <2> QED
    BY <1>1, <1>4, <2>1 DEF ParseStep, Parsing
<1>5. CASE ~(v.skip > 0) /\ t[i] = "~"
  <2> DEFINE token == Token(t, i, b)
  <2>1. token.text \in Seq(S) /\ token.skip \in Nat
    <3>1. "~" \in S
      BY <1>2, <1>5
    <3>2. <<"~">> \in Seq(S) /\ <<Esc>> \in Seq(S) /\ <<>> \in Seq(S)
      BY <3>1
    <3> QED
      BY <3>2 DEF Token
  <2>2. ParseStep(t, b, v, i) = [text |-> v.text \o token.text, skip |-> token.skip]
    BY <1>5 DEF ParseStep
  <2> HIDE DEF token
  <2>3. v.text \o token.text \in Seq(S)
    BY <1>1, <2>1
  <2> QED
    BY <2>1, <2>2, <2>3 DEF Parsing
<1> QED
  BY <1>3, <1>4, <1>5

IsParsed(t, b, r) ==
    /\ r[0] = [text |-> <<>>, skip |-> 0]
    /\ \A k \in 1 .. Len(t) : r[k] = ParseStep(t, b, r[k - 1], k)
    /\ Parsed(t, b) = r[Len(t)].text

LEMMA ParsedBySteps ==
  ASSUME NEW S, Esc \in S, NEW t \in Seq(S), NEW b
  PROVE  \E r \in [0 .. Len(t) -> Parsing(S)] : IsParsed(t, b, r)
<1> DEFINE n == Len(t)
           V == Parsing(S)
           base == [text |-> <<>>, skip |-> 0]
           step == [i \in 1 .. n |-> [v \in V |-> ParseStep(t, b, v, i)]]
           Folds(g) == g = [s \in SUBSET DOMAIN t |->
                              IF s = {} THEN base
                              ELSE ParseStep(t, b, g[s \ {Max(s)}], [i \in DOMAIN t |-> i][Max(s)])]
           iter == CHOOSE g : Folds(g)
<1>1. n \in Nat /\ DOMAIN t = 1 .. n
  OBVIOUS
<1>2. base \in V
  <2>1. <<>> \in Seq(S)
    OBVIOUS
  <2> QED
    BY <2>1 DEF Parsing
<1>3. \A i \in 1 .. n : \A v \in V : ParseStep(t, b, v, i) \in V
  BY ParseStepType
<1>4. step \in [1 .. n -> [V -> V]]
  BY <1>3
<1>5. /\ \A s \in SUBSET (1 .. n) : s # {} => Max(s) \in 1 .. n
      /\ \A i \in 1 .. n : [j \in DOMAIN t |-> j][i] = i
      /\ \A i \in 1 .. n, v \in V : step[i][v] = ParseStep(t, b, v, i)
  <2>1. \A s \in SUBSET (1 .. n) : s # {} => Max(s) \in s
    BY <1>1, MaxOf
  <2> QED
    BY <1>1, <2>1
<1>6. Parsed(t, b) = iter[DOMAIN t].text
  BY DEF Parsed, FoldLeft, MapThenFoldSet, ParseStep
<1> HIDE DEF n, V, base, step
<1>7. PICK g \in [SUBSET (1 .. n) -> V] : AtLast(n, base, step, g)
  BY <1>1, <1>2, <1>4, IteratesExists
<1>8. Folds(g)
  <2>1. ASSUME NEW s \in SUBSET (1 .. n), s # {}
        PROVE  step[Max(s)][g[s \ {Max(s)}]]
                 = ParseStep(t, b, g[s \ {Max(s)}], [i \in DOMAIN t |-> i][Max(s)])
    <3>1. Max(s) \in 1 .. n /\ g[s \ {Max(s)}] \in V
      BY <1>5, <2>1
    <3> QED
      BY <1>5, <3>1
  <2> DEFINE there(s) == IF s = {} THEN base
                         ELSE ParseStep(t, b, g[s \ {Max(s)}], [i \in DOMAIN t |-> i][Max(s)])
  <2>2. \A s \in SUBSET (1 .. n) : g[s] = there(s)
    BY <1>7, <2>1 DEF AtLast
  <2> HIDE DEF there
  <2>4. g = [s \in SUBSET (1 .. n) |-> there(s)]
    BY <2>2
  <2> QED
    BY <1>1, <2>4 DEF there
<1>9. Folds(iter)
  BY <1>8
<1> HIDE DEF iter
<1>10. Iterates(n, V, base, step, iter)
  <2>1. iter[{}] = base
    BY <1>1, <1>9
  <2>2. ASSUME NEW s \in SUBSET (1 .. n), s # {}, iter[s \ {Max(s)}] \in V
        PROVE  iter[s] = step[Max(s)][iter[s \ {Max(s)}]]
    <3>1. iter[s] = ParseStep(t, b, iter[s \ {Max(s)}], [i \in DOMAIN t |-> i][Max(s)])
      BY <1>1, <1>9, <2>2
    <3> QED
      BY <1>5, <2>2, <3>1
  <2> QED
    BY <2>1, <2>2 DEF Iterates
<1>11. PICK r \in [0 .. n -> V] : Course(n, base, step, r) /\ r[n] = iter[1 .. n]
  <2>1. Leads(n, V, base, step, iter[1 .. n])
    BY <1>1, <1>2, <1>4, <1>10, Coursed
  <2> QED
    BY <2>1 DEF Leads
<1>12. \A k \in 1 .. n : r[k - 1] \in V /\ k - 1 \in 0 .. n
  BY <1>1
<1>13. \A k \in 1 .. n : r[k] = ParseStep(t, b, r[k - 1], k)
  BY <1>5, <1>11, <1>12 DEF Course
<1>14. r[0] = base /\ Parsed(t, b) = r[n].text
  BY <1>1, <1>6, <1>11 DEF Course
<1> HIDE DEF Folds
<1> USE DEF n, V, base
<1> QED
  BY <1>13, <1>14, <1>11 DEF IsParsed

\* What filling in the prompt has put out, and whether it skips the next character.
Expanding == [text : Seq(Char), skip : BOOLEAN]

ExpandStep(p, found, sofar, i) ==
    LET next == CharAt(p, i + 1)
    IN  IF sofar.skip THEN [sofar EXCEPT !.skip = FALSE]
        ELSE IF p[i] # "%" THEN [sofar EXCEPT !.text = Append(@, p[i])]
        ELSE IF next = "%" THEN [text |-> Append(sofar.text, "%"), skip |-> TRUE]
        ELSE IF found /\ next \in DOMAIN Expansion
        THEN [text |-> sofar.text \o Expansion[next], skip |-> TRUE]
        ELSE sofar

LEMMA ExpandStepType ==
  ASSUME NEW p \in Seq(Char), NEW found, NEW v \in Expanding, NEW i \in 1 .. Len(p)
  PROVE  ExpandStep(p, found, v, i) \in Expanding
<1> DEFINE next == CharAt(p, i + 1)
<1>1. v.text \in Seq(Char) /\ v.skip \in BOOLEAN /\ v = [text |-> v.text, skip |-> v.skip]
  BY DEF Expanding
<1>2. p[i] \in Char
  OBVIOUS
<1>3. CASE v.skip
  <2>1. ExpandStep(p, found, v, i) = [v EXCEPT !.skip = FALSE]
    BY <1>3, Zenon DEF ExpandStep
  <2> QED
    BY <1>1, <2>1 DEF Expanding
<1>4. CASE ~v.skip /\ p[i] # "%"
  <2>1. ExpandStep(p, found, v, i) = [v EXCEPT !.text = Append(@, p[i])]
    BY <1>4, Zenon DEF ExpandStep
  <2>2. Append(v.text, p[i]) \in Seq(Char)
    BY <1>1, <1>2
  <2> QED
    BY <1>1, <2>1, <2>2 DEF Expanding
<1>5. CASE ~v.skip /\ p[i] = "%" /\ next = "%"
  <2>1. ExpandStep(p, found, v, i) = [text |-> Append(v.text, "%"), skip |-> TRUE]
    BY <1>5, Zenon DEF ExpandStep
  <2>2. Append(v.text, "%") \in Seq(Char)
    BY <1>1, <1>2, <1>5
  <2> QED
    BY <2>1, <2>2 DEF Expanding
<1>6. CASE ~v.skip /\ p[i] = "%" /\ next # "%" /\ found /\ next \in DOMAIN Expansion
  <2>1. ExpandStep(p, found, v, i) = [text |-> v.text \o Expansion[next], skip |-> TRUE]
    BY <1>6, Zenon DEF ExpandStep
  <2>2. Expansion[next] \in Seq(Char)
    BY <1>6, TerminalAssumption
  <2> HIDE DEF next
  <2>3. v.text \o Expansion[next] \in Seq(Char)
    BY <1>1, <2>2
  <2> QED
    BY <2>1, <2>3 DEF Expanding
<1>7. CASE ~v.skip /\ p[i] = "%" /\ next # "%" /\ ~(found /\ next \in DOMAIN Expansion)
  <2>1. ExpandStep(p, found, v, i) = v
    BY <1>7, Zenon DEF ExpandStep
  <2> QED
    BY <2>1
<1> QED
  BY <1>3, <1>4, <1>5, <1>6, <1>7

LEMMA ExpandedBySteps ==
  ASSUME NEW p \in Seq(Char), NEW found
  PROVE  \E r \in [0 .. Len(p) -> Expanding] :
            /\ r[0] = [text |-> <<>>, skip |-> FALSE]
            /\ \A k \in 1 .. Len(p) : r[k] = ExpandStep(p, found, r[k - 1], k)
            /\ Expanded(p, found) = r[Len(p)].text
<1> DEFINE n == Len(p)
           V == Expanding
           base == [text |-> <<>>, skip |-> FALSE]
           step == [i \in 1 .. n |-> [v \in V |-> ExpandStep(p, found, v, i)]]
           Folds(g) == g = [s \in SUBSET DOMAIN p |->
                              IF s = {} THEN base
                              ELSE ExpandStep(p, found, g[s \ {Max(s)}], [i \in DOMAIN p |-> i][Max(s)])]
           iter == CHOOSE g : Folds(g)
<1>1. n \in Nat /\ DOMAIN p = 1 .. n
  OBVIOUS
<1>2. base \in V
  <2>1. <<>> \in Seq(Char)
    OBVIOUS
  <2> QED
    BY <2>1 DEF Expanding
<1>3. \A i \in 1 .. n : \A v \in V : ExpandStep(p, found, v, i) \in V
  BY ExpandStepType
<1>4. step \in [1 .. n -> [V -> V]]
  BY <1>3
<1>5. /\ \A s \in SUBSET (1 .. n) : s # {} => Max(s) \in 1 .. n
      /\ \A i \in 1 .. n, v \in V : step[i][v] = ExpandStep(p, found, v, i)
  <2>1. \A s \in SUBSET (1 .. n) : s # {} => Max(s) \in s
    BY <1>1, MaxOf
  <2> QED
    BY <1>1, <2>1
<1>6. Expanded(p, found) = iter[DOMAIN p].text
  BY DEF Expanded, FoldLeft, MapThenFoldSet, ExpandStep
<1> HIDE DEF n, V, base, step
<1>7. PICK g \in [SUBSET (1 .. n) -> V] : AtLast(n, base, step, g)
  BY <1>1, <1>2, <1>4, IteratesExists
<1>8. Folds(g)
  <2>1. ASSUME NEW s \in SUBSET (1 .. n), s # {}
        PROVE  step[Max(s)][g[s \ {Max(s)}]]
                 = ExpandStep(p, found, g[s \ {Max(s)}], [i \in DOMAIN p |-> i][Max(s)])
    <3>1. Max(s) \in 1 .. n /\ g[s \ {Max(s)}] \in V
      BY <1>5, <2>1
    <3> QED
      BY <1>1, <1>5, <3>1
  <2> DEFINE there(s) == IF s = {} THEN base ELSE ExpandStep(p, found, g[s \ {Max(s)}], [i \in DOMAIN p |-> i][Max(s)])
  <2>2. \A s \in SUBSET (1 .. n) : g[s] = there(s)
    BY <1>7, <2>1 DEF AtLast
  <2> HIDE DEF there
  <2>3. g = [s \in SUBSET (1 .. n) |-> there(s)]
    BY <2>2
  <2> QED
    BY <1>1, <2>3 DEF there
<1>9. Folds(iter)
  BY <1>8
<1> HIDE DEF iter
<1>10. Iterates(n, V, base, step, iter)
  <2>1. iter[{}] = base
    BY <1>1, <1>9
  <2>2. ASSUME NEW s \in SUBSET (1 .. n), s # {}, iter[s \ {Max(s)}] \in V
        PROVE  iter[s] = step[Max(s)][iter[s \ {Max(s)}]]
    <3>1. iter[s] = ExpandStep(p, found, iter[s \ {Max(s)}], [i \in DOMAIN p |-> i][Max(s)])
      BY <1>1, <1>9, <2>2
    <3> QED
      BY <1>1, <1>5, <2>2, <3>1
  <2> QED
    BY <2>1, <2>2 DEF Iterates
<1>11. PICK r \in [0 .. n -> V] : Course(n, base, step, r) /\ r[n] = iter[1 .. n]
  <2>1. Leads(n, V, base, step, iter[1 .. n])
    BY <1>1, <1>2, <1>4, <1>10, Coursed
  <2> QED
    BY <2>1 DEF Leads
<1>12. \A k \in 1 .. n : r[k - 1] \in V /\ k - 1 \in 0 .. n
  BY <1>1
<1>13. \A k \in 1 .. n : r[k] = ExpandStep(p, found, r[k - 1], k)
  BY <1>5, <1>11, <1>12 DEF Course
<1>14. r[0] = base /\ Expanded(p, found) = r[n].text
  BY <1>1, <1>6, <1>11 DEF Course
<1> HIDE DEF Folds
<1> USE DEF n, V, base
<1> QED
  BY <1>11, <1>13, <1>14

\* What Utility::StringLength has counted.
Counting == [len : Nat, skip : Nat]

CountStep(sofar, c) ==
    IF sofar.skip > 0 THEN [sofar EXCEPT !.skip = @ - 1]
    ELSE [len |-> sofar.len + 1, skip |-> IF c = "~" THEN 3 ELSE 0]

LEMMA CountStepType ==
  ASSUME NEW v \in Counting, NEW c
  PROVE  /\ CountStep(v, c) \in Counting
         /\ CountStep(v, c).len <= v.len + 1
         /\ v.skip = 0 /\ c # "~" => CountStep(v, c).len = v.len + 1 /\ CountStep(v, c).skip = 0
BY DEF CountStep, Counting

LEMMA CountedBySteps ==
  ASSUME NEW S, NEW t \in Seq(S)
  PROVE  \E r \in [0 .. Len(t) -> Counting] :
            /\ r[0] = [len |-> 0, skip |-> 0]
            /\ \A k \in 1 .. Len(t) : r[k] = CountStep(r[k - 1], t[k])
            /\ StringLength(t) = r[Len(t)].len
<1> DEFINE n == Len(t)
           V == Counting
           base == [len |-> 0, skip |-> 0]
           step == [i \in 1 .. n |-> [v \in V |-> CountStep(v, t[i])]]
           Folds(g) == g = [s \in SUBSET DOMAIN t |->
                              IF s = {} THEN base
                              ELSE CountStep(g[s \ {Max(s)}], t[Max(s)])]
           iter == CHOOSE g : Folds(g)
<1>1. n \in Nat /\ DOMAIN t = 1 .. n
  OBVIOUS
<1>2. base \in V
  BY DEF Counting
<1>3. \A i \in 1 .. n : \A v \in V : CountStep(v, t[i]) \in V
  BY CountStepType
<1>4. step \in [1 .. n -> [V -> V]]
  BY <1>3
<1>5. /\ \A s \in SUBSET (1 .. n) : s # {} => Max(s) \in 1 .. n
      /\ \A i \in 1 .. n, v \in V : step[i][v] = CountStep(v, t[i])
  <2>1. \A s \in SUBSET (1 .. n) : s # {} => Max(s) \in s
    BY <1>1, MaxOf
  <2> QED
    BY <1>1, <2>1
<1>6. StringLength(t) = iter[DOMAIN t].len
  BY DEF StringLength, FoldLeft, MapThenFoldSet, CountStep
<1> HIDE DEF n, V, base, step
<1>7. PICK g \in [SUBSET (1 .. n) -> V] : AtLast(n, base, step, g)
  BY <1>1, <1>2, <1>4, IteratesExists
<1>8. Folds(g)
  <2>1. ASSUME NEW s \in SUBSET (1 .. n), s # {}
        PROVE  step[Max(s)][g[s \ {Max(s)}]]
                 = CountStep(g[s \ {Max(s)}], t[Max(s)])
    <3>1. Max(s) \in 1 .. n /\ g[s \ {Max(s)}] \in V
      BY <1>5, <2>1
    <3> QED
      BY <1>1, <1>5, <3>1
  <2> DEFINE there(s) == IF s = {} THEN base ELSE CountStep(g[s \ {Max(s)}], t[Max(s)])
  <2>2. \A s \in SUBSET (1 .. n) : g[s] = there(s)
    BY <1>7, <2>1 DEF AtLast
  <2> HIDE DEF there
  <2>3. g = [s \in SUBSET (1 .. n) |-> there(s)]
    BY <2>2
  <2> QED
    BY <1>1, <2>3 DEF there
<1>9. Folds(iter)
  BY <1>8
<1> HIDE DEF iter
<1>10. Iterates(n, V, base, step, iter)
  <2>1. iter[{}] = base
    BY <1>1, <1>9
  <2>2. ASSUME NEW s \in SUBSET (1 .. n), s # {}, iter[s \ {Max(s)}] \in V
        PROVE  iter[s] = step[Max(s)][iter[s \ {Max(s)}]]
    <3>1. iter[s] = CountStep(iter[s \ {Max(s)}], t[Max(s)])
      BY <1>1, <1>9, <2>2
    <3> QED
      BY <1>1, <1>5, <2>2, <3>1
  <2> QED
    BY <2>1, <2>2 DEF Iterates
<1>11. PICK r \in [0 .. n -> V] : Course(n, base, step, r) /\ r[n] = iter[1 .. n]
  <2>1. Leads(n, V, base, step, iter[1 .. n])
    BY <1>1, <1>2, <1>4, <1>10, Coursed
  <2> QED
    BY <2>1 DEF Leads
<1>12. \A k \in 1 .. n : r[k - 1] \in V /\ k - 1 \in 0 .. n
  BY <1>1
<1>13. \A k \in 1 .. n : r[k] = CountStep(r[k - 1], t[k])
  BY <1>5, <1>11, <1>12 DEF Course
<1>14. r[0] = base /\ StringLength(t) = r[n].len
  BY <1>1, <1>6, <1>11 DEF Course
<1> HIDE DEF Folds
<1> USE DEF n, V, base
<1> QED
  BY <1>11, <1>13, <1>14

\* What is put out for the i-th of a list.
CellOf(items, wide, i) ==
    Padded(items[i], ColumnWidth(items))
      \o IF Columns(items, wide) # 0 /\ i % Columns(items, wide) = 0 THEN <<Eol>> ELSE <<>>

LEMMA CellType ==
  ASSUME NEW items \in Seq(Seq(Char)), NEW wide, ColumnWidth(items) \in Nat, NEW i \in 1 .. Len(items)
  PROVE  CellOf(items, wide, i) \in Seq(Char)
<1> DEFINE w == ColumnWidth(items)
           pad == [j \in 1 .. w - Len(items[i]) |-> Space]
           end == IF Columns(items, wide) # 0 /\ i % Columns(items, wide) = 0 THEN <<Eol>> ELSE <<>>
<1>1. items[i] \in Seq(Char)
  OBVIOUS
<1>2. Padded(items[i], w) \in Seq(Char)
  <2>1. Len(items[i]) \in Nat
    BY <1>1
  <2>2. CASE Len(items[i]) < w
    <3>1. w - Len(items[i]) \in Nat /\ Space \in Char
      BY <2>1, <2>2, TerminalAssumption
    <3>2. pad \in Seq(Char)
      <4> DEFINE k == w - Len(items[i])
      <4>1. k \in Nat /\ pad \in [1 .. k -> Char]
        BY <3>1
      <4> HIDE DEF k, pad
      <4> QED
        BY <4>1, IsASeq
    <3>3. Padded(items[i], w) = items[i] \o pad
      BY <2>2 DEF Padded
    <3> HIDE DEF pad
    <3> QED
      BY <1>1, <3>2, <3>3
  <2>3. CASE ~(Len(items[i]) < w)
    BY <1>1, <2>3 DEF Padded
  <2> QED
    BY <2>2, <2>3
<1>3. end \in Seq(Char)
  BY TerminalAssumption
<1> HIDE DEF w, end
<1>4. CellOf(items, wide, i) = Padded(items[i], w) \o end
  BY DEF CellOf, w, end
<1> QED
  BY <1>2, <1>3, <1>4

LEMMA ColumnsBySteps ==
  ASSUME NEW items \in Seq(Seq(Char)), NEW wide, ColumnWidth(items) \in Nat
  PROVE  \E r \in [0 .. Len(items) -> Seq(Char)] :
            /\ r[0] = <<>>
            /\ \A k \in 1 .. Len(items) : r[k] = r[k - 1] \o CellOf(items, wide, k)
            /\ InColumns(items, wide) = r[Len(items)]
<1> DEFINE n == Len(items)
           V == Seq(Char)
           base == <<>>
           step == [i \in 1 .. n |-> [v \in V |-> v \o CellOf(items, wide, i)]]
           Folds(g) == g = [s \in SUBSET DOMAIN items |->
                              IF s = {} THEN base
                              ELSE g[s \ {Max(s)}] \o CellOf(items, wide, [i \in DOMAIN items |-> i][Max(s)])]
           iter == CHOOSE g : Folds(g)
<1>1. n \in Nat /\ DOMAIN items = 1 .. n
  OBVIOUS
<1>2. base \in V
  OBVIOUS
<1>3. \A i \in 1 .. n : \A v \in V : v \o CellOf(items, wide, i) \in V
  BY CellType
<1>4. step \in [1 .. n -> [V -> V]]
  BY <1>3
<1>5. /\ \A s \in SUBSET (1 .. n) : s # {} => Max(s) \in 1 .. n
      /\ \A i \in 1 .. n, v \in V : step[i][v] = v \o CellOf(items, wide, i)
  <2>1. \A s \in SUBSET (1 .. n) : s # {} => Max(s) \in s
    BY <1>1, MaxOf
  <2> QED
    BY <1>1, <2>1
<1>6. InColumns(items, wide) = iter[DOMAIN items]
  BY DEF InColumns, FoldLeft, MapThenFoldSet, CellOf
<1> HIDE DEF n, V, base, step
<1>7. PICK g \in [SUBSET (1 .. n) -> V] : AtLast(n, base, step, g)
  BY <1>1, <1>2, <1>4, IteratesExists
<1>8. Folds(g)
  <2>1. ASSUME NEW s \in SUBSET (1 .. n), s # {}
        PROVE  step[Max(s)][g[s \ {Max(s)}]]
                 = g[s \ {Max(s)}] \o CellOf(items, wide, [i \in DOMAIN items |-> i][Max(s)])
    <3>1. Max(s) \in 1 .. n /\ g[s \ {Max(s)}] \in V
      BY <1>5, <2>1
    <3> QED
      BY <1>1, <1>5, <3>1
  <2> DEFINE there(s) == IF s = {} THEN base ELSE g[s \ {Max(s)}] \o CellOf(items, wide, [i \in DOMAIN items |-> i][Max(s)])
  <2>2. \A s \in SUBSET (1 .. n) : g[s] = there(s)
    BY <1>7, <2>1 DEF AtLast
  <2> HIDE DEF there
  <2>3. g = [s \in SUBSET (1 .. n) |-> there(s)]
    BY <2>2
  <2> QED
    BY <1>1, <2>3 DEF there
<1>9. Folds(iter)
  BY <1>8
<1> HIDE DEF iter
<1>10. Iterates(n, V, base, step, iter)
  <2>1. iter[{}] = base
    BY <1>1, <1>9
  <2>2. ASSUME NEW s \in SUBSET (1 .. n), s # {}, iter[s \ {Max(s)}] \in V
        PROVE  iter[s] = step[Max(s)][iter[s \ {Max(s)}]]
    <3>1. iter[s] = iter[s \ {Max(s)}] \o CellOf(items, wide, [i \in DOMAIN items |-> i][Max(s)])
      BY <1>1, <1>9, <2>2
    <3> QED
      BY <1>1, <1>5, <2>2, <3>1
  <2> QED
    BY <2>1, <2>2 DEF Iterates
<1>11. PICK r \in [0 .. n -> V] : Course(n, base, step, r) /\ r[n] = iter[1 .. n]
  <2>1. Leads(n, V, base, step, iter[1 .. n])
    BY <1>1, <1>2, <1>4, <1>10, Coursed
  <2> QED
    BY <2>1 DEF Leads
<1>12. \A k \in 1 .. n : r[k - 1] \in V /\ k - 1 \in 0 .. n
  BY <1>1
<1>13. \A k \in 1 .. n : r[k] = r[k - 1] \o CellOf(items, wide, k)
  BY <1>5, <1>11, <1>12 DEF Course
<1>14. r[0] = base /\ InColumns(items, wide) = r[n]
  BY <1>1, <1>6, <1>11 DEF Course
<1> HIDE DEF Folds
<1> USE DEF n, V, base
<1> QED
  BY <1>11, <1>13, <1>14

-----------------------------------------------------------------------------
(* What they come to.                                                      *)

LEMMA ParsedType ==
  ASSUME NEW S, Esc \in S, NEW t \in Seq(S), NEW b
  PROVE  ParseColor(t, b) \in Seq(S)
<1>1. PICK r \in [0 .. Len(t) -> Parsing(S)] : IsParsed(t, b, r)
  BY ParsedBySteps
<1>2. Len(t) \in 0 .. Len(t)
  OBVIOUS
<1>3. Parsed(t, b) \in Seq(S)
  BY <1>1, <1>2 DEF Parsing, IsParsed
<1> QED
  BY <1>3 DEF ParseColor

LEMMA ExpandedType ==
  ASSUME NEW p \in Seq(Char), NEW found
  PROVE  Expanded(p, found) \in Seq(Char)
<1>1. PICK r \in [0 .. Len(p) -> Expanding] : Expanded(p, found) = r[Len(p)].text
  BY ExpandedBySteps
<1>2. Len(p) \in 0 .. Len(p)
  OBVIOUS
<1> QED
  BY <1>1, <1>2 DEF Expanding

\* A token is one wide, and a text without tokens as wide as it is long.
LEMMA Lengths ==
  ASSUME NEW S, NEW t \in Seq(S)
  PROVE  /\ StringLength(t) \in Nat /\ StringLength(t) <= Len(t)
         /\ ~Contains(t, "~") => StringLength(t) = Len(t)
<1> DEFINE n == Len(t)
<1>1. PICK r \in [0 .. Len(t) -> Counting] :
         /\ r[0] = [len |-> 0, skip |-> 0]
         /\ \A k \in 1 .. Len(t) : r[k] = CountStep(r[k - 1], t[k])
         /\ StringLength(t) = r[Len(t)].len
  BY CountedBySteps
<1>2. n \in Nat
  OBVIOUS
<1> DEFINE P == {k \in 0 .. n : r[k].len <= k}
           Q == {k \in 0 .. n : r[k].len = k /\ r[k].skip = 0}
<1>3. \A k \in 0 .. n : r[k].len \in Nat /\ r[k].skip \in Nat
                          /\ r[k] = [len |-> r[k].len, skip |-> r[k].skip]
  BY <1>1 DEF Counting
<1>4. 0 \in P /\ 0 \in Q
  BY <1>1, <1>2
<1>5. ASSUME NEW k \in 1 .. n, k - 1 \in P PROVE k \in P
  <2>1. k - 1 \in 0 .. n /\ r[k - 1].len <= k - 1
    BY <1>5
  <2>2. r[k].len <= r[k - 1].len + 1
    BY <1>1, <2>1, CountStepType
  <2> QED
    BY <1>3, <2>1, <2>2
<1>6. ASSUME ~Contains(t, "~"), NEW k \in 1 .. n, k - 1 \in Q PROVE k \in Q
  <2>1. k - 1 \in 0 .. n /\ r[k - 1].len = k - 1 /\ r[k - 1].skip = 0 /\ t[k] # "~"
    BY <1>6 DEF Contains
  <2>2. r[k].len = r[k - 1].len + 1 /\ r[k].skip = 0
    BY <1>1, <2>1, CountStepType
  <2> QED
    BY <1>3, <2>1, <2>2
<1>7. n \in P
  <2> HIDE DEF P, n
  <2>1. 0 .. n \subseteq P
    BY <1>2, <1>4, <1>5, Upward
  <2> QED
    BY <1>2, <2>1
<1>8. ~Contains(t, "~") => n \in Q
  <2> HIDE DEF Q, n
  <2> SUFFICES ASSUME ~Contains(t, "~") PROVE n \in Q
    OBVIOUS
  <2>1. 0 .. n \subseteq Q
    BY <1>2, <1>4, <1>6, Upward
  <2> QED
    BY <1>2, <2>1
<1> QED
  BY <1>1, <1>3, <1>7, <1>8

\* The highest of finitely many lengths is there.
LEMMA Bounded ==
  ASSUME NEW n \in Nat, NEW f \in [1 .. n -> Nat]
  PROVE  \E b \in Nat : \A i \in 1 .. n : f[i] < b
<1> DEFINE P == {k \in 0 .. n : \E b \in Nat : \A i \in 1 .. k : f[i] < b}
<1>1. 0 \in P
  OBVIOUS
<1>2. ASSUME NEW k \in 1 .. n, k - 1 \in P PROVE k \in P
  <2>1. PICK b \in Nat : \A i \in 1 .. k - 1 : f[i] < b
    BY <1>2
  <2> DEFINE c == f[k] + b + 1
  <2>2. f[k] \in Nat /\ c \in Nat
    OBVIOUS
  <2>3. \A i \in 1 .. k : f[i] < c
    <3>1. ASSUME NEW i \in 1 .. k PROVE f[i] < c
      <4>1. i = k \/ i \in 1 .. k - 1
        OBVIOUS
      <4>2. f[i] \in Nat
        OBVIOUS
      <4> QED
        BY <2>1, <2>2, <4>1, <4>2
    <3> QED
      BY <3>1
  <2> HIDE DEF c
  <2>4. k \in 0 .. n
    OBVIOUS
  <2> QED
    BY <2>2, <2>3, <2>4
<1> HIDE DEF P
<1>3. 0 .. n \subseteq P
  BY <1>1, <1>2, Upward
<1>4. n \in P
  BY <1>3
<1> QED
  BY <1>4 DEF P

LEMMA Widest ==
  ASSUME NEW items \in Seq(Seq(Char))
  PROVE  /\ ColumnWidth(items) \in Nat \ {0}
         /\ \A i \in 1 .. Len(items) : StringLength(items[i]) < ColumnWidth(items)
<1> DEFINE n == Len(items)
           f == [i \in 1 .. n |-> StringLength(items[i])]
           all == {StringLength(items[i]) : i \in DOMAIN items} \cup {0}
<1>1. n \in Nat /\ DOMAIN items = 1 .. n /\ \A i \in 1 .. n : items[i] \in Seq(Char)
  OBVIOUS
<1>2. \A i \in 1 .. n : StringLength(items[i]) \in Nat
  BY <1>1, Lengths
<1>3. f \in [1 .. n -> Nat]
  BY <1>2
<1>4. PICK b \in Nat : \A i \in 1 .. n : f[i] < b
  <2> HIDE DEF f, n
  <2> QED
    BY <1>1, <1>3, Bounded
<1>5. all \subseteq Nat /\ 0 \in all /\ \A x \in all : x < b + 1
  BY <1>1, <1>2, <1>4
<1>6. \A i \in 1 .. n : StringLength(items[i]) \in all
  BY <1>1
<1>7. ColumnWidth(items) = Max(all) + FormattingSpace
  BY DEF ColumnWidth
<1> HIDE DEF all, f, n
<1>8. b + 1 \in Nat /\ \E x \in all : x < b + 1
  BY <1>5
<1>9. PICK x \in all : \A y \in all : y < b + 1 => y <= x
  BY <1>5, <1>8, NextBelow
<1>10. \A y \in all : x >= y
  BY <1>5, <1>9
<1>11. Max(all) \in all /\ \A y \in all : Max(all) >= y
  BY <1>10 DEF Max
<1>12. FormattingSpace \in Nat \ {0}
  BY TerminalAssumption
<1>13. Max(all) \in Nat
  BY <1>5, <1>11
<1>14. ASSUME NEW i \in 1 .. n PROVE StringLength(items[i]) < ColumnWidth(items)
  BY <1>2, <1>6, <1>7, <1>11, <1>12, <1>13
<1>15. ColumnWidth(items) \in Nat \ {0}
  BY <1>7, <1>12, <1>13
<1> QED
  BY <1>14, <1>15 DEF n

LEMMA ColumnsType ==
  ASSUME NEW items \in Seq(Seq(Char)), NEW wide
  PROVE  InColumns(items, wide) \in Seq(Char)
<1>1. ColumnWidth(items) \in Nat
  BY Widest
<1>2. PICK r \in [0 .. Len(items) -> Seq(Char)] : InColumns(items, wide) = r[Len(items)]
  BY <1>1, ColumnsBySteps
<1>3. Len(items) \in 0 .. Len(items)
  OBVIOUS
<1> QED
  BY <1>2, <1>3

-----------------------------------------------------------------------------
(* Colours.                                                                *)

\* Who sees colours and who does not are at the same place of the text, and have
\* read the same so far.
SameSoFar(seen, unseen) ==
  /\ seen.skip = unseen.skip
  /\ Without(seen.text, Esc) = unseen.text

LEMMA SameStep ==
  ASSUME NEW S, Esc \in S, NEW t \in Seq(S), Esc \notin Elements(t), NEW i \in 1 .. Len(t),
         NEW v \in Parsing(S), NEW w \in Parsing(S), SameSoFar(v, w)
  PROVE  SameSoFar(ParseStep(t, FALSE, v, i), ParseStep(t, TRUE, w, i))
<1>1. /\ v.text \in Seq(S) /\ v.skip \in Nat /\ v = [text |-> v.text, skip |-> v.skip]
      /\ w.text \in Seq(S) /\ w.skip \in Nat /\ w = [text |-> w.text, skip |-> w.skip]
  BY DEF Parsing
<1>2. w.skip = v.skip /\ w.text = Without(v.text, Esc)
  BY DEF SameSoFar
<1>3. t[i] \in S /\ t[i] # Esc
  BY Positions DEF Elements
<1>4. CASE v.skip > 0
  <2>1. /\ ParseStep(t, FALSE, v, i) = [v EXCEPT !.skip = @ - 1]
        /\ ParseStep(t, TRUE, w, i) = [w EXCEPT !.skip = @ - 1]
    BY <1>2, <1>4 DEF ParseStep
  <2> QED
    BY <1>1, <1>2, <2>1 DEF SameSoFar
<1>5. CASE ~(v.skip > 0) /\ t[i] # "~"
  <2>1. /\ ParseStep(t, FALSE, v, i) = [v EXCEPT !.text = Append(@, t[i])]
        /\ ParseStep(t, TRUE, w, i) = [w EXCEPT !.text = Append(@, t[i])]
    BY <1>2, <1>5 DEF ParseStep
  <2>2. Without(Append(v.text, t[i]), Esc) = Append(Without(v.text, Esc), t[i])
    BY <1>1, <1>3, WithoutMore
  <2> QED
    BY <1>1, <1>2, <2>1, <2>2 DEF SameSoFar
<1>6. CASE ~(v.skip > 0) /\ t[i] = "~"
  <2> DEFINE a == Token(t, i, FALSE)
             b == Token(t, i, TRUE)
  <2>1. /\ ParseStep(t, FALSE, v, i) = [text |-> v.text \o a.text, skip |-> a.skip]
        /\ ParseStep(t, TRUE, w, i) = [text |-> w.text \o b.text, skip |-> b.skip]
    BY <1>2, <1>6 DEF ParseStep
  <2>2. a.skip = b.skip
    BY DEF Token
  <2>3. \/ a.text = <<"~">> /\ b.text = <<"~">>
        \/ a.text = <<>> /\ b.text = <<>>
        \/ a.text = <<Esc>> /\ b.text = <<>>
    BY DEF Token
  <2> HIDE DEF a, b
  <2>4. Without(v.text \o a.text, Esc) = w.text \o b.text
    <3>1. \A s \in Seq(S) : s \o <<>> = s
      OBVIOUS
    <3>2. \A s \in Seq(S), c \in S : s \o <<c>> = Append(s, c)
      OBVIOUS
    <3>3. CASE a.text = <<"~">> /\ b.text = <<"~">>
      <4>1. "~" \in S /\ "~" # Esc
        BY <1>3, <1>6
      <4>2. Without(Append(v.text, "~"), Esc) = Append(Without(v.text, Esc), "~")
        BY <1>1, <4>1, WithoutMore
      <4> QED
        BY <1>1, <1>2, <3>2, <3>3, <4>1, <4>2
    <3>4. CASE a.text = <<>> /\ b.text = <<>>
      BY <1>1, <1>2, <3>1, <3>4
    <3>5. CASE a.text = <<Esc>> /\ b.text = <<>>
      <4>1. Without(Append(v.text, Esc), Esc) = Without(v.text, Esc)
        BY <1>1, WithoutMore
      <4> QED
        BY <1>1, <1>2, <3>1, <3>2, <3>5, <4>1
    <3> QED
      BY <2>3, <3>3, <3>4, <3>5
  <2>5. SameSoFar([text |-> v.text \o a.text, skip |-> a.skip],
                           [text |-> w.text \o b.text, skip |-> b.skip])
    BY <2>2, <2>4 DEF SameSoFar
  <2> QED
    BY <2>1, <2>5, Zenon
<1> QED
  BY <1>4, <1>5, <1>6

LEMMA ReadTheSame ==
  ASSUME NEW S, Esc \in S, NEW t \in Seq(S), Esc \notin Elements(t)
  PROVE  Without(ParseColor(t, FALSE), Esc) = ParseColor(t, TRUE)
<1> DEFINE n == Len(t)
<1>1. PICK r \in [0 .. Len(t) -> Parsing(S)] : IsParsed(t, FALSE, r)
  BY ParsedBySteps
<1>2. PICK q \in [0 .. Len(t) -> Parsing(S)] : IsParsed(t, TRUE, q)
  BY ParsedBySteps
<1> USE DEF IsParsed
<1>3. n \in Nat
  OBVIOUS
<1> DEFINE P == {k \in 0 .. n : SameSoFar(r[k], q[k])}
<1>4. 0 \in P
  BY <1>1, <1>2, <1>3, WithoutNothing DEF SameSoFar
<1>5. ASSUME NEW k \in 1 .. n, k - 1 \in P PROVE k \in P
  <2>1. k - 1 \in 0 .. n /\ k \in 0 .. n /\ SameSoFar(r[k - 1], q[k - 1])
    BY <1>3, <1>5
  <2>2. SameSoFar(ParseStep(t, FALSE, r[k - 1], k), ParseStep(t, TRUE, q[k - 1], k))
    BY <1>1, <1>2, <2>1, SameStep
  <2> QED
    BY <1>1, <1>2, <2>1, <2>2
<1>6. n \in P
  <2> HIDE DEF P, n
  <2>1. 0 .. n \subseteq P
    BY <1>3, <1>4, <1>5, Upward
  <2> QED
    BY <1>3, <2>1
<1>7. Without(Parsed(t, FALSE), Esc) = Parsed(t, TRUE)
  BY <1>1, <1>2, <1>6 DEF SameSoFar
<1>8. Without(t, Esc) = t
  BY WithoutNone
<1> QED
  BY <1>7, <1>8 DEF ParseColor

-----------------------------------------------------------------------------
(* Columns.                                                                *)

\* Every stretch of more than `wide' characters has an end of line.
Fits(v, wide) == \A i \in 1 .. Len(v) - wide : \E j \in i .. i + wide : v[j] = Eol

LEMMA Multiples ==
  ASSUME NEW c \in Nat \ {0}, NEW d \in Int, -c < c * d, c * d < c
  PROVE  d = 0
<1>1. d >= 1 => c * d >= c
  OBVIOUS
<1>2. d <= -1 => c * d <= -c
  OBVIOUS
<1> QED
  BY <1>1, <1>2

LEMMA Divided ==
  ASSUME NEW a \in Nat, NEW c \in Nat \ {0}
  PROVE  a \div c \in Nat /\ a % c \in 0 .. c - 1 /\ a = c * (a \div c) + (a % c)
OBVIOUS

LEMMA NextInRow ==
  ASSUME NEW c \in Nat \ {0}, NEW k \in Nat \ {0}
  PROVE  /\ (k - 1) % c \in 0 .. c - 1
         /\ k % c = IF ((k - 1) % c) + 1 = c THEN 0 ELSE ((k - 1) % c) + 1
<1> DEFINE u == (k - 1) % c
           q == (k - 1) \div c
           m == k % c
           p == k \div c
<1>1. k - 1 \in Nat /\ k \in Nat
  OBVIOUS
<1>2. u \in 0 .. c - 1 /\ q \in Nat /\ k - 1 = c * q + u
  BY <1>1, Divided
<1>3. m \in 0 .. c - 1 /\ p \in Nat /\ k = c * p + m
  BY <1>1, Divided
<1> HIDE DEF u, q, m, p
<1>4. c * (p - q) = u + 1 - m /\ c * (p - q - 1) = u + 1 - m - c
  <2>1. c * (p - q) = c * p - c * q
    BY <1>2, <1>3
  <2>2. c * (p - q - 1) = c * p - c * q - c
    BY <1>2, <1>3
  <2>3. c * p \in Int /\ c * q \in Int
    BY <1>2, <1>3
  <2> QED
    BY <1>2, <1>3, <2>1, <2>2, <2>3
<1>5. CASE u + 1 = c
  <2>1. p - q - 1 \in Int /\ -c < c * (p - q - 1) /\ c * (p - q - 1) < c
    BY <1>2, <1>3, <1>4, <1>5
  <2>2. p - q - 1 = 0
    BY <2>1, Multiples
  <2>3. c * (p - q - 1) = 0
    BY <2>2
  <2> QED
    BY <1>2, <1>3, <1>4, <1>5, <2>3 DEF m, u
<1>6. CASE u + 1 # c
  <2>1. p - q \in Int /\ -c < c * (p - q) /\ c * (p - q) < c
    BY <1>2, <1>3, <1>4, <1>6
  <2>2. p - q = 0
    BY <2>1, Multiples
  <2>3. c * (p - q) = 0
    BY <2>2
  <2> QED
    BY <1>2, <1>3, <1>4, <1>6, <2>3 DEF m, u
<1> QED
  BY <1>5, <1>6

IsCell(q, w, ends) ==
  /\ q \in Seq(Char)
  /\ Len(q) = IF ends THEN w + 1 ELSE w
  /\ ends => q[w + 1] = Eol

LEMMA Cells ==
  ASSUME NEW items \in Seq(Seq(Char)), NEW wide, NEW i \in 1 .. Len(items), ~Contains(items[i], "~")
  PROVE  IsCell(CellOf(items, wide, i), ColumnWidth(items),
                Columns(items, wide) # 0 /\ i % Columns(items, wide) = 0)
<1> DEFINE w == ColumnWidth(items)
           ends == Columns(items, wide) # 0 /\ i % Columns(items, wide) = 0
           k == w - Len(items[i])
           pad == [j \in 1 .. k |-> Space]
           cell == items[i] \o pad
<1>1. items[i] \in Seq(Char) /\ Len(items[i]) \in Nat
  OBVIOUS
<1>2. StringLength(items[i]) = Len(items[i])
  BY <1>1, Lengths
<1>3. w \in Nat \ {0} /\ Len(items[i]) < w
  BY <1>2, Widest
<1>4. k \in Nat /\ Len(items[i]) + k = w
  BY <1>1, <1>3
<1>5. Padded(items[i], w) = cell
  BY <1>3 DEF Padded
<1>6. pad \in Seq(Char) /\ Len(pad) = k
  <2>1. Space \in Char
    BY TerminalAssumption
  <2> HIDE DEF k
  <2>2. pad \in [1 .. k -> Char]
    BY <2>1
  <2>3. pad \in Seq(Char)
    BY <1>4, <2>1, IsASeq
  <2>4. DOMAIN pad = 1 .. k
    OBVIOUS
  <2> HIDE DEF pad
  <2> QED
    BY <1>4, <2>3, <2>4
<1> HIDE DEF pad, k
<1>7. cell \in Seq(Char) /\ Len(cell) = w
  <2>1. cell \in Seq(Char) /\ Len(cell) = Len(items[i]) + Len(pad)
    BY <1>1, <1>6, ConcatProperties
  <2> QED
    BY <1>4, <1>6, <2>1
<1>8. CellOf(items, wide, i) = cell \o IF ends THEN <<Eol>> ELSE <<>>
  BY <1>5 DEF CellOf
<1>9. Eol \in Char
  BY TerminalAssumption
<1> HIDE DEF cell, w, ends
<1>10. CASE ends
  <2>1. CellOf(items, wide, i) = Append(cell, Eol)
    BY <1>7, <1>8, <1>10
  <2>2. Append(cell, Eol) \in Seq(Char) /\ Len(Append(cell, Eol)) = w + 1 /\ Append(cell, Eol)[w + 1] = Eol
    BY <1>7, <1>9, AppendProperties
  <2>3. IsCell(CellOf(items, wide, i), w, ends)
    BY <1>10, <2>1, <2>2 DEF IsCell
  <2> QED
    BY <2>3 DEF w, ends
<1>11. CASE ~ends
  <2>1. CellOf(items, wide, i) = cell
    BY <1>7, <1>8, <1>11
  <2>2. IsCell(CellOf(items, wide, i), w, ends)
    BY <1>7, <1>11, <2>1 DEF IsCell
  <2> QED
    BY <2>2 DEF w, ends
<1> QED
  BY <1>10, <1>11

\* The last a characters of v are what there is of a line.
EndsIn(v, a) == Len(v) >= a /\ (Len(v) = a \/ v[Len(v) - a] = Eol)

\* One more cell of w characters: b are as many as a row has.
LEMMA CellFits ==
  ASSUME NEW v \in Seq(Char), NEW q, NEW wide \in Nat, NEW w \in Nat \ {0}, NEW ends \in BOOLEAN,
         NEW a \in Nat, NEW b \in Nat, b <= wide,
         Fits(v, wide), EndsIn(v, a), IsCell(q, w, ends),
         a + w <= b, ends => a + w = b
  PROVE  /\ v \o q \in Seq(Char) /\ Fits(v \o q, wide)
         /\ EndsIn(v \o q, IF ends THEN 0 ELSE a + w)
<1> DEFINE r == v \o q
           n == Len(v)
           m == Len(q)
<1>1. n \in Nat /\ q \in Seq(Char) /\ m = IF ends THEN w + 1 ELSE w
  BY DEF IsCell
<1>2. /\ r \in Seq(Char) /\ Len(r) = n + m
      /\ \A i \in 1 .. n + m : r[i] = IF i <= n THEN v[i] ELSE q[i - n]
  BY <1>1, ConcatProperties
<1>3. ends => r[n + m] = Eol
  BY <1>1, <1>2 DEF IsCell
<1>4. n >= a /\ (n = a \/ r[n - a] = Eol)
  BY <1>1, <1>2 DEF EndsIn
<1>5. \A i \in 1 .. n - wide : \E j \in i .. i + wide : r[j] = Eol
  <2>1. ASSUME NEW i \in 1 .. n - wide PROVE \E j \in i .. i + wide : r[j] = Eol
    <3>1. PICK j \in i .. i + wide : v[j] = Eol
      BY DEF Fits
    <3>2. j \in 1 .. n + m /\ j <= n
      BY <1>1
    <3> QED
      BY <1>2, <3>1, <3>2
  <2> QED
    BY <2>1
<1> HIDE DEF r, n, m
<1>6. Fits(r, wide)
  <2>4. Len(r) - wide = n + m - wide
    BY <1>1, <1>2
  <2> SUFFICES ASSUME NEW i \in 1 .. n + m - wide PROVE \E j \in i .. i + wide : r[j] = Eol
    BY <2>4 DEF Fits
  <2>1. CASE i <= n - wide
    <3>1. i \in 1 .. n - wide
      BY <1>1, <2>1
    <3> QED
      BY <1>5, <3>1
  <2>2. CASE i > n - wide /\ i <= n - a
    <3>1. n - a \in i .. i + wide /\ n # a
      BY <1>1, <2>2
    <3> QED
      BY <1>4, <3>1
  <2>3. CASE i > n - a
    <3>1. ends /\ i + wide = n + m
      BY <1>1, <2>3
    <3> QED
      BY <1>1, <1>3, <3>1
  <2> QED
    BY <1>1, <2>1, <2>2, <2>3
<1>7. EndsIn(r, IF ends THEN 0 ELSE a + w)
  <2>1. CASE ends
    BY <1>1, <1>2, <1>3, <2>1 DEF EndsIn
  <2>2. CASE ~ends
    <3>1. Len(r) = n + w /\ (n + w) - (a + w) = n - a /\ n + w >= a + w
      BY <1>1, <1>2, <1>4, <2>2
    <3> QED
      BY <1>4, <2>2, <3>1 DEF EndsIn
  <2> QED
    BY <2>1, <2>2
<1> QED
  BY <1>2, <1>6, <1>7 DEF r

LEMMA ColumnsFit ==
  ASSUME NEW items \in Seq(Seq(Char)), NEW wide \in Nat, Columns(items, wide) # 0,
         \A i \in DOMAIN items : ~Contains(items[i], "~")
  PROVE  Fits(InColumns(items, wide), wide)
<1> DEFINE n == Len(items)
           w == ColumnWidth(items)
           c == Columns(items, wide)
<1>1. n \in Nat /\ DOMAIN items = 1 .. n
  OBVIOUS
<1>2. w \in Nat \ {0}
  BY Widest
<1>3. c \in Nat \ {0} /\ c * w <= wide
  <2>1. c = wide \div w
    BY DEF Columns
  <2> HIDE DEF c, w
  <2>2. wide \div w \in Nat /\ wide % w \in 0 .. w - 1 /\ wide = w * (wide \div w) + (wide % w)
    BY <1>2, Divided
  <2>3. c \in Nat /\ wide = w * c + (wide % w)
    BY <2>1, <2>2
  <2>4. w * c = c * w /\ c * w \in Int
    BY <1>2, <2>3
  <2> QED
    BY <2>2, <2>3, <2>4 DEF c
<1>4. PICK r \in [0 .. Len(items) -> Seq(Char)] :
         /\ r[0] = <<>>
         /\ \A k \in 1 .. Len(items) : r[k] = r[k - 1] \o CellOf(items, wide, k)
         /\ InColumns(items, wide) = r[Len(items)]
  BY <1>2, ColumnsBySteps
<1>5. \A k \in 1 .. n : IsCell(CellOf(items, wide, k), w, k % c = 0)
  BY <1>1, <1>3, Cells
<1> HIDE DEF n, w, c
<1> DEFINE P == {k \in 0 .. n : Fits(r[k], wide) /\ EndsIn(r[k], (k % c) * w)}
<1>6. 0 \in P
  <2>1. 0 % c = 0 /\ 0 * w = 0
    BY <1>2, <1>3
  <2>2. Fits(<<>>, wide) /\ EndsIn(<<>>, 0)
    BY DEF Fits, EndsIn
  <2>3. (0 % c) * w = 0
    BY <2>1
  <2> QED
    BY <1>1, <1>4, <2>2, <2>3
<1>7. ASSUME NEW k \in 1 .. n, k - 1 \in P PROVE k \in P
  <2> DEFINE u == (k - 1) % c
             ends == k % c = 0
  <2>1. u \in 0 .. c - 1 /\ k % c = IF u + 1 = c THEN 0 ELSE u + 1
    <3>1. k \in Nat \ {0}
      BY <1>1
    <3> QED
      BY <1>3, <3>1, NextInRow
  <2>2. /\ k - 1 \in 0 .. n /\ k \in 0 .. n /\ r[k - 1] \in Seq(Char)
        /\ Fits(r[k - 1], wide) /\ EndsIn(r[k - 1], u * w)
        /\ r[k] = r[k - 1] \o CellOf(items, wide, k)
    <3>1. k - 1 \in 0 .. n /\ k \in 0 .. n
      BY <1>1
    <3>2. Fits(r[k - 1], wide) /\ EndsIn(r[k - 1], u * w)
      BY <1>7
    <3>3. r[k] = r[k - 1] \o CellOf(items, wide, k) /\ r[k - 1] \in Seq(Char)
      BY <1>4, <3>1 DEF n
    <3> QED
      BY <3>1, <3>2, <3>3
  <2>3. IsCell(CellOf(items, wide, k), w, ends)
    BY <1>5
  <2> HIDE DEF u
  <2>4. /\ u * w \in Nat /\ c * w \in Nat /\ (u + 1) * w = u * w + w
        /\ (u + 1) * w <= c * w
    BY <1>2, <1>3, <2>1
  <2>5. u * w + w <= c * w /\ (ends => u * w + w = c * w)
    BY <1>3, <2>1, <2>4
  <2>6. (k % c) * w = IF ends THEN 0 ELSE u * w + w
    <3>1. CASE ends
      <4>1. k % c = 0 /\ 0 * w = 0
        BY <1>2, <3>1
      <4> QED
        BY <3>1, <4>1
    <3>2. CASE ~ends
      <4>1. k % c = u + 1
        BY <2>1, <3>2
      <4> QED
        BY <2>4, <3>2, <4>1
    <3> QED
      BY <3>1, <3>2
  <2>7. ends \in BOOLEAN
    OBVIOUS
  <2> DEFINE a == u * w
             b == c * w
             cell == CellOf(items, wide, k)
  <2> HIDE DEF ends
  <2>8. a \in Nat /\ b \in Nat /\ b <= wide /\ a + w <= b /\ (ends => a + w = b)
    BY <1>3, <2>4, <2>5
  <2>9. EndsIn(r[k - 1], a) /\ IsCell(cell, w, ends)
    BY <2>2, <2>3
  <2> HIDE DEF a, b, cell
  <2>10. Fits(r[k - 1] \o cell, wide) /\ EndsIn(r[k - 1] \o cell, IF ends THEN 0 ELSE a + w)
    BY <1>2, <2>2, <2>7, <2>8, <2>9, CellFits
  <2>11. Fits(r[k], wide) /\ EndsIn(r[k], (k % c) * w)
    BY <2>2, <2>6, <2>10 DEF a, cell
  <2> QED
    BY <2>2, <2>11
<1> HIDE DEF P
<1>8. 0 .. n \subseteq P
  BY <1>1, <1>6, <1>7, Upward
<1>9. n \in P
  BY <1>1, <1>8
<1> QED
  BY <1>4, <1>9 DEF P, n

-----------------------------------------------------------------------------
(* What OnlySpacesBecomeEnds says.                                         *)

\* What OnlySpacesBecomeEnds says of a text and what is out of it.
KeptIn(t, o) ==
  \A i \in DOMAIN o : o[i] = t[i] \/ (t[i] = Space /\ o[i] = Eol)

Types ==
  /\ pc \in {"idle", "formatting", "sent", "lost"} /\ blind \in BOOLEAN
  /\ width \in Widths \cup {DefaultWidth}
  /\ said \in Seq(Char) /\ text \in Seq(Char) /\ out \in Seq(Char)
  /\ idx \in Nat \ {0} /\ start \in Nat \ {0} /\ count \in Nat

Kept ==
  /\ Len(out) = start - 1 /\ start <= Len(text) + 1
  /\ pc = "formatting" => start <= idx
  /\ pc = "idle" => idx = 1 /\ start = 1 /\ count = 0 /\ text = <<>> /\ out = <<>>
  /\ KeptIn(text, out)

TextInv == Types /\ Kept

-----------------------------------------------------------------------------
(* A stretch of the text, put out behind what is out already.              *)

IsJoin(r, o, q, n, m) ==
  /\ r \in Seq(Char) /\ Len(r) = n + m /\ DOMAIN r = 1 .. n + m
  /\ DOMAIN o = 1 .. n
  /\ \A i \in 1 .. n + m : r[i] = IF i <= n THEN o[i] ELSE q[i - n]

LEMMA Behind ==
  ASSUME NEW o \in Seq(Char), NEW q \in Seq(Char),
         NEW n \in Nat, NEW m \in Nat, Len(o) = n, Len(q) = m
  PROVE  IsJoin(o \o q, o, q, n, m)
<1>1. /\ o \o q \in Seq(Char) /\ Len(o \o q) = n + m
      /\ \A i \in 1 .. n + m : (o \o q)[i] = IF i <= n THEN o[i] ELSE q[i - n]
  BY ConcatProperties
<1>2. DOMAIN (o \o q) = 1 .. Len(o \o q) /\ DOMAIN o = 1 .. Len(o)
  BY <1>1
<1> QED
  BY <1>1, <1>2 DEF IsJoin

LEMMA Stretch ==
  ASSUME NEW t \in Seq(Char), NEW o \in Seq(Char), KeptIn(t, o),
         NEW b \in Nat \ {0}, Len(o) = b - 1,
         NEW e \in Nat, e <= Len(t), b <= e + 1
  PROVE  /\ o \o SubSeq(t, b, e) \in Seq(Char)
         /\ Len(o \o SubSeq(t, b, e)) = e
         /\ KeptIn(t, o \o SubSeq(t, b, e))
         /\ \A i \in 1 .. e : (o \o SubSeq(t, b, e))[i] = IF i < b THEN o[i] ELSE t[i]
<1> DEFINE q == SubSeq(t, b, e)
<1>1. \A i \in b .. e : t[i] \in Char
  OBVIOUS
<1>2. /\ q \in Seq(Char) /\ Len(q) = IF b <= e THEN e - b + 1 ELSE 0
      /\ \A i \in 1 .. e - b + 1 : q[i] = t[b + i - 1]
  BY <1>1, SubSeqProperties
<1>3. Len(q) = e - b + 1 /\ e - b + 1 \in Nat /\ b - 1 \in Nat /\ (b - 1) + (e - b + 1) = e
  BY <1>2
<1> HIDE DEF q
<1>4. /\ o \o q \in Seq(Char) /\ Len(o \o q) = e
      /\ DOMAIN (o \o q) = 1 .. e /\ DOMAIN o = 1 .. b - 1
      /\ \A i \in 1 .. e : (o \o q)[i] = IF i <= b - 1 THEN o[i] ELSE q[i - (b - 1)]
  <2> DEFINE n == b - 1
             m == e - b + 1
  <2>1. n \in Nat /\ m \in Nat /\ Len(o) = n /\ Len(q) = m /\ n + m = e
    BY <1>3
  <2> HIDE DEF n, m
  <2>2. IsJoin(o \o q, o, q, n, m)
    BY <1>2, <2>1, Behind
  <2> QED
    BY <2>1, <2>2 DEF n, IsJoin
<1>5. ASSUME NEW i \in 1 .. e
      PROVE  (o \o q)[i] = IF i < b THEN o[i] ELSE t[i]
  <2>1. CASE i < b
    BY <1>4, <2>1
  <2>2. CASE ~(i < b)
    <3>1. i - (b - 1) \in 1 .. e - b + 1 /\ b + (i - (b - 1)) - 1 = i
      BY <2>2
    <3>2. (o \o q)[i] = q[i - (b - 1)]
      BY <1>4, <2>2
    <3>3. q[i - (b - 1)] = t[i]
      BY <1>2, <3>1
    <3> QED
      BY <2>2, <3>2, <3>3
  <2> QED
    BY <2>1, <2>2
<1>6. \A i \in 1 .. e : i < b => i \in DOMAIN o
  BY <1>4
<1>7. KeptIn(t, o \o q)
  BY <1>4, <1>5, <1>6 DEF KeptIn
<1> QED
  BY <1>4, <1>5, <1>7 DEF q

\* The space after a stretch becomes the end of the line.
LEMMA StretchAndEnd ==
  ASSUME NEW t \in Seq(Char), NEW o \in Seq(Char), KeptIn(t, o),
         NEW s \in 1 .. Len(t), Len(o) = s - 1, t[s] = Space
  PROVE  /\ o \o <<Eol>> \in Seq(Char)
         /\ Len(o \o <<Eol>>) = s
         /\ KeptIn(t, o \o <<Eol>>)
         /\ \A i \in 1 .. s : (o \o <<Eol>>)[i] = IF i < s THEN o[i] ELSE Eol
<1> DEFINE q == <<Eol>>
<1>1. q \in Seq(Char) /\ Len(q) = 1 /\ q[1] = Eol
  BY TerminalAssumption
<1> HIDE DEF q
<1>2. s \in Nat /\ s - 1 \in Nat /\ (s - 1) + 1 = s
  OBVIOUS
<1>3. /\ o \o q \in Seq(Char) /\ Len(o \o q) = s
      /\ DOMAIN (o \o q) = 1 .. s /\ DOMAIN o = 1 .. s - 1
      /\ \A i \in 1 .. s : (o \o q)[i] = IF i <= s - 1 THEN o[i] ELSE q[i - (s - 1)]
  <2> DEFINE n == s - 1
  <2>1. n \in Nat /\ 1 \in Nat /\ Len(o) = n /\ n + 1 = s
    BY <1>2
  <2> HIDE DEF n
  <2>2. IsJoin(o \o q, o, q, n, 1)
    BY <1>1, <2>1, Behind
  <2> QED
    BY <2>1, <2>2 DEF n, IsJoin
<1>4. ASSUME NEW i \in 1 .. s
      PROVE  (o \o q)[i] = t[i] \/ (t[i] = Space /\ (o \o q)[i] = Eol)
  <2>1. CASE i <= s - 1
    <3>1. i \in DOMAIN o /\ (o \o q)[i] = o[i]
      BY <1>2, <1>3, <2>1
    <3> QED
      BY <3>1 DEF KeptIn
  <2>2. CASE i = s
    <3>1. (o \o q)[s] = q[1]
      BY <1>2, <1>3, <2>2
    <3> QED
      BY <1>1, <2>2, <3>1
  <2>3. i <= s - 1 \/ i = s
    BY <1>2
  <2> QED
    BY <2>1, <2>2, <2>3
<1>5. KeptIn(t, o \o q)
  BY <1>3, <1>4 DEF KeptIn
<1>6. ASSUME NEW i \in 1 .. s
      PROVE  (o \o q)[i] = IF i < s THEN o[i] ELSE Eol
  <2>1. CASE i < s
    BY <1>2, <1>3, <2>1
  <2>2. CASE ~(i < s)
    <3>1. i = s /\ ~(s <= s - 1) /\ s - (s - 1) = 1
      BY <1>2, <2>2
    <3>2. (o \o q)[i] = q[1]
      BY <1>2, <1>3, <3>1
    <3> QED
      BY <1>1, <2>2, <3>2
  <2> QED
    BY <2>1, <2>2
<1> QED
  BY <1>3, <1>5, <1>6 DEF q

-----------------------------------------------------------------------------
(* The first text, and the texts that are given to Write.                  *)

LEMMA InitKept == Init => TextInv
<1> SUFFICES ASSUME Init PROVE TextInv
  OBVIOUS
<1>1. Types
  <2>1. said \in Seq(Char) /\ text \in Seq(Char) /\ out \in Seq(Char)
    BY DEF Init
  <2>2. idx \in Nat \ {0} /\ start \in Nat \ {0} /\ count \in Nat
    BY DEF Init
  <2>3. pc \in {"idle"} /\ blind \in BOOLEAN /\ width \in Widths \cup {DefaultWidth}
    BY DEF Init
  <2> QED
    BY <2>1, <2>2, <2>3 DEF Types
<1>2. Kept
  BY DEF Init, Kept, KeptIn
<1> QED
  BY <1>1, <1>2 DEF TextInv

\* A text that is not formatted goes out as it is.
LEMMA SayKept ==
  ASSUME TextInv, NEW t \in Seq(Char), Say(t)
  PROVE  TextInv'
<1> DEFINE parsed == ParseColor(t, blind)
<1> USE DEF TextInv, Types, Kept
<1>0. parsed \in Seq(Char)
  BY ParsedType, TerminalAssumption
<1>1. /\ parsed \in Seq(Char) /\ text' = parsed /\ pc = "idle" /\ said' \in Seq(Char)
      /\ blind' = blind /\ width' = width /\ idx' = idx /\ count' = count
  BY <1>0 DEF Say
<1>2. \/ pc' = "formatting" /\ start' = start /\ out' = out
      \/ pc' = "sent" /\ start' = Len(parsed) + 1 /\ out' = parsed
  BY DEF Say
<1> HIDE DEF parsed
<1>3. CASE pc' = "formatting" /\ start' = start /\ out' = out
  <2>1. Types'
    BY <1>1, <1>3
  <2>2. Kept'
    BY <1>1, <1>3 DEF KeptIn
  <2> QED
    BY <2>1, <2>2
<1>4. CASE pc' = "sent" /\ start' = Len(parsed) + 1 /\ out' = parsed
  <2>1. Types'
    BY <1>1, <1>4
  <2>2. Kept'
    BY <1>1, <1>4 DEF KeptIn
  <2> QED
    BY <2>1, <2>2
<1> QED
  BY <1>2, <1>3, <1>4

LEMMA WriteKept == TextInv /\ Write => TextInv'
<1> SUFFICES ASSUME TextInv, NEW t \in Texts, Say(t) PROVE TextInv'
  BY DEF Write
<1>1. t \in Seq(Char)
  BY TerminalAssumption
<1> QED
  BY <1>1, SayKept

LEMMA PromptKept == TextInv /\ Prompt => TextInv'
<1> SUFFICES ASSUME TextInv, NEW p \in Prompts, NEW found \in BOOLEAN,
                    Say(<<Eol>> \o Expanded(p, found))
             PROVE  TextInv'
  BY DEF Prompt
<1> DEFINE prompt == <<Eol>> \o Expanded(p, found)
<1>1. p \in Seq(Char) /\ <<Eol>> \in Seq(Char)
  BY TerminalAssumption
<1>2. Expanded(p, found) \in Seq(Char)
  BY <1>1, ExpandedType
<1>3. prompt \in Seq(Char)
  BY <1>1, <1>2
<1> HIDE DEF prompt
<1> QED
  BY <1>3, SayKept DEF prompt

LEMMA WriteListKept == TextInv /\ WriteList => TextInv'
<1> SUFFICES ASSUME TextInv, WriteList PROVE TextInv'
  OBVIOUS
<1> USE DEF TextInv, Types, Kept
<1>1. PICK columns \in Lists :
        /\ text' = InColumns(columns, width) /\ out' = text' /\ start' = Len(text') + 1
        /\ said' = text'
  BY DEF WriteList
<1>2. text' \in Seq(Char) /\ said' \in Seq(Char)
  <2>1. columns \in Seq(Seq(Char))
    BY TerminalAssumption
  <2>2. InColumns(columns, width) \in Seq(Char)
    BY <2>1, ColumnsType
  <2> QED
    BY <1>1, <2>2
<1>3. /\ pc' = "sent" /\ blind' = blind /\ width' = width
      /\ idx' = idx /\ count' = count
  BY DEF WriteList
<1>4. Types'
  BY <1>1, <1>2, <1>3
<1>5. Kept'
  BY <1>1, <1>2, <1>3 DEF KeptIn
<1> QED
  BY <1>4, <1>5

-----------------------------------------------------------------------------
(* The turns of the loop.                                                  *)

\* A turn that breaks no line only moves on.
LEMMA PassingKept ==
  TextInv /\ Turn /\ idx' = idx + 1 /\ (Newline \/ Color \/ Character) => TextInv'
<1> SUFFICES ASSUME TextInv, Turn, idx' = idx + 1, Newline \/ Color \/ Character
             PROVE  TextInv'
  OBVIOUS
<1> USE DEF TextInv, Types, Kept
<1>1. /\ text' = text /\ said' = said /\ width' = width /\ blind' = blind /\ pc = "formatting"
      /\ pc' = pc /\ start' = start /\ out' = out
  BY DEF Turn, Newline, Color, Character
<1>2. count' \in Nat
  BY DEF Newline, Color, Character
<1>3. Types'
  BY <1>1, <1>2
<1>4. Kept'
  BY <1>1 DEF KeptIn
<1> QED
  BY <1>3, <1>4

LEMMA BreakKept == TextInv /\ Turn /\ Break => TextInv'
<1> SUFFICES ASSUME TextInv, Turn, Break PROVE TextInv'
  OBVIOUS
<1> USE DEF TextInv, Types, Kept
<1>1. PICK s \in start .. idx :
        /\ LastSpace(s)
        /\ out' = out \o SubSeq(text, start, s - 1) \o <<Eol>>
        /\ start' = s + 1 /\ idx' = s + 1
  BY DEF Break
<1>2. /\ text' = text /\ said' = said /\ width' = width /\ blind' = blind /\ pc = "formatting"
      /\ pc' = pc /\ count' = 1 /\ idx <= Len(text)
  BY DEF Turn, Break
<1>3. /\ s \in 1 .. Len(text) /\ s - 1 \in Nat /\ s - 1 <= Len(text) /\ start <= (s - 1) + 1
      /\ text[s] = Space
  BY <1>1, <1>2 DEF LastSpace
<1> DEFINE o == out \o SubSeq(text, start, s - 1)
<1>4. o \in Seq(Char) /\ Len(o) = s - 1 /\ KeptIn(text, o)
  BY <1>3, Stretch
<1> HIDE DEF o
<1>5. o \o <<Eol>> \in Seq(Char) /\ Len(o \o <<Eol>>) = s /\ KeptIn(text, o \o <<Eol>>)
  BY <1>3, <1>4, StretchAndEnd
<1>6. out' = o \o <<Eol>>
  BY <1>1 DEF o
<1>7. Types'
  BY <1>1, <1>2, <1>3, <1>5, <1>6
<1>8. Kept'
  <2>1. KeptIn(text', out')
    BY <1>2, <1>5, <1>6
  <2>2. Len(out') = start' - 1 /\ start' <= Len(text') + 1
    <3>1. Len(out') = s
      BY <1>5, <1>6, Zenon
    <3>2. s = start' - 1 /\ start' <= Len(text') + 1
      BY <1>1, <1>2, <1>3
    <3> QED
      BY <3>1, <3>2
  <2>3. pc' = "formatting" /\ start' <= idx'
    BY <1>1, <1>2, <1>3
  <2> QED
    BY <2>1, <2>2, <2>3
<1> QED
  BY <1>7, <1>8

LEMMA LostKept == TextInv /\ Turn /\ idx' = idx /\ WalksBackTooFar => TextInv'
<1> SUFFICES ASSUME TextInv, Turn, idx' = idx, WalksBackTooFar PROVE TextInv'
  OBVIOUS
<1>1. /\ text' = text /\ said' = said /\ width' = width /\ blind' = blind /\ pc' = "lost"
      /\ start' = start /\ out' = out /\ count' = count
  BY DEF Turn, WalksBackTooFar
<1> QED
  BY <1>1 DEF TextInv, Types, Kept, KeptIn

LEMMA EndTextKept == TextInv /\ EndText => TextInv'
<1> SUFFICES ASSUME TextInv, EndText PROVE TextInv'
  OBVIOUS
<1> USE DEF TextInv, Types, Kept
<1>1. /\ text' = text /\ said' = said /\ width' = width /\ blind' = blind /\ pc' = "sent" /\ idx' = idx
      /\ out' = out \o SubSeq(text, start, Len(text)) /\ start' = Len(text) + 1
      /\ count' = count
  BY DEF EndText
<1>2. Len(text) \in Nat /\ Len(text) <= Len(text) /\ start <= Len(text) + 1
  OBVIOUS
<1>3. out' \in Seq(Char) /\ Len(out') = Len(text) /\ KeptIn(text, out')
  BY <1>1, <1>2, Stretch
<1>4. Types'
  BY <1>1, <1>2, <1>3
<1>5. Kept'
  BY <1>1, <1>2, <1>3
<1> QED
  BY <1>4, <1>5

LEMMA FlushKept == TextInv /\ Flush => TextInv'
<1> SUFFICES ASSUME TextInv, Flush PROVE TextInv'
  OBVIOUS
<1>1. /\ pc' = "idle" /\ said' = <<>> /\ text' = <<>> /\ out' = <<>> /\ idx' = 1 /\ count' = 0
      /\ start' = 1 /\ blind' = blind /\ width' = width
  BY DEF Flush
<1> QED
  BY <1>1 DEF TextInv, Types, Kept, KeptIn

LEMMA ConfigKept == TextInv /\ (ConfigColor \/ ConfigResolution) => TextInv'
<1> SUFFICES ASSUME TextInv, ConfigColor \/ ConfigResolution PROVE TextInv'
  OBVIOUS
<1>1. /\ pc' = pc /\ said' = said /\ text' = text /\ out' = out /\ idx' = idx /\ count' = count
      /\ start' = start
  BY DEF ConfigColor, ConfigResolution
<1>2. blind' \in BOOLEAN /\ width' \in Widths \cup {DefaultWidth}
  BY DEF ConfigColor, ConfigResolution, TextInv, Types
<1> QED
  BY <1>1, <1>2 DEF TextInv, Types, Kept, KeptIn

LEMMA StepKept == TextInv /\ [Next]_vars => TextInv'
<1> SUFFICES ASSUME TextInv, [Next]_vars PROVE TextInv'
  OBVIOUS
<1>1. CASE Write
  BY <1>1, WriteKept
<1>2. CASE Prompt
  BY <1>2, PromptKept
<1>3. CASE WriteList
  BY <1>3, WriteListKept
<1>4. CASE Turn
  <2>1. CASE Break
    BY <1>4, <2>1, BreakKept
  <2>2. CASE idx' = idx + 1 /\ (Newline \/ Color \/ Character)
    BY <1>4, <2>2, PassingKept
  <2>3. CASE idx' = idx /\ WalksBackTooFar
    BY <1>4, <2>3, LostKept
  <2> QED
    BY <1>4, <2>1, <2>2, <2>3 DEF Turn
<1>5. CASE EndText
  BY <1>5, EndTextKept
<1>6. CASE Flush
  BY <1>6, FlushKept
<1>7. CASE ConfigColor \/ ConfigResolution
  BY <1>7, ConfigKept
<1>8. CASE UNCHANGED vars
  BY <1>8 DEF vars, TextInv, Types, Kept, KeptIn
<1> QED
  BY <1>1, <1>2, <1>3, <1>4, <1>5, <1>6, <1>7, <1>8 DEF Next

\* Breaking lines (ClientSocket::formatWidth) loses, repeats and moves nothing,
\* whatever the text and wherever the margin: what is out is the text so far,
\* with some of its spaces now ends of lines.
THEOREM LinesAreKept == Spec => []OnlySpacesBecomeEnds
<1>1. TextInv => OnlySpacesBecomeEnds
  BY DEF TextInv, Kept, KeptIn, OnlySpacesBecomeEnds
<1> QED
  BY <1>1, InitKept, StepKept, PTL DEF Spec

\* Who sees colours and who does not read the same letters (ClientSocket::parseColor),
\* whatever tokens, letters and half tokens a text is made of that brings no Esc.
THEOREM ColoursAreNotLetters == Spec => []AllReadTheSame
<1>1. TextInv => AllReadTheSame
  <2> SUFFICES ASSUME TextInv, Esc \notin Elements(said)
               PROVE  Without(ParseColor(said, FALSE), Esc) = ParseColor(said, TRUE)
    BY DEF AllReadTheSame
  <2>1. said \in Seq(Char) /\ Esc \in Char
    BY TerminalAssumption DEF TextInv, Types
  <2> QED
    BY <2>1, ReadTheSame
<1> QED
  BY <1>1, InitKept, StepKept, PTL DEF Spec

-----------------------------------------------------------------------------
(* The end of the loop.                                                    *)

\* No line of the text, so far, has more than count - 1 characters behind.
Counted ==
  pc = "formatting" =>
    /\ start <= idx - count + 1
    /\ \A j \in idx - count + 1 .. idx - 1 : text[j] # Eol

NeverLost == WordsFit => pc # "lost"

LoopInv == TextInv /\ Counted /\ NeverLost

LEMMA SayCounts ==
  ASSUME TextInv, NEW t, Say(t) PROVE (Counted /\ NeverLost)'
<1>1. idx' = 1 /\ count' = 0 /\ pc' \in {"formatting", "sent"}
  BY DEF Say, TextInv, Kept
<1>2. pc' = "formatting" => start' = 1
  BY DEF Say, TextInv, Kept
<1> QED
  BY <1>1, <1>2 DEF Counted, NeverLost

LEMMA PassingCounts ==
  LoopInv /\ Turn /\ idx' = idx + 1 /\ (Newline \/ Color \/ Character)
    => (Counted /\ NeverLost)'
<1> SUFFICES ASSUME LoopInv, Turn, idx' = idx + 1, Newline \/ Color \/ Character
             PROVE  (Counted /\ NeverLost)'
  OBVIOUS
<1>1. /\ text' = text /\ pc = "formatting" /\ pc' = pc /\ start' = start
      /\ idx \in Nat /\ start \in Nat /\ count \in Nat /\ start <= idx
  BY DEF Turn, Newline, Color, Character, LoopInv, TextInv, Types, Kept
<1>2. /\ start <= idx - count + 1
      /\ \A j \in idx - count + 1 .. idx - 1 : text[j] # Eol
  BY <1>1 DEF LoopInv, Counted
<1>3. CASE count' = 1
  BY <1>1, <1>3 DEF Counted, NeverLost
<1>4. CASE count' = count + 1 /\ text[idx] # Eol
  <2>1. idx' - count' + 1 = idx - count + 1 /\ idx' - 1 = idx
    BY <1>1, <1>4
  <2>2. ASSUME NEW j \in idx - count + 1 .. idx PROVE text[j] # Eol
    <3>1. j = idx \/ j \in idx - count + 1 .. idx - 1
      BY <1>1
    <3> QED
      BY <1>2, <1>4, <3>1
  <2> QED
    BY <1>1, <1>2, <2>1, <2>2 DEF Counted, NeverLost
<1>5. Esc # Eol
  BY TerminalAssumption
<1> QED
  BY <1>3, <1>4, <1>5 DEF Newline, Color, Character

LEMMA BreakCounts == LoopInv /\ Turn /\ Break => (Counted /\ NeverLost)'
<1> SUFFICES ASSUME LoopInv, Turn, Break PROVE (Counted /\ NeverLost)'
  OBVIOUS
<1>1. PICK s \in start .. idx : start' = s + 1 /\ idx' = s + 1
  BY DEF Break
<1>2. count' = 1 /\ pc' = "formatting" /\ start \in Nat /\ idx \in Nat
  BY DEF Turn, Break, LoopInv, TextInv, Types
<1> QED
  BY <1>1, <1>2 DEF Counted, NeverLost

\* At the margin a whole line lies behind, and so does a space of it.
LEMMA LostCounts ==
  LoopInv /\ Turn /\ idx' = idx /\ WalksBackTooFar => (Counted /\ NeverLost)'
<1> SUFFICES ASSUME LoopInv, Turn, idx' = idx, WalksBackTooFar, WordsFit
             PROVE  FALSE
  BY DEF Turn, WalksBackTooFar, Counted, NeverLost, WordsFit
<1>1. /\ pc = "formatting" /\ idx <= Len(text) /\ text \in Seq(Char)
      /\ count = width /\ text[idx] # Eol
      /\ \A s \in start .. idx : text[s] # Space
  BY DEF Turn, WalksBackTooFar, AtMargin, LoopInv, TextInv, Types
<1>2. width \in Nat \ {0} /\ idx \in Nat \ {0} /\ start \in Nat \ {0} /\ Len(text) \in Nat
  BY <1>1, TerminalAssumption DEF LoopInv, TextInv, Types
<1>3. /\ start <= idx - width + 1
      /\ \A j \in idx - width + 1 .. idx - 1 : text[j] # Eol
  BY <1>1 DEF LoopInv, Counted
<1> DEFINE i == idx - width + 1
<1>4. i \in 1 .. Len(text) - width + 1 /\ i + width - 1 = idx
  BY <1>1, <1>2, <1>3
<1>5. PICK j \in i .. idx : text[j] \in {Space, Eol}
  BY <1>4 DEF WordsFit
<1>6. j \in start .. idx /\ (j = idx \/ j \in idx - width + 1 .. idx - 1)
  BY <1>2, <1>3
<1> QED
  BY <1>1, <1>3, <1>5, <1>6

LEMMA StepCounts == LoopInv /\ [Next]_vars => LoopInv'
<1> SUFFICES ASSUME LoopInv, [Next]_vars PROVE LoopInv'
  OBVIOUS
<1>1. TextInv'
  BY StepKept DEF LoopInv
<1>2. (Counted /\ NeverLost)'
  <2>1. CASE Write
    BY <2>1, SayCounts DEF Write, LoopInv
  <2>2. CASE Prompt
    BY <2>2, SayCounts DEF Prompt, LoopInv
  <2>3. CASE WriteList \/ EndText \/ Flush
    <3>1. pc' \in {"sent", "idle"}
      BY <2>3 DEF WriteList, EndText, Flush
    <3> QED
      BY <3>1 DEF Counted, NeverLost
  <2>4. CASE Turn
    <3>1. CASE Break
      BY <2>4, <3>1, BreakCounts
    <3>2. CASE idx' = idx + 1 /\ (Newline \/ Color \/ Character)
      BY <2>4, <3>2, PassingCounts
    <3>3. CASE idx' = idx /\ WalksBackTooFar
      BY <2>4, <3>3, LostCounts
    <3> QED
      BY <2>4, <3>1, <3>2, <3>3 DEF Turn
  <2>5. CASE ConfigColor \/ ConfigResolution
    <3>1. pc' = "idle"
      BY <2>5 DEF ConfigColor, ConfigResolution
    <3> QED
      BY <3>1 DEF Counted, NeverLost
  <2>6. CASE UNCHANGED vars
    BY <2>6 DEF vars, LoopInv, Counted, NeverLost, WordsFit
  <2> QED
    BY <2>1, <2>2, <2>3, <2>4, <2>5, <2>6 DEF Next
<1> QED
  BY <1>1, <1>2 DEF LoopInv

\* The walk back to a space (client_socket.cpp:564) never goes behind the line's
\* beginning, and so never goes on for ever, whatever the text and the width, if
\* every stretch of a line's length has a space or an end.
THEOREM NeverLostIfWordsFit == Spec => []NeverLost
<1>1. Init => LoopInv
  <2>1. Init => Counted /\ NeverLost
    BY DEF Init, Counted, NeverLost
  <2> QED
    BY <2>1, InitKept DEF LoopInv
<1>2. LoopInv => NeverLost
  BY DEF LoopInv
<1> QED
  BY <1>1, <1>2, StepCounts, PTL DEF Spec

-----------------------------------------------------------------------------
(* The width of a line.                                                    *)

\* What will have been put out if the rest of the text is put out as it stands.
Line(b, o, t) == [i \in 1 .. Len(t) |-> IF i < b THEN o[i] ELSE t[i]]

\* Before k no line is too wide, and the last one, where c characters are counted,
\* began at the text's beginning or has an end c places behind.
FilledTo(line, k, c, w) ==
  /\ c <= w
  /\ \/ c = k - 1
     \/ c \in 1 .. k - 1 /\ line[k - c] = Eol
  /\ \A i \in 1 .. k - 1 - w : \E j \in i .. i + w : line[j] = Eol

Filled == idx <= Len(text) + 1 /\ FilledTo(Line(start, out, text), idx, count, width)

Plain == (listed = <<>> => PlainText) /\ \A k \in DOMAIN listed : PlainList(listed[k])

WidthInv ==
  /\ TextInv
  /\ pc # "sent" => listed = <<>>
  /\ pc = "formatting" /\ Esc \notin Elements(text) => Filled
  /\ pc = "sent" /\ Plain => Fits(out, width)

LEMMA WidthNat == TextInv => width \in Nat \ {0}
BY TerminalAssumption DEF TextInv, Types

LEMMA SayFills ==
  ASSUME TextInv, NEW t \in Seq(Char), Say(t), listed = <<>>
  PROVE  /\ (pc # "sent" => listed = <<>>)'
         /\ (pc = "formatting" /\ Esc \notin Elements(text) => Filled)'
         /\ (pc = "sent" /\ Plain => Fits(out, width))'
<1> DEFINE parsed == ParseColor(t, blind)
<1>1. parsed \in Seq(Char)
  BY ParsedType, TerminalAssumption
<1>2. /\ text' = parsed /\ width' = width /\ idx' = 1 /\ count' = 0 /\ width \in Nat \ {0}
      /\ listed' = <<>>
      /\ pc' = "formatting" \/ (pc' = "sent" /\ out' = parsed /\ ~Contains(parsed, Space))
  BY WidthNat DEF Say, TextInv, Kept
<1> HIDE DEF parsed
<1>3. CASE pc' = "formatting"
  <2>1. Len(parsed) \in Nat
    BY <1>1
  <2>2. Filled'
    BY <1>2, <2>1 DEF Filled, FilledTo
  <2> QED
    BY <1>2, <1>3, <2>2
<1>4. CASE pc' = "sent" /\ out' = parsed /\ ~Contains(parsed, Space)
  <2> SUFFICES ASSUME WordsFit' PROVE Fits(parsed, width)
    BY <1>2, <1>4 DEF Plain, PlainText
  <2>1. \A i \in 1 .. Len(parsed) - width + 1 :
           \E j \in i .. i + width - 1 : parsed[j] \in {Space, Eol}
    BY <1>2 DEF WordsFit
  <2>2. ASSUME NEW i \in 1 .. Len(parsed) - width
        PROVE  \E j \in i .. i + width : parsed[j] = Eol
    <3>1. i \in 1 .. Len(parsed) - width + 1 /\ Len(parsed) \in Nat
      BY <1>1, <1>2
    <3>2. PICK j \in i .. i + width - 1 : parsed[j] \in {Space, Eol}
      BY <2>1, <3>1
    <3>3. j \in 1 .. Len(parsed) /\ j \in i .. i + width
      BY <1>2, <3>1
    <3>4. parsed[j] # Space
      BY <1>4, <3>3 DEF Contains
    <3> QED
      BY <3>2, <3>3, <3>4
  <2> QED
    BY <2>2 DEF Fits
<1> QED
  BY <1>2, <1>3, <1>4

LEMMA ListFills ==
  ASSUME TextInv, WriteList, Plain'
  PROVE  pc' = "sent" /\ Fits(out', width')
<1>1. PICK items \in Lists :
        /\ out' = InColumns(items, width)
        /\ Columns(items, width) # 0 /\ \A i \in DOMAIN items : ~Contains(items[i], "~")
  <2>1. PICK items \in Lists : out' = InColumns(items, width) /\ listed' = <<items>> /\ width' = width
    BY DEF WriteList
  <2>2. 1 \in DOMAIN listed' /\ listed'[1] = items
    BY <2>1
  <2>3. PlainList(items)'
    BY <2>2 DEF Plain
  <2> QED
    BY <2>1, <2>3 DEF PlainList
<1>2. items \in Seq(Seq(Char)) /\ width \in Nat /\ width' = width /\ pc' = "sent"
  BY WidthNat, TerminalAssumption DEF WriteList
<1> QED
  BY <1>1, <1>2, ColumnsFit

LEMMA OneMore ==
  ASSUME NEW line, NEW k \in Nat \ {0}, NEW c \in Nat, NEW w \in Nat, FilledTo(line, k, c, w), c # w
  PROVE  FilledTo(line, k + 1, c + 1, w)
<1>1. c + 1 <= w /\ (k + 1) - (c + 1) = k - c
  BY DEF FilledTo
<1>2. \/ c + 1 = (k + 1) - 1
      \/ c + 1 \in 1 .. (k + 1) - 1 /\ line[k - c] = Eol
  BY DEF FilledTo
<1>3. ASSUME NEW i \in 1 .. (k + 1) - 1 - w PROVE \E j \in i .. i + w : line[j] = Eol
  <2>1. CASE i = k - w
    <3>1. c \in 1 .. k - 1 /\ line[k - c] = Eol /\ c <= w
      BY <2>1 DEF FilledTo
    <3>2. k - c \in i .. i + w
      BY <2>1, <3>1
    <3> QED
      BY <3>1, <3>2
  <2>2. CASE i # k - w
    <3>1. i \in 1 .. k - 1 - w
      BY <2>2
    <3> QED
      BY <3>1 DEF FilledTo
  <2> QED
    BY <2>1, <2>2
<1> QED
  BY <1>1, <1>2, <1>3 DEF FilledTo

\* An end at k, where the line was followed as it is or is changed.
LEMMA AnEnd ==
  ASSUME NEW line, NEW k \in Nat \ {0}, NEW c \in Nat, NEW w \in Nat \ {0}, FilledTo(line, k, c, w),
         NEW s \in 1 .. k, NEW l, \A i \in 1 .. s - 1 : l[i] = line[i], l[s] = Eol
  PROVE  FilledTo(l, s + 1, 1, w)
<1>1. 1 <= w /\ 1 \in 1 .. (s + 1) - 1 /\ (s + 1) - 1 = s
  OBVIOUS
<1>2. ASSUME NEW i \in 1 .. (s + 1) - 1 - w PROVE \E j \in i .. i + w : l[j] = Eol
  <2>1. CASE i = s - w
    <3>1. s \in i .. i + w
      BY <2>1
    <3> QED
      BY <3>1
  <2>2. CASE i # s - w
    <3>1. i \in 1 .. k - 1 - w /\ i + w < s
      BY <2>2
    <3>2. PICK j \in i .. i + w : line[j] = Eol
      BY <3>1 DEF FilledTo
    <3>3. j \in 1 .. s - 1
      BY <3>1
    <3> QED
      BY <3>2, <3>3
  <2> QED
    BY <2>1, <2>2
<1>3. l[(s + 1) - 1] = Eol
  BY <1>1
<1> QED
  BY <1>1, <1>2, <1>3 DEF FilledTo

LEMMA PassingFills ==
  ASSUME WidthInv, Turn, idx' = idx + 1, Newline \/ Color \/ Character,
         Esc \notin Elements(text)
  PROVE  pc' = "formatting" /\ Filled'
<1>1. /\ text' = text /\ width' = width /\ pc = "formatting" /\ idx <= Len(text)
  BY DEF Turn
<1>2. pc' = pc /\ start' = start /\ out' = out
  BY DEF Newline, Color, Character
<1>3. /\ idx \in Nat \ {0} /\ start \in Nat \ {0} /\ count \in Nat /\ start <= idx
      /\ width \in Nat \ {0} /\ Len(text) \in Nat
  BY <1>1, WidthNat DEF WidthInv, TextInv, Types, Kept
<1> DEFINE line == Line(start, out, text)
<1>4. FilledTo(line, idx, count, width)
  BY <1>1, <1>2 DEF WidthInv, Filled
<1>5. line[idx] = text[idx]
  BY <1>1, <1>3 DEF Line
<1>6. line' = line
  BY <1>1, <1>2
<1>7. \/ text[idx] = Eol /\ count' = 1
      \/ count' = count + 1 /\ count # width
  <2>1. text[idx] # Esc
    BY <1>1, <1>3, Positions DEF Elements, WidthInv, TextInv, Types
  <2> QED
    BY <2>1 DEF Newline, Color, Character, AtMargin
<1>8. FilledTo(line, idx + 1, count', width)
  <2> HIDE DEF line
  <2>1. CASE text[idx] = Eol /\ count' = 1
    <3>1. idx \in 1 .. idx
      BY <1>3
    <3>2. FilledTo(line, idx + 1, 1, width)
      BY <1>3, <1>4, <1>5, <2>1, <3>1, AnEnd
    <3> QED
      BY <2>1, <3>2
  <2>2. CASE count' = count + 1 /\ count # width
    <3>1. FilledTo(line, idx + 1, count + 1, width)
      BY <1>3, <1>4, <2>2, OneMore
    <3> QED
      BY <2>2, <3>1
  <2> QED
    BY <1>7, <2>1, <2>2
<1>9. idx' <= Len(text') + 1
  BY <1>1, <1>3
<1> QED
  BY <1>1, <1>2, <1>6, <1>8, <1>9 DEF Filled

LEMMA BreakFills ==
  ASSUME WidthInv, Turn, Break, Esc \notin Elements(text)
  PROVE  pc' = "formatting" /\ Filled'
<1>1. PICK s \in start .. idx :
        /\ LastSpace(s)
        /\ out' = out \o SubSeq(text, start, s - 1) \o <<Eol>>
        /\ start' = s + 1 /\ idx' = s + 1
  BY DEF Break
<1>2. /\ text' = text /\ width' = width /\ pc = "formatting"
      /\ pc' = pc /\ count' = 1 /\ idx <= Len(text)
  BY DEF Turn, Break
<1>3. /\ idx \in Nat \ {0} /\ start \in Nat \ {0} /\ start <= idx /\ count \in Nat
      /\ width \in Nat \ {0} /\ Len(text) \in Nat /\ Len(out) = start - 1
      /\ text \in Seq(Char) /\ out \in Seq(Char) /\ KeptIn(text, out)
  BY <1>2, WidthNat DEF WidthInv, TextInv, Types, Kept
<1>4. /\ s \in 1 .. Len(text) /\ s - 1 \in Nat /\ s - 1 <= Len(text) /\ start <= (s - 1) + 1
      /\ text[s] = Space /\ s \in 1 .. idx
  BY <1>1, <1>2, <1>3 DEF LastSpace
<1> DEFINE o == out \o SubSeq(text, start, s - 1)
           line == Line(start, out, text)
           l == Line(s + 1, out', text)
<1>5. FilledTo(line, idx, count, width)
  BY <1>2 DEF WidthInv, Filled
<1>6. /\ o \in Seq(Char) /\ Len(o) = s - 1 /\ KeptIn(text, o)
      /\ \A i \in 1 .. s - 1 : o[i] = IF i < start THEN out[i] ELSE text[i]
  BY <1>3, <1>4, Stretch
<1> HIDE DEF o
<1>7. \A i \in 1 .. s - 1 : o[i] = line[i]
  <2>1. \A i \in 1 .. s - 1 : i \in 1 .. Len(text)
    BY <1>3, <1>4
  <2> QED
    BY <1>6, <2>1 DEF Line
<1>8. \A i \in 1 .. s : (o \o <<Eol>>)[i] = IF i < s THEN o[i] ELSE Eol
  BY <1>3, <1>4, <1>6, StretchAndEnd
<1>9. out' = o \o <<Eol>>
  BY <1>1 DEF o
<1>10. \A i \in 1 .. s : l[i] = out'[i]
  BY <1>4 DEF Line
<1> HIDE DEF line, l
<1>11. l[s] = Eol /\ \A i \in 1 .. s - 1 : l[i] = line[i]
  <2>1. s \in 1 .. s /\ ~(s < s)
    BY <1>4
  <2>2. l[s] = Eol
    BY <1>8, <1>9, <1>10, <2>1
  <2>3. ASSUME NEW i \in 1 .. s - 1 PROVE l[i] = line[i]
    <3>1. i \in 1 .. s /\ i < s
      BY <1>4
    <3> QED
      BY <1>7, <1>8, <1>9, <1>10, <3>1
  <2> QED
    BY <2>2, <2>3
<1>12. FilledTo(l, s + 1, 1, width)
  BY <1>3, <1>4, <1>5, <1>11, AnEnd
<1>13. Line(start', out', text') = l /\ idx' <= Len(text') + 1
  BY <1>1, <1>2, <1>4 DEF l
<1> QED
  BY <1>1, <1>2, <1>12, <1>13 DEF Filled

LEMMA EndFills ==
  ASSUME WidthInv, EndText, Plain'
  PROVE  pc' = "sent" /\ Fits(out', width')
<1>1. /\ text' = text /\ width' = width /\ pc' = "sent" /\ pc = "formatting"
      /\ listed' = listed /\ listed = <<>>
      /\ out' = out \o SubSeq(text, start, Len(text)) /\ idx > Len(text)
  BY DEF EndText, WidthInv
<1>2. /\ idx \in Nat \ {0} /\ start \in Nat \ {0} /\ start <= Len(text) + 1
      /\ width \in Nat \ {0} /\ Len(text) \in Nat /\ Len(out) = start - 1
      /\ text \in Seq(Char) /\ out \in Seq(Char) /\ KeptIn(text, out)
  BY <1>1, WidthNat DEF WidthInv, TextInv, Types, Kept
<1> DEFINE line == Line(start, out, text)
           o == out \o SubSeq(text, start, Len(text))
<1>3. idx <= Len(text) + 1 /\ FilledTo(line, idx, count, width)
  <2>1. Esc \notin Elements(text)
    BY <1>1 DEF Plain, PlainText, Elements
  <2> QED
    BY <1>1, <2>1 DEF WidthInv, Filled
<1>4. /\ Len(o) = Len(text)
      /\ \A i \in 1 .. Len(text) : o[i] = IF i < start THEN out[i] ELSE text[i]
  <2>1. Len(text) <= Len(text)
    BY <1>2
  <2> QED
    BY <1>2, <2>1, Stretch
<1>5. \A i \in 1 .. Len(text) : o[i] = line[i]
  BY <1>4 DEF Line
<1>6. idx = Len(text) + 1
  BY <1>1, <1>2, <1>3
<1> HIDE DEF o, line
<1>7. ASSUME NEW i \in 1 .. Len(text) - width PROVE \E j \in i .. i + width : o[j] = Eol
  <2>1. i \in 1 .. idx - 1 - width
    BY <1>2, <1>6
  <2>2. PICK j \in i .. i + width : line[j] = Eol
    BY <1>3, <2>1 DEF FilledTo
  <2>3. j \in 1 .. Len(text)
    BY <1>2
  <2> QED
    BY <1>5, <2>2, <2>3
<1>8. Fits(o, width)
  BY <1>4, <1>7 DEF Fits
<1> QED
  BY <1>1, <1>8 DEF o

LEMMA StepFills == WidthInv /\ [Next]_vars => WidthInv'
<1> SUFFICES ASSUME WidthInv, [Next]_vars PROVE WidthInv'
  OBVIOUS
<1>1. TextInv /\ TextInv'
  BY StepKept DEF WidthInv
<1>2. /\ (pc # "sent" => listed = <<>>)'
      /\ (pc = "formatting" /\ Esc \notin Elements(text) => Filled)'
      /\ (pc = "sent" /\ Plain => Fits(out, width))'
  <2>1. CASE Write
    <3>1. PICK t \in Texts : Say(t)
      BY <2>1 DEF Write
    <3>2. t \in Seq(Char)
      BY TerminalAssumption
    <3>3. listed = <<>>
      BY <3>1 DEF Say, WidthInv
    <3> QED
      BY <1>1, <3>1, <3>2, <3>3, SayFills
  <2>2. CASE Prompt
    <3>1. PICK p \in Prompts, found \in BOOLEAN : Say(<<Eol>> \o Expanded(p, found))
      BY <2>2 DEF Prompt
    <3>2. p \in Seq(Char) /\ <<Eol>> \in Seq(Char)
      BY TerminalAssumption
    <3>3. Expanded(p, found) \in Seq(Char)
      BY <3>2, ExpandedType
    <3> DEFINE prompt == <<Eol>> \o Expanded(p, found)
    <3>4. prompt \in Seq(Char) /\ Say(prompt)
      BY <3>1, <3>2, <3>3
    <3> HIDE DEF prompt
    <3>5. listed = <<>>
      BY <3>4 DEF Say, WidthInv
    <3> QED
      BY <1>1, <3>4, <3>5, SayFills
  <2>3. CASE WriteList
    <3>1. pc' = "sent"
      BY <2>3 DEF WriteList
    <3> QED
      BY <1>1, <2>3, <3>1, ListFills
  <2>4. CASE Turn
    <3>1. text' = text /\ pc = "formatting" /\ listed = <<>>
      BY <2>4 DEF Turn, WidthInv
    <3>2. CASE Break
      <4>1. listed' = listed /\ pc' = "formatting"
        BY <3>1, <3>2 DEF Break
      <4>2. (Esc \notin Elements(text))' => Esc \notin Elements(text)
        BY <3>1 DEF Elements
      <4>3. (Esc \notin Elements(text))' => Filled'
        BY <2>4, <3>2, <4>2, BreakFills
      <4> QED
        BY <3>1, <4>1, <4>3
    <3>3. CASE idx' = idx + 1 /\ (Newline \/ Color \/ Character)
      <4>1. pc' = "formatting" /\ listed' = listed
        BY <3>1, <3>3 DEF Newline, Color, Character
      <4> QED
        BY <2>4, <3>1, <3>3, <4>1, PassingFills
    <3>4. CASE idx' = idx /\ WalksBackTooFar
      BY <3>1, <3>4 DEF WalksBackTooFar
    <3> QED
      BY <2>4, <3>2, <3>3, <3>4 DEF Turn
  <2>5. CASE EndText
    <3>1. pc' = "sent"
      BY <2>5 DEF EndText
    <3> QED
      BY <2>5, <3>1, EndFills
  <2>6. CASE Flush \/ ConfigColor \/ ConfigResolution
    <3>1. pc' = "idle" /\ listed' = <<>>
      BY <2>6 DEF Flush, ConfigColor, ConfigResolution, WidthInv
    <3> QED
      BY <3>1
  <2>7. CASE UNCHANGED vars
    BY <2>7 DEF vars, WidthInv, Filled, WordsFit, Plain, PlainText, PlainList
  <2> QED
    BY <2>1, <2>2, <2>3, <2>4, <2>5, <2>6, <2>7 DEF Next
<1> QED
  BY <1>1, <1>2 DEF WidthInv

\* Without colours no line that is sent is wider than the screen
\* (ClientSocket::formatWidth and the columns of lists), whatever the text, the
\* width, the ends of line it has itself and the breaks, if its words fit.
THEOREM NoLineIsTooWide == Spec => []PlainLinesFit
<1>1. Init => WidthInv
  <2>1. Init => pc = "idle" /\ listed = <<>>
    BY DEF Init
  <2> QED
    BY <2>1, InitKept DEF WidthInv
<1>2. WidthInv => PlainLinesFit
  BY DEF WidthInv, Plain, PlainLinesFit, Fits
<1> QED
  BY <1>1, <1>2, StepFills, PTL DEF Spec
=============================================================================
