----------------------------- MODULE WorldProofs -----------------------------
(***************************************************************************)
(* Where things are (module World), for every number of players, books,    *)
(* piles and rooms, every capacity and every way between rooms.  WorldInv  *)
(* says that what is not a pile is in one place of one holder, the one it  *)
(* is bound for (Bound): where its location says, or where the exit that   *)
(* its player is going through leads.  BooksInv says that a book that was  *)
(* made is in some holder.                                                 *)
(***************************************************************************)
EXTENDS World, VectorsProofs, FiniteSetTheorems, SequenceTheorems, TLAPS

Singles == Things \ Piles

\* No position holds what another position holds, piles apart.
Once(s) == \A i, j \in DOMAIN s : i # j => s[i] # s[j] \/ s[i] \in Piles

\* Where t is, if anywhere: a player who passes an exit is ahead of his location.
Bound(t) == IF walking.who = t THEN walking.to ELSE location[t]

Good(C) == C \in [Holders -> Seq(Things)] /\ \A h \in Holders : Once(C[h])

WorldInv ==
  /\ Good(contents)
  /\ location \in [Singles -> Holders \cup {Nowhere}]
  /\ walking = [who |-> walking.who, to |-> walking.to]
  /\ walking.who \in Players \cup {Nobody} /\ walking.to \in Rooms
  /\ online \subseteq Players /\ removing.who \in Players \cup {Nobody}
  /\ \A h \in Holders : \A t \in Elements(contents[h]) \ Piles : h = Bound(t)

BooksInv == \A b \in Books : Made(b) => \E h \in Holders : b \in Elements(contents[h])

-----------------------------------------------------------------------------
(* What is found, and what is left.                                        *)

LEMMA OnceOrdered ==
  ASSUME NEW S, NEW s \in Seq(S), NEW I \in SUBSET DOMAIN s, Once(s)
  PROVE  Once(InOrder(s, I))
<1> DEFINE m == Cardinality(I)
           o == InOrder(s, I)
<1>1. DOMAIN o = 1 .. m /\ m \in Nat
  BY Chosen
<1>2. PICK place \in [1 .. Cardinality(I) -> I] : Placed(s, I, place)
  BY Chosen
<1>3. /\ \A k \in 1 .. m : o[k] = s[place[k]] /\ place[k] \in I
      /\ \A k, l \in 1 .. m : k < l => place[k] < place[l]
  BY <1>2 DEF Placed
<1>4. \A i \in I : i \in DOMAIN s /\ i \in Int
  BY Positions
<1> HIDE DEF m, o
<1> SUFFICES ASSUME NEW k \in 1 .. m, NEW l \in 1 .. m, k # l
             PROVE  o[k] # o[l] \/ o[k] \in Piles
  BY <1>1 DEF Once, o
<1>5. place[k] \in DOMAIN s /\ place[l] \in DOMAIN s /\ place[k] # place[l]
  <2>1. place[k] \in I /\ place[l] \in I
    BY <1>3
  <2>2. place[k] < place[l] \/ place[l] < place[k]
    BY <1>1, <1>3
  <2> QED
    BY <1>4, <2>1, <2>2
<1> QED
  BY <1>3, <1>5 DEF Once

\* Container::containerRemove takes out x and nothing else.
LEMMA Removed ==
  ASSUME NEW s \in Seq(Things), NEW x
  PROVE  /\ RemoveThing(x, s) \in Seq(Things)
         /\ Elements(RemoveThing(x, s)) = Elements(s) \ {x}
         /\ Once(s) => Once(RemoveThing(x, s))
<1> DEFINE I == {i \in DOMAIN s : s[i] # x}
<1>1. I \in SUBSET DOMAIN s
  OBVIOUS
<1>2. RemoveThing(x, s) = InOrder(s, I)
  BY DEF RemoveThing, Without
<1> HIDE DEF I
<1>3. Once(s) => Once(RemoveThing(x, s))
  BY <1>1, <1>2, OnceOrdered
<1> QED
  BY <1>3, Taken DEF RemoveThing

\* Container::containerFind finds what answers to the word, and nothing else.
LEMMA Finding ==
  ASSUME Good(contents), NEW h \in Holders, NEW w
  PROVE  /\ Find(h, w) \in Seq(Things)
         /\ Elements(Find(h, w)) = {x \in Elements(contents[h]) : w \in Called[x]}
<1> DEFINE s == contents[h]
           I == {i \in DOMAIN s : w \in Called[s[i]]}
<1>1. s \in Seq(Things) /\ I \in SUBSET DOMAIN s
  BY DEF Good
<1>2. {s[i] : i \in I} = {x \in Elements(s) : w \in Called[x]}
  BY DEF Elements
<1>3. Find(h, w) = InOrder(s, I)
  BY DEF Find
<1> HIDE DEF s, I
<1>4. Find(h, w) \in Seq(Things) /\ Elements(Find(h, w)) = {s[i] : i \in I}
  BY <1>1, <1>3, Ordered
<1> QED
  BY <1>2, <1>4 DEF s

LEMMA Nth ==
  ASSUME NEW s \in Seq(Things), NEW n \in Nat, NEW t \in NthOf(s, n)
  PROVE  t \in Elements(s) /\ s[1] \in Elements(s)
<1>1. s # <<>> /\ ~(n > Len(s)) /\ t = s[IF n = 0 THEN 1 ELSE n]
  BY DEF NthOf
<1>2. Len(s) \in Nat /\ Len(s) # 0 /\ DOMAIN s = 1 .. Len(s)
  BY <1>1, EmptySeq, Positions
<1>3. (IF n = 0 THEN 1 ELSE n) \in DOMAIN s /\ 1 \in DOMAIN s
  BY <1>1, <1>2
<1> QED
  BY <1>1, <1>3 DEF Elements

LEMMA Appended ==
  ASSUME NEW s \in Seq(Things), NEW t \in Things
  PROVE  /\ Append(s, t) \in Seq(Things)
         /\ Elements(Append(s, t)) = Elements(s) \cup {t}
         /\ Once(s) /\ (t \in Piles \/ t \notin Elements(s)) => Once(Append(s, t))
<1> DEFINE n == Len(s)
           a == Append(s, t)
<1>1. n \in Nat /\ DOMAIN s = 1 .. n
  BY Positions
<1>2. a \in Seq(Things) /\ Len(a) = n + 1 /\ a[n + 1] = t /\ \A i \in 1 .. n : a[i] = s[i]
  BY AppendProperties
<1>3. DOMAIN a = 1 .. (n + 1)
  BY <1>2, Positions
<1> HIDE DEF n, a
<1>4. \A i \in 1 .. (n + 1) : i \in 1 .. n \/ i = n + 1
  BY <1>1
<1>5. 1 .. n \subseteq 1 .. (n + 1) /\ n + 1 \in 1 .. (n + 1)
  BY <1>1
<1>6. Elements(a) = Elements(s) \cup {t}
  BY <1>1, <1>2, <1>3, <1>4, <1>5 DEF Elements
<1>7. ASSUME Once(s), t \in Piles \/ t \notin Elements(s) PROVE Once(a)
  BY <1>1, <1>2, <1>3, <1>4, <1>7 DEF Once, Elements
<1> QED
  BY <1>2, <1>6, <1>7 DEF a

\* Something is put into a holder, or taken out of it.
Putting(C, h, t) == [C EXCEPT ![h] = Append(@, t)]
Pulling(C, h, t) == [C EXCEPT ![h] = RemoveThing(t, @)]

LEMMA Put ==
  ASSUME NEW C, Good(C), NEW h \in Holders, NEW t \in Things, t \in Piles \/ t \notin Elements(C[h])
  PROVE  /\ Good(Putting(C, h, t))
         /\ \A g \in Holders : Elements(Putting(C, h, t)[g]) = IF g = h THEN Elements(C[g]) \cup {t}
                                                          ELSE Elements(C[g])
<1> DEFINE D == Putting(C, h, t)
<1>1. C[h] \in Seq(Things) /\ Once(C[h])
  BY DEF Good
<1>2. /\ Append(C[h], t) \in Seq(Things)
      /\ Elements(Append(C[h], t)) = Elements(C[h]) \cup {t}
      /\ Once(Append(C[h], t))
  BY <1>1, Appended
<1>3. D \in [Holders -> Seq(Things)] /\ \A g \in Holders : D[g] = IF g = h THEN Append(C[h], t) ELSE C[g]
  BY <1>2 DEF Good, Putting
<1> HIDE DEF D
<1>4. \A g \in Holders : Once(D[g])
  BY <1>2, <1>3 DEF Good
<1>5. \A g \in Holders : Elements(D[g]) = IF g = h THEN Elements(C[g]) \cup {t} ELSE Elements(C[g])
  BY <1>2, <1>3
<1> QED
  BY <1>3, <1>4, <1>5 DEF Good, D

LEMMA Pulled ==
  ASSUME NEW C, Good(C), NEW h \in Holders, NEW t
  PROVE  /\ Good(Pulling(C, h, t))
         /\ \A g \in Holders : Elements(Pulling(C, h, t)[g]) = IF g = h THEN Elements(C[g]) \ {t}
                                                          ELSE Elements(C[g])
<1> DEFINE D == Pulling(C, h, t)
<1>1. C[h] \in Seq(Things) /\ Once(C[h])
  BY DEF Good
<1>2. /\ RemoveThing(t, C[h]) \in Seq(Things)
      /\ Elements(RemoveThing(t, C[h])) = Elements(C[h]) \ {t}
      /\ Once(RemoveThing(t, C[h]))
  BY <1>1, Removed
<1>3. D \in [Holders -> Seq(Things)] /\ \A g \in Holders : D[g] = IF g = h THEN RemoveThing(t, C[h]) ELSE C[g]
  BY <1>2 DEF Good, Pulling
<1> HIDE DEF D
<1>4. \A g \in Holders : Once(D[g])
  BY <1>2, <1>3 DEF Good
<1>5. \A g \in Holders : Elements(D[g]) = IF g = h THEN Elements(C[g]) \ {t} ELSE Elements(C[g])
  BY <1>2, <1>3
<1> QED
  BY <1>3, <1>4, <1>5 DEF Good, D

-----------------------------------------------------------------------------
(* The steps.                                                              *)

LEMMA Kinds ==
  /\ Players \subseteq Singles /\ Books \subseteq Singles /\ Singles \subseteq Things
  /\ Players \subseteq Holders /\ Rooms \subseteq Holders
  /\ Nowhere \notin Holders /\ Nobody \notin Things /\ Nobody \notin Players
BY WorldAssumption DEF Singles, Things, Holders

LEMMA InitWorld == Init => WorldInv /\ BooksInv
<1> SUFFICES ASSUME Init PROVE WorldInv /\ BooksInv
  OBVIOUS
<1>1. \A h \in Holders : contents[h] = <<>> /\ Elements(contents[h]) = {} /\ Once(contents[h])
  BY DEF Init, Elements, Once
<1>2. Good(contents)
  BY <1>1 DEF Init, Good
<1>3. location \in [Singles -> Holders \cup {Nowhere}] /\ online = {} /\ removing.who = Nobody
  BY DEF Init, Singles, NoRemoval
<1>4. /\ walking = [who |-> walking.who, to |-> walking.to]
      /\ walking.who = Nobody /\ walking.to \in Rooms
  BY WorldAssumption DEF Init, NoWalk
<1>5. \A b \in Books : ~Made(b)
  BY Kinds DEF Init, Made, Singles
<1> QED
  BY <1>1, <1>2, <1>3, <1>5, <1>4 DEF WorldInv, BooksInv

\* No player is between two rooms: everything is where its location says.
LEMMA Settled ==
  ASSUME WorldInv, walking.who = Nobody
  PROVE  \A h \in Holders : \A t \in Elements(contents[h]) \ Piles :
            t \in Singles /\ location[t] = h
<1> SUFFICES ASSUME NEW h \in Holders, NEW t \in Elements(contents[h]) \ Piles
             PROVE  t \in Singles /\ location[t] = h
  OBVIOUS
<1>1. t \in Things
  BY Positions DEF WorldInv, Good, Elements
<1> QED
  BY <1>1, Kinds DEF WorldInv, Bound, Singles

\* Nothing comes but piles, and nothing is told a new place.
LEMMA NothingComes ==
  ASSUME WorldInv, Good(contents'), UNCHANGED <<location, walking>>,
         \A h \in Holders : Elements(contents'[h]) \ Piles \subseteq Elements(contents[h]),
         online' \subseteq Players, removing'.who \in Players \cup {Nobody}
  PROVE  WorldInv'
BY DEF WorldInv, Bound

LEMMA BooksStay ==
  ASSUME BooksInv, \A b \in Books : Made(b)' => Made(b),
         \A h \in Holders : \A b \in Books : b \in Elements(contents[h]) => b \in Elements(contents'[h])
  PROVE  BooksInv'
BY DEF BooksInv

LEMMA LoginKeeps ==
  ASSUME WorldInv, BooksInv, NEW p \in Players, NEW r \in Rooms, Login(p, r)
  PROVE  WorldInv' /\ BooksInv'
<1>1. /\ walking.who = Nobody /\ location[p] = Nowhere
      /\ location' = [location EXCEPT ![p] = r] /\ UNCHANGED <<walking, removing>>
      /\ online' \subseteq Players
  BY DEF Login, Idle, Fresh, Made, WorldInv
<1>2. \A h \in Holders : p \notin Elements(contents[h])
  BY <1>1, Kinds, Settled DEF Singles
<1>3. \A t \in Singles : location'[t] = IF t = p THEN r ELSE location[t]
  BY <1>1 DEF WorldInv
<1>4. location' \in [Singles -> Holders \cup {Nowhere}]
  BY <1>1, Kinds DEF WorldInv
<1>5. /\ Good(contents')
      /\ \A h \in Holders : \/ Elements(contents'[h]) = Elements(contents[h])
                            \/ h = r /\ Elements(contents'[h]) = Elements(contents[h]) \cup {p}
  <2>1. CASE HasRoom(r)
    <3>1. contents' = Putting(contents, r, p)
      BY <2>1 DEF Login, Putting
    <3>2. Good(contents) /\ r \in Holders /\ p \in Things /\ p \notin Elements(contents[r])
      BY <1>2, Kinds DEF WorldInv
    <3>3. Good(contents')
      BY <3>1, <3>2, Put
    <3>4. \A h \in Holders : Elements(Putting(contents, r, p)[h]) =
                                IF h = r THEN Elements(contents[h]) \cup {p} ELSE Elements(contents[h])
      BY <3>2, Put
    <3> QED
      BY <3>1, <3>3, <3>4
  <2>2. CASE ~HasRoom(r)
    BY <2>2 DEF Login, WorldInv
  <2> QED
    BY <2>1, <2>2
<1>6. \A h \in Holders : \A t \in Elements(contents'[h]) \ Piles : h = Bound(t)'
  <2> SUFFICES ASSUME NEW h \in Holders, NEW t \in Elements(contents'[h]) \ Piles
               PROVE  h = Bound(t)'
    OBVIOUS
  <2>1. CASE t = p
    <3>1. h = r
      BY <1>2, <1>5, <2>1
    <3> QED
      BY <1>1, <1>3, <2>1, <3>1, Kinds DEF Bound
  <2>2. CASE t # p
    <3>1. t \in Elements(contents[h])
      BY <1>5, <2>2
    <3>2. t \in Singles /\ location[t] = h
      BY <1>1, <3>1, Settled
    <3>3. Bound(t)' = location'[t]
      BY <1>1, <3>2, Kinds DEF Bound
    <3> QED
      BY <1>3, <2>2, <3>2, <3>3
  <2> QED
    BY <2>1, <2>2
<1>7. WorldInv'
  BY <1>1, <1>4, <1>5, <1>6 DEF WorldInv
<1>8. \A b \in Books : Made(b)' => Made(b)
  BY <1>3, Kinds, WorldAssumption DEF Made
<1>9. BooksInv'
  BY <1>5, <1>8, BooksStay
<1> QED
  BY <1>7, <1>9

LEMMA FirstLoginKeeps ==
  ASSUME WorldInv, BooksInv, NEW p \in Players, FirstLogin(p)
  PROVE  WorldInv' /\ BooksInv'
<1>1. /\ walking.who = Nobody /\ location[p] = Nowhere
      /\ location' = [location EXCEPT ![p] = StartRoom] /\ UNCHANGED <<contents, walking, removing>>
      /\ online' \subseteq Players
  BY DEF FirstLogin, Idle, Fresh, Made, WorldInv
<1>2. \A h \in Holders : p \notin Elements(contents[h])
  BY <1>1, Kinds, Settled DEF Singles
<1>3. \A t \in Singles : location'[t] = IF t = p THEN StartRoom ELSE location[t]
  BY <1>1 DEF WorldInv
<1>4. location' \in [Singles -> Holders \cup {Nowhere}]
  BY <1>1, Kinds, WorldAssumption DEF WorldInv
<1>5. \A h \in Holders : \A t \in Elements(contents[h]) \ Piles : h = Bound(t)'
  <2> SUFFICES ASSUME NEW h \in Holders, NEW t \in Elements(contents[h]) \ Piles
               PROVE  h = Bound(t)'
    OBVIOUS
  <2>1. t \in Singles /\ location[t] = h /\ t # p
    BY <1>1, <1>2, Settled
  <2> QED
    BY <1>1, <1>3, <2>1, Kinds DEF Bound
<1>6. \A b \in Books : Made(b)' => Made(b)
  BY <1>3, Kinds, WorldAssumption DEF Made
<1> QED
  BY <1>1, <1>4, <1>5, <1>6, BooksStay DEF WorldInv

\* A player who passes an exit is taken out of every place he was in, and put
\* into the room behind it or nowhere.
LEMMA PassExitKeeps ==
  ASSUME WorldInv, BooksInv, NEW p \in Players, NEW r \in Rooms, PassExit(p, r)
  PROVE  WorldInv' /\ BooksInv'
<1> DEFINE out == Pulling(contents, location[p], p)
<1>1. /\ walking.who = Nobody /\ location[p] \in Rooms
      /\ walking' = [who |-> p, to |-> r]
      /\ walking'.who = p /\ walking'.to = r
      /\ contents' = out \/ contents' = Putting(out, r, p)
      /\ UNCHANGED <<location, online, removing>>
  BY DEF PassExit, Playing, Idle, InRoom, Pulling, Putting
<1>2. /\ Good(out)
      /\ \A h \in Holders : Elements(out[h]) = IF h = location[p] THEN Elements(contents[h]) \ {p}
                                               ELSE Elements(contents[h])
  <2>1. Good(contents) /\ location[p] \in Holders
    BY <1>1, Kinds DEF WorldInv
  <2>2. Good(out)
    BY <2>1, Pulled
  <2>3. \A h \in Holders : Elements(out[h]) = IF h = location[p] THEN Elements(contents[h]) \ {p}
                                               ELSE Elements(contents[h])
    BY <2>1, Pulled
  <2> QED
    BY <2>2, <2>3
<1> HIDE DEF out
<1>3. \A h \in Holders : p \in Elements(contents[h]) => h = location[p]
  BY <1>1, Kinds, Settled DEF Singles
<1>4. \A h \in Holders : p \notin Elements(out[h])
  BY <1>2, <1>3
<1>5. /\ Good(contents')
      /\ \A h \in Holders : \/ Elements(contents'[h]) = Elements(out[h])
                            \/ h = r /\ Elements(contents'[h]) = Elements(out[h]) \cup {p}
  <2>1. CASE contents' = out
    BY <1>2, <2>1
  <2>2. CASE contents' = Putting(out, r, p)
    <3>1. r \in Holders /\ p \in Things /\ p \notin Elements(out[r])
      BY <1>4, Kinds
    <3>2. Good(contents')
      BY <1>2, <2>2, <3>1, Put
    <3>3. \A h \in Holders : Elements(contents'[h]) = IF h = r THEN Elements(out[h]) \cup {p}
                                                      ELSE Elements(out[h])
      BY <1>2, <2>2, <3>1, Put
    <3> QED
      BY <3>2, <3>3
  <2> QED
    BY <1>1, <2>1, <2>2
<1>6. \A h \in Holders : \A t \in Elements(contents'[h]) \ Piles : h = Bound(t)'
  <2> SUFFICES ASSUME NEW h \in Holders, NEW t \in Elements(contents'[h]) \ Piles
               PROVE  h = Bound(t)'
    OBVIOUS
  <2>1. CASE t = p
    BY <1>1, <1>4, <1>5, <2>1 DEF Bound
  <2>2. CASE t # p
    <3>1. t \in Elements(contents[h])
      BY <1>2, <1>5, <2>2
    <3>2. location[t] = h
      BY <1>1, <3>1, Settled
    <3> QED
      BY <1>1, <2>2, <3>2 DEF Bound
  <2> QED
    BY <2>1, <2>2
<1>7. WorldInv'
  BY <1>1, <1>5, <1>6 DEF WorldInv
<1>8. \A b \in Books : b # p
  BY WorldAssumption
<1>9. \A h \in Holders : \A b \in Books : b \in Elements(contents[h]) => b \in Elements(contents'[h])
  BY <1>2, <1>5, <1>8
<1>10. BooksInv'
  BY <1>1, <1>9, BooksStay DEF Made
<1> QED
  BY <1>7, <1>10

LEMMA ArriveKeeps ==
  ASSUME WorldInv, BooksInv, Arrive
  PROVE  WorldInv' /\ BooksInv'
<1> DEFINE p == walking.who
<1>1. /\ p \in Players /\ walking.to \in Rooms
      /\ location' = [location EXCEPT ![p] = walking.to]
      /\ walking'.who = Nobody /\ walking'.to \in Rooms
      /\ walking' = [who |-> walking'.who, to |-> walking'.to]
      /\ UNCHANGED <<contents, online, removing>>
  BY WorldAssumption DEF Arrive, WorldInv, NoWalk
<1>2. \A t \in Singles : location'[t] = IF t = p THEN walking.to ELSE location[t]
  BY <1>1 DEF WorldInv
<1>3. location' \in [Singles -> Holders \cup {Nowhere}]
  BY <1>1, Kinds DEF WorldInv
<1>4. \A h \in Holders : \A t \in Elements(contents[h]) \ Piles : h = Bound(t)'
  <2> SUFFICES ASSUME NEW h \in Holders, NEW t \in Elements(contents[h]) \ Piles
               PROVE  h = Bound(t)'
    OBVIOUS
  <2>1. t \in Singles
    BY Positions DEF WorldInv, Good, Elements, Singles
  <2>2. h = Bound(t)
    BY DEF WorldInv
  <2>3. Bound(t)' = location'[t]
    BY <1>1, <2>1, Kinds DEF Bound
  <2> QED
    BY <1>2, <2>1, <2>2, <2>3 DEF Bound
<1>5. WorldInv'
  BY <1>1, <1>3, <1>4 DEF WorldInv
<1>6. \A b \in Books : Made(b)' => Made(b)
  BY <1>1, <1>2, Kinds, WorldAssumption DEF Made
<1> QED
  BY <1>1, <1>5, <1>6, BooksStay

LEMMA CreateBookKeeps ==
  ASSUME WorldInv, BooksInv, NEW p \in Players, NEW b \in Books, CreateBook(p, b)
  PROVE  WorldInv' /\ BooksInv'
<1> DEFINE r == location[p]
<1>1. /\ walking.who = Nobody /\ r \in Rooms /\ location[b] = Nowhere
      /\ contents' = Putting(contents, r, b)
      /\ location' = [location EXCEPT ![b] = r]
      /\ UNCHANGED <<walking, online, removing>>
  BY DEF CreateBook, Playing, Idle, InRoom, Fresh, Made, Putting
<1>2. \A t \in Singles : location'[t] = IF t = b THEN r ELSE location[t]
  BY <1>1 DEF WorldInv
<1>3. location' \in [Singles -> Holders \cup {Nowhere}]
  BY <1>1, Kinds DEF WorldInv
<1> HIDE DEF r
<1>4. \A h \in Holders : b \notin Elements(contents[h])
  BY <1>1, Kinds, Settled DEF Singles
<1>5. Good(contents) /\ r \in Holders /\ b \in Things /\ b \notin Elements(contents[r])
  BY <1>1, <1>4, Kinds DEF WorldInv
<1>6. Good(contents')
  BY <1>1, <1>5, Put
<1>7. \A h \in Holders : Elements(contents'[h]) = IF h = r THEN Elements(contents[h]) \cup {b}
                                                  ELSE Elements(contents[h])
  BY <1>1, <1>5, Put
<1>8. \A h \in Holders : \A t \in Elements(contents'[h]) \ Piles : h = Bound(t)'
  <2> SUFFICES ASSUME NEW h \in Holders, NEW t \in Elements(contents'[h]) \ Piles
               PROVE  h = Bound(t)'
    OBVIOUS
  <2>1. CASE t = b
    <3>1. h = r
      BY <1>4, <1>7, <2>1
    <3>2. Bound(t)' = location'[t]
      BY <1>1, <2>1, Kinds DEF Bound
    <3> QED
      BY <1>2, <2>1, <3>1, <3>2, Kinds
  <2>2. CASE t # b
    <3>1. t \in Elements(contents[h])
      BY <1>7, <2>2
    <3>2. t \in Singles /\ location[t] = h
      BY <1>1, <3>1, Settled
    <3>3. Bound(t)' = location'[t]
      BY <1>1, <3>2, Kinds DEF Bound
    <3> QED
      BY <1>2, <2>2, <3>2, <3>3
  <2> QED
    BY <2>1, <2>2
<1>9. WorldInv'
  BY <1>1, <1>3, <1>6, <1>8 DEF WorldInv
<1>10. \A c \in Books : Made(c)' /\ c # b => Made(c)
  BY <1>2, Kinds DEF Made
<1>11. BooksInv'
  <2> SUFFICES ASSUME NEW c \in Books, Made(c)'
               PROVE  \E h \in Holders : c \in Elements(contents'[h])
    BY DEF BooksInv
  <2>1. CASE c = b
    BY <1>5, <1>7, <2>1
  <2>2. CASE c # b
    BY <1>7, <1>10, <2>2 DEF BooksInv
  <2> QED
    BY <2>1, <2>2
<1> QED
  BY <1>9, <1>11

\* A pile is put into a holder, or into one that is there.
LEMMA AddNewKeeps ==
  ASSUME WorldInv, BooksInv, NEW h \in Holders, NEW n, NEW m, AddNew(h, n, m),
         UNCHANGED <<location, walking, online, removing>>
  PROVE  WorldInv' /\ BooksInv'
<1>1. /\ Good(contents')
      /\ \A g \in Holders : \E P \in SUBSET Piles : Elements(contents'[g]) = Elements(contents[g]) \cup P
  <2>1. CASE contents' = contents
    <3>1. {} \in SUBSET Piles /\ \A g \in Holders : Elements(contents'[g]) = Elements(contents[g]) \cup {}
      BY <2>1
    <3> QED
      BY <2>1, <3>1 DEF WorldInv
  <2>2. ASSUME NEW u \in Piles, contents' = Putting(contents, h, u)
        PROVE  /\ Good(contents')
               /\ \A g \in Holders : \E P \in SUBSET Piles : Elements(contents'[g]) = Elements(contents[g]) \cup P
    <3>1. Good(contents) /\ u \in Things
      BY DEF WorldInv, Things
    <3>2. Good(contents')
      BY <2>2, <3>1, Put
    <3>3. \A g \in Holders : Elements(Putting(contents, h, u)[g]) =
                                IF g = h THEN Elements(contents[g]) \cup {u} ELSE Elements(contents[g])
      BY <3>1, Put
    <3>4. \A g \in Holders : Elements(contents'[g]) = IF g = h THEN Elements(contents[g]) \cup {u}
                                                      ELSE Elements(contents[g])
      BY <2>2, <3>3
    <3>5. \A g \in Holders : \E P \in SUBSET Piles : Elements(contents'[g]) = Elements(contents[g]) \cup P
      <4> SUFFICES ASSUME NEW g \in Holders
                   PROVE  \E P \in SUBSET Piles : Elements(contents'[g]) = Elements(contents[g]) \cup P
        OBVIOUS
      <4>1. CASE g = h
        <5> WITNESS {u} \in SUBSET Piles
        <5> QED
          BY <3>4, <4>1
      <4>2. CASE g # h
        <5> WITNESS {} \in SUBSET Piles
        <5> QED
          BY <3>4, <4>2
      <4> QED
        BY <4>1, <4>2
    <3> QED
      BY <3>2, <3>5
  <2>3. contents' = contents \/ \E u \in Piles : contents' = Putting(contents, h, u)
    BY DEF AddNew, FreshPiles, Putting
  <2> QED
    BY <2>1, <2>2, <2>3
<1>2. WorldInv'
  <2>1. \A g \in Holders : Elements(contents'[g]) \ Piles \subseteq Elements(contents[g])
    BY <1>1
  <2>2. online' \subseteq Players /\ removing'.who \in Players \cup {Nobody}
    BY DEF WorldInv
  <2> QED
    BY <1>1, <2>1, <2>2, NothingComes
<1>3. BooksInv'
  <2>1. \A g \in Holders : Elements(contents[g]) \subseteq Elements(contents'[g])
    BY <1>1
  <2> QED
    BY <2>1, BooksStay DEF Made
<1> QED
  BY <1>2, <1>3

\* A player who leaves takes nobody along.
LEMMA LeavesKeeps ==
  ASSUME WorldInv, BooksInv, NEW p \in Players, NEW h, Leaves(p, h),
         UNCHANGED <<location, walking>>, removing'.who \in Players \cup {Nobody}
  PROVE  WorldInv' /\ BooksInv'
<1>1. /\ Good(contents')
      /\ \A g \in Holders : /\ Elements(contents'[g]) \subseteq Elements(contents[g])
                            /\ Elements(contents[g]) \ {p} \subseteq Elements(contents'[g])
  <2>1. CASE h \in Rooms
    <3>1. Good(contents) /\ h \in Holders
      BY <2>1, Kinds DEF WorldInv
    <3>2. contents' = Pulling(contents, h, p)
      BY <2>1 DEF Leaves, Pulling
    <3>3. Good(contents')
      BY <3>1, <3>2, Pulled
    <3>4. \A g \in Holders : Elements(Pulling(contents, h, p)[g]) =
                                IF g = h THEN Elements(contents[g]) \ {p} ELSE Elements(contents[g])
      <4>1. \A C : Good(C) => \A k \in Holders : \A t : \A g \in Holders :
              Elements(Pulling(C, k, t)[g]) = IF g = k THEN Elements(C[g]) \ {t} ELSE Elements(C[g])
        BY Pulled
      <4>2. \A k \in Holders : \A t : \A g \in Holders :
              Elements(Pulling(contents, k, t)[g]) = IF g = k THEN Elements(contents[g]) \ {t} ELSE Elements(contents[g])
        BY <3>1, <4>1
      <4> QED
        BY <3>1, <4>2
    <3>5. \A g \in Holders : Elements(contents'[g]) = IF g = h THEN Elements(contents[g]) \ {p}
                                                      ELSE Elements(contents[g])
      BY <3>4, <3>2
    <3> QED
      BY <3>3, <3>5
  <2>2. CASE h \notin Rooms
    <3>1. contents' = contents
      BY <2>2 DEF Leaves
    <3> QED
      BY <3>1 DEF WorldInv
  <2> QED
    BY <2>1, <2>2
<1>2. online' \subseteq Players
  BY DEF Leaves, WorldInv
<1>3. WorldInv'
  BY <1>1, <1>2, NothingComes
<1>4. p \notin Books
  BY WorldAssumption
<1>5. BooksInv'
  BY <1>1, <1>4, BooksStay DEF Made
<1> QED
  BY <1>3, <1>5

-----------------------------------------------------------------------------
(* Get.                                                                    *)

LEMMA TakeThingKeeps ==
  ASSUME WorldInv, BooksInv, walking.who = Nobody, NEW p \in Players, NEW c \in Holders, c # p,
         NEW t \in Elements(contents[c]), TakeThing(p, c, t),
         UNCHANGED <<walking, online, removing>>
  PROVE  WorldInv' /\ BooksInv'
<1> DEFINE put == Putting(contents, p, t)
<1>1. /\ t \notin Piles
      /\ contents' = Pulling(put, c, t)
      /\ location' = [location EXCEPT ![t] = p]
  BY DEF TakeThing, Putting, Pulling
<1>2. t \in Singles /\ location[t] = c /\ p \in Holders
  BY <1>1, Settled, Kinds
<1>3. Good(contents) /\ t \in Things /\ t \notin Elements(contents[p])
  BY <1>1, <1>2, Settled, Kinds DEF WorldInv
<1>4. Good(put)
  BY <1>2, <1>3, Put
<1>5. \A h \in Holders : Elements(put[h]) = IF h = p THEN Elements(contents[h]) \cup {t}
                                            ELSE Elements(contents[h])
  BY <1>2, <1>3, Put
<1> HIDE DEF put
<1>6. Good(contents')
  BY <1>1, <1>4, Pulled
<1>7. \A h \in Holders : Elements(Pulling(put, c, t)[h]) = IF h = c THEN Elements(put[h]) \ {t}
                                                           ELSE Elements(put[h])
  BY <1>4, Pulled
<1>8. \A h \in Holders : Elements(contents'[h]) = IF h = c THEN Elements(contents[h]) \ {t}
                                                  ELSE IF h = p THEN Elements(contents[h]) \cup {t}
                                                  ELSE Elements(contents[h])
  BY <1>1, <1>5, <1>7
<1>9. \A u \in Singles : location'[u] = IF u = t THEN p ELSE location[u]
  BY <1>1 DEF WorldInv
<1>10. location' \in [Singles -> Holders \cup {Nowhere}]
  BY <1>1, <1>2 DEF WorldInv
<1>11. \A h \in Holders : \A u \in Elements(contents'[h]) \ Piles : h = Bound(u)'
  <2> SUFFICES ASSUME NEW h \in Holders, NEW u \in Elements(contents'[h]) \ Piles
               PROVE  h = Bound(u)'
    OBVIOUS
  <2>1. Elements(contents'[h]) \subseteq Elements(contents[h]) \cup {t}
    BY <1>8
  <2>2. u = t \/ u \in Elements(contents[h]) \ Piles
    BY <2>1
  <2>3. u \in Singles /\ (u # t => location[u] = h)
    BY <1>2, <2>2, Settled
  <2>4. Bound(u)' = location'[u]
    BY <2>3, Kinds DEF Bound
  <2>5. u = t => h = p
    <3> SUFFICES ASSUME u = t, h # p PROVE FALSE
      OBVIOUS
    <3>1. h # c /\ t \in Elements(contents[h])
      BY <1>8
    <3> QED
      BY <1>1, <1>2, <3>1, Settled
  <2> QED
    BY <1>9, <2>3, <2>4, <2>5
<1>12. WorldInv'
  BY <1>6, <1>10, <1>11 DEF WorldInv
<1>13. BooksInv'
  <2> SUFFICES ASSUME NEW b \in Books, Made(b)'
               PROVE  \E h \in Holders : b \in Elements(contents'[h])
    BY DEF BooksInv
  <2>1. CASE b = t
    BY <1>2, <1>8, <2>1
  <2>2. CASE b # t
    <3>1. Made(b)
      BY <1>9, <2>2, Kinds DEF Made
    <3>2. PICK h \in Holders : b \in Elements(contents[h])
      BY <3>1 DEF BooksInv
    <3> QED
      BY <1>8, <2>2, <3>2
  <2> QED
    BY <2>1, <2>2
<1> QED
  BY <1>12, <1>13

\* The first thing found leaves its place: if it is not the pile that was
\* named it is nowhere, and that cannot be a book.
LEMMA TakePileKeeps ==
  ASSUME WorldInv, BooksInv, walking.who = Nobody, NEW p \in Players, NEW c \in Holders, c # p,
         NEW w, NEW t \in Piles, NEW first \in Elements(contents[c]), NEW n,
         w \in Called[t], w \in Called[first], TakePile(p, c, t, first, n),
         UNCHANGED <<walking, online, removing>>
  PROVE  WorldInv' /\ BooksInv'
<1> DEFINE put == IF MergesInto(p) = {} THEN Putting(contents, p, t) ELSE contents
<1>1. Good(contents) /\ p \in Holders /\ t \in Things
  BY Kinds DEF WorldInv, Things
<1>2. /\ contents' = Pulling(put, c, first)
      /\ location' = [u \in DOMAIN location |-> IF u = first THEN p ELSE location[u]]
  <2>1. [contents EXCEPT ![p] = @] = contents
    BY <1>1 DEF Good
  <2>2. CASE MergesInto(p) = {}
    BY <2>2 DEF TakePile, Putting, Pulling
  <2>3. CASE MergesInto(p) # {}
    <3>1. contents' = [[contents EXCEPT ![p] = @] EXCEPT ![c] = RemoveThing(first, @)]
      BY <2>3 DEF TakePile
    <3> QED
      BY <2>1, <2>3, <3>1 DEF TakePile, Pulling
  <2> QED
    BY <2>2, <2>3
<1>3. Good(put)
  BY <1>1, Put
<1>4. \A h \in Holders : \/ Elements(put[h]) = Elements(contents[h])
                         \/ Elements(put[h]) = Elements(contents[h]) \cup {t}
  <2>1. \A h \in Holders : Elements(Putting(contents, p, t)[h]) =
                             IF h = p THEN Elements(contents[h]) \cup {t} ELSE Elements(contents[h])
    BY <1>1, Put
  <2> QED
    BY <2>1
<1> HIDE DEF put
<1>5. Good(contents')
  BY <1>2, <1>3, Pulled
<1>6. \A h \in Holders : Elements(Pulling(put, c, first)[h]) = IF h = c THEN Elements(put[h]) \ {first}
                                                               ELSE Elements(put[h])
  BY <1>3, Pulled
<1>7. \A h \in Holders : Elements(contents'[h]) = IF h = c THEN Elements(put[h]) \ {first}
                                                  ELSE Elements(put[h])
  BY <1>2, <1>6
<1>8. \A u \in Singles : location'[u] = IF u = first THEN p ELSE location[u]
  BY <1>2 DEF WorldInv
<1>9. location' \in [Singles -> Holders \cup {Nowhere}]
  BY <1>1, <1>2 DEF WorldInv
<1>10. \A h \in Holders : \A u \in Elements(contents'[h]) \ Piles : h = Bound(u)'
  <2> SUFFICES ASSUME NEW h \in Holders, NEW u \in Elements(contents'[h]) \ Piles
               PROVE  h = Bound(u)'
    OBVIOUS
  <2>1. u \in Elements(contents[h]) \ Piles
    BY <1>4, <1>7
  <2>2. u \in Singles /\ location[u] = h
    BY <2>1, Settled
  <2>3. u # first
    <3> SUFFICES ASSUME u = first PROVE FALSE
      OBVIOUS
    <3>1. h = c
      BY <2>2, Settled
    <3> QED
      BY <1>7, <3>1
  <2>4. Bound(u)' = location'[u]
    BY <2>2, Kinds DEF Bound
  <2> QED
    BY <1>8, <2>2, <2>3, <2>4
<1>11. WorldInv'
  BY <1>5, <1>9, <1>10 DEF WorldInv
<1>12. first \notin Books
  BY NamesAssumption
<1>13. \A b \in Books : Made(b)' => Made(b)
  BY <1>8, <1>12, Kinds DEF Made
<1>14. \A h \in Holders : \A b \in Books : b \in Elements(contents[h]) => b \in Elements(contents'[h])
  BY <1>4, <1>7, <1>12
<1>15. BooksInv'
  BY <1>13, <1>14, BooksStay
<1> QED
  BY <1>11, <1>15

\* What a get can come to: nothing, or something done to what is in a room or
\* in the hands of another player.
Gets(p, c, t) ==
  \/ TakeThing(p, c, t)
  \/ \E many \in Numbers : t \in Piles /\ TakePart(p, t, many)
  \/ \E first \in Elements(contents[c]), many \in Numbers :
        t \in Piles /\ Called[t] \cap Called[first] # {} /\ TakePile(p, c, t, first, many)

LEMMA Taking ==
  ASSUME Good(contents), NEW p, NEW c \in Holders, NEW item, NEW nth \in Nat, Take(p, c, item, nth)
  PROVE  \/ UNCHANGED <<contents, location, quantity>>
         \/ \E t \in Elements(contents[c]) : Gets(p, c, t)
<1> DEFINE found == Find(c, item)
<1>1. /\ found \in Seq(Things)
      /\ Elements(found) = {x \in Elements(contents[c]) : item \in Called[x]}
  BY Finding
<1>2. \/ UNCHANGED <<contents, location, quantity>>
      \/ \E t \in NthOf(found, nth) :
             \/ TakeThing(p, c, t)
             \/ \E many \in Numbers : TakePile(p, c, t, found[1], many) \/ TakePart(p, t, many)
  BY DEF Take, ReadPast
<1> HIDE DEF found
<1>3. ASSUME NEW t \in NthOf(found, nth),
             \/ TakeThing(p, c, t)
             \/ \E many \in Numbers : TakePile(p, c, t, found[1], many) \/ TakePart(p, t, many)
      PROVE  t \in Elements(contents[c]) /\ Gets(p, c, t)
  <2>1. t \in Elements(found) /\ found[1] \in Elements(found)
    BY <1>1, Nth
  <2>2. /\ t \in Elements(contents[c]) /\ found[1] \in Elements(contents[c])
        /\ item \in Called[t] /\ item \in Called[found[1]]
    BY <1>1, <2>1
  <2>3. CASE TakeThing(p, c, t)
    BY <2>2, <2>3 DEF Gets
  <2>4. ASSUME NEW many \in Numbers, TakePile(p, c, t, found[1], many) PROVE Gets(p, c, t)
    <3>1. t \in Piles /\ Called[t] \cap Called[found[1]] # {}
      BY <2>2, <2>4 DEF TakePile
    <3> QED
      BY <2>2, <2>4, <3>1 DEF Gets
  <2>5. ASSUME NEW many \in Numbers, TakePart(p, t, many) PROVE Gets(p, c, t)
    <3>1. t \in Piles
      BY <2>5 DEF TakePart
    <3> QED
      BY <2>5, <3>1 DEF Gets
  <2> QED
    BY <1>3, <2>2, <2>3, <2>4, <2>5
<1> QED
  BY <1>2, <1>3

LEMMA Getting ==
  ASSUME Good(contents), NEW p \in Players, Get(p)
  PROVE  \/ UNCHANGED <<contents, location, quantity>>
         \/ \E c \in Holders \ {p} : \E t \in Elements(contents[c]) : Gets(p, c, t)
<1>1. location[p] \in Rooms /\ (GetHere(p) \/ GetFrom(p))
  BY DEF Get, InRoom
<1>2. Numbers \subseteq Nat
  BY WorldAssumption DEF Numbers
<1>3. CASE GetHere(p)
  <2>1. PICK item \in Words, nth \in Numbers : Take(p, location[p], item, nth)
    BY <1>3 DEF GetHere
  <2>2. location[p] \in Holders \ {p} /\ nth \in Nat
    BY <1>1, <1>2, Kinds, WorldAssumption
  <2> QED
    BY <2>1, <2>2, Taking
<1>4. CASE GetFrom(p)
  <2>1. PICK from \in Words, n \in Numbers :
          \E c \in Searched(p, from, n) : \E item \in Words, nth \in Numbers : Take(p, c, item, nth)
    BY <1>4 DEF GetFrom
  <2>2. PICK c \in Searched(p, from, n) : \E item \in Words, nth \in Numbers : Take(p, c, item, nth)
    BY <2>1
  <2>3. PICK item \in Words, nth \in Numbers : Take(p, c, item, nth)
    BY <2>2
  <2>4. c # p /\ c \in Players
    BY DEF Searched, FindContainer, NthOf
  <2>5. c \in Holders \ {p} /\ nth \in Nat
    BY <1>2, <2>4, Kinds
  <2> QED
    BY <2>3, <2>5, Taking
<1> QED
  BY <1>1, <1>3, <1>4

LEMMA GetKeeps ==
  ASSUME WorldInv, BooksInv, NEW p \in Players, Get(p)
  PROVE  WorldInv' /\ BooksInv'
<1>1. walking.who = Nobody /\ UNCHANGED <<walking, online, removing>>
  BY DEF Get, Playing, Idle
<1>2. \/ UNCHANGED <<contents, location, quantity>>
      \/ \E c \in Holders \ {p} : \E t \in Elements(contents[c]) : Gets(p, c, t)
  BY Getting DEF WorldInv
<1>3. CASE UNCHANGED <<contents, location>>
  BY <1>1, <1>3 DEF WorldInv, BooksInv, Bound, Made
<1>4. ASSUME NEW c \in Holders, c # p, NEW t \in Elements(contents[c]), TakeThing(p, c, t)
      PROVE  WorldInv' /\ BooksInv'
  BY <1>1, <1>4, TakeThingKeeps
<1>5. ASSUME NEW t, NEW many, TakePart(p, t, many)
      PROVE  WorldInv' /\ BooksInv'
  <2>1. AddNew(p, many, 0) /\ location' = location /\ p \in Holders
    BY <1>5, Kinds DEF TakePart
  <2> QED
    BY <1>1, <2>1, AddNewKeeps
<1>6. ASSUME NEW c \in Holders, c # p, NEW t \in Piles, NEW first \in Elements(contents[c]), NEW many,
             Called[t] \cap Called[first] # {}, TakePile(p, c, t, first, many)
      PROVE  WorldInv' /\ BooksInv'
  <2>1. PICK w : w \in Called[t] /\ w \in Called[first]
    BY <1>6
  <2> QED
    BY <1>1, <1>6, <2>1, TakePileKeeps
<1> QED
  BY <1>2, <1>3, <1>4, <1>5, <1>6 DEF Gets

-----------------------------------------------------------------------------
(* Every step.                                                             *)

LEMMA StepKeepsWorld == WorldInv /\ BooksInv /\ [Next]_vars => WorldInv' /\ BooksInv'
<1> SUFFICES ASSUME WorldInv, BooksInv, [Next]_vars PROVE WorldInv' /\ BooksInv'
  OBVIOUS
<1>1. ASSUME NEW p \in Players, NEW r \in Rooms, Login(p, r) \/ PassExit(p, r)
      PROVE  WorldInv' /\ BooksInv'
  BY <1>1, LoginKeeps, PassExitKeeps
<1>2. ASSUME NEW p \in Players, FirstLogin(p) \/ Get(p) PROVE WorldInv' /\ BooksInv'
  BY <1>2, FirstLoginKeeps, GetKeeps
<1>3. ASSUME NEW p \in Players, NEW b \in Books, CreateBook(p, b) PROVE WorldInv' /\ BooksInv'
  BY <1>3, CreateBookKeeps
<1>4. ASSUME NEW p \in Players, CreateCoin(p) PROVE WorldInv' /\ BooksInv'
  <2>1. location[p] \in Holders /\ AddNew(location[p], 1, 1)
        /\ UNCHANGED <<location, walking, online, removing>>
    BY <1>4, Kinds DEF CreateCoin, InRoom
  <2> QED
    BY <2>1, AddNewKeeps
<1>5. ASSUME NEW p \in Players, Quit(p) PROVE WorldInv' /\ BooksInv'
  <2>1. Leaves(p, location[p]) /\ UNCHANGED <<location, walking, removing>>
    BY <1>5 DEF Quit
  <2>2. removing'.who \in Players \cup {Nobody}
    BY <2>1 DEF WorldInv
  <2> QED
    BY <2>1, <2>2, LeavesKeeps
<1>6. CASE EndRemove
  <2> DEFINE p == removing.who
  <2>1. Leaves(p, removing.from) /\ UNCHANGED <<location, walking>> /\ p \in Players
    BY <1>6 DEF EndRemove, WorldInv
  <2>2. removing'.who \in Players \cup {Nobody}
    BY <1>6 DEF EndRemove, NoRemoval
  <2> HIDE DEF p
  <2> QED
    BY <2>1, <2>2, LeavesKeeps
<1>7. CASE /\ UNCHANGED <<contents, location, walking, online>>
           /\ removing'.who \in Players \cup {Nobody}
  BY <1>7 DEF WorldInv, BooksInv, Bound, Made
<1>8. ASSUME NEW p \in Players, BeginRemove(p) PROVE WorldInv' /\ BooksInv'
  BY <1>7, <1>8 DEF BeginRemove
<1>9. ASSUME NEW r \in Rooms, SaveRoom(r) PROVE WorldInv' /\ BooksInv'
  BY <1>7, <1>9 DEF SaveRoom, WorldInv
<1>10. CASE UNCHANGED vars
  BY <1>7, <1>10 DEF vars, WorldInv
<1> QED
  BY <1>1, <1>2, <1>3, <1>4, <1>5, <1>6, <1>8, <1>9, <1>10, ArriveKeeps DEF Next

LEMMA WorldIsAsItSays == WorldInv => WhereItSays
<1> SUFFICES ASSUME WorldInv, NEW h \in Holders, NEW t \in Elements(contents[h]) \ Piles
             PROVE  location[t] = h \/ walking = [who |-> t, to |-> h]
  BY DEF WhereItSays
<1>1. h = Bound(t)
  BY DEF WorldInv
<1> QED
  BY <1>1 DEF Bound, WorldInv

LEMMA OnePlace == WorldInv => HeldOnce
<1> SUFFICES ASSUME WorldInv, NEW t \in Singles PROVE Cardinality(Places(t)) <= 1
  BY DEF HeldOnce, Singles
<1>1. \A x \in Places(t) : \E h \in Holders : \E i \in DOMAIN contents[h] :
           x = <<h, i>> /\ contents[h][i] = t
  BY DEF Places
<1>2. ASSUME NEW g \in Holders, NEW h \in Holders, NEW i \in DOMAIN contents[g],
             NEW j \in DOMAIN contents[h], contents[g][i] = t, contents[h][j] = t
      PROVE  <<g, i>> = <<h, j>>
  <2>1. t \in Elements(contents[g]) \ Piles /\ t \in Elements(contents[h]) \ Piles
    BY <1>2 DEF Elements, Singles
  <2>2. g = Bound(t) /\ h = Bound(t)
    BY <2>1 DEF WorldInv
  <2>3. g = h
    BY <2>2
  <2>4. i = j
    <3>1. Once(contents[g]) /\ i \in DOMAIN contents[g] /\ j \in DOMAIN contents[g]
      BY <2>3 DEF WorldInv, Good
    <3> QED
      BY <1>2, <2>3, <3>1 DEF Once, Singles
  <2> QED
    BY <2>3, <2>4
<1>3. \A x, y \in Places(t) : x = y
  BY <1>1, <1>2
<1>4. CASE Places(t) = {}
  BY <1>4, FS_EmptySet
<1>5. CASE Places(t) # {}
  <2>1. PICK x \in Places(t) : TRUE
    BY <1>5
  <2>2. Places(t) = {x}
    BY <1>3, <2>1
  <2>3. Cardinality({x}) = 1
    BY FS_Singleton
  <2> QED
    BY <2>2, <2>3
<1> QED
  BY <1>4, <1>5

LEMMA SomePlace == BooksInv => NotLost
<1> SUFFICES ASSUME BooksInv, NEW b \in Books, Made(b) PROVE Places(b) # {}
  BY DEF NotLost
<1>1. PICK h \in Holders : b \in Elements(contents[h])
  BY DEF BooksInv
<1>2. PICK i \in DOMAIN contents[h] : contents[h][i] = b
  BY <1>1 DEF Elements
<1>3. <<h, i>> \in Places(b)
  BY <1>2 DEF Places
<1> QED
  BY <1>3

\* Get, walking, create and the removal of a player put a thing in its new
\* place and take it from the old one in two steps each, by different ways of
\* naming it: no thing but a pile is ever in two places.
THEOREM NothingIsTwice == Spec => []HeldOnce
BY InitWorld, StepKeepsWorld, OnePlace, PTL DEF Spec

\* And where it is is where its mObjectLocation says, which every command and
\* the removal of a player go by, but for a player who passes an exit between
\* Container::containerAdd and setLocation.
THEOREM LocationsAreTrue == Spec => []WhereItSays
BY InitWorld, StepKeepsWorld, WorldIsAsItSays, PTL DEF Spec

\* A book that was made is in some container: a get whose hands are full leaves
\* it, and a get of a pile by its number, which moves the first thing found
\* instead, does not find a book.
THEOREM NoBookIsLost == Spec => []NotLost
BY InitWorld, StepKeepsWorld, SomePlace, PTL DEF Spec
=============================================================================
