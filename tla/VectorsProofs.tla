---------------------------- MODULE VectorsProofs ----------------------------
(***************************************************************************)
(* What is found in a vector, or left of it, for any vector.  Chosen says  *)
(* all there is to say of InOrder: which element of s is at each place;    *)
(* Coursed says all there is to say of a fold: its values, step by step.   *)
(***************************************************************************)
EXTENDS Vectors, FiniteSetsExt, FiniteSetTheorems, SequenceTheorems, WellFoundedInduction, TLAPS

LEMMA Least ==
  ASSUME NEW S, S \subseteq Nat, S # {}
  PROVE  \E x \in S : \A y \in S : x <= y
<1>1. PICK x \in S : \A y \in S : ~(<<y, x>> \in OpToRel(<, Nat))
  BY NatLessThanWellFounded, WFMin
<1>2. \A y \in S : ~(y < x)
  BY <1>1, Zenon DEF OpToRel
<1> QED
  BY <1>2

LEMMA NextBelow ==
  ASSUME NEW S, S \subseteq Nat, NEW k \in Nat, \E x \in S : x < k
  PROVE  \E x \in S : x < k /\ \A y \in S : y < k => y <= x
<1> DEFINE D == {d \in Nat : d >= 1 /\ k - d \in S}
<1>1. PICK x \in S : x < k
  OBVIOUS
<1>2. k - x \in D
  BY <1>1
<1>3. PICK d \in D : \A e \in D : d <= e
  <2>1. D \subseteq Nat /\ D # {}
    BY <1>2
  <2> HIDE DEF D
  <2> QED
    BY <2>1, Least
<1>4. ASSUME NEW y \in S, y < k PROVE y <= k - d
  <2>1. k - y \in D
    BY <1>4
  <2>2. d <= k - y
    BY <1>3, <2>1
  <2> QED
    BY <2>2
<1> QED
  BY <1>3, <1>4

\* What holds of 0 and is handed on holds up to n.
LEMMA Upward ==
  ASSUME NEW n \in Nat, NEW P, 0 \in P, \A k \in 1 .. n : k - 1 \in P => k \in P
  PROVE  0 .. n \subseteq P
<1> DEFINE bad == (0 .. n) \ P
<1>1. SUFFICES ASSUME bad # {} PROVE FALSE
  OBVIOUS
<1>2. bad \subseteq Nat
  OBVIOUS
<1>3. PICK k \in bad : \A l \in bad : k <= l
  BY <1>1, <1>2, Least
<1>4. k \in 1 .. n /\ k - 1 \in 0 .. n /\ k - 1 \notin bad
  BY <1>3
<1> QED
  BY <1>3, <1>4

LEMMA Positions ==
  ASSUME NEW S, NEW s \in Seq(S)
  PROVE  /\ Len(s) \in Nat /\ DOMAIN s = 1 .. Len(s)
         /\ \A i \in DOMAIN s : s[i] \in S
OBVIOUS

LEMMA AsFunction ==
  ASSUME NEW S, NEW s \in Seq(S)
  PROVE  DOMAIN s = 1 .. Len(s) /\ s = [k \in 1 .. Len(s) |-> s[k]]
OBVIOUS

-----------------------------------------------------------------------------
(* Ranks.                                                                  *)

\* The ranks of the positions I are 1 .. Cardinality(I), each of one position.
LEMMA Ranks ==
  ASSUME NEW n \in Nat, NEW I \in SUBSET (1 .. n)
  PROVE  /\ Cardinality(I) \in Nat
         /\ \A i \in I : Rank(I, i) \in 1 .. Cardinality(I)
         /\ \A i, j \in I : Rank(I, i) = Rank(I, j) => i = j
         /\ \A k \in 1 .. Cardinality(I) : \E i \in I : Rank(I, i) = k
<1> DEFINE upto(i) == {j \in I : j <= i}
           m == Cardinality(I)
<1>1. IsFiniteSet(I) /\ I \subseteq Int
  <2>1. IsFiniteSet(1 .. n)
    BY FS_Interval
  <2>2. IsFiniteSet(I)
    BY <2>1, FS_Subset
  <2>3. I \subseteq Int
    OBVIOUS
  <2> QED
    BY <2>2, <2>3
<1>2. m \in Nat
  BY <1>1, FS_CardinalityType
<1>3. \A i \in I : IsFiniteSet(upto(i)) /\ Rank(I, i) \in Nat /\ Rank(I, i) <= m
  <2> SUFFICES ASSUME NEW i \in I
               PROVE  IsFiniteSet(upto(i)) /\ Rank(I, i) \in Nat /\ Rank(I, i) <= m
    OBVIOUS
  <2>1. upto(i) \in SUBSET I
    OBVIOUS
  <2>2. IsFiniteSet(upto(i)) /\ Cardinality(upto(i)) <= Cardinality(I)
    BY <1>1, <2>1, FS_Subset
  <2>3. Cardinality(upto(i)) \in Nat
    BY <2>2, FS_CardinalityType
  <2> QED
    BY <2>2, <2>3 DEF Rank
<1>4. \A i \in I : Rank(I, i) # 0
  <2> SUFFICES ASSUME NEW i \in I, Rank(I, i) = 0 PROVE FALSE
    OBVIOUS
  <2>1. upto(i) = {}
    BY <1>3, FS_EmptySet DEF Rank
  <2> QED
    BY <1>1, <2>1
<1>5. ASSUME NEW i \in I, NEW j \in I, i < j PROVE Rank(I, i) # Rank(I, j)
  <2>1. upto(i) \in SUBSET upto(j)
    <3>1. \A l \in I : l <= i => l <= j
      BY <1>1, <1>5
    <3> QED
      BY <3>1
  <2>2. j \in upto(j) /\ j \notin upto(i)
    BY <1>1, <1>5
  <2>3. IsFiniteSet(upto(j))
    BY <1>3
  <2> HIDE DEF upto
  <2>4. Cardinality(upto(j)) # Cardinality(upto(i))
    BY <2>1, <2>2, <2>3, FS_Subset
  <2> QED
    BY <2>4 DEF Rank, upto
<1>6. \A i, j \in I : Rank(I, i) = Rank(I, j) => i = j
  BY <1>1, <1>5
<1>7. \A i \in I : Rank(I, i) \in 1 .. m
  <2> HIDE DEF m, upto
  <2> QED
    BY <1>2, <1>3, <1>4
<1>8. \A k \in 1 .. m : \E i \in I : Rank(I, i) = k
  <2> DEFINE f == [i \in I |-> Rank(I, i)]
  <2>1. f \in Injection(I, 1 .. m)
    BY <1>6, <1>7 DEF Injection, IsInjective
  <2>2. IsFiniteSet(1 .. m) /\ Cardinality(1 .. m) = m
    BY <1>2, FS_Interval
  <2> HIDE DEF f
  <2>3. f \in Surjection(I, 1 .. m)
    BY <2>1, <2>2, FS_Injection
  <2> QED
    BY <2>3 DEF Surjection, f
<1> QED
  BY <1>2, <1>6, <1>7, <1>8

\* An element further back has a higher rank.
LEMMA RanksRise ==
  ASSUME NEW n \in Nat, NEW I \in SUBSET (1 .. n), NEW i \in I, NEW j \in I, i < j
  PROVE  Rank(I, i) < Rank(I, j)
<1> DEFINE upto(k) == {l \in I : l <= k}
<1>1. \A k \in I : k \in Int
  OBVIOUS
<1>2. IsFiniteSet(I)
  <2>1. IsFiniteSet(1 .. n)
    BY FS_Interval
  <2> QED
    BY <2>1, FS_Subset
<1>3. upto(j) \in SUBSET I
  OBVIOUS
<1>4. IsFiniteSet(upto(j))
  BY <1>2, <1>3, FS_Subset
<1>5. upto(i) \in SUBSET upto(j)
  <2>1. \A l \in I : l <= i => l <= j
    BY <1>1
  <2> QED
    BY <2>1
<1>6. j \in upto(j) /\ j \notin upto(i)
  BY <1>1
<1> HIDE DEF upto
<1>7. upto(i) # upto(j)
  BY <1>6
<1>8. IsFiniteSet(upto(i)) /\ Cardinality(upto(i)) <= Cardinality(upto(j)) /\ Cardinality(upto(i)) # Cardinality(upto(j))
  BY <1>4, <1>5, <1>7, FS_Subset
<1>9. Cardinality(upto(i)) \in Nat /\ Cardinality(upto(j)) \in Nat
  BY <1>4, <1>8, FS_CardinalityType
<1>10. Cardinality(upto(i)) < Cardinality(upto(j))
  BY <1>8, <1>9
<1> QED
  BY <1>10 DEF Rank, upto

\* What is left of a sequence is never further back than it was, and further to
\* the front if something before it is gone.
LEMMA RankBelow ==
  ASSUME NEW n \in Nat, NEW I \in SUBSET (1 .. n), NEW k \in I
  PROVE  /\ Rank(I, k) <= k
         /\ \A j \in 1 .. k : j \notin I => Rank(I, k) <= k - 1
<1> DEFINE upto == {j \in I : j <= k}
<1>1. k \in Nat /\ k >= 1 /\ \A i \in I : i \in Nat /\ i >= 1
  OBVIOUS
<1>2. upto \in SUBSET (1 .. k)
  <2>1. \A i \in upto : i \in I /\ i <= k
    OBVIOUS
  <2> HIDE DEF upto
  <2>2. ASSUME NEW i \in upto PROVE i \in 1 .. k
    <3>1. i \in Nat /\ i >= 1 /\ i <= k
      BY <1>1, <2>1
    <3> QED
      BY <1>1, <3>1
  <2> QED
    BY <2>2
<1>3. IsFiniteSet(1 .. k) /\ Cardinality(1 .. k) = k
  BY <1>1, FS_Interval
<1>4. Rank(I, k) = Cardinality(upto)
  BY DEF Rank
<1> HIDE DEF upto
<1>5. Cardinality(upto) <= k
  BY <1>2, <1>3, FS_Subset
<1>6. ASSUME NEW j \in 1 .. k, j \notin upto PROVE Cardinality(upto) <= k - 1
  <2>1. IsFiniteSet((1 .. k) \ {j}) /\ Cardinality((1 .. k) \ {j}) = k - 1
    BY <1>3, <1>6, FS_RemoveElement
  <2>2. upto \in SUBSET ((1 .. k) \ {j})
    BY <1>2, <1>6
  <2>3. Cardinality(upto) <= Cardinality((1 .. k) \ {j})
    BY <2>1, <2>2, FS_Subset
  <2> QED
    BY <2>1, <2>3
<1>7. \A j \in 1 .. k : j \notin I => j \notin upto
  BY DEF upto
<1> QED
  BY <1>4, <1>5, <1>6, <1>7

-----------------------------------------------------------------------------
(* What is found, and what is left.                                        *)

\* The elements of s at I in their order: the k-th is from place[k], which is at k
\* or behind it, and behind it if one before it was passed over.
Placed(s, I, place) ==
  /\ \A k \in 1 .. Cardinality(I) : InOrder(s, I)[k] = s[place[k]]
  /\ \A i \in I : \E k \in 1 .. Cardinality(I) : place[k] = i
  /\ \A k, l \in 1 .. Cardinality(I) : k < l => place[k] < place[l]
  /\ \A k \in 1 .. Cardinality(I) :
       k <= place[k] /\ \A j \in 1 .. place[k] : j \notin I => k <= place[k] - 1

LEMMA Chosen ==
  ASSUME NEW S, NEW s \in Seq(S), NEW I \in SUBSET DOMAIN s
  PROVE  /\ InOrder(s, I) \in Seq(S)
         /\ DOMAIN InOrder(s, I) = 1 .. Cardinality(I) /\ Cardinality(I) \in Nat
         /\ \E place \in [1 .. Cardinality(I) -> I] : Placed(s, I, place)
<1> DEFINE m == Cardinality(I)
           at(k) == CHOOSE i \in I : Rank(I, i) = k
           place == [k \in 1 .. m |-> at(k)]
           o == InOrder(s, I)
<1>1. I \in SUBSET (1 .. Len(s)) /\ Len(s) \in Nat /\ \A i \in I : s[i] \in S
  BY Positions
<1>2. /\ m \in Nat
      /\ \A i \in I : Rank(I, i) \in 1 .. m
      /\ \A i, j \in I : Rank(I, i) = Rank(I, j) => i = j
      /\ \A k \in 1 .. m : \E i \in I : Rank(I, i) = k
  BY <1>1, Ranks
<1>3. \A k \in 1 .. m : at(k) \in I /\ Rank(I, at(k)) = k
  BY <1>2
<1>4. \A i \in I : at(Rank(I, i)) = i
  BY <1>2, <1>3
<1>5. \A i \in I : Rank(I, i) <= i /\ \A j \in 1 .. i : j \notin I => Rank(I, i) <= i - 1
  BY <1>1, RankBelow
<1>6. \A i, j \in I : i < j => Rank(I, i) < Rank(I, j)
  BY <1>1, RanksRise
<1>7. o = [k \in 1 .. m |-> s[at(k)]]
  BY DEF InOrder
<1> HIDE DEF at, m, o
<1>8. o \in [1 .. m -> S] /\ DOMAIN o = 1 .. m
  BY <1>1, <1>3, <1>7
<1>9. o \in Seq(S)
  BY <1>2, <1>8, IsASeq
<1>10. place \in [1 .. m -> I]
  BY <1>3
<1>11. \A k \in 1 .. m : o[k] = s[place[k]]
  BY <1>7
<1>12. \A i \in I : \E k \in 1 .. m : place[k] = i
  BY <1>2, <1>4
<1>13. \A k, l \in 1 .. m : k < l => place[k] < place[l]
  <2> SUFFICES ASSUME NEW k \in 1 .. m, NEW l \in 1 .. m, k < l PROVE at(k) < at(l)
    OBVIOUS
  <2>1. at(k) \in I /\ at(l) \in I /\ Rank(I, at(k)) = k /\ Rank(I, at(l)) = l
    BY <1>3
  <2>2. at(k) \in Int /\ at(l) \in Int
    BY <1>1, <2>1
  <2>3. at(k) # at(l)
    BY <1>2, <2>1
  <2>4. ~(at(l) < at(k))
    BY <1>2, <1>6, <2>1
  <2> QED
    BY <2>2, <2>3, <2>4
<1>14. \A k \in 1 .. m : k <= place[k] /\ \A j \in 1 .. place[k] : j \notin I => k <= place[k] - 1
  BY <1>3, <1>5
<1> HIDE DEF place
<1>15. Placed(s, I, place)
  BY <1>11, <1>12, <1>13, <1>14 DEF Placed, o, m
<1> QED
  BY <1>2, <1>8, <1>9, <1>10, <1>15 DEF o, m

LEMMA Ordered ==
  ASSUME NEW S, NEW s \in Seq(S), NEW I \in SUBSET DOMAIN s
  PROVE  InOrder(s, I) \in Seq(S) /\ Elements(InOrder(s, I)) = {s[i] : i \in I}
<1> DEFINE m == Cardinality(I)
           o == InOrder(s, I)
<1>1. o \in Seq(S) /\ DOMAIN o = 1 .. m
  BY Chosen
<1>2. PICK place \in [1 .. Cardinality(I) -> I] : Placed(s, I, place)
  BY Chosen
<1>3. /\ \A k \in 1 .. m : o[k] = s[place[k]] /\ place[k] \in I
      /\ \A i \in I : \E k \in 1 .. m : place[k] = i
  BY <1>2 DEF Placed
<1> HIDE DEF m, o
<1>4. \A x \in Elements(o) : x \in {s[i] : i \in I}
  BY <1>1, <1>3 DEF Elements
<1>5. \A i \in I : s[i] \in Elements(o)
  BY <1>1, <1>3 DEF Elements
<1> QED
  BY <1>1, <1>4, <1>5 DEF o

\* std::remove and erase take out x and nothing else.
LEMMA Taken ==
  ASSUME NEW S, NEW s \in Seq(S), NEW x
  PROVE  Without(s, x) \in Seq(S) /\ Elements(Without(s, x)) = Elements(s) \ {x}
<1> DEFINE I == {i \in DOMAIN s : s[i] # x}
<1>1. I \in SUBSET DOMAIN s
  OBVIOUS
<1>2. {s[i] : i \in I} = Elements(s) \ {x}
  BY DEF Elements
<1>3. Without(s, x) = InOrder(s, I)
  BY DEF Without
<1> HIDE DEF I
<1> QED
  BY <1>1, <1>2, <1>3, Ordered

LEMMA Longer ==
  ASSUME NEW S, NEW s \in Seq(S), NEW x \in S
  PROVE  Append(s, x) \in Seq(S) /\ Elements(Append(s, x)) = Elements(s) \cup {x}
<1> DEFINE n == Len(s)
           a == Append(s, x)
<1>1. n \in Nat /\ DOMAIN s = 1 .. n
  BY Positions
<1>2. a \in Seq(S) /\ Len(a) = n + 1 /\ a[n + 1] = x /\ \A i \in 1 .. n : a[i] = s[i]
  BY AppendProperties
<1>3. DOMAIN a = 1 .. (n + 1)
  BY <1>2, Positions
<1> HIDE DEF n, a
<1>4. \A i \in 1 .. (n + 1) : i \in 1 .. n \/ i = n + 1
  BY <1>1
<1>5. Elements(a) = Elements(s) \cup {x}
  BY <1>1, <1>2, <1>3, <1>4 DEF Elements
<1> QED
  BY <1>2, <1>5 DEF a

\* A last element that is not chosen changes nothing, and one that is comes last.
LEMMA ChosenToo ==
  ASSUME NEW S, NEW s \in Seq(S), NEW c \in S, NEW I \in SUBSET DOMAIN s
  PROVE  /\ InOrder(Append(s, c), I) = InOrder(s, I)
         /\ InOrder(Append(s, c), I \cup {Len(s) + 1}) = Append(InOrder(s, I), c)
<1> DEFINE n == Len(s)
           a == Append(s, c)
           m == Cardinality(I)
           J == I \cup {n + 1}
           at(k) == CHOOSE i \in I : Rank(I, i) = k
           to(k) == CHOOSE i \in J : Rank(J, i) = k
<1>1. n \in Nat /\ I \in SUBSET (1 .. n) /\ J \in SUBSET (1 .. n + 1)
  BY Positions
<1>2. a[n + 1] = c /\ \A i \in I : a[i] = s[i]
  BY <1>1, AppendProperties
<1>3. IsFiniteSet(I) /\ n + 1 \notin I
  <2>1. IsFiniteSet(1 .. n)
    BY <1>1, FS_Interval
  <2> QED
    BY <1>1, <2>1, FS_Subset
<1>4. Cardinality(J) = m + 1
  BY <1>3, FS_AddElement
<1>5. /\ m \in Nat
      /\ \A i \in I : Rank(I, i) \in 1 .. m
      /\ \A i, j \in I : Rank(I, i) = Rank(I, j) => i = j
      /\ \A k \in 1 .. m : \E i \in I : Rank(I, i) = k
  BY <1>1, Ranks
<1>6. \A i, j \in J : Rank(J, i) = Rank(J, j) => i = j
  <2>1. n + 1 \in Nat
    BY <1>1
  <2> HIDE DEF J
  <2> QED
    BY <1>1, <2>1, Ranks
<1>7. \A k \in 1 .. m : at(k) \in I /\ Rank(I, at(k)) = k
  BY <1>5
<1>8. \A i \in I : Rank(J, i) = Rank(I, i)
  <2>1. ASSUME NEW i \in I PROVE {j \in J : j <= i} = {j \in I : j <= i}
    BY <1>1
  <2> QED
    BY <2>1 DEF Rank
<1>9. Rank(J, n + 1) = m + 1
  <2>1. {j \in J : j <= n + 1} = J
    BY <1>1
  <2> QED
    BY <1>4, <2>1 DEF Rank
<1>10. \A k \in 1 .. m : to(k) = at(k)
  <2>1. ASSUME NEW k \in 1 .. m PROVE to(k) = at(k)
    <3>1. at(k) \in J /\ Rank(J, at(k)) = k
      BY <1>7, <1>8
    <3>2. to(k) \in J /\ Rank(J, to(k)) = k
      BY <3>1
    <3> QED
      BY <1>6, <3>1, <3>2
  <2> QED
    BY <2>1
<1>11. to(m + 1) = n + 1
  <2>1. n + 1 \in J
    OBVIOUS
  <2>2. to(m + 1) \in J /\ Rank(J, to(m + 1)) = m + 1
    BY <1>9, <2>1
  <2> QED
    BY <1>6, <1>9, <2>1, <2>2
<1>12. InOrder(a, I) = [k \in 1 .. m |-> a[at(k)]] /\ InOrder(s, I) = [k \in 1 .. m |-> s[at(k)]]
  BY DEF InOrder
<1>13. InOrder(a, J) = [k \in 1 .. m + 1 |-> a[to(k)]]
  BY <1>4 DEF InOrder
<1>14. InOrder(s, I) \in Seq(S) /\ Len(InOrder(s, I)) = m
  <2>1. /\ InOrder(s, I) \in Seq(S)
        /\ DOMAIN InOrder(s, I) = 1 .. Cardinality(I) /\ Cardinality(I) \in Nat
    BY Chosen
  <2> QED
    BY <2>1
<1> HIDE DEF at, to, J, a, m, n
<1>15. InOrder(a, I) = InOrder(s, I)
  BY <1>2, <1>7, <1>12
<1>16. InOrder(a, J) = Append(InOrder(s, I), c)
  <2> DEFINE o == InOrder(s, I)
             r == Append(o, c)
  <2>1. Len(r) = m + 1 /\ r \in Seq(S) /\ r[m + 1] = c /\ \A k \in 1 .. m : r[k] = o[k]
    BY <1>14, AppendProperties
  <2>2. DOMAIN r = 1 .. m + 1 /\ r = [k \in 1 .. m + 1 |-> r[k]]
    <3> HIDE DEF r
    <3> QED
      BY <2>1, AsFunction
  <2>3. \A k \in 1 .. m : o[k] = a[to(k)]
    BY <1>2, <1>7, <1>10, <1>12
  <2>4. \A k \in 1 .. m + 1 : k \in 1 .. m \/ k = m + 1
    BY <1>5
  <2> HIDE DEF o, r
  <2>5. \A k \in 1 .. m + 1 : r[k] = a[to(k)]
    BY <1>2, <1>11, <2>1, <2>3, <2>4
  <2>6. InOrder(a, J) = r
    BY <1>13, <2>2, <2>5
  <2> QED
    BY <2>6 DEF o, r
<1> QED
  BY <1>15, <1>16 DEF J, a, n

LEMMA WithoutMore ==
  ASSUME NEW S, NEW s \in Seq(S), NEW c \in S, NEW x
  PROVE  Without(Append(s, c), x) = IF c = x THEN Without(s, x) ELSE Append(Without(s, x), c)
<1> DEFINE I == {i \in DOMAIN s : s[i] # x}
           J == {i \in DOMAIN Append(s, c) : Append(s, c)[i] # x}
<1>1. Len(s) \in Nat /\ DOMAIN s = 1 .. Len(s)
  BY Positions
<1>2. /\ DOMAIN Append(s, c) = 1 .. Len(s) + 1 /\ Append(s, c)[Len(s) + 1] = c
      /\ \A i \in 1 .. Len(s) : Append(s, c)[i] = s[i]
  BY <1>1, AppendProperties
<1>3. J = IF c = x THEN I ELSE I \cup {Len(s) + 1}
  <2> DEFINE a == Append(s, c)
  <2>1. 1 .. Len(s) + 1 = (1 .. Len(s)) \cup {Len(s) + 1}
    BY <1>1
  <2> HIDE DEF a
  <2> QED
    BY <1>1, <1>2, <2>1 DEF a
<1>4. Without(s, x) = InOrder(s, I) /\ Without(Append(s, c), x) = InOrder(Append(s, c), J)
  BY DEF Without
<1>5. I \in SUBSET DOMAIN s
  OBVIOUS
<1> HIDE DEF I, J
<1>6. /\ InOrder(Append(s, c), I) = InOrder(s, I)
      /\ InOrder(Append(s, c), I \cup {Len(s) + 1}) = Append(InOrder(s, I), c)
  BY <1>5, ChosenToo
<1> QED
  BY <1>3, <1>4, <1>6

LEMMA WithoutNothing ==
  ASSUME NEW x
  PROVE  Without(<<>>, x) = <<>>
<1>1. {i \in DOMAIN << >> : << >>[i] # x} = {}
  OBVIOUS
<1>2. Cardinality({}) = 0 /\ 1 .. 0 = {}
  BY FS_EmptySet
<1>3. Without(<<>>, x) = InOrder(<<>>, {})
  BY <1>1 DEF Without
<1>4. InOrder(<<>>, {}) = [k \in {} |-> << >>[CHOOSE i \in {} : Rank({}, i) = k]]
  BY <1>2 DEF InOrder
<1>5. Without(<<>>, x) = [k \in {} |-> << >>[CHOOSE i \in {} : Rank({}, i) = k]]
  BY <1>3, <1>4
<1> QED
  BY <1>5

LEMMA WithoutNone ==
  ASSUME NEW S, NEW s \in Seq(S), NEW x, x \notin Elements(s)
  PROVE  Without(s, x) = s
<1> DEFINE n == Len(s)
           pre(k) == SubSeq(s, 1, k)
           P == {k \in 0 .. n : Without(pre(k), x) = pre(k)}
<1>1. n \in Nat /\ \A i \in 1 .. n : s[i] \in S /\ s[i] # x
  BY Positions DEF Elements
<1>2. 0 \in P
  <2>1. pre(0) = <<>>
    BY <1>1
  <2>2. Without(pre(0), x) = pre(0)
    BY <2>1, WithoutNothing
  <2> HIDE DEF pre
  <2> QED
    BY <1>1, <2>2
<1>3. ASSUME NEW k \in 1 .. n, k - 1 \in P PROVE k \in P
  <2>1. pre(k - 1) \in Seq(S) /\ s[k] \in S /\ s[k] # x
    BY <1>1
  <2>2. pre(k) = Append(pre(k - 1), s[k])
    BY <1>1
  <2> HIDE DEF pre
  <2>3. Without(pre(k - 1), x) = pre(k - 1)
    BY <1>3
  <2>4. Without(pre(k), x) = pre(k)
    BY <2>1, <2>2, <2>3, WithoutMore
  <2> QED
    BY <2>4
<1>4. n \in P
  <2> HIDE DEF P, n
  <2>1. 0 .. n \subseteq P
    BY <1>1, <1>2, <1>3, Upward
  <2> QED
    BY <1>1, <2>1
<1>5. pre(n) = s
  OBVIOUS
<1> QED
  BY <1>4, <1>5

-----------------------------------------------------------------------------
(* FoldLeft.  A fold of the model is a recursive function on the sets of   *)
(* positions, that starts from the highest one: what it comes to is the    *)
(* end of a course that takes one element after the other.                 *)

\* What FoldLeft calls its iter, over values of V, and what becomes of it one
\* element after the other.
Iterates(n, V, base, step, g) ==
  /\ g[{}] = base
  /\ \A s \in SUBSET (1 .. n) :
       s # {} /\ g[s \ {Max(s)}] \in V => g[s] = step[Max(s)][g[s \ {Max(s)}]]

Course(n, base, step, r) ==
  r[0] = base /\ \A k \in 1 .. n : r[k] = step[k][r[k - 1]]

AtLast(n, base, step, g) ==
  \A s \in SUBSET (1 .. n) :
     g[s] = IF s = {} THEN base ELSE step[Max(s)][g[s \ {Max(s)}]]

LEMMA MaxOf ==
  ASSUME NEW n \in Nat, NEW s \in SUBSET (1 .. n), s # {}
  PROVE  /\ Max(s) \in s
         /\ \A m \in s : (\A y \in s : y <= m) => Max(s) = m
<1>1. s \subseteq Nat /\ n + 1 \in Nat /\ \A x \in s : x < n + 1
  OBVIOUS
<1>2. \E x \in s : x < n + 1
  BY <1>1
<1>3. PICK x \in s : \A y \in s : y < n + 1 => y <= x
  BY <1>1, <1>2, NextBelow
<1>4. \A y \in s : x >= y
  BY <1>1, <1>3
<1>5. Max(s) \in s /\ \A y \in s : Max(s) >= y
  BY <1>4 DEF Max
<1>6. ASSUME NEW m \in s, \A y \in s : y <= m
      PROVE  Max(s) = m
  <2> DEFINE top == Max(s)
  <2>1. top \in Nat /\ m \in Nat
    BY <1>1, <1>5
  <2>2. top <= m /\ m <= top
    <3>1. top <= m
      BY <1>5, <1>6
    <3>2. top >= m
      BY <1>5
    <3> HIDE DEF top
    <3> QED
      BY <2>1, <3>1, <3>2
  <2> HIDE DEF top
  <2>3. top = m
    BY <2>1, <2>2
  <2> QED
    BY <2>3 DEF top
<1> QED
  BY <1>5, <1>6

\* The first of some positions.
LEMMA First ==
  ASSUME NEW n \in Nat, NEW I \in SUBSET (1 .. n), I # {}
  PROVE  Min(I) \in I /\ \A i \in I : Min(I) <= i
<1>1. I \subseteq Nat
  OBVIOUS
<1>2. PICK x \in I : \A y \in I : x <= y
  BY <1>1, Least
<1> QED
  BY <1>2 DEF Min

LEMMA IteratesExists ==
  ASSUME NEW n \in Nat, NEW V, NEW base \in V, NEW step \in [1 .. n -> [V -> V]]
  PROVE  \E g \in [SUBSET (1 .. n) -> V] : AtLast(n, base, step, g)
<1> DEFINE P(k) == \E g \in [SUBSET (1 .. k) -> V] : AtLast(k, base, step, g)
           bad == {k \in Nat : k <= n /\ ~P(k)}
<1>1. P(0)
  <2>1. 1 .. 0 = {}
    OBVIOUS
  <2> DEFINE g == [s \in SUBSET (1 .. 0) |-> base]
  <2>2. g \in [SUBSET (1 .. 0) -> V] /\ AtLast(0, base, step, g)
    BY <2>1 DEF AtLast
  <2> QED
    BY <2>2
<1>2. ASSUME NEW k \in Nat, k + 1 <= n, P(k)
      PROVE  P(k + 1)
  <2>1. PICK g \in [SUBSET (1 .. k) -> V] : AtLast(k, base, step, g)
    BY <1>2
  <2> DEFINE h == [s \in SUBSET (1 .. k + 1) |->
                     IF k + 1 \in s THEN step[k + 1][g[s \ {k + 1}]] ELSE g[s]]
  <2>2. /\ k + 1 \in 1 .. n
        /\ \A s \in SUBSET (1 .. k + 1) :
             /\ s \ {k + 1} \in SUBSET (1 .. k)
             /\ k + 1 \notin s => s \in SUBSET (1 .. k)
    BY <1>2
  <2>3. step[k + 1] \in [V -> V]
    BY <2>2
  <2>4. h \in [SUBSET (1 .. k + 1) -> V]
    BY <2>2, <2>3
  <2>5. ASSUME NEW s \in SUBSET (1 .. k + 1)
        PROVE  h[s] = IF s = {} THEN base ELSE step[Max(s)][h[s \ {Max(s)}]]
    <3>1. CASE k + 1 \in s
      <4>1. k + 1 \in Nat /\ \A y \in s : y <= k + 1
        OBVIOUS
      <4>2. Max(s) = k + 1
        BY <3>1, <4>1, MaxOf
      <4>3. s \ {k + 1} \in SUBSET (1 .. k + 1) /\ k + 1 \notin s \ {k + 1}
        OBVIOUS
      <4>4. h[s \ {k + 1}] = g[s \ {k + 1}]
        BY <4>3
      <4>5. h[s] = step[k + 1][g[s \ {k + 1}]]
        BY <3>1
      <4> QED
        BY <3>1, <4>2, <4>4, <4>5
    <3>2. CASE k + 1 \notin s
      <4>1. s \in SUBSET (1 .. k) /\ h[s] = g[s]
        BY <2>2, <3>2
      <4>2. s \ {Max(s)} \in SUBSET (1 .. k + 1) /\ k + 1 \notin s \ {Max(s)}
        BY <3>2
      <4>3. h[s \ {Max(s)}] = g[s \ {Max(s)}]
        BY <4>2
      <4> QED
        BY <2>1, <4>1, <4>3 DEF AtLast
    <3> QED
      BY <3>1, <3>2
  <2> HIDE DEF h
  <2>6. AtLast(k + 1, base, step, h)
    BY <2>5 DEF AtLast
  <2> QED
    BY <2>4, <2>6
<1> HIDE DEF P
<1>3. bad = {}
  <2>1. SUFFICES ASSUME bad # {} PROVE FALSE
    OBVIOUS
  <2>2. bad \subseteq Nat
    OBVIOUS
  <2>3. PICK x \in bad : \A y \in bad : x <= y
    BY <2>1, <2>2, Least
  <2>4. x # 0 /\ x \in Nat /\ x <= n
    BY <1>1, <2>3
  <2>5. x - 1 \in Nat /\ x - 1 <= n /\ x - 1 \notin bad /\ (x - 1) + 1 = x
    BY <2>3, <2>4
  <2>6. P(x - 1)
    BY <2>5
  <2>7. P(x)
    BY <1>2, <2>4, <2>5, <2>6
  <2> QED
    BY <2>3, <2>7
<1>4. P(n)
  BY <1>3
<1> QED
  BY <1>4 DEF P

\* The steps lead from base, within V, to last.
Leads(n, V, base, step, last) ==
  \E r \in [0 .. n -> V] : Course(n, base, step, r) /\ r[n] = last

LEMMA Coursed ==
  ASSUME NEW n \in Nat, NEW V, NEW base \in V, NEW step \in [1 .. n -> [V -> V]],
         NEW iter, Iterates(n, V, base, step, iter)
  PROVE  Leads(n, V, base, step, iter[1 .. n])
<1> DEFINE r == [k \in 0 .. n |-> iter[1 .. k]]
           bad == {k \in Nat : k <= n /\ r[k] \notin V}
<1>1. 1 .. 0 = {}
  OBVIOUS
<1>2. r[0] = base
  BY <1>1 DEF Iterates
<1>3. ASSUME NEW k \in 1 .. n, r[k - 1] \in V
      PROVE  r[k] = step[k][r[k - 1]] /\ r[k] \in V
  <2>1. 1 .. k \in SUBSET (1 .. n) /\ 1 .. k # {} /\ k \in 1 .. k
    OBVIOUS
  <2>2. \A y \in 1 .. k : y <= k
    OBVIOUS
  <2>3. Max(1 .. k) = k
    BY <2>1, <2>2, MaxOf
  <2>4. (1 .. k) \ {k} = 1 .. (k - 1)
    OBVIOUS
  <2>5. r[k - 1] = iter[1 .. (k - 1)] /\ r[k] = iter[1 .. k]
    OBVIOUS
  <2>6. r[k] = step[k][r[k - 1]]
    BY <1>3, <2>1, <2>3, <2>4, <2>5 DEF Iterates
  <2> HIDE DEF r
  <2> QED
    BY <1>3, <2>6
<1> HIDE DEF r
<1>4. bad = {}
  <2>1. SUFFICES ASSUME bad # {} PROVE FALSE
    OBVIOUS
  <2>2. bad \subseteq Nat
    OBVIOUS
  <2>3. PICK x \in bad : \A y \in bad : x <= y
    BY <2>1, <2>2, Least
  <2>4. x # 0 /\ x \in Nat /\ x <= n
    BY <1>2, <2>3
  <2>5. x - 1 \in Nat /\ x - 1 <= n /\ x - 1 \notin bad /\ x \in 1 .. n
    BY <2>3, <2>4
  <2>6. r[x - 1] \in V
    BY <2>5
  <2>7. r[x] \in V
    BY <1>3, <2>5, <2>6
  <2> QED
    BY <2>3, <2>7
<1>5. \A k \in 0 .. n : r[k] \in V
  BY <1>4
<1>6. r \in [0 .. n -> V] /\ r[n] = iter[1 .. n]
  BY <1>5 DEF r
<1>7. \A k \in 1 .. n : k - 1 \in 0 .. n
  OBVIOUS
<1>8. Course(n, base, step, r)
  BY <1>2, <1>3, <1>5, <1>7 DEF Course
<1> QED
  BY <1>6, <1>8 DEF Leads

-----------------------------------------------------------------------------
(* Vectors made of others: longer, shorter, changed at a place.           *)

LEMMA One ==
  ASSUME NEW S, NEW x \in S
  PROVE  <<x>> \in Seq(S)
OBVIOUS

LEMMA Pair ==
  ASSUME NEW S, NEW t \in Seq(S), Len(t) = 2, NEW a, NEW b, t[1] = a, t[2] = b
  PROVE  t = <<a, b>>
<1>1. t = [i \in 1 .. 2 |-> t[i]]
  OBVIOUS
<1>2. [i \in 1 .. 2 |-> t[i]] = [i \in 1 .. 2 |-> IF i = 1 THEN a ELSE b]
  OBVIOUS
<1>3. [i \in 1 .. 2 |-> IF i = 1 THEN a ELSE b] = <<a, b>>
  OBVIOUS
<1> QED
  BY <1>1, <1>2, <1>3

LEMMA Extended ==
  ASSUME NEW S, NEW s \in Seq(S), NEW x \in S
  PROVE  /\ Append(s, x) \in Seq(S) /\ Len(s) \in Nat /\ DOMAIN s = 1 .. Len(s)
         /\ DOMAIN Append(s, x) = 1 .. Len(s) + 1
         /\ \A i \in DOMAIN Append(s, x) :
              \/ i \in DOMAIN s /\ Append(s, x)[i] = s[i]
              \/ i = Len(s) + 1 /\ i \notin DOMAIN s /\ Append(s, x)[i] = x
OBVIOUS

LEMMA Two ==
  ASSUME NEW a, NEW b
  PROVE  Append(<<a>>, b) = <<a, b>>
<1> DEFINE s == <<a>>
           S == {a, b}
           t == Append(s, b)
<1>1. s \in Seq(S) /\ Len(s) = 1 /\ s[1] = a /\ b \in S
  OBVIOUS
<1> HIDE DEF s, S
<1>2. t \in Seq(S) /\ Len(t) = 2 /\ t[1] = a /\ t[2] = b
  <2>1. /\ t \in Seq(S) /\ DOMAIN t = 1 .. 2 /\ DOMAIN s = 1 .. 1
        /\ \A i \in DOMAIN t : \/ i \in DOMAIN s /\ t[i] = s[i]
                               \/ i = 2 /\ i \notin DOMAIN s /\ t[i] = b
    BY <1>1, Extended
  <2>2. t[1] = a /\ t[2] = b
    <3> HIDE DEF t
    <3> QED
      BY <1>1, <2>1
  <2> HIDE DEF t
  <2> QED
    BY <2>1, <2>2
<1> HIDE DEF t
<1>3. t = <<a, b>>
  BY <1>2, Pair
<1> QED
  BY <1>3 DEF s, t

LEMMA InARow ==
  ASSUME NEW S, NEW a \in Seq(S), NEW b \in Seq(S)
  PROVE  /\ a \o b \in Seq(S) /\ Len(a \o b) = Len(a) + Len(b)
         /\ \A k \in 1 .. Len(a) + Len(b) :
              (a \o b)[k] = IF k <= Len(a) THEN a[k] ELSE b[k - Len(a)]
OBVIOUS

LEMMA Replaced ==
  ASSUME NEW S, NEW s \in Seq(S), NEW p \in DOMAIN s, NEW x \in S
  PROVE  /\ [s EXCEPT ![p] = x] \in Seq(S) /\ DOMAIN [s EXCEPT ![p] = x] = DOMAIN s
         /\ \A i \in DOMAIN s : [s EXCEPT ![p] = x][i] = IF i = p THEN x ELSE s[i]
OBVIOUS

LEMMA Shorter ==
  ASSUME NEW S, NEW s \in Seq(S), NEW k \in 0 .. Len(s)
  PROVE  /\ SubSeq(s, 1, k) \in Seq(S) /\ Len(SubSeq(s, 1, k)) = k
         /\ DOMAIN SubSeq(s, 1, k) = 1 .. k /\ 1 .. k \subseteq DOMAIN s
         /\ \A i \in 1 .. k : SubSeq(s, 1, k)[i] = s[i]
OBVIOUS
=============================================================================
