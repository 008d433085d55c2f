-------------------------- MODULE ConnectionProofs --------------------------
(***************************************************************************)
(* A client's bytes, out and in, for every number of threads, every length *)
(* of chunks, buffers and texts.                                           *)
(*                                                                         *)
(* Out: the output buffer of module ClientSocket keeps its order.  The     *)
(* inductive invariant is Consistent.  Steps are grouped by what they do   *)
(* to the buffer and to what was sent: append, write, clear, or neither.   *)
(*                                                                         *)
(* In: the commands of module Input are pieces of what was typed, in its   *)
(* order, with nothing missing between them.  The inductive invariant is   *)
(* InputInv; which place each piece comes from is a function the program   *)
(* does not have, and the invariant says that there is one.                *)
(***************************************************************************)
EXTENDS ClientSocket, Input, VectorsProofs, FiniteSetTheorems, SequenceTheorems, TLAPS

\* A run of characters is a sequence of numbers.
LEMMA UptoFacts ==
  ASSUME NEW m \in Nat, NEW n \in Nat, m <= n
  PROVE  /\ Upto(m, n) \in Seq(Nat)
         /\ Len(Upto(m, n)) = n - m
         /\ \A k \in 1 .. n - m : Upto(m, n)[k] = m + k
<1>1. n - m \in Nat
  OBVIOUS
<1>2. \A k \in 1 .. n - m : m + k \in Nat
  OBVIOUS
<1>3. Upto(m, n) \in [1 .. n - m -> Nat]
  BY <1>2 DEF Upto
<1>4. Upto(m, n) \in Seq(Nat)
  BY <1>1, <1>3, SeqDef
<1>5. Len(Upto(m, n)) = n - m
  BY <1>1, <1>3, <1>4, LenProperties
<1> QED
  BY <1>4, <1>5 DEF Upto

\* Two runs that follow each other are one run.
LEMMA UptoJoins ==
  ASSUME NEW l \in Nat, NEW m \in Nat, NEW n \in Nat, l <= m, m <= n
  PROVE  Upto(l, m) \o Upto(m, n) = Upto(l, n)
<1> DEFINE a == Upto(l, m)
           b == Upto(m, n)
           c == Upto(l, n)
<1>1. /\ a \in Seq(Nat) /\ Len(a) = m - l
      /\ \A k \in 1 .. m - l : a[k] = l + k
  BY UptoFacts
<1>2. /\ b \in Seq(Nat) /\ Len(b) = n - m
      /\ \A k \in 1 .. n - m : b[k] = m + k
  BY UptoFacts
<1>3. /\ c \in Seq(Nat) /\ Len(c) = n - l
      /\ \A k \in 1 .. n - l : c[k] = l + k
  BY UptoFacts
<1> HIDE DEF a, b, c
<1>4. /\ a \o b \in Seq(Nat) /\ Len(a \o b) = Len(a) + Len(b)
      /\ \A k \in 1 .. Len(a) + Len(b) :
           (a \o b)[k] = IF k <= Len(a) THEN a[k] ELSE b[k - Len(a)]
  BY <1>1, <1>2, ConcatProperties
<1>5. Len(a \o b) = n - l /\ Len(a) + Len(b) = n - l
  BY <1>1, <1>2, <1>4
<1>6. ASSUME NEW k \in 1 .. n - l PROVE (a \o b)[k] = c[k]
  <2>1. CASE k <= m - l
    BY <2>1, <1>1, <1>3, <1>4, <1>5
  <2>2. CASE ~(k <= m - l)
    <3>1. k - (m - l) \in 1 .. n - m /\ m + (k - (m - l)) = l + k
      BY <2>2
    <3> QED
      BY <2>2, <3>1, <1>1, <1>2, <1>3, <1>4, <1>5
  <2> QED
    BY <2>1, <2>2
<1>7. a \o b = c
  BY <1>3, <1>4, <1>5, <1>6, SeqEqual
<1> QED
  BY <1>7 DEF a, b, c

\* A text that is appended, and what that does to the buffer.
LEMMA AppendFacts ==
  ASSUME TypeOK, OutIsLatest, AppendText
  PROVE  /\ said' \in Nat /\ said' >= said
         /\ out' \in Seq(Nat)
         /\ Len(out') - Len(out) = said' - said
         /\ OutIsLatest'
<1>1. PICK n \in 0 .. MaxText :
        /\ out' = out \o Upto(said, said + n)
        /\ said' = said + n
  BY DEF AppendText
<1> DEFINE b == Upto(said, said + n)
           l == said - Len(out)
<1>2. /\ said \in Nat /\ out \in Seq(Nat) /\ Len(out) \in Nat /\ n \in Nat
  BY ClientSocketAssumption DEF TypeOK
<1>3. /\ l \in Nat /\ l <= said /\ said <= said + n /\ said + n \in Nat
      /\ out = Upto(l, said)
  BY <1>2 DEF OutIsLatest
<1>4. b \in Seq(Nat) /\ Len(b) = n
  <2>1. b \in Seq(Nat) /\ Len(b) = (said + n) - said
    BY <1>2, <1>3, UptoFacts
  <2> QED
    BY <1>2, <2>1
<1> HIDE DEF b
<1>5. out \o b \in Seq(Nat) /\ Len(out \o b) = Len(out) + n
  BY <1>2, <1>4, ConcatProperties
<1>6. out' = out \o b
  BY <1>1 DEF b
<1>7. out \o b = Upto(l, said + n)
  <2>1. Upto(l, said) \o Upto(said, said + n) = Upto(l, said + n)
    BY <1>2, <1>3, UptoJoins
  <2> QED
    BY <1>3, <2>1 DEF b
<1>8. said' - Len(out') = l /\ Len(out') <= said'
  <2>1. said' = said + n
    BY <1>1
  <2>2. Len(out') = Len(out) + n
    BY <1>5, <1>6
  <2>3. said - Len(out) >= 0
    BY <1>3
  <2> QED
    BY <1>2, <2>1, <2>2, <2>3
<1>9. OutIsLatest'
  BY <1>1, <1>6, <1>7, <1>8 DEF OutIsLatest
<1>10. /\ said' \in Nat /\ said' >= said /\ out' \in Seq(Nat)
       /\ Len(out') - Len(out) = said' - said
  <2>1. said' = said + n
    BY <1>1
  <2>2. Len(out') = Len(out) + n /\ out' \in Seq(Nat)
    BY <1>5, <1>6
  <2> QED
    BY <1>2, <2>1, <2>2
<1> QED
  BY <1>9, <1>10

\* A step other than an append, a write or the clear leaves the buffer alone.
LEMMA QuietSteps ==
  ASSUME TypeOK, [Next]_vars
  PROVE  \/ \E t \in Thread : ToClient(t)
         \/ \E t \in Thread : WriteChunk(t)
         \/ \E t \in Thread : Clear(t)
         \/ UNCHANGED <<out, said, sent>>
  BY DEF Next, Step, vars, Write, ReadSocket, NothingToFlush, SomethingToFlush,
         Lock, BufferGone, WriteFails, WriteKills, LinkChanges

\* The start of a buffer holds numbers when the buffer does.
LEMMA ChunkFacts ==
  ASSUME NEW n \in Nat, out \in Seq(Nat), 1 <= n, n <= Len(out)
  PROVE  /\ SubSeq(out, 1, n) \in Seq(Nat) /\ Len(SubSeq(out, 1, n)) = n
         /\ \A k \in 1 .. n : SubSeq(out, 1, n)[k] = out[k]
  BY SubSeqProperties

\* Types are kept by every step.
LEMMA TypeStep ==
  ASSUME TypeOK, OutIsLatest, [Next]_vars
  PROVE  TypeOK'
<1>1. pc' \in [Thread -> {"idle", "toClient", "flush", "lock", "write", "clear"}]
  BY DEF TypeOK, Next, Step, vars, At, Write, ToClient, ReadSocket, NothingToFlush,
         SomethingToFlush, Lock, BufferGone, WriteChunk, WriteFails, WriteKills,
         Clear, LinkChanges
<1>2. holder' \in Thread \cup {NoThread}
  BY DEF TypeOK, Next, Step, vars, Write, ToClient, ReadSocket, NothingToFlush,
         SomethingToFlush, Lock, BufferGone, WriteChunk, WriteFails, WriteKills,
         Clear, LinkChanges
<1>3. link' \in {"up", "full", "gone"}
  BY ClientSocketAssumption
     DEF TypeOK, Next, Step, vars, Write, ToClient, ReadSocket, NothingToFlush,
         SomethingToFlush, Lock, BufferGone, WriteChunk, WriteFails, WriteKills,
         Clear, LinkChanges
<1>4. alive' \in BOOLEAN
  BY Zenon
     DEF TypeOK, Next, Step, vars, Write, ToClient, ReadSocket, NothingToFlush,
         SomethingToFlush, Lock, BufferGone, WriteChunk, WriteFails, WriteKills,
         Clear, LinkChanges
<1>5. /\ out' \in Seq(Nat) /\ sent' \in Seq(Nat) /\ said' \in Nat
  <2>1. ASSUME NEW t \in Thread, ToClient(t)
        PROVE  /\ out' \in Seq(Nat) /\ said' \in Nat
               /\ sent' = sent
    BY <2>1, AppendFacts DEF ToClient
  <2>2. ASSUME NEW t \in Thread, WriteChunk(t)
        PROVE  sent' \in Seq(Nat) /\ UNCHANGED <<out, said>>
    <3>1. PICK n \in 1 .. ChunkSize :
            n <= Len(out) /\ sent' = sent \o SubSeq(out, 1, n)
      BY <2>2 DEF WriteChunk
    <3>2. n \in Nat /\ 1 <= n /\ sent \in Seq(Nat) /\ out \in Seq(Nat)
      BY ClientSocketAssumption DEF TypeOK
    <3>3. SubSeq(out, 1, n) \in Seq(Nat)
      BY <3>1, <3>2, ChunkFacts
    <3>4. sent' \in Seq(Nat)
      BY <3>1, <3>2, <3>3, ConcatProperties
    <3> QED
      BY <2>2, <3>4 DEF WriteChunk
  <2>3. ASSUME NEW t \in Thread, Clear(t)
        PROVE  out' = <<>> /\ UNCHANGED <<said, sent>>
    BY <2>3 DEF Clear
  <2>4. <<>> \in Seq(Nat)
    OBVIOUS
  <2>5. CASE UNCHANGED <<out, said, sent>>
    BY <2>5 DEF TypeOK
  <2>6. CASE \E t \in Thread : ToClient(t)
    BY <2>1, <2>6 DEF TypeOK
  <2>7. CASE \E t \in Thread : WriteChunk(t)
    BY <2>2, <2>7 DEF TypeOK
  <2>8. CASE \E t \in Thread : Clear(t)
    BY <2>3, <2>4, <2>8 DEF TypeOK
  <2> QED
    BY <2>5, <2>6, <2>7, <2>8, QuietSteps
<1> QED
  BY <1>1, <1>2, <1>3, <1>4, <1>5 DEF TypeOK

\* The buffer stays the run of the latest characters.
LEMMA LatestStep ==
  ASSUME TypeOK, OutIsLatest, [Next]_vars
  PROVE  OutIsLatest'
<1>1. ASSUME NEW t \in Thread, ToClient(t) PROVE OutIsLatest'
  BY <1>1, AppendFacts DEF ToClient
<1>2. ASSUME NEW t \in Thread, WriteChunk(t) PROVE OutIsLatest'
  BY <1>2 DEF WriteChunk, OutIsLatest
<1>3. ASSUME NEW t \in Thread, Clear(t) PROVE OutIsLatest'
  <2>1. out' = <<>> /\ said' = said /\ said \in Nat /\ Len(out') = 0
    BY <1>3 DEF Clear, TypeOK
  <2>2. Upto(said, said) = <<>>
    <3>1. Upto(said, said) \in Seq(Nat) /\ Len(Upto(said, said)) = 0
      BY <2>1, UptoFacts
    <3> QED
      BY <3>1, EmptySeq
  <2>3. said' - Len(out') = said /\ Len(out') <= said'
    BY <2>1
  <2> QED
    BY <2>1, <2>2, <2>3 DEF OutIsLatest
<1>4. CASE UNCHANGED <<out, said, sent>>
  BY <1>4 DEF OutIsLatest
<1> QED
  BY <1>1, <1>2, <1>3, <1>4, QuietSteps

\* Between lock and unlock a thread has the mutex, and the buffer it wrote
\* from is still there when it comes to clear it.
LEMMA HoldStep ==
  ASSUME TypeOK, OutIsLatest, WritersHold, [Next]_vars
  PROVE  WritersHold'
<1> USE DEF TypeOK
<1>1. \A t, u \in Thread :
        pc[t] \in {"write", "clear"} /\ pc[u] \in {"write", "clear"} => t = u
  BY DEF WritersHold
<1>2. \A t \in Thread : pc'[t] \in {"write", "clear"} => holder' = t
  BY <1>1, ClientSocketAssumption
     DEF WritersHold, Next, Step, vars, At, Write, ToClient, AppendText, ReadSocket,
         NothingToFlush, SomethingToFlush, Lock, BufferGone, WriteChunk, WriteFails,
         WriteKills, Clear, LinkChanges
<1>3. ASSUME NEW t \in Thread, pc'[t] = "clear" PROVE out' # <<>>
  <2>1. ASSUME NEW u \in Thread, ToClient(u) PROVE out' # <<>>
    <3>1. pc[t] = "clear" /\ holder = NoThread
      BY <1>3, <2>1 DEF ToClient, AppendText, At
    <3> QED
      BY <3>1, ClientSocketAssumption DEF WritersHold
  <2>2. ASSUME NEW u \in Thread, WriteChunk(u) PROVE out' # <<>>
    BY <2>2 DEF WriteChunk
  <2>3. ASSUME NEW u \in Thread, Clear(u) PROVE FALSE
    <3>1. pc[t] = "clear" /\ pc[u] = "clear" /\ t # u
      BY <1>3, <2>3 DEF Clear, At
    <3> QED
      BY <3>1, <1>1
  <2>4. CASE UNCHANGED <<out, said, sent>>
    <3>1. CASE pc[t] = "clear"
      BY <3>1, <2>4 DEF WritersHold
    <3>2. CASE pc[t] # "clear"
      <4>1. WriteChunk(t)
        BY <3>2, <1>3
           DEF Next, Step, vars, At, Write, ToClient, ReadSocket, NothingToFlush,
               SomethingToFlush, Lock, BufferGone, WriteChunk, WriteFails, WriteKills,
               Clear, LinkChanges
      <4> QED
        BY <2>2, <4>1
    <3> QED
      BY <3>1, <3>2
  <2> QED
    BY <2>1, <2>2, <2>3, <2>4, QuietSteps
<1> QED
  BY <1>2, <1>3 DEF WritersHold

\* What was sent stays in order, and ends before what is still to be sent.
LEMMA OrderStep ==
  ASSUME Consistent, [Next]_vars
  PROVE  SentInOrder' /\ UnsentInOut'
<1>1. TypeOK /\ SentInOrder /\ OutIsLatest /\ WritersHold /\ UnsentInOut
  BY DEF Consistent
<1>2. /\ said \in Nat /\ out \in Seq(Nat) /\ sent \in Seq(Nat)
      /\ Len(out) \in Nat /\ Len(out) <= said
  BY <1>1 DEF TypeOK, OutIsLatest
<1>3. \A j \in DOMAIN sent : sent[j] \in Nat
  BY <1>2
<1>4. ASSUME NEW t \in Thread, ToClient(t) PROVE SentInOrder' /\ UnsentInOut'
  <2>1. /\ sent' = sent /\ said' \in Nat /\ said' >= said
        /\ out' \in Seq(Nat) /\ Len(out') - Len(out) = said' - said
    BY <1>1, <1>4, AppendFacts DEF ToClient
  <2>2. said' - Len(out') = said - Len(out)
    <3>1. Len(out') \in Nat /\ said' \in Nat /\ Len(out) \in Nat /\ said \in Nat
      BY <1>2, <2>1
    <3>2. Len(out') - Len(out) = said' - said
      BY <2>1
    <3> QED
      BY <3>1, <3>2
  <2>3. \A u \in Thread : pc[u] # "clear"
    BY <1>1, <1>4, ClientSocketAssumption DEF WritersHold, ToClient, AppendText
  <2>4. \A j \in DOMAIN sent : sent[j] <= said /\ sent[j] <= said - Len(out)
    BY <1>1, <2>3 DEF UnsentInOut
  <2>5. \A j \in DOMAIN sent : sent[j] <= said'
    BY <1>2, <1>3, <2>1, <2>4
  <2> QED
    BY <1>1, <2>1, <2>2, <2>4, <2>5 DEF SentInOrder, UnsentInOut
<1>5. ASSUME NEW t \in Thread, WriteChunk(t) PROVE SentInOrder' /\ UnsentInOut'
  <2>1. PICK n \in 1 .. ChunkSize :
          n <= Len(out) /\ sent' = sent \o SubSeq(out, 1, n)
    BY <1>5 DEF WriteChunk
  <2> DEFINE chunk == SubSeq(out, 1, n)
  <2>2. n \in Nat /\ 1 <= n
    BY ClientSocketAssumption
  <2>3. /\ chunk \in Seq(Nat) /\ Len(chunk) = n
        /\ \A k \in 1 .. n : chunk[k] = out[k]
    BY <1>2, <2>1, <2>2, ChunkFacts
  <2>4. \A k \in 1 .. Len(out) : out[k] = said - Len(out) + k
    <3> DEFINE l == said - Len(out)
    <3>1. l \in Nat /\ l <= said /\ said - l = Len(out) /\ out = Upto(l, said)
      BY <1>1, <1>2 DEF OutIsLatest
    <3> HIDE DEF l
    <3>2. \A k \in 1 .. said - l : Upto(l, said)[k] = l + k
      BY <1>2, <3>1, UptoFacts
    <3>3. \A k \in 1 .. Len(out) : out[k] = l + k
      BY <3>1, <3>2
    <3> QED
      BY <3>3 DEF l
  <2>5. \A k \in 1 .. n : chunk[k] = said - Len(out) + k
    BY <1>2, <2>1, <2>3, <2>4
  <2> HIDE DEF chunk
  <2>6. sent' = sent \o chunk
    BY <2>1 DEF chunk
  <2>7. /\ sent' \in Seq(Nat) /\ Len(sent') = Len(sent) + n
        /\ \A k \in 1 .. Len(sent) + n :
             sent'[k] = IF k <= Len(sent) THEN sent[k] ELSE chunk[k - Len(sent)]
    BY <1>2, <2>2, <2>3, <2>6, ConcatProperties
  <2>8. \A u \in Thread : pc[u] # "clear"
    BY <1>1, <1>5 DEF WritersHold, WriteChunk, At
  <2>9. \A k \in 1 .. Len(sent) : sent[k] \in Nat /\ sent[k] <= said - Len(out)
    BY <1>1, <1>2, <1>3, <2>8 DEF UnsentInOut
  <2>10. DOMAIN sent' = 1 .. Len(sent) + n /\ Len(sent) \in Nat
    BY <1>2, <2>7
  <2>11. ASSUME NEW k \in 1 .. Len(sent) + n, ~(k <= Len(sent))
         PROVE  /\ sent'[k] = said - Len(out) + (k - Len(sent))
                /\ sent'[k] <= said
    <3>1. k - Len(sent) \in 1 .. n
      BY <2>2, <2>10, <2>11
    <3>2. sent'[k] = said - Len(out) + (k - Len(sent))
      BY <2>5, <2>7, <2>11, <3>1
    <3> QED
      BY <1>2, <2>1, <2>2, <2>10, <3>1, <3>2
  <2>12. ASSUME NEW j \in 1 .. Len(sent) + n, NEW k \in 1 .. Len(sent) + n, j < k
         PROVE  sent'[j] < sent'[k]
    <3>1. CASE k <= Len(sent)
      <4>1. j \in DOMAIN sent /\ k \in DOMAIN sent /\ j <= Len(sent)
        BY <1>2, <2>10, <2>12, <3>1
      <4>2. sent'[j] = sent[j] /\ sent'[k] = sent[k]
        BY <2>7, <3>1, <4>1
      <4> QED
        BY <1>1, <2>12, <4>1, <4>2 DEF SentInOrder
    <3>2. CASE ~(k <= Len(sent)) /\ j <= Len(sent)
      <4>1. j \in 1 .. Len(sent) /\ sent'[j] = sent[j]
        BY <2>7, <2>10, <3>2
      <4>2. sent'[k] = said - Len(out) + (k - Len(sent)) /\ k - Len(sent) \in Nat \ {0}
        BY <2>2, <2>10, <2>11, <3>2
      <4> QED
        BY <1>2, <2>9, <4>1, <4>2
    <3>3. CASE ~(j <= Len(sent))
      <4>1. ~(k <= Len(sent))
        BY <2>10, <2>12, <3>3
      <4>2. /\ sent'[j] = said - Len(out) + (j - Len(sent))
            /\ sent'[k] = said - Len(out) + (k - Len(sent))
        BY <2>11, <3>3, <4>1
      <4> QED
        BY <1>2, <2>10, <2>12, <4>2
    <3> QED
      BY <3>1, <3>2, <3>3
  <2>13. ASSUME NEW k \in 1 .. Len(sent) + n PROVE sent'[k] <= said
    <3>1. CASE k <= Len(sent)
      <4>1. k \in 1 .. Len(sent) /\ sent'[k] = sent[k]
        BY <2>7, <2>10, <3>1
      <4>2. sent[k] \in Nat /\ sent[k] <= said - Len(out)
        BY <2>9, <4>1
      <4> QED
        BY <1>2, <4>1, <4>2
    <3> QED
      BY <2>11, <3>1
  <2>14. t \in Thread /\ pc'[t] = "clear" /\ said' = said
    BY <1>1, <1>5 DEF WriteChunk, At, TypeOK
  <2>15. SentInOrder'
    BY <2>10, <2>12 DEF SentInOrder
  <2>16. UnsentInOut'
    BY <2>10, <2>13, <2>14 DEF UnsentInOut
  <2> QED
    BY <2>15, <2>16
<1>6. ASSUME NEW t \in Thread, Clear(t) PROVE SentInOrder' /\ UnsentInOut'
  <2>1. out' = <<>> /\ sent' = sent /\ said' = said /\ Len(out') = 0
    BY <1>6 DEF Clear
  <2>2. \A j \in DOMAIN sent : sent[j] <= said
    BY <1>1 DEF UnsentInOut
  <2>3. said - 0 = said
    BY <1>2
  <2> QED
    BY <1>1, <2>1, <2>2, <2>3 DEF SentInOrder, UnsentInOut
<1>7. CASE UNCHANGED <<out, said, sent>>
  <2>1. CASE \E t \in Thread : Clear(t)
    BY <1>6, <2>1
  <2>2. CASE ~ \E t \in Thread : Clear(t)
    <3>1. \A u \in Thread : pc[u] = "clear" => pc'[u] = "clear"
      BY <1>1, <2>2
         DEF TypeOK, Next, Step, vars, At, Write, ToClient, ReadSocket, NothingToFlush,
             SomethingToFlush, Lock, BufferGone, WriteChunk, WriteFails, WriteKills,
             LinkChanges
    <3>2. \A j \in DOMAIN sent :
            (\A u \in Thread : pc'[u] # "clear") => sent[j] <= said - Len(out)
      BY <1>1, <3>1 DEF UnsentInOut
    <3> QED
      BY <1>1, <1>7, <3>2 DEF SentInOrder, UnsentInOut
  <2> QED
    BY <2>1, <2>2
<1> QED
  BY <1>1, <1>4, <1>5, <1>6, <1>7, QuietSteps

\* The inductive invariant holds at the start.
LEMMA InitConsistent == Init => Consistent
<1> SUFFICES ASSUME Init PROVE Consistent
  OBVIOUS
<1>1. TypeOK
  BY DEF Init, TypeOK
<1>2. OutIsLatest
  <2>1. Upto(0, 0) \in Seq(Nat) /\ Len(Upto(0, 0)) = 0
    BY UptoFacts
  <2>2. Upto(0, 0) = <<>> /\ Len(<<>>) = 0
    BY <2>1, EmptySeq
  <2> QED
    BY <2>2 DEF Init, OutIsLatest
<1>3. SentInOrder /\ UnsentInOut
  BY DEF Init, SentInOrder, UnsentInOut
<1>4. WritersHold
  BY DEF Init, WritersHold
<1> QED
  BY <1>1, <1>2, <1>3, <1>4 DEF Consistent

\* flush() may rely on Consistent at each of its steps: whichever threads
\* write, whatever write() takes and whenever it fails.
THEOREM ConsistentAlways == Spec => []Consistent
<1>1. Consistent /\ [Next]_vars => Consistent'
  BY TypeStep, LatestStep, HoldStep, OrderStep DEF Consistent
<1> QED
  BY <1>1, InitConsistent, PTL DEF Spec

\* The client never receives a character twice or out of order.
THEOREM SentStaysInOrder == Spec => []SentInOrder
<1>1. Consistent => SentInOrder
  BY DEF Consistent
<1> QED
  BY <1>1, ConsistentAlways, PTL

-----------------------------------------------------------------------------
(* What a client's text is cut into.                                       *)

\* A line goes on to the next newline or to the end of the text.
LEMMA LineEnds ==
  ASSUME NEW S, NEW s \in Seq(S), NEW i \in Int, i \in DOMAIN s, s[i] # NewLine
  PROVE  \E e \in Int :
           /\ i <= e /\ e <= Len(s)
           /\ \A k \in i .. e : s[k] # NewLine
           /\ e = Len(s) \/ s[e + 1] = NewLine
           /\ LineFrom(s, i) \in Seq(S) /\ Len(LineFrom(s, i)) = e - i + 1
           /\ \A k \in 1 .. e - i + 1 : LineFrom(s, i)[k] = s[i + k - 1]
<1> DEFINE n == Len(s)
           stops == {j \in i .. n : j = n \/ s[j + 1] = NewLine}
           Is(j) == (\A k \in i .. j : s[k] # NewLine) /\ (j = n \/ s[j + 1] = NewLine)
<1>1. n \in Nat /\ DOMAIN s = 1 .. n /\ i \in 1 .. n
  BY Positions
<1>2. \A j \in 1 .. n : s[j] \in S
  BY <1>1, Positions
<1>3. n \in stops /\ stops \subseteq Nat
  BY <1>1
<1>4. stops # {}
  BY <1>3
<1>5. PICK f \in Nat : f \in stops /\ \A j \in stops : f <= j
  <2> HIDE DEF stops
  <2> QED
    BY <1>3, <1>4, Least
<1>6. f \in i .. n
  BY <1>5
<1>7. i \in Int /\ n \in Nat
  BY <1>1
<1>8. i <= f /\ f <= n
  BY <1>6, <1>7
<1>9. \A k \in i .. f : s[k] # NewLine
  <2> SUFFICES ASSUME NEW k \in Int, i <= k, k <= f, s[k] = NewLine PROVE FALSE
    OBVIOUS
  <2>1. k # i /\ k - 1 \in i .. n /\ s[(k - 1) + 1] = NewLine
    BY <1>1, <1>8
  <2>2. k - 1 \in stops
    BY <2>1
  <2>3. f <= k - 1
    BY <1>5, <2>2
  <2> QED
    BY <2>3
<1>10. \E j \in i .. n : Is(j)
  <2>1. f \in i .. n /\ Is(f)
    BY <1>1, <1>5, <1>8, <1>9
  <2> QED
    BY <2>1
<1> DEFINE e == CHOOSE j \in i .. n : Is(j)
<1>11. e \in i .. n /\ Is(e)
  <2> HIDE DEF Is
  <2> QED
    BY <1>10
<1>12. LineFrom(s, i) = SubSeq(s, i, e)
  BY DEF LineFrom
<1> HIDE DEF e, Is, stops
<1>13. e \in i .. n /\ e \in Int /\ i \in Int /\ i <= e /\ e <= n /\ n \in Int /\ 1 <= i
  BY <1>1, <1>11
<1>14. \A k \in i .. e : s[k] \in S
  <2> SUFFICES ASSUME NEW k \in i .. e PROVE s[k] \in S
    OBVIOUS
  <2>1. k \in 1 .. n
    BY <1>13
  <2> QED
    BY <1>2, <2>1
<1>15. /\ SubSeq(s, i, e) \in Seq(S) /\ Len(SubSeq(s, i, e)) = e - i + 1
       /\ \A k \in 1 .. e - i + 1 : SubSeq(s, i, e)[k] = s[i + k - 1]
  BY <1>13, <1>14, SubSeqProperties
<1>16. (\A k \in i .. e : s[k] # NewLine) /\ (e = n \/ s[e + 1] = NewLine)
  BY <1>11 DEF Is
<1>17. /\ LineFrom(s, i) \in Seq(S) /\ Len(LineFrom(s, i)) = e - i + 1
       /\ \A k \in 1 .. e - i + 1 : LineFrom(s, i)[k] = s[i + k - 1]
  BY <1>12, <1>15
<1>18. e \in Int /\ i <= e /\ e <= Len(s)
  BY <1>13
<1> QED
  BY <1>16, <1>17, <1>18

\* ... and begins after the newline before it or at the beginning.
LEMMA LineBegins ==
  ASSUME NEW S, NEW s \in Seq(S), NEW x \in Int, x \in DOMAIN s, s[x] # NewLine
  PROVE  \E a \in Int : /\ 1 <= a /\ a <= x
                        /\ a = 1 \/ s[a - 1] = NewLine
                        /\ \A k \in a .. x : s[k] # NewLine
<1> DEFINE breaks == {y \in DOMAIN s : s[y] = NewLine}
<1>1. Len(s) \in Nat /\ DOMAIN s = 1 .. Len(s) /\ x \in Nat /\ x >= 1
  BY Positions
<1>2. CASE \E y \in breaks : y < x
  <2>1. breaks \subseteq Nat
    BY <1>1
  <2>2. PICK y \in breaks : y < x /\ \A z \in breaks : z < x => z <= y
    <3> HIDE DEF breaks
    <3> QED
      BY <1>1, <1>2, <2>1, NextBelow
  <2>3. y \in 1 .. Len(s) /\ s[y] = NewLine
    BY <1>1, <2>2
  <2>4. \A k \in y + 1 .. x : s[k] # NewLine
    <3> SUFFICES ASSUME NEW k \in y + 1 .. x, s[k] = NewLine PROVE FALSE
      OBVIOUS
    <3>1. k \in breaks /\ k # x
      BY <1>1, <2>3
    <3> QED
      BY <1>1, <2>2, <2>3, <3>1
  <2>5. y + 1 \in 1 .. x /\ s[(y + 1) - 1] = NewLine
    BY <1>1, <2>2, <2>3
  <2> QED
    BY <2>4, <2>5
<1>3. CASE ~\E y \in breaks : y < x
  <2>1. \A k \in 1 .. x : s[k] # NewLine
    BY <1>1, <1>3
  <2> QED
    BY <1>1, <2>1
<1> QED
  BY <1>2, <1>3

\* c is l from low to high, and there is nothing but spaces in the rest of l.
Trimmed(S, l, c, low, high) ==
  /\ low <= high
  /\ \A k \in DOMAIN l : l[k] # Space => low <= k /\ k <= high
  /\ c \in Seq(S) /\ Len(c) = high - low + 1
  /\ \A k \in 1 .. high - low + 1 : c[k] = l[low + k - 1]

\* stringClean leaves what is between the first and the last character that is
\* not a space.
LEMMA Cleaned ==
  ASSUME NEW S, NEW l \in Seq(S), ~Blank(l)
  PROVE  \E low \in 1 .. Len(l) : \E high \in 1 .. Len(l) : Trimmed(S, l, Clean(l), low, high)
<1> DEFINE kept == {k \in DOMAIN l : l[k] # Space}
           low == CHOOSE k \in kept : \A j \in kept : k <= j
           high == CHOOSE k \in kept : \A j \in kept : j <= k
<1>1. Len(l) \in Nat /\ DOMAIN l = 1 .. Len(l) /\ \A k \in DOMAIN l : l[k] \in S
  BY Positions
<1>2. kept # {} /\ kept \subseteq Nat /\ \A k \in kept : k < Len(l) + 1
  BY <1>1 DEF Blank
<1> HIDE DEF kept
<1>3. \E k \in kept : \A j \in kept : k <= j
  BY <1>2, Least
<1>4. \E k \in kept : \A j \in kept : j <= k
  <2>1. \E k \in kept : k < Len(l) + 1
    BY <1>2
  <2>2. Len(l) + 1 \in Nat
    BY <1>1
  <2>3. PICK k \in kept : k < Len(l) + 1 /\ \A j \in kept : j < Len(l) + 1 => j <= k
    BY <1>2, <2>1, <2>2, NextBelow
  <2> QED
    BY <1>2, <2>3
<1>5. low \in kept /\ \A j \in kept : low <= j
  BY <1>3
<1>6. high \in kept /\ \A j \in kept : j <= high
  BY <1>4
<1>7. Clean(l) = SubSeq(l, low, high)
  BY DEF Clean, kept
<1> HIDE DEF low, high
<1>8. low \in 1 .. Len(l) /\ high \in 1 .. Len(l) /\ low <= high
  BY <1>1, <1>5, <1>6 DEF kept
<1>9. \A k \in low .. high : l[k] \in S
  BY <1>1, <1>8
<1>10. low \in Int /\ high \in Int
  BY <1>8
<1>11. /\ SubSeq(l, low, high) \in Seq(S) /\ Len(SubSeq(l, low, high)) = high - low + 1
       /\ \A k \in 1 .. high - low + 1 : SubSeq(l, low, high)[k] = l[low + k - 1]
  BY <1>8, <1>9, <1>10, SubSeqProperties
<1>12. \A k \in DOMAIN l : l[k] # Space => low <= k /\ k <= high
  BY <1>5, <1>6 DEF kept
<1>13. Trimmed(S, l, Clean(l), low, high)
  BY <1>7, <1>8, <1>11, <1>12 DEF Trimmed
<1> QED
  BY <1>8, <1>13

\* q is pieces of s, in their order, the k-th from from[k] + 1 on, with no newline
\* in any of them ...
Pieces(S, s, q, from) ==
  /\ q \in Seq(Seq(S)) /\ from \in [DOMAIN q -> Nat]
  /\ \A k \in DOMAIN q : \A i \in DOMAIN q[k] :
       /\ from[k] + i \in DOMAIN s /\ q[k][i] = s[from[k] + i]
       /\ \A x \in from[k] + 1 .. from[k] + i : s[x] # NewLine
  /\ \A k, m \in DOMAIN q : k < m =>
       \A i \in DOMAIN q[k], j \in DOMAIN q[m] : from[k] + i < from[m] + j

\* ... and every letter of s is in one of them.
Whole(s, q, from) ==
  \A x \in DOMAIN s : s[x] > 0 => \E k \in DOMAIN q : \E i \in DOMAIN q[k] : x = from[k] + i

LEMMA LinesArePieces ==
  ASSUME NEW S, NEW s \in Seq(S)
  PROVE  \E from : Pieces(S, s, Lines(s), from) /\ Whole(s, Lines(s), from)
<1> DEFINE begins == {i \in DOMAIN s : s[i] # NewLine /\ (i = 1 \/ s[i - 1] = NewLine)}
           Z == Int
           all == [i \in DOMAIN s |-> i]
           starts == InOrder(all, begins)
           n == Cardinality(begins)
           L == Lines(s)
<1>1. Len(s) \in Nat /\ DOMAIN s = 1 .. Len(s) /\ \A i \in DOMAIN s : s[i] \in S
  BY Positions
<1>2. all \in Seq(Z)
  BY <1>1, IsASeq
<1>3. DOMAIN all = DOMAIN s /\ \A i \in DOMAIN s : all[i] = i
  OBVIOUS
<1>4. begins \in SUBSET DOMAIN all
  BY <1>3
<1>5. L = [k \in DOMAIN starts |-> LineFrom(s, starts[k])]
  BY DEF Lines
<1>6. \A i \in DOMAIN s : i \in begins <=> s[i] # NewLine /\ (i = 1 \/ s[i - 1] = NewLine)
  OBVIOUS
<1> HIDE DEF all, begins, Z
<1>7. starts \in Seq(Z) /\ DOMAIN starts = 1 .. n /\ n \in Nat
  BY <1>2, <1>4, Chosen
<1> HIDE DEF starts, n
<1>8. PICK place \in [1 .. Cardinality(begins) -> begins] : Placed(all, begins, place)
  BY <1>2, <1>4, Chosen
<1>9. /\ \A k \in 1 .. n : starts[k] = all[place[k]] /\ place[k] \in begins
      /\ \A i \in begins : \E k \in 1 .. n : place[k] = i
      /\ \A k, l \in 1 .. n : k < l => place[k] < place[l]
  BY <1>8 DEF Placed, starts, n
<1>10. \A k \in 1 .. n : place[k] \in DOMAIN s /\ place[k] \in begins /\ starts[k] = place[k]
  BY <1>3, <1>4, <1>9
<1> HIDE DEF starts, n, L
<1>11. DOMAIN L = 1 .. n /\ \A k \in 1 .. n : L[k] = LineFrom(s, place[k])
  BY <1>5, <1>7, <1>10
<1> DEFINE Ends(k, e) ==
             /\ e \in Int /\ place[k] <= e /\ e <= Len(s)
             /\ \A x \in place[k] .. e : s[x] # NewLine
             /\ e = Len(s) \/ s[e + 1] = NewLine
             /\ L[k] \in Seq(S) /\ Len(L[k]) = e - place[k] + 1
             /\ \A i \in 1 .. e - place[k] + 1 : L[k][i] = s[place[k] + i - 1]
<1>12. ASSUME NEW k \in 1 .. n PROVE \E e : Ends(k, e)
  <2>1. place[k] \in DOMAIN s /\ s[place[k]] # NewLine
    BY <1>6, <1>10
  <2>2. place[k] \in Int
    BY <1>1, <2>1
  <2>3. PICK e \in Int :
           /\ place[k] <= e /\ e <= Len(s)
           /\ \A x \in place[k] .. e : s[x] # NewLine
           /\ e = Len(s) \/ s[e + 1] = NewLine
           /\ LineFrom(s, place[k]) \in Seq(S) /\ Len(LineFrom(s, place[k])) = e - place[k] + 1
           /\ \A i \in 1 .. e - place[k] + 1 : LineFrom(s, place[k])[i] = s[place[k] + i - 1]
    <3> DEFINE a == place[k]
    <3>1. a \in Int /\ a \in DOMAIN s /\ s[a] # NewLine
      BY <2>1, <2>2
    <3> HIDE DEF a
    <3> SUFFICES \E e \in Int :
           /\ a <= e /\ e <= Len(s)
           /\ \A x \in a .. e : s[x] # NewLine
           /\ e = Len(s) \/ s[e + 1] = NewLine
           /\ LineFrom(s, a) \in Seq(S) /\ Len(LineFrom(s, a)) = e - a + 1
           /\ \A i \in 1 .. e - a + 1 : LineFrom(s, a)[i] = s[a + i - 1]
      BY DEF a
    <3> QED
      BY <3>1, LineEnds
  <2> QED
    BY <1>11, <2>3
<1> DEFINE from == [k \in 1 .. n |-> place[k] - 1]
<1>13. from \in [DOMAIN L -> Nat] /\ \A k \in 1 .. n : from[k] = place[k] - 1
  BY <1>1, <1>10, <1>11
<1> HIDE DEF Ends, from
<1>14. L \in Seq(Seq(S))
  <2>1. \A k \in 1 .. n : L[k] \in Seq(S)
    BY <1>12 DEF Ends
  <2>2. L = [k \in 1 .. n |-> L[k]]
    BY <1>5, <1>7
  <2>3. L \in [1 .. n -> Seq(S)]
    BY <2>1, <2>2
  <2> QED
    BY <1>7, <2>3, IsASeq
<1>15. ASSUME NEW k \in DOMAIN L, NEW i \in DOMAIN L[k]
       PROVE  /\ from[k] + i \in DOMAIN s /\ L[k][i] = s[from[k] + i]
              /\ \A x \in from[k] + 1 .. from[k] + i : s[x] # NewLine
  <2>1. PICK e : Ends(k, e)
    BY <1>11, <1>12
  <2>2. k \in 1 .. n /\ place[k] \in 1 .. Len(s) /\ from[k] = place[k] - 1
    BY <1>1, <1>10, <1>11, <1>13
  <2>3. e \in Int /\ place[k] <= e /\ e <= Len(s) /\ i \in 1 .. e - place[k] + 1
    BY <2>1, Positions DEF Ends
  <2>4. L[k][i] = s[place[k] + i - 1]
    BY <2>1, <2>3 DEF Ends
  <2>5. place[k] + i - 1 = from[k] + i /\ from[k] + i \in 1 .. Len(s) /\ from[k] + i <= e
    <3>1. place[k] \in Int /\ 1 <= place[k] /\ place[k] <= e /\ e <= Len(s) /\ e \in Int
      BY <1>1, <2>2, <2>3
    <3>2. i \in Int /\ 1 <= i /\ i <= e - place[k] + 1
      BY <2>3, <3>1
    <3> QED
      BY <1>1, <2>2, <3>1, <3>2
  <2>6. \A x \in from[k] + 1 .. from[k] + i : x \in place[k] .. e
    BY <2>2, <2>3, <2>5
  <2> QED
    BY <1>1, <2>1, <2>4, <2>5, <2>6 DEF Ends
<1>16. ASSUME NEW k \in DOMAIN L, NEW m \in DOMAIN L, k < m,
              NEW i \in DOMAIN L[k], NEW j \in DOMAIN L[m]
       PROVE  from[k] + i < from[m] + j
  <2>1. PICK e : Ends(k, e)
    BY <1>11, <1>12
  <2>2. PICK f : Ends(m, f)
    BY <1>11, <1>12
  <2>3. /\ k \in 1 .. n /\ place[k] \in 1 .. Len(s) /\ from[k] = place[k] - 1
        /\ m \in 1 .. n /\ place[m] \in 1 .. Len(s) /\ from[m] = place[m] - 1
        /\ place[k] < place[m]
    BY <1>1, <1>9, <1>10, <1>11, <1>13, <1>16
  <2>4. e \in Int /\ place[k] <= e /\ e <= Len(s) /\ i \in 1 .. e - place[k] + 1
    BY <2>1, Positions DEF Ends
  <2>5. j \in Nat /\ j >= 1
    BY <2>2, Positions DEF Ends
  <2>6. s[place[m] - 1] = NewLine
    BY <1>1, <1>6, <1>10, <2>3
  <2>7. ~(place[m] - 1 \in place[k] .. e)
    BY <2>1, <2>6 DEF Ends
  <2>8. e < place[m] - 1
    BY <1>1, <2>3, <2>4, <2>7
  <2> QED
    BY <1>1, <2>3, <2>4, <2>5, <2>8
<1>17. Pieces(S, s, L, from)
  BY <1>13, <1>14, <1>15, <1>16 DEF Pieces
<1>18. ASSUME NEW x \in Int, x \in DOMAIN s, s[x] > 0
       PROVE  \E k \in DOMAIN L : \E i \in DOMAIN L[k] : x = from[k] + i
  <2>1. s[x] # NewLine
    BY <1>18 DEF NewLine
  <2>2. PICK a \in Int : /\ 1 <= a /\ a <= x
                         /\ a = 1 \/ s[a - 1] = NewLine
                         /\ \A k \in a .. x : s[k] # NewLine
    BY <1>18, <2>1, LineBegins
  <2>3. x \in 1 .. Len(s)
    BY <1>1, <1>18
  <2>4. x <= Len(s)
    BY <1>1, <2>3
  <2>5. a \in DOMAIN s /\ a <= x /\ a \in a .. x
    <3>1. a \in 1 .. Len(s)
      BY <1>1, <2>2, <2>4
    <3> QED
      BY <1>1, <2>2, <3>1
  <2>6. a \in begins
    BY <1>6, <2>2, <2>5
  <2>7. PICK k \in 1 .. n : place[k] = a
    BY <1>9, <2>6
  <2>8. PICK e : Ends(k, e)
    BY <1>12
  <2>9. e \in Int /\ a <= e /\ e <= Len(s) /\ (e = Len(s) \/ s[e + 1] = NewLine) /\ Len(L[k]) = e - a + 1 /\ L[k] \in Seq(S)
    BY <2>7, <2>8 DEF Ends
  <2>10. x <= e
    <3>1. e \in Int /\ a \in Int /\ x \in Int /\ a <= e /\ Len(s) \in Nat
      BY <1>1, <2>9
    <3> SUFFICES ASSUME e < x PROVE FALSE
      BY <3>1
    <3>2. e + 1 \in a .. x /\ e # Len(s)
      BY <2>4, <3>1
    <3> QED
      BY <2>2, <2>9, <3>2
  <2>11. DOMAIN L[k] = 1 .. (e - a + 1) /\ from[k] = a - 1
    BY <1>13, <2>7, <2>9, Positions
  <2>12. e \in Int /\ a \in Int /\ x \in Int /\ a <= x
    BY <2>5, <2>9
  <2>13. x - a + 1 \in DOMAIN L[k] /\ x = from[k] + (x - a + 1)
    BY <2>10, <2>11, <2>12
  <2> QED
    BY <1>11, <2>7, <2>13
<1>19. Whole(s, L, from)
  BY <1>18 DEF Whole
<1> QED
  BY <1>17, <1>19 DEF L

\* What parseBuffer queues is what stringClean leaves of the lines before a blank one.
LEMMA CommandsArePieces ==
  ASSUME NEW S, inText \in Seq(S)
  PROVE  \E from : /\ Pieces(S, inText, Parsed.commands, from)
                   /\ ~Parsed.hangs => Whole(inText, Parsed.commands, from)
<1> DEFINE s == inText
           L == Lines(inText)
           bad == {k \in DOMAIN L : Blank(L[k])}
           n == IF bad = {} THEN Len(L) ELSE (CHOOSE k \in bad : \A j \in bad : k <= j) - 1
           C == [k \in 1 .. n |-> Clean(L[k])]
<1>1. Parsed.commands = C /\ Parsed.hangs = (bad # {})
  BY DEF Parsed
<1>2. PICK f : Pieces(S, s, L, f) /\ Whole(s, L, f)
  BY LinesArePieces
<1>3. L \in Seq(Seq(S)) /\ Len(L) \in Nat /\ DOMAIN L = 1 .. Len(L) /\ f \in [DOMAIN L -> Nat]
  BY <1>2, Positions DEF Pieces
<1>4. \A k \in DOMAIN L : L[k] \in Seq(S)
  BY <1>3, Positions
<1>5. \A k \in DOMAIN L : k \in bad <=> Blank(L[k])
  OBVIOUS
<1>6. bad \subseteq Nat /\ bad \subseteq DOMAIN L
  BY <1>3
<1> HIDE DEF s, L, bad
<1>7. /\ n \in Nat /\ n <= Len(L) /\ \A k \in 1 .. n : k \in DOMAIN L /\ k \notin bad
      /\ bad = {} => n = Len(L)
  <2>1. CASE bad = {}
    BY <1>3, <2>1
  <2>2. CASE bad # {}
    <3> DEFINE b == CHOOSE k \in bad : \A j \in bad : k <= j
    <3>1. b \in bad /\ \A j \in bad : b <= j
      BY <1>6, <2>2, Least
    <3>2. n = b - 1
      BY <2>2
    <3> HIDE DEF b, n
    <3>3. b \in Nat /\ b >= 1 /\ b <= Len(L)
      BY <1>3, <1>6, <3>1
    <3>4. n \in Nat /\ n <= Len(L)
      BY <1>3, <3>2, <3>3
    <3>5. ASSUME NEW k \in 1 .. n PROVE k \in DOMAIN L /\ k \notin bad
      BY <1>3, <3>1, <3>2, <3>3
    <3> QED
      BY <2>2, <3>4, <3>5
  <2> QED
    BY <2>1, <2>2
<1>8. DOMAIN C = 1 .. n /\ \A k \in 1 .. n : C[k] = Clean(L[k])
  OBVIOUS
<1> HIDE DEF n, C
<1> DEFINE Cut(k, low, high) == Trimmed(S, L[k], C[k], low, high)
           first(k) == CHOOSE low \in 1 .. Len(L[k]) : \E high \in 1 .. Len(L[k]) : Cut(k, low, high)
           from == [k \in 1 .. n |-> f[k] + first(k) - 1]
<1>9. ASSUME NEW k \in 1 .. n
      PROVE  \E low \in 1 .. Len(L[k]) : \E high \in 1 .. Len(L[k]) : Cut(k, low, high)
  <2>1. L[k] \in Seq(S) /\ ~Blank(L[k])
    BY <1>4, <1>5, <1>7
  <2>2. C[k] = Clean(L[k])
    BY <1>8
  <2> QED
    BY <2>1, <2>2, Cleaned
<1>10. ASSUME NEW k \in 1 .. n
      PROVE  first(k) \in 1 .. Len(L[k]) /\ \E high \in 1 .. Len(L[k]) : Cut(k, first(k), high)
  <2> HIDE DEF Cut
  <2> QED
    BY <1>9
<1>11. \A k \in 1 .. n : from[k] = f[k] + first(k) - 1
  OBVIOUS
<1> HIDE DEF first, from
<1>12. ASSUME NEW k \in 1 .. n
       PROVE  /\ L[k] \in Seq(S) /\ Len(L[k]) \in Nat /\ DOMAIN L[k] = 1 .. Len(L[k])
              /\ first(k) \in Nat /\ first(k) >= 1 /\ f[k] \in Nat /\ C[k] \in Seq(S)
  <2>1. L[k] \in Seq(S)
    BY <1>4, <1>7
  <2>2. Len(L[k]) \in Nat /\ DOMAIN L[k] = 1 .. Len(L[k])
    BY <2>1, Positions
  <2>3. first(k) \in Nat /\ first(k) >= 1
    BY <1>10, <2>2
  <2>4. f[k] \in Nat
    BY <1>3, <1>7
  <2>5. C[k] \in Seq(S)
    BY <1>10 DEF Trimmed
  <2> QED
    BY <2>1, <2>2, <2>3, <2>4, <2>5
\* a character of a command is one of its line, first(k) - 1 further back
<1>13. ASSUME NEW k \in 1 .. n, NEW i \in DOMAIN C[k]
       PROVE  /\ i \in Nat /\ i >= 1
              /\ first(k) - 1 + i \in DOMAIN L[k] /\ C[k][i] = L[k][first(k) - 1 + i]
              /\ from[k] + i = f[k] + (first(k) - 1 + i)
  <2>1. PICK high \in 1 .. Len(L[k]) : Cut(k, first(k), high)
    BY <1>10
  <2>2. high \in Int /\ high <= Len(L[k]) /\ Len(L[k]) \in Nat /\ first(k) \in Nat /\ first(k) >= 1
    BY <1>12
  <2>3. first(k) <= high /\ C[k] \in Seq(S) /\ Len(C[k]) = high - first(k) + 1
    BY <2>1 DEF Trimmed
  <2>4. i \in 1 .. high - first(k) + 1
    BY <2>3, Positions
  <2>5. i \in Int /\ 1 <= i /\ i <= high - first(k) + 1
    BY <2>2, <2>4
  <2>6. first(k) - 1 + i \in 1 .. Len(L[k])
    BY <2>2, <2>5
  <2>7. C[k][i] = L[k][first(k) + i - 1]
    BY <2>1, <2>4 DEF Trimmed
  <2>8. first(k) + i - 1 = first(k) - 1 + i
    BY <2>2, <2>5
  <2>9. from[k] + i = f[k] + (first(k) - 1 + i)
    <3>1. from[k] = f[k] + first(k) - 1 /\ f[k] \in Nat
      BY <1>11, <1>12
    <3> QED
      BY <2>2, <2>5, <3>1
  <2> QED
    BY <1>12, <2>5, <2>6, <2>7, <2>8, <2>9
<1>14. C \in Seq(Seq(S)) /\ from \in [DOMAIN C -> Nat]
  <2>1. \A k \in 1 .. n : from[k] \in Nat
    BY <1>11, <1>12
  <2>2. C = [k \in 1 .. n |-> C[k]] /\ from = [k \in 1 .. n |-> from[k]]
    BY DEF C, from
  <2>3. C \in [1 .. n -> Seq(S)] /\ from \in [1 .. n -> Nat]
    BY <1>12, <2>1, <2>2
  <2> QED
    BY <1>7, <1>8, <2>3, IsASeq
<1>15. ASSUME NEW k \in DOMAIN C, NEW i \in DOMAIN C[k]
       PROVE  /\ from[k] + i \in DOMAIN s /\ C[k][i] = s[from[k] + i]
              /\ \A x \in from[k] + 1 .. from[k] + i : s[x] # NewLine
  <2>1. k \in 1 .. n /\ k \in DOMAIN L
    BY <1>7, <1>8
  <2> DEFINE j == first(k) - 1 + i
  <2>2. /\ j \in DOMAIN L[k] /\ C[k][i] = L[k][j] /\ from[k] + i = f[k] + j
        /\ f[k] \in Nat /\ first(k) \in Nat /\ first(k) >= 1 /\ i \in Nat /\ from[k] = f[k] + first(k) - 1
    BY <1>11, <1>12, <1>13, <2>1
  <2> HIDE DEF j
  <2>3. /\ f[k] + j \in DOMAIN s /\ L[k][j] = s[f[k] + j]
        /\ \A x \in f[k] + 1 .. f[k] + j : s[x] # NewLine
    BY <1>2, <2>1, <2>2 DEF Pieces
  <2>4. \A x \in from[k] + 1 .. from[k] + i : x \in f[k] + 1 .. f[k] + j
    <3>1. from[k] + 1 >= f[k] + 1 /\ f[k] + j = from[k] + i /\ from[k] \in Int
      BY <2>2
    <3> QED
      BY <2>2, <3>1
  <2> QED
    BY <2>2, <2>3, <2>4
<1>16. ASSUME NEW k \in DOMAIN C, NEW m \in DOMAIN C, k < m, NEW i \in DOMAIN C[k], NEW j \in DOMAIN C[m]
       PROVE  from[k] + i < from[m] + j
  <2>1. k \in 1 .. n /\ k \in DOMAIN L /\ m \in 1 .. n /\ m \in DOMAIN L
    BY <1>7, <1>8
  <2>2. /\ first(k) - 1 + i \in DOMAIN L[k] /\ from[k] + i = f[k] + (first(k) - 1 + i)
        /\ first(m) - 1 + j \in DOMAIN L[m] /\ from[m] + j = f[m] + (first(m) - 1 + j)
    BY <1>13, <2>1
  <2>3. f[k] + (first(k) - 1 + i) < f[m] + (first(m) - 1 + j)
    BY <1>2, <1>16, <2>1, <2>2 DEF Pieces
  <2> QED
    BY <2>2, <2>3
<1>17. Pieces(S, s, C, from)
  BY <1>14, <1>15, <1>16 DEF Pieces
<1>18. ASSUME bad = {}, NEW x \in DOMAIN s, s[x] > 0
       PROVE  \E k \in DOMAIN C : \E i \in DOMAIN C[k] : x = from[k] + i
  <2>1. PICK k \in DOMAIN L : \E j \in DOMAIN L[k] : x = f[k] + j
    BY <1>2, <1>18 DEF Whole
  <2>2. PICK j \in DOMAIN L[k] : x = f[k] + j
    BY <2>1
  <2>3. k \in 1 .. n
    BY <1>3, <1>7, <1>18
  <2>4. L[k][j] # Space
    BY <1>2, <1>18, <2>2 DEF Pieces, Space
  <2>5. PICK high \in 1 .. Len(L[k]) : Cut(k, first(k), high)
    BY <1>10, <2>3
  <2>6. /\ high \in Int /\ j \in Int /\ first(k) \in Nat /\ f[k] \in Nat /\ from[k] = f[k] + first(k) - 1
    BY <1>11, <1>12, <2>3
  <2>7. first(k) <= j /\ j <= high
    BY <2>4, <2>5 DEF Trimmed
  <2>8. C[k] \in Seq(S) /\ Len(C[k]) = high - first(k) + 1
    BY <2>5 DEF Trimmed
  <2>9. DOMAIN C[k] = 1 .. (high - first(k) + 1)
    BY <2>8, Positions
  <2>10. j - first(k) + 1 \in DOMAIN C[k]
    BY <2>6, <2>7, <2>9
  <2>11. x = from[k] + (j - first(k) + 1)
    <3> DEFINE a == f[k]
               b == first(k)
               c == from[k]
    <3>1. a \in Int /\ b \in Int /\ j \in Int /\ c = a + b - 1 /\ x = a + j
      BY <2>2, <2>6
    <3> HIDE DEF a, b, c
    <3>2. x = c + (j - b + 1)
      BY <3>1
    <3> QED
      BY <3>2 DEF b, c
  <2> QED
    BY <1>8, <2>3, <2>10, <2>11
<1>19. bad = {} => Whole(s, C, from)
  BY <1>18 DEF Whole
<1> QED
  BY <1>1, <1>17, <1>19 DEF s

\* No character of the pieces comes from further than u, and no letter of s up to
\* u is missing.
Until(q, from, u) == \A k \in DOMAIN q : \A i \in DOMAIN q[k] : from[k] + i <= u

NoneMissing(s, q, from, u) ==
  \A x \in 1 .. u : s[x] > 0 => \E k \in DOMAIN q : \E i \in DOMAIN q[k] : x = from[k] + i

\* A place in s is that of one character of the pieces at most.
LEMMA OnePlace ==
  ASSUME NEW S, NEW s, NEW q, NEW from, Pieces(S, s, q, from),
         NEW k \in DOMAIN q, NEW i \in DOMAIN q[k], NEW m \in DOMAIN q, NEW j \in DOMAIN q[m],
         from[k] + i = from[m] + j
  PROVE  k = m /\ i = j
<1>1. /\ k \in Int /\ m \in Int /\ i \in Int /\ j \in Int /\ from[k] \in Int /\ from[m] \in Int
  <2>1. q \in Seq(Seq(S)) /\ from \in [DOMAIN q -> Nat]
    BY DEF Pieces
  <2>2. DOMAIN q \subseteq Int /\ q[k] \in Seq(S) /\ q[m] \in Seq(S)
    BY <2>1, Positions
  <2>3. DOMAIN q[k] \subseteq Int /\ DOMAIN q[m] \subseteq Int
    BY <2>2, Positions
  <2> QED
    BY <2>1, <2>2, <2>3
<1>2. ~(k < m)
  <2> SUFFICES ASSUME k < m PROVE FALSE
    OBVIOUS
  <2>1. from[k] + i < from[m] + j
    BY DEF Pieces
  <2> QED
    BY <1>1, <2>1
<1>3. ~(m < k)
  <2> SUFFICES ASSUME m < k PROVE FALSE
    OBVIOUS
  <2> DEFINE y == from[m] + j
  <2>1. y < from[k] + i
    BY DEF Pieces
  <2>2. y = from[k] + i /\ y \in Int
    BY <1>1
  <2> HIDE DEF y
  <2> QED
    BY <2>1, <2>2
<1>4. k = m
  <2>1. \A a, b \in Int : a < b \/ b < a \/ a = b
    OBVIOUS
  <2> QED
    BY <1>1, <1>2, <1>3, <2>1, Zenon
<1> QED
  BY <1>1, <1>4

\* When none is missing the pieces have as many of each letter as s.
LEMMA LettersOf ==
  ASSUME NEW s \in Seq(Int), NEW q, NEW from, Pieces(Int, s, q, from),
         NEW u \in Nat, Until(q, from, u), NoneMissing(s, q, from, u),
         NEW l \in Nat, l > 0
  PROVE  Cardinality(LetterIn(q, l)) = Cardinality({x \in 1 .. u : s[x] = l})
<1> DEFINE J == {x \in 1 .. u : s[x] = l}
           P == LetterIn(q, l)
           at(p) == from[p[1]] + p[2]
           g == [x \in J |-> CHOOSE p \in P : at(p) = x]
<1>1. q \in Seq(Seq(Int)) /\ from \in [DOMAIN q -> Nat]
  BY DEF Pieces
<1>2. \A k \in DOMAIN q : DOMAIN q[k] = 1 .. Len(q[k]) /\ Len(q[k]) \in Nat /\ from[k] \in Nat
  <2>1. \A k \in DOMAIN q : q[k] \in Seq(Int)
    BY <1>1, Positions
  <2> QED
    BY <1>1, <2>1, Positions
<1>3. \A p : p \in P <=> \E k \in DOMAIN q : \E i \in DOMAIN q[k] : q[k][i] = l /\ p = <<k, i>>
  BY DEF LetterIn
<1>4. ASSUME NEW p \in P PROVE at(p) \in J
  <2>1. PICK k \in DOMAIN q : \E i \in DOMAIN q[k] : q[k][i] = l /\ p = <<k, i>>
    BY <1>3
  <2>2. PICK i \in DOMAIN q[k] : q[k][i] = l /\ p = <<k, i>>
    BY <2>1
  <2>3. s[from[k] + i] = l /\ from[k] + i <= u
    BY <2>2 DEF Pieces, Until
  <2>4. i \in Nat /\ i >= 1 /\ from[k] \in Nat
    BY <1>2
  <2>5. from[k] + i \in 1 .. u
    BY <2>3, <2>4
  <2> QED
    BY <2>2, <2>3, <2>5
<1>5. ASSUME NEW p \in P, NEW r \in P, at(p) = at(r) PROVE p = r
  <2>1. PICK k \in DOMAIN q : \E i \in DOMAIN q[k] : p = <<k, i>>
    BY <1>3
  <2>2. PICK i \in DOMAIN q[k] : p = <<k, i>>
    BY <2>1
  <2>3. PICK m \in DOMAIN q : \E j \in DOMAIN q[m] : r = <<m, j>>
    BY <1>3
  <2>4. PICK j \in DOMAIN q[m] : r = <<m, j>>
    BY <2>3
  <2>5. from[k] + i = from[m] + j
    BY <1>5, <2>2, <2>4
  <2>6. k = m /\ i = j
    BY <2>5, OnePlace
  <2> QED
    BY <2>2, <2>4, <2>6
<1>6. ASSUME NEW x \in J PROVE \E p \in P : at(p) = x
  <2>1. s[x] > 0
    OBVIOUS
  <2>2. PICK k \in DOMAIN q : \E i \in DOMAIN q[k] : x = from[k] + i
    BY <2>1 DEF NoneMissing
  <2>3. PICK i \in DOMAIN q[k] : x = from[k] + i
    BY <2>2
  <2>4. q[k][i] = l
    BY <2>3 DEF Pieces
  <2>5. <<k, i>> \in P
    BY <1>3, <2>4
  <2> QED
    BY <2>3, <2>5
<1>7. IsFiniteSet(J)
  <2>1. J \in SUBSET (1 .. u) /\ IsFiniteSet(1 .. u)
    BY FS_Interval
  <2> QED
    BY <2>1, FS_Subset
<1> HIDE DEF J, P, at
<1>8. \A x \in J : g[x] \in P /\ at(g[x]) = x
  BY <1>6
<1>9. g \in [J -> P]
  BY <1>6
<1> HIDE DEF g
<1>10. \A a, b \in J : g[a] = g[b] => a = b
  BY <1>8
<1>11. \A p \in P : \E x \in J : g[x] = p
  <2> SUFFICES ASSUME NEW p \in P PROVE g[at(p)] = p
    BY <1>4
  <2>1. at(p) \in J
    BY <1>4
  <2>2. g[at(p)] \in P /\ at(g[at(p)]) = at(p)
    BY <1>8, <2>1
  <2> QED
    BY <1>5, <2>2
<1>12. g \in Bijection(J, P)
  <2>1. g \in Injection(J, P)
    BY <1>9, <1>10 DEF Injection, IsInjective
  <2>2. g \in Surjection(J, P)
    BY <1>9, <1>11 DEF Surjection
  <2> QED
    BY <2>1, <2>2 DEF Bijection
<1>13. Cardinality(P) = Cardinality(J)
  BY <1>7, <1>12, FS_Bijection DEF ExistsBijection
<1> QED
  BY <1>13 DEF P, J

\* More text does not change what the pieces of it are.
LEMMA MoreText ==
  ASSUME NEW S, NEW s \in Seq(S), NEW c \in S, NEW q, NEW from, Pieces(S, s, q, from)
  PROVE  Pieces(S, Append(s, c), q, from)
<1> DEFINE a == Append(s, c)
<1>1. Len(s) \in Nat /\ DOMAIN s = 1 .. Len(s)
  BY Positions
<1>2. a \in Seq(S) /\ Len(a) = Len(s) + 1 /\ \A x \in 1 .. Len(s) : a[x] = s[x]
  BY AppendProperties
<1>3. DOMAIN a = 1 .. (Len(s) + 1)
  BY <1>2, Positions
<1> HIDE DEF a
<1>4. DOMAIN s \subseteq DOMAIN a /\ \A x \in DOMAIN s : a[x] = s[x]
  BY <1>1, <1>2, <1>3
<1>5. ASSUME NEW k \in DOMAIN q, NEW i \in DOMAIN q[k]
      PROVE  /\ from[k] + i \in DOMAIN a /\ q[k][i] = a[from[k] + i]
             /\ \A x \in from[k] + 1 .. from[k] + i : a[x] # NewLine
  <2>1. /\ from[k] + i \in DOMAIN s /\ q[k][i] = s[from[k] + i]
        /\ \A x \in from[k] + 1 .. from[k] + i : s[x] # NewLine
    BY DEF Pieces
  <2>2. from[k] \in Nat
    BY DEF Pieces
  <2>3. from[k] + i \in Int /\ from[k] + i <= Len(s)
    BY <1>1, <2>1
  <2>4. \A x \in from[k] + 1 .. from[k] + i : x \in DOMAIN s
    BY <1>1, <2>2, <2>3
  <2> QED
    BY <1>4, <2>1, <2>4
<1> QED
  BY <1>5 DEF Pieces, a

\* What is further on in a part is further on in the whole.
LEMMA Further == \A u, a, i, b, j \in Nat : a + i < b + j => (u + a) + i < (u + b) + j
OBVIOUS

\* Pieces of one part of t and pieces of the part that follows it.
LEMMA MorePieces ==
  ASSUME NEW S, NEW t \in Seq(S), NEW w \in Seq(S), NEW u \in Nat, u + Len(w) <= Len(t),
         \A x \in DOMAIN w : w[x] = t[u + x],
         NEW q, NEW f, Pieces(S, t, q, f), Until(q, f, u),
         NEW r, NEW g, Pieces(S, w, r, g)
  PROVE  \E h : /\ Pieces(S, t, q \o r, h) /\ Until(q \o r, h, u + Len(w))
                /\ NoneMissing(t, q, f, u) /\ Whole(w, r, g) => NoneMissing(t, q \o r, h, u + Len(w))
<1> DEFINE n == Len(q)
           m == Len(r)
           z == Len(w)
           o == q \o r
           h == [k \in 1 .. n + m |-> IF k <= n THEN f[k] ELSE u + g[k - n]]
<1>1. /\ q \in Seq(Seq(S)) /\ n \in Nat /\ DOMAIN q = 1 .. n /\ f \in [1 .. n -> Nat]
      /\ \A k \in 1 .. n : q[k] \in Seq(S)
  BY Positions DEF Pieces
<1>2. /\ r \in Seq(Seq(S)) /\ m \in Nat /\ DOMAIN r = 1 .. m /\ g \in [1 .. m -> Nat]
      /\ \A k \in 1 .. m : r[k] \in Seq(S)
  BY Positions DEF Pieces
<1>3. z \in Nat /\ DOMAIN w = 1 .. z /\ DOMAIN t = 1 .. Len(t) /\ Len(t) \in Nat
  BY Positions
<1>4. /\ o \in Seq(Seq(S)) /\ Len(o) = n + m
      /\ \A k \in 1 .. n + m : o[k] = IF k <= n THEN q[k] ELSE r[k - n]
  BY <1>1, <1>2, ConcatProperties
<1>5. DOMAIN o = 1 .. n + m
  BY <1>4, Positions
<1>6. \A k \in 1 .. n + m : h[k] = IF k <= n THEN f[k] ELSE u + g[k - n]
  OBVIOUS
<1>7. h \in [1 .. n + m -> Nat]
  <2>1. ASSUME NEW k \in 1 .. n + m PROVE (IF k <= n THEN f[k] ELSE u + g[k - n]) \in Nat
    <3>1. CASE k <= n
      <4>1. k \in 1 .. n
        BY <1>1, <1>2, <3>1
      <4>2. f[k] \in Nat
        BY <1>1, <4>1
      <4> QED
        BY <3>1, <4>2
    <3>2. CASE k > n
      <4>1. k - n \in 1 .. m
        BY <1>1, <1>2, <3>2
      <4>2. g[k - n] \in Nat
        BY <1>2, <4>1
      <4> QED
        BY <1>1, <3>2, <4>2
    <3> QED
      BY <1>1, <1>2, <3>1, <3>2
  <2> QED
    BY <2>1
<1> HIDE DEF n, m, z, o, h
\* a piece of the first part, and one of the second
<1>8. ASSUME NEW k \in 1 .. n
      PROVE  /\ k \in 1 .. n + m /\ o[k] = q[k] /\ h[k] = f[k]
             /\ \A i \in DOMAIN q[k] : f[k] + i <= u
  <2>1. k \in 1 .. n + m /\ k <= n
    BY <1>1, <1>2
  <2> QED
    BY <1>1, <1>4, <1>6, <2>1 DEF Until
<1>9. ASSUME NEW k \in 1 .. m
      PROVE  /\ k + n \in 1 .. n + m /\ o[k + n] = r[k] /\ h[k + n] = u + g[k]
             /\ g[k] \in Nat /\ DOMAIN r[k] \subseteq Nat \ {0}
  <2>1. k + n \in 1 .. n + m /\ ~(k + n <= n) /\ (k + n) - n = k
    BY <1>1, <1>2
  <2>2. DOMAIN r[k] = 1 .. Len(r[k]) /\ Len(r[k]) \in Nat
    BY <1>2, Positions
  <2>3. DOMAIN r[k] \subseteq Nat \ {0}
    BY <2>2
  <2> QED
    BY <1>2, <1>4, <1>6, <2>1, <2>3
<1>10. \A k \in 1 .. n + m : k \in 1 .. n \/ \E l \in 1 .. m : k = l + n
  <2> SUFFICES ASSUME NEW k \in 1 .. n + m, k > n PROVE \E l \in 1 .. m : k = l + n
    BY <1>1, <1>2
  <2>1. k - n \in 1 .. m /\ k = (k - n) + n
    BY <1>1, <1>2
  <2> QED
    BY <2>1
<1>11. ASSUME NEW k \in 1 .. n, NEW i \in DOMAIN q[k]
       PROVE  /\ f[k] + i \in DOMAIN t /\ q[k][i] = t[f[k] + i] /\ f[k] + i <= u + z
              /\ \A x \in f[k] + 1 .. f[k] + i : t[x] # NewLine
  <2>1. /\ f[k] + i \in DOMAIN t /\ q[k][i] = t[f[k] + i]
        /\ \A x \in f[k] + 1 .. f[k] + i : t[x] # NewLine
    BY <1>1 DEF Pieces
  <2>2. f[k] + i <= u /\ f[k] + i \in Int
    BY <1>3, <1>8, <2>1
  <2> QED
    BY <1>3, <2>1, <2>2
<1>12. ASSUME NEW k \in 1 .. m, NEW i \in DOMAIN r[k]
       PROVE  /\ (u + g[k]) + i \in DOMAIN t /\ r[k][i] = t[(u + g[k]) + i] /\ (u + g[k]) + i <= u + z
              /\ u < (u + g[k]) + i
              /\ \A x \in (u + g[k]) + 1 .. (u + g[k]) + i : t[x] # NewLine
  <2>1. /\ g[k] + i \in DOMAIN w /\ r[k][i] = w[g[k] + i]
        /\ \A x \in g[k] + 1 .. g[k] + i : w[x] # NewLine
    BY <1>2 DEF Pieces
  <2>2. g[k] \in Nat /\ i \in Nat /\ i >= 1
    BY <1>9
  <2>3. g[k] + i \in Nat /\ g[k] + i <= z
    BY <1>3, <2>1
  <2>4. (u + g[k]) + i = u + (g[k] + i) /\ u < (u + g[k]) + i
    BY <2>2
  <2>5. u + z <= Len(t)
    BY DEF z
  <2>6. (u + g[k]) + i \in 1 .. Len(t) /\ (u + g[k]) + i <= u + z
    BY <1>3, <2>2, <2>3, <2>5
  <2>7. w[g[k] + i] = t[u + (g[k] + i)]
    BY <2>1
  <2>8. ASSUME NEW x \in (u + g[k]) + 1 .. (u + g[k]) + i PROVE t[x] # NewLine
    <3>1. x - u \in g[k] + 1 .. g[k] + i /\ u + (x - u) = x
      BY <2>2
    <3>2. x - u \in 1 .. z
      BY <1>3, <2>2, <2>3, <3>1
    <3>3. w[x - u] = t[u + (x - u)]
      BY <1>3, <3>2
    <3> QED
      BY <2>1, <3>1, <3>3
  <2> QED
    BY <1>3, <2>1, <2>4, <2>6, <2>7, <2>8
<1>13. ASSUME NEW k \in DOMAIN o, NEW i \in DOMAIN o[k]
       PROVE  /\ h[k] + i \in DOMAIN t /\ o[k][i] = t[h[k] + i] /\ h[k] + i <= u + z
              /\ \A x \in h[k] + 1 .. h[k] + i : t[x] # NewLine
  <2>1. CASE k \in 1 .. n
    BY <1>8, <1>11, <2>1
  <2>2. CASE \E l \in 1 .. m : k = l + n
    <3>1. PICK l \in 1 .. m : k = l + n
      BY <2>2
    <3>2. o[k] = r[l] /\ h[k] = u + g[l]
      BY <1>9, <3>1
    <3> QED
      BY <1>12, <3>2
  <2> QED
    BY <1>5, <1>10, <2>1, <2>2
<1>14. ASSUME NEW k \in DOMAIN o, NEW l \in DOMAIN o, k < l, NEW i \in DOMAIN o[k], NEW j \in DOMAIN o[l]
       PROVE  h[k] + i < h[l] + j
  <2>1. CASE k \in 1 .. n /\ l \in 1 .. n
    <3>1. o[k] = q[k] /\ o[l] = q[l] /\ h[k] = f[k] /\ h[l] = f[l]
      BY <1>8, <2>1
    <3>2. f[k] + i < f[l] + j
      BY <1>1, <1>14, <2>1, <3>1 DEF Pieces
    <3> QED
      BY <3>1, <3>2
  <2>2. CASE k \in 1 .. n /\ \E b \in 1 .. m : l = b + n
    <3>1. PICK b \in 1 .. m : l = b + n
      BY <2>2
    <3>2. o[k] = q[k] /\ h[k] = f[k] /\ o[l] = r[b] /\ h[l] = u + g[b]
      BY <1>8, <1>9, <2>2, <3>1
    <3>3. f[k] + i <= u /\ u < (u + g[b]) + j
      BY <1>8, <1>12, <2>2, <3>2
    <3>4. h[k] + i \in Int /\ h[l] + j \in Int
      BY <1>3, <1>13
    <3> QED
      BY <3>2, <3>3, <3>4
  <2>3. CASE (\E a \in 1 .. m : k = a + n) /\ \E b \in 1 .. m : l = b + n
    <3>1. PICK a \in 1 .. m : k = a + n
      BY <2>3
    <3>2. PICK b \in 1 .. m : l = b + n
      BY <2>3
    <3>3. o[k] = r[a] /\ h[k] = u + g[a] /\ o[l] = r[b] /\ h[l] = u + g[b]
      BY <1>9, <3>1, <3>2
    <3>4. a \in Int /\ b \in Int
      BY <1>2
    <3>5. a + n < b + n
      BY <1>14, <3>1, <3>2
    <3>6. a < b
      BY <1>1, <3>4, <3>5
    <3>7. o[k] = r[a] /\ h[k] = u + g[a] /\ o[l] = r[b] /\ h[l] = u + g[b] /\ a < b
      BY <3>3, <3>6
    <3>8. g[a] + i < g[b] + j
      BY <1>2, <3>7 DEF Pieces
    <3>9. g[a] \in Nat /\ g[b] \in Nat /\ i \in Nat /\ j \in Nat
      BY <1>9, <3>7
    <3>10. (u + g[a]) + i < (u + g[b]) + j
      BY <3>8, <3>9, Further, Zenon
    <3> QED
      BY <3>7, <3>10, Zenon
  <2>4. CASE (\E a \in 1 .. m : k = a + n) /\ l \in 1 .. n
    BY <1>1, <1>2, <1>14, <2>4
  <2> QED
    BY <1>5, <1>10, <2>1, <2>2, <2>3, <2>4
<1>15. Pieces(S, t, o, h)
  BY <1>4, <1>5, <1>7, <1>13, <1>14 DEF Pieces
<1>16. Until(o, h, u + z)
  BY <1>13 DEF Until
<1>17. ASSUME NoneMissing(t, q, f, u), Whole(w, r, g), NEW x \in 1 .. u + z, t[x] > 0
       PROVE  \E k \in DOMAIN o : \E i \in DOMAIN o[k] : x = h[k] + i
  <2>1. CASE x <= u
    <3>1. x \in 1 .. u
      BY <1>3, <2>1
    <3>2. PICK k \in DOMAIN q : \E i \in DOMAIN q[k] : x = f[k] + i
      BY <1>17, <3>1 DEF NoneMissing
    <3>3. PICK i \in DOMAIN q[k] : x = f[k] + i
      BY <3>2
    <3>4. k \in 1 .. n
      BY <1>1
    <3> QED
      BY <1>5, <1>8, <3>3, <3>4
  <2>2. CASE x > u
    <3>1. x - u \in 1 .. z /\ u + (x - u) = x
      BY <1>3, <2>2
    <3>2. w[x - u] = t[x] /\ x - u \in DOMAIN w
      BY <1>3, <3>1
    <3>3. PICK k \in DOMAIN r : \E i \in DOMAIN r[k] : x - u = g[k] + i
      BY <1>17, <3>2 DEF Whole
    <3>4. PICK i \in DOMAIN r[k] : x - u = g[k] + i
      BY <3>3
    <3>5. k \in 1 .. m /\ g[k] \in Nat /\ i \in Nat
      BY <1>2, <1>9
    <3>6. k + n \in DOMAIN o /\ o[k + n] = r[k] /\ h[k + n] = u + g[k]
      BY <1>5, <1>9, <3>5
    <3>7. x = (u + g[k]) + i
      <4> DEFINE y == g[k]
      <4>1. x \in Int /\ y \in Int /\ i \in Int /\ x - u = y + i
        BY <3>4, <3>5
      <4> HIDE DEF y
      <4>2. x = (u + y) + i
        BY <4>1
      <4> QED
        BY <4>2 DEF y
    <3> QED
      BY <3>4, <3>6, <3>7
  <2> QED
    BY <1>3, <2>1, <2>2
<1>18. NoneMissing(t, q, f, u) /\ Whole(w, r, g) => NoneMissing(t, o, h, u + z)
  BY <1>17 DEF NoneMissing
<1> QED
  BY <1>15, <1>16, <1>18 DEF o, z

-----------------------------------------------------------------------------
(* The invariant.                                                          *)

\* What has been typed: the letters of a line are between its newlines.
TypedInv ==
  /\ typed \in Seq(Int) /\ taken \in Nat /\ taken <= Len(typed)
  /\ \A i \in DOMAIN typed : typed[i] # Zero
  /\ CurrentLine \in Nat /\ CurrentLine > 0
  /\ \A i \in DOMAIN typed : typed[i] > 0 =>
       /\ typed[i] <= CurrentLine
       /\ typed[i] = CurrentLine \/ \E x \in DOMAIN typed : i < x /\ typed[x] = NewLine
  /\ \A i, j \in DOMAIN typed : i < j /\ typed[i] > 0 /\ typed[j] > 0 =>
       /\ typed[i] <= typed[j]
       /\ typed[i] = typed[j] \/ \E x \in DOMAIN typed : i < x /\ x < j /\ typed[x] = NewLine

\* How much of it parseBuffer has had.
Heard == taken - Len(inText)

\* mIn_buffer is what read() has returned since.
TextInv ==
  /\ stage \in {"select", "parse", "parseLast", "removed", "hung"}
  /\ inText \in Seq(Int) /\ Heard \in Nat
  /\ \A x \in DOMAIN inText : inText[x] = typed[Heard + x]
  /\ stage \notin {"parse", "parseLast"} => inText = <<>>

\* The commands are pieces of what it has had, and but for the line on which it
\* hangs nothing is missing.
QueueInv ==
  \E from : /\ Pieces(Int, typed, queue, from) /\ Until(queue, from, Heard)
            /\ stage # "hung" => NoneMissing(typed, queue, from, Heard)

InputInv == TypedInv /\ (plain => TextInv /\ QueueInv)

LEMMA InputStarts ==
  ASSUME InputInit
  PROVE  InputInv
<1>1. typed \in Seq(Int) /\ inText \in Seq(Int) /\ queue \in Seq(Seq(Int))
  BY DEF InputInit
<1>2. DOMAIN typed = {} /\ DOMAIN inText = {} /\ DOMAIN queue = {} /\ Len(typed) = 0 /\ Len(inText) = 0 /\ taken = 0
  BY DEF InputInit
<1>3. CurrentLine = 1
  <2>1. {k \in DOMAIN typed : typed[k] = NewLine} = {}
    BY <1>2
  <2> QED
    BY <2>1, FS_EmptySet DEF CurrentLine
<1>4. TypedInv
  BY <1>1, <1>2, <1>3 DEF TypedInv
<1>5. Heard = 0
  BY <1>2 DEF Heard
<1>6. TextInv
  BY <1>1, <1>2, <1>5 DEF TextInv, InputInit
<1>7. Pieces(Int, typed, queue, [k \in DOMAIN queue |-> 0])
  BY <1>1, <1>2 DEF Pieces
<1>8. Until(queue, [k \in DOMAIN queue |-> 0], Heard)
  BY <1>2 DEF Until
<1>9. NoneMissing(typed, queue, [k \in DOMAIN queue |-> 0], Heard)
  BY <1>5 DEF NoneMissing
<1>10. QueueInv
  BY <1>7, <1>8, <1>9 DEF QueueInv
<1> QED
  BY <1>4, <1>6, <1>10 DEF InputInv

\* A character typed on the current line, or the newline that ends it.
LEMMA TypedKept ==
  ASSUME TypedInv, NEW c \in {CurrentLine, NewLine} \cup Special,
         typed' = Append(typed, c), taken' = taken
  PROVE  TypedInv' /\ c \in Int
<1> DEFINE n == Len(typed)
           ends == {k \in DOMAIN typed : typed[k] = NewLine}
<1>1. /\ typed \in Seq(Int) /\ taken \in Nat /\ taken <= n /\ n \in Nat /\ DOMAIN typed = 1 .. n
      /\ CurrentLine \in Nat /\ CurrentLine > 0 /\ \A i \in 1 .. n : typed[i] \in Int
  BY Positions DEF TypedInv
<1>2. c \in Int /\ c # Zero /\ (c > 0 => c = CurrentLine)
  <2>1. Special \subseteq {Space, Iac}
    BY InputAssumption
  <2>2. c = CurrentLine \/ c = NewLine \/ c = Space \/ c = Iac
    BY <2>1
  <2> QED
    BY <1>1, <2>2 DEF NewLine, Space, Iac, Zero
<1>3. /\ typed' \in Seq(Int) /\ Len(typed') = n + 1 /\ typed'[n + 1] = c
      /\ \A i \in 1 .. n : typed'[i] = typed[i]
  BY <1>1, <1>2, AppendProperties
<1>4. DOMAIN typed' = 1 .. n + 1
  BY <1>3, Positions
<1>5. \A i \in 1 .. n + 1 : i \in 1 .. n \/ i = n + 1
  BY <1>1
<1>6. IsFiniteSet(ends)
  <2>1. IsFiniteSet(1 .. n) /\ ends \in SUBSET (1 .. n)
    BY <1>1, FS_Interval
  <2> QED
    BY <2>1, FS_Subset
<1> DEFINE ends2 == {k \in DOMAIN typed' : typed'[k] = NewLine}
<1>7. ends2 = IF c = NewLine THEN ends \cup {n + 1} ELSE ends
  BY <1>1, <1>3, <1>4, <1>5
<1>8. CurrentLine = 1 + Cardinality(ends) /\ CurrentLine' = 1 + Cardinality(ends2)
  BY DEF CurrentLine
<1>9. n + 1 \notin ends /\ Cardinality(ends) \in Nat
  <2>1. n + 1 \notin ends
    BY <1>1
  <2>2. Cardinality(ends) \in Nat
    BY <1>6, FS_CardinalityType
  <2> QED
    BY <2>1, <2>2
<1> HIDE DEF ends, ends2, n
<1>10. CurrentLine' = IF c = NewLine THEN CurrentLine + 1 ELSE CurrentLine
  <2>1. CASE c = NewLine
    <3>1. Cardinality(ends \cup {n + 1}) = Cardinality(ends) + 1
      BY <1>6, <1>9, FS_AddElement
    <3> QED
      BY <1>7, <1>8, <1>9, <2>1, <3>1
  <2>2. CASE c # NewLine
    BY <1>7, <1>8, <2>2
  <2> QED
    BY <2>1, <2>2
<1>11. CurrentLine' \in Nat /\ CurrentLine' > 0 /\ CurrentLine <= CurrentLine'
  BY <1>1, <1>10
\* the letters before this character
<1>12. ASSUME NEW i \in 1 .. n, typed[i] > 0
       PROVE  /\ typed[i] <= CurrentLine
              /\ typed[i] = CurrentLine \/ \E x \in 1 .. n : i < x /\ typed[x] = NewLine
  BY <1>1, <1>12 DEF TypedInv
<1>13. \A i \in 1 .. n + 1 : typed'[i] # Zero
  BY <1>1, <1>2, <1>3, <1>5 DEF TypedInv
<1>14. ASSUME NEW i \in 1 .. n + 1, typed'[i] > 0
       PROVE  /\ typed'[i] <= CurrentLine'
              /\ typed'[i] = CurrentLine' \/ \E x \in 1 .. n + 1 : i < x /\ typed'[x] = NewLine
  <2>1. CASE i \in 1 .. n
    <3>1. typed'[i] = typed[i] /\ typed[i] > 0 /\ typed[i] \in Int
      BY <1>1, <1>3, <1>14, <2>1
    <3>2. typed[i] <= CurrentLine'
      <4>1. typed[i] <= CurrentLine
        BY <1>12, <2>1, <3>1
      <4> QED
        BY <1>1, <1>11, <3>1, <4>1
    <3>3. CASE \E x \in 1 .. n : i < x /\ typed[x] = NewLine
      <4>1. PICK x \in 1 .. n : i < x /\ typed[x] = NewLine
        BY <3>3
      <4>2. x \in 1 .. n + 1 /\ typed'[x] = NewLine
        BY <1>1, <1>3, <4>1
      <4> QED
        BY <3>1, <3>2, <4>1, <4>2
    <3>4. CASE typed[i] = CurrentLine
      <4>1. CASE c = NewLine
        <5>1. n + 1 \in 1 .. n + 1 /\ i < n + 1 /\ typed'[n + 1] = NewLine
          BY <1>1, <1>3, <2>1, <4>1
        <5> QED
          BY <3>1, <3>2, <5>1
      <4>2. CASE c # NewLine
        BY <1>10, <3>1, <3>2, <3>4, <4>2
      <4> QED
        BY <4>1, <4>2
    <3> QED
      BY <1>12, <2>1, <3>1, <3>3, <3>4
  <2>2. CASE i = n + 1
    <3>1. c > 0 /\ typed'[i] = c
      BY <1>3, <1>14, <2>2
    <3>2. c = CurrentLine /\ c # NewLine
      BY <1>2, <3>1 DEF NewLine
    <3>3. CurrentLine' = c
      BY <1>10, <3>2
    <3> QED
      BY <1>2, <3>1, <3>3
  <2> QED
    BY <1>5, <2>1, <2>2
<1>15. ASSUME NEW i \in 1 .. n + 1, NEW j \in 1 .. n + 1, i < j, typed'[i] > 0, typed'[j] > 0
       PROVE  /\ typed'[i] <= typed'[j]
              /\ typed'[i] = typed'[j] \/ \E x \in 1 .. n + 1 : i < x /\ x < j /\ typed'[x] = NewLine
  <2>1. i \in 1 .. n
    BY <1>1, <1>15
  <2>2. typed'[i] = typed[i] /\ typed[i] > 0
    BY <1>3, <1>15, <2>1
  <2>3. CASE j \in 1 .. n
    <3>1. typed'[j] = typed[j] /\ typed[j] > 0
      BY <1>3, <1>15, <2>3
    <3>2. /\ typed[i] <= typed[j]
          /\ typed[i] = typed[j] \/ \E x \in 1 .. n : i < x /\ x < j /\ typed[x] = NewLine
      BY <1>1, <1>15, <2>1, <2>2, <2>3, <3>1 DEF TypedInv
    <3>3. \A x \in 1 .. n : x \in 1 .. n + 1 /\ typed'[x] = typed[x]
      BY <1>1, <1>3
    <3> QED
      BY <2>2, <3>1, <3>2, <3>3
  <2>4. CASE j = n + 1
    <3>1. typed'[j] = CurrentLine
      BY <1>2, <1>3, <1>15, <2>4
    <3>2. /\ typed[i] <= CurrentLine
          /\ typed[i] = CurrentLine \/ \E x \in 1 .. n : i < x /\ typed[x] = NewLine
      BY <1>12, <2>1, <2>2
    <3>3. \A x \in 1 .. n : x \in 1 .. n + 1 /\ typed'[x] = typed[x] /\ x < j
      BY <1>1, <1>3, <2>4
    <3> QED
      BY <2>2, <3>1, <3>2, <3>3
  <2> QED
    BY <1>5, <2>3, <2>4
<1>16. taken' \in Nat /\ taken' <= n + 1
  <2>1. taken \in Nat /\ n \in Nat /\ taken <= n
    BY <1>1
  <2>2. taken <= n + 1
    BY <2>1
  <2> QED
    BY <2>1, <2>2
<1>17. TypedInv'
  <2>1. typed' \in Seq(Int) /\ taken' \in Nat /\ taken' <= Len(typed')
    BY <1>3, <1>16
  <2>2. \A i \in DOMAIN typed' : typed'[i] # Zero
    BY <1>4, <1>13
  <2>3. \A i \in DOMAIN typed' : typed'[i] > 0 =>
          /\ typed'[i] <= CurrentLine'
          /\ typed'[i] = CurrentLine' \/ \E x \in DOMAIN typed' : i < x /\ typed'[x] = NewLine
    BY <1>4, <1>14
  <2>4. \A i, j \in DOMAIN typed' : i < j /\ typed'[i] > 0 /\ typed'[j] > 0 =>
          /\ typed'[i] <= typed'[j]
          /\ typed'[i] = typed'[j] \/ \E x \in DOMAIN typed' : i < x /\ x < j /\ typed'[x] = NewLine
    <3> DEFINE Fine(D, i, j) ==
                 /\ typed'[i] <= typed'[j]
                 /\ typed'[i] = typed'[j] \/ \E x \in D : i < x /\ x < j /\ typed'[x] = NewLine
    <3>1. \A i, j \in 1 .. n + 1 : i < j /\ typed'[i] > 0 /\ typed'[j] > 0 => Fine(1 .. n + 1, i, j)
      BY <1>15
    <3> HIDE DEF Fine
    <3>2. \A i, j \in DOMAIN typed' : i < j /\ typed'[i] > 0 /\ typed'[j] > 0 => Fine(DOMAIN typed', i, j)
      BY <1>4, <3>1, Zenon
    <3> QED
      BY <3>2 DEF Fine
  <2> QED
    BY <1>11, <2>1, <2>2, <2>3, <2>4 DEF TypedInv
<1> QED
  BY <1>2, <1>17

LEMMA KeyStep ==
  ASSUME InputInv, Type
  PROVE  InputInv'
<1>1. PICK c \in {CurrentLine, NewLine} \cup Special : typed' = Append(typed, c)
  BY DEF Type
<1>2. UNCHANGED <<taken, inText, queue, stage, plain>>
  BY DEF Type
<1>3. TypedInv' /\ c \in Int
  BY <1>1, <1>2, TypedKept DEF InputInv
<1> SUFFICES ASSUME plain PROVE TextInv' /\ QueueInv'
  BY <1>2, <1>3 DEF InputInv
<1>4. TextInv /\ QueueInv /\ typed \in Seq(Int)
  BY DEF InputInv, TypedInv
<1>5. Len(typed) \in Nat /\ DOMAIN typed = 1 .. Len(typed) /\ taken \in Nat /\ taken <= Len(typed)
  BY <1>4, Positions DEF InputInv, TypedInv
<1>6. \A x \in 1 .. Len(typed) : typed'[x] = typed[x]
  BY <1>1, <1>3, <1>4, AppendProperties
<1>7. Heard' = Heard /\ Heard \in Nat /\ Heard <= Len(typed) /\ Heard + Len(inText) <= Len(typed)
  <2>1. Len(inText) \in Nat /\ Heard \in Nat
    BY <1>4, Positions DEF TextInv
  <2> QED
    BY <1>2, <1>5, <2>1 DEF Heard
<1>8. TextInv'
  <2>1. \A x \in DOMAIN inText : inText[x] = typed'[Heard + x]
    <3> SUFFICES ASSUME NEW x \in DOMAIN inText PROVE inText[x] = typed'[Heard + x]
      OBVIOUS
    <3>1. inText[x] = typed[Heard + x]
      BY <1>4 DEF TextInv
    <3>2. Len(inText) \in Nat /\ x \in 1 .. Len(inText)
      BY <1>4, Positions DEF TextInv
    <3>3. Heard + x \in 1 .. Len(typed)
      BY <1>5, <1>7, <3>2
    <3> QED
      BY <1>6, <3>1, <3>3
  <2> QED
    BY <1>2, <1>4, <1>7, <2>1 DEF TextInv
<1>9. PICK from : /\ Pieces(Int, typed, queue, from) /\ Until(queue, from, Heard)
                  /\ stage # "hung" => NoneMissing(typed, queue, from, Heard)
  BY <1>4 DEF QueueInv
<1>10. Pieces(Int, typed', queue, from)
  BY <1>1, <1>3, <1>4, <1>9, MoreText
<1>11. \A x \in 1 .. Heard : typed'[x] = typed[x]
  BY <1>5, <1>6, <1>7
<1>12. stage # "hung" => NoneMissing(typed', queue, from, Heard)
  BY <1>9, <1>11 DEF NoneMissing
<1>13. QueueInv'
  BY <1>2, <1>7, <1>9, <1>10, <1>12 DEF QueueInv
<1> QED
  BY <1>8, <1>13

\* read() returns what has arrived or as much of it as the buffer takes.
LEMMA Returned ==
  ASSUME TypedInv
  PROVE  /\ ReadSize \in Nat /\ ReadSize <= BufferLen /\ taken + ReadSize <= Len(typed)
         /\ BufferLen \in Nat /\ BufferLen > 1
<1>1. Len(typed) \in Nat /\ taken \in Nat /\ taken <= Len(typed)
  BY Positions DEF TypedInv
<1>2. BufferLen \in Nat /\ BufferLen > 1
  BY InputAssumption
<1>3. Arrived \in Nat /\ Arrived = Len(typed) - taken
  BY <1>1 DEF Arrived
<1> QED
  BY <1>1, <1>2, <1>3 DEF ReadSize

LEMMA TypedStays ==
  ASSUME TypedInv, UNCHANGED typed, taken' \in Nat, taken' <= Len(typed)
  PROVE  TypedInv'
<1>1. CurrentLine' = CurrentLine
  BY DEF CurrentLine
<1> QED
  BY <1>1 DEF TypedInv

\* What is appended is what read() has returned, when that does not fill the buffer.
LEMMA CopiedWhole ==
  ASSUME TypedInv, ReadSize < BufferLen,
         NEW z \in CStrings(Filled([k \in 1 .. BufferLen |-> Zero]))
  PROVE  z \in Seq(Int) /\ Len(z) = ReadSize /\ \A x \in 1 .. ReadSize : z[x] = typed[taken + x]
<1> DEFINE b == BufferLen
           m == ReadSize
           a == Filled([k \in 1 .. BufferLen |-> Zero])
<1>1. /\ m \in Nat /\ m < b /\ b \in Nat /\ taken + m <= Len(typed) /\ taken \in Nat /\ Len(typed) \in Nat
      /\ DOMAIN typed = 1 .. Len(typed) /\ \A x \in DOMAIN typed : typed[x] \in Int /\ typed[x] # Zero
  BY Returned, Positions DEF TypedInv
<1>2. DOMAIN a = 1 .. b /\ \A k \in 1 .. b : a[k] = IF k <= m THEN typed[taken + k] ELSE Zero
  BY DEF Filled
<1>3. CStrings(a) = IF \E k \in 1 .. b : a[k] = Zero
                      THEN {SubSeq(a, 1, k - 1) : k \in {i \in 1 .. b : a[i] = Zero /\ \A j \in 1 .. i - 1 : a[j] # Zero}}
                      ELSE {a, Append(a, Junk)}
  BY DEF CStrings
<1> HIDE DEF b, m, a
<1>4. z \in CStrings(a)
  BY DEF a
<1>5. \A x \in 1 .. m : x \in 1 .. b /\ taken + x \in DOMAIN typed
  <2> SUFFICES ASSUME NEW x \in 1 .. m PROVE x \in 1 .. b /\ taken + x \in 1 .. Len(typed)
    BY <1>1
  <2>1. x \in 1 .. b
    BY <1>1
  <2>2. x \in Int /\ 1 <= x /\ x <= m /\ taken \in Nat /\ m \in Nat /\ taken + m <= Len(typed) /\ Len(typed) \in Nat
    BY <1>1
  <2>3. taken + x \in 1 .. Len(typed)
    BY <2>2
  <2> QED
    BY <2>1, <2>3
<1>6. \A x \in 1 .. m : a[x] = typed[taken + x] /\ a[x] # Zero /\ a[x] \in Int
  <2> SUFFICES ASSUME NEW x \in 1 .. m PROVE a[x] = typed[taken + x] /\ a[x] # Zero /\ a[x] \in Int
    OBVIOUS
  <2>1. x <= m /\ x \in 1 .. b /\ taken + x \in DOMAIN typed
    BY <1>1, <1>5
  <2> QED
    BY <1>1, <1>2, <2>1
<1>7. m + 1 \in 1 .. b /\ ~(m + 1 <= m)
  BY <1>1
<1>8. a[m + 1] = Zero
  BY <1>2, <1>7
<1>9. PICK k \in 1 .. b : /\ a[k] = Zero /\ \A j \in 1 .. k - 1 : a[j] # Zero
                          /\ z = SubSeq(a, 1, k - 1)
  BY <1>3, <1>4, <1>7, <1>8
<1>10. k = m + 1
  <2>1. k \in Int /\ 1 <= k /\ m \in Nat
    BY <1>1
  <2>2. ~(k <= m)
    <3>1. k <= m => k \in 1 .. m
      BY <2>1
    <3> QED
      BY <1>6, <1>9, <3>1
  <2>3. ~(m + 1 <= k - 1)
    <3>1. m + 1 <= k - 1 => m + 1 \in 1 .. k - 1
      BY <2>1
    <3> QED
      BY <1>8, <1>9, <3>1
  <2> QED
    BY <2>1, <2>2, <2>3
<1>11. z = SubSeq(a, 1, m)
  BY <1>1, <1>9, <1>10
<1>12. /\ SubSeq(a, 1, m) \in Seq(Int)
       /\ Len(SubSeq(a, 1, m)) = IF 1 <= m THEN m - 1 + 1 ELSE 0
       /\ \A x \in 1 .. m - 1 + 1 : SubSeq(a, 1, m)[x] = a[1 + x - 1]
  <2>1. \A x \in 1 .. m : a[x] \in Int
    BY <1>6
  <2>2. m \in Int
    BY <1>1
  <2> HIDE DEF a
  <2> QED
    BY <2>1, <2>2, SubSeqProperties
<1>13. z \in Seq(Int) /\ Len(z) = m
  BY <1>1, <1>11, <1>12
<1>14. ASSUME NEW x \in 1 .. m PROVE z[x] = typed[taken + x]
  <2>1. x \in 1 .. m - 1 + 1 /\ 1 + x - 1 = x
    BY <1>1
  <2>2. z[x] = a[1 + x - 1]
    BY <1>11, <1>12, <2>1
  <2> QED
    BY <1>6, <2>1, <2>2
<1> QED
  BY <1>13, <1>14 DEF m

LEMMA FirstReadStep ==
  ASSUME InputInv, FirstRead
  PROVE  InputInv'
<1> DEFINE a == Filled([k \in 1 .. BufferLen |-> Zero])
<1>1. /\ stage = "select" /\ taken' = taken + ReadSize
      /\ plain' = (plain /\ ReadSize < BufferLen /\ a[1] # Iac)
      /\ \/ /\ a[1] = Iac \/ ReadSize = 0
            /\ UNCHANGED inText
            /\ stage' = IF ReadSize = 0 THEN "parseLast" ELSE "parse"
         \/ /\ a[1] # Iac /\ ReadSize > 0
            /\ \E s \in CStrings(a) : inText' = inText \o s
            /\ stage' = IF ReadSize = BufferLen THEN "again" ELSE "parse"
      /\ UNCHANGED <<typed, closed, queue>>
  BY DEF FirstRead
<1>2. TypedInv
  BY DEF InputInv
<1>3. /\ ReadSize \in Nat /\ ReadSize <= BufferLen /\ taken + ReadSize <= Len(typed)
      /\ BufferLen \in Nat /\ BufferLen > 1 /\ taken \in Nat
  BY <1>2, Returned DEF TypedInv
<1>4. TypedInv'
  <2>1. taken' \in Nat /\ taken' <= Len(typed)
    BY <1>1, <1>3
  <2> QED
    BY <1>1, <1>2, <2>1, TypedStays
<1> SUFFICES ASSUME plain' PROVE TextInv' /\ QueueInv'
  BY <1>4 DEF InputInv
<1>5. plain /\ ReadSize < BufferLen /\ a[1] # Iac
  BY <1>1
<1>6. TextInv /\ QueueInv
  BY <1>5 DEF InputInv
<1>7. inText = <<>>
  BY <1>1, <1>6 DEF TextInv
<1>8. Heard = taken
  <2>1. Len(inText) = 0
    BY <1>7
  <2> QED
    BY <1>3, <2>1 DEF Heard
<1>9. /\ inText' \in Seq(Int) /\ Len(inText') = ReadSize
      /\ \A x \in 1 .. ReadSize : inText'[x] = typed[taken + x]
      /\ stage' \in {"parse", "parseLast"}
  <2>1. CASE ReadSize = 0
    <3>1. inText' = <<>> /\ stage' = "parseLast"
      BY <1>1, <1>7, <2>1
    <3>2. inText' \in Seq(Int) /\ Len(inText') = 0
      BY <3>1
    <3> QED
      BY <2>1, <3>1, <3>2
  <2>2. CASE ReadSize > 0
    <3>1. ReadSize # 0 /\ ReadSize # BufferLen
      BY <1>3, <1>5, <2>2
    <3>2. (\E s \in CStrings(a) : inText' = inText \o s) /\ stage' = "parse"
      <4> HIDE DEF a
      <4> QED
        BY <1>1, <1>5, <3>1
    <3>3. PICK s \in CStrings(a) : inText' = inText \o s
      BY <3>2
    <3>4. /\ s \in Seq(Int) /\ Len(s) = ReadSize
          /\ \A x \in 1 .. ReadSize : s[x] = typed[taken + x]
      BY <1>2, <1>5, CopiedWhole
    <3>5. inText' = s
      <4> HIDE DEF a
      <4>1. <<>> \o s = s
        BY <3>4, ConcatEmptySeq
      <4> QED
        BY <1>7, <3>3, <4>1
    <3> QED
      BY <3>2, <3>4, <3>5
  <2> QED
    BY <1>3, <2>1, <2>2
<1> HIDE DEF a
<1>10. Heard' = Heard
  <2>1. Heard' = taken' - Len(inText')
    BY DEF Heard
  <2>2. taken' = taken + ReadSize /\ Len(inText') = ReadSize
    BY <1>1, <1>9
  <2> QED
    BY <1>3, <1>8, <2>1, <2>2
<1>11. TextInv'
  <2>1. DOMAIN inText' = 1 .. ReadSize
    BY <1>9, Positions
  <2>2. Heard' \in Nat /\ Heard' = taken
    BY <1>3, <1>8, <1>10
  <2> QED
    BY <1>1, <1>9, <2>1, <2>2 DEF TextInv
<1>12. QueueInv'
  <2>1. stage # "hung" /\ stage' # "hung"
    BY <1>1, <1>9
  <2>2. PICK from : /\ Pieces(Int, typed, queue, from) /\ Until(queue, from, Heard)
                    /\ NoneMissing(typed, queue, from, Heard)
    BY <1>6, <2>1 DEF QueueInv
  <2>3. typed' = typed /\ queue' = queue
    BY <1>1
  <2> QED
    BY <1>10, <2>2, <2>3 DEF QueueInv
<1> QED
  BY <1>11, <1>12

\* The buffer has been filled before: nothing is said of the text from then on.
LEMMA ReadAgainStep ==
  ASSUME InputInv, ReadAgain
  PROVE  InputInv'
<1>1. TypedInv
  BY DEF InputInv
<1>2. ~plain'
  BY DEF ReadAgain, InputInv, TextInv
<1>3. taken' \in Nat /\ taken' <= Len(typed)
  <2>1. taken \in Nat /\ ReadSize \in Nat /\ taken + ReadSize <= Len(typed)
    BY <1>1, Returned DEF TypedInv
  <2>2. taken' = taken + ReadSize
    BY DEF ReadAgain
  <2> QED
    BY <2>1, <2>2
<1>4. UNCHANGED typed
  BY DEF ReadAgain
<1>5. TypedInv'
  BY <1>1, <1>3, <1>4, TypedStays
<1> QED
  BY <1>2, <1>5 DEF InputInv

LEMMA ParseStep ==
  ASSUME InputInv, Parse
  PROVE  InputInv'
<1>1. /\ stage \in {"parse", "parseLast"} /\ inText' = <<>> /\ queue' = queue \o Parsed.commands
      /\ UNCHANGED <<typed, taken, plain>>
  BY DEF Parse
<1>2. /\ stage' \in {"hung", "select", "removed"}
      /\ stage' # "hung" => ~Parsed.hangs
  BY DEF Parse
<1>3. TypedInv'
  <2>1. TypedInv /\ taken' \in Nat /\ taken' <= Len(typed)
    BY <1>1 DEF InputInv, TypedInv
  <2> QED
    BY <1>1, <2>1, TypedStays
<1> SUFFICES ASSUME plain PROVE TextInv' /\ QueueInv'
  BY <1>1, <1>3 DEF InputInv
<1>4. /\ TextInv /\ QueueInv /\ typed \in Seq(Int) /\ taken \in Nat /\ taken <= Len(typed)
      /\ inText \in Seq(Int) /\ Heard \in Nat /\ \A x \in DOMAIN inText : inText[x] = typed[Heard + x]
  BY DEF InputInv, TypedInv, TextInv
<1>5. Len(inText) \in Nat /\ Heard + Len(inText) = taken /\ Len(typed) \in Nat
  <2>1. Len(inText) \in Nat /\ Len(typed) \in Nat
    BY <1>4, Positions
  <2> QED
    BY <1>4, <2>1 DEF Heard
<1>6. Heard' = taken
  <2>1. Heard' = taken' - Len(inText')
    BY DEF Heard
  <2>2. Len(inText') = 0
    BY <1>1
  <2> QED
    BY <1>1, <1>4, <2>1, <2>2
<1>7. PICK f : Pieces(Int, typed, queue, f) /\ Until(queue, f, Heard) /\ NoneMissing(typed, queue, f, Heard)
  BY <1>1, <1>4 DEF QueueInv
<1>8. PICK g : /\ Pieces(Int, inText, Parsed.commands, g)
               /\ ~Parsed.hangs => Whole(inText, Parsed.commands, g)
  BY <1>4, CommandsArePieces
<1> DEFINE r == Parsed.commands
<1> HIDE DEF r
<1>9. \E h : /\ Pieces(Int, typed, queue \o r, h) /\ Until(queue \o r, h, Heard + Len(inText))
             /\ NoneMissing(typed, queue, f, Heard) /\ Whole(inText, r, g) =>
                  NoneMissing(typed, queue \o r, h, Heard + Len(inText))
  <2>1. Pieces(Int, inText, r, g)
    BY <1>8 DEF r
  <2>2. Heard + Len(inText) <= Len(typed)
    BY <1>4, <1>5
  <2> QED
    BY <1>4, <1>7, <2>1, <2>2, MorePieces
<1>10. PICK h : /\ Pieces(Int, typed, queue \o r, h) /\ Until(queue \o r, h, taken)
                /\ NoneMissing(typed, queue, f, Heard) /\ Whole(inText, r, g) =>
                     NoneMissing(typed, queue \o r, h, taken)
  BY <1>5, <1>9
<1>11. stage' # "hung" => NoneMissing(typed, queue \o r, h, taken)
  BY <1>2, <1>7, <1>8, <1>10 DEF r
<1>12. queue' = queue \o r /\ typed' = typed
  BY <1>1 DEF r
<1>13. QueueInv'
  BY <1>6, <1>10, <1>11, <1>12 DEF QueueInv
<1>14. TextInv'
  <2>1. inText' \in Seq(Int) /\ DOMAIN inText' = {}
    BY <1>1
  <2> QED
    BY <1>1, <1>2, <1>4, <1>6, <2>1 DEF TextInv
<1> QED
  BY <1>13, <1>14

LEMMA InputInvariant == InputSpec => []InputInv
<1>1. InputInit => InputInv
  BY InputStarts
<1>2. InputInv /\ [InputNext]_inputVars => InputInv'
  <2> SUFFICES ASSUME InputInv, [InputNext]_inputVars PROVE InputInv'
    OBVIOUS
  <2>1. CASE Type
    BY <2>1, KeyStep
  <2>2. CASE Close
    <3>1. UNCHANGED <<typed, taken, inText, queue, stage, plain>>
      BY <2>2 DEF Close
    <3> QED
      BY <3>1 DEF InputInv, TypedInv, TextInv, QueueInv, Heard, CurrentLine
  <2>3. CASE FirstRead
    BY <2>3, FirstReadStep
  <2>4. CASE ReadAgain
    BY <2>4, ReadAgainStep
  <2>5. CASE Parse
    BY <2>5, ParseStep
  <2>6. CASE UNCHANGED inputVars
    <3>1. UNCHANGED <<typed, taken, inText, queue, stage, plain>>
      BY <2>6 DEF inputVars
    <3> QED
      BY <3>1 DEF InputInv, TypedInv, TextInv, QueueInv, Heard, CurrentLine
  <2> QED
    BY <2>1, <2>2, <2>3, <2>4, <2>5, <2>6 DEF InputNext, Reader
<1> QED
  BY <1>1, <1>2, PTL DEF InputSpec

\* However a client's bytes are cut into reads, as long as none fills the buffer
\* or begins with an option, no command has letters of two lines: a command comes
\* from one place in what was typed, and there is a newline between two lines.
THEOREM NoCommandOfTwoLines == InputSpec => []LinesKeptApart
<1>1. InputInv => LinesKeptApart
  <2> SUFFICES ASSUME InputInv, plain, NEW k \in DOMAIN queue,
                      NEW i \in DOMAIN queue[k], NEW j \in DOMAIN queue[k],
                      queue[k][i] > 0, queue[k][j] > 0
               PROVE  queue[k][i] = queue[k][j]
    BY DEF LinesKeptApart
  <2>1. TypedInv /\ QueueInv
    BY DEF InputInv
  <2>2. PICK from : Pieces(Int, typed, queue, from)
    BY <2>1 DEF QueueInv
  <2> DEFINE x == from[k] + i
             y == from[k] + j
  <2>3. /\ x \in DOMAIN typed /\ y \in DOMAIN typed /\ queue[k][i] = typed[x] /\ queue[k][j] = typed[y]
        /\ from[k] \in Nat
        /\ \A b \in from[k] + 1 .. x : typed[b] # NewLine
        /\ \A b \in from[k] + 1 .. y : typed[b] # NewLine
    BY <2>2 DEF Pieces
  <2>4. \A b \in DOMAIN typed : b \in Int
    BY <2>1, Positions DEF TypedInv
  <2>5. i \in Nat /\ i >= 1 /\ j \in Nat /\ j >= 1
    <3>1. queue[k] \in Seq(Int)
      BY <2>2, Positions DEF Pieces
    <3> QED
      BY <3>1, Positions
  <2>6. x \in Int /\ y \in Int /\ x > from[k] /\ y > from[k]
    BY <2>3, <2>5
  <2> HIDE DEF x, y
  <2>7. CASE x < y
    <3>1. typed[x] = typed[y] \/ \E b \in DOMAIN typed : x < b /\ b < y /\ typed[b] = NewLine
      BY <2>1, <2>3, <2>7 DEF TypedInv
    <3>2. \A b \in DOMAIN typed : x < b /\ b < y => b \in from[k] + 1 .. y
      BY <2>3, <2>4, <2>6
    <3> QED
      BY <2>3, <3>1, <3>2
  <2>8. CASE y < x
    <3>1. typed[y] = typed[x] \/ \E b \in DOMAIN typed : y < b /\ b < x /\ typed[b] = NewLine
      BY <2>1, <2>3, <2>8 DEF TypedInv
    <3>2. \A b \in DOMAIN typed : y < b /\ b < x => b \in from[k] + 1 .. x
      BY <2>3, <2>4, <2>6
    <3> QED
      BY <2>3, <3>1, <3>2
  <2>9. CASE x = y
    BY <2>3, <2>9
  <2> QED
    BY <2>6, <2>7, <2>8, <2>9
<1> QED
  BY <1>1, InputInvariant, PTL

\* As long as no read fills the buffer or begins with an option, everything read
\* is queued: each letter as often as it was typed, and the commands in the order
\* of the lines.
THEOREM EveryLetterQueued == InputSpec => []InputKept
<1>1. InputInv => InputKept
  <2> SUFFICES ASSUME InputInv, plain, stage \in {"select", "removed"}
               PROVE  /\ \A l \in 1 .. CurrentLine :
                           Cardinality(LetterIn(queue, l)) = Cardinality({j \in 1 .. taken : typed[j] = l})
                      /\ \A k, m \in DOMAIN queue : k < m =>
                           \A i \in DOMAIN queue[k], j \in DOMAIN queue[m] :
                             queue[k][i] > 0 /\ queue[m][j] > 0 => queue[k][i] <= queue[m][j]
    BY DEF InputKept
  <2>1. TypedInv /\ TextInv /\ QueueInv /\ typed \in Seq(Int) /\ taken \in Nat
    BY DEF InputInv, TypedInv
  <2>2. Heard = taken
    <3>1. Len(inText) = 0
      BY <2>1 DEF TextInv
    <3> QED
      BY <2>1, <3>1 DEF Heard
  <2>3. PICK from : /\ Pieces(Int, typed, queue, from) /\ Until(queue, from, taken)
                    /\ NoneMissing(typed, queue, from, taken)
    BY <2>1, <2>2 DEF QueueInv
  <2>4. ASSUME NEW l \in 1 .. CurrentLine
        PROVE  Cardinality(LetterIn(queue, l)) = Cardinality({j \in 1 .. taken : typed[j] = l})
    <3>1. l \in Nat /\ l > 0
      BY <2>1 DEF TypedInv
    <3> QED
      BY <2>1, <2>3, <3>1, LettersOf
  <2>5. ASSUME NEW k \in DOMAIN queue, NEW m \in DOMAIN queue, k < m,
               NEW i \in DOMAIN queue[k], NEW j \in DOMAIN queue[m],
               queue[k][i] > 0, queue[m][j] > 0
        PROVE  queue[k][i] <= queue[m][j]
    <3>1. /\ from[k] + i \in DOMAIN typed /\ queue[k][i] = typed[from[k] + i]
          /\ from[m] + j \in DOMAIN typed /\ queue[m][j] = typed[from[m] + j]
      BY <2>3 DEF Pieces
    <3>2. from[k] + i < from[m] + j
      BY <2>3, <2>5 DEF Pieces
    <3> DEFINE x == from[k] + i
               y == from[m] + j
    <3>3. x \in DOMAIN typed /\ y \in DOMAIN typed /\ x < y /\ typed[x] > 0 /\ typed[y] > 0
      BY <2>5, <3>1, <3>2
    <3> HIDE DEF x, y
    <3>4. typed[x] <= typed[y]
      BY <2>1, <3>3 DEF TypedInv
    <3> QED
      BY <3>1, <3>4 DEF x, y
  <2> QED
    BY <2>4, <2>5
<1> QED
  BY <1>1, InputInvariant, PTL
=============================================================================
