---------------------------- MODULE ClientSocket ----------------------------
(***************************************************************************)
(* One client's ClientSocket: the output buffer, the mutex mBusy, and the  *)
(* threads that write to the client through Connection::Write and Flush.   *)
(*                                                                         *)
(* Characters are numbered as they are put in the buffer, so a text is an  *)
(* interval and what the client receives is a sequence of numbers.  The    *)
(* socket is not blocking: write() takes any part of what it is offered,   *)
(* or fails, and on a connection the peer has closed it may end the        *)
(* process, which leaves SIGPIPE at its default.  A critical section is    *)
(* one step, except in flush(), whose write and clear are apart.  The      *)
(* mutex is a default one: locking it twice from one thread waits for      *)
(* ever, and lock() itself does not fail.                                  *)
(***************************************************************************)
EXTENDS Integers, Sequences, FiniteSets

CONSTANTS
  Thread,     \* threads that write to the client
  Driver,     \* the one that also reads from it
  NoThread,   \* holder of a free mutex
  ChunkSize,  \* kMaxSocketBufferWriteSize
  Links,      \* conditions the connection may be in: "up", "full", "gone"
  MaxText,    \* bound of the model: characters in one text
  MaxSaid     \* bound of the model: characters in all texts

ASSUME ClientSocketAssumption ==
  /\ Driver \in Thread
  /\ NoThread \notin Thread
  /\ ChunkSize \in Nat \ {0}
  /\ Links \subseteq {"up", "full", "gone"} /\ "up" \in Links
  /\ MaxText \in Nat /\ MaxSaid \in Nat

VARIABLES
  out,     \* mOut_buffer
  said,    \* how many characters were ever put in it
  sent,    \* the characters write() has taken, in order
  holder,  \* the thread that has mBusy
  pc,      \* where each thread is
  link,    \* the condition of the connection
  alive    \* the process has not been ended by a signal

vars == <<out, said, sent, holder, pc, link, alive>>

Init ==
  /\ out = <<>> /\ said = 0 /\ sent = <<>>
  /\ holder = NoThread
  /\ pc = [t \in Thread |-> "idle"]
  /\ link = "up" /\ alive = TRUE

At(t, here, there) == alive /\ pc[t] = here /\ pc' = [pc EXCEPT ![t] = there]

Upto(m, n) == [k \in 1 .. n - m |-> m + k]   \* characters m + 1 to n

\* Connection::Write: to_client, then flush
Write(t) ==
  /\ At(t, "idle", "toClient")
  /\ UNCHANGED <<out, said, sent, holder, link, alive>>

\* the critical section of to_client: one text is appended
AppendText ==
  /\ holder = NoThread
  /\ \E n \in 0 .. MaxText :
       /\ said + n <= MaxSaid
       /\ out' = out \o Upto(said, said + n)
       /\ said' = said + n

ToClient(t) ==
  /\ At(t, "toClient", "flush")
  /\ AppendText
  /\ UNCHANGED <<sent, holder, link, alive>>

\* read_socket: lock, append to the other buffer or answer telnet options,
\* unlock; the driver then flushes
ReadSocket(t) ==
  /\ t = Driver
  /\ At(t, "idle", "flush")
  /\ holder = NoThread
  /\ UNCHANGED <<out, said, sent, holder, link, alive>>

\* flush, before it locks: nothing to write
NothingToFlush(t) ==
  /\ At(t, "flush", "idle")
  /\ out = <<>>
  /\ UNCHANGED <<out, said, sent, holder, link, alive>>

\* mistaken version: flush leaves the buffer to the other thread and waits
FlushWaits(t) ==
  /\ At(t, "flush", "flush")
  /\ out # <<>>
  /\ UNCHANGED <<out, said, sent, holder, link, alive>>

SomethingToFlush(t) ==
  /\ At(t, "flush", "lock")
  /\ out # <<>>
  /\ UNCHANGED <<out, said, sent, holder, link, alive>>

\* mistaken version: flush goes on without the mutex
LockNothing(t) ==
  /\ At(t, "lock", "write")
  /\ UNCHANGED <<out, said, sent, holder, link, alive>>

Lock(t) ==
  /\ At(t, "lock", "write")
  /\ holder = NoThread
  /\ holder' = t
  /\ UNCHANGED <<out, said, sent, link, alive>>

\* flush: the other thread emptied the buffer before this one had the mutex
BufferGone(t) ==
  /\ At(t, "write", "idle")
  /\ out = <<>>
  /\ holder' = NoThread
  /\ UNCHANGED <<out, said, sent, link, alive>>

\* flush: write() takes some of the first chunk
WriteChunk(t) ==
  /\ At(t, "write", "clear")
  /\ out # <<>> /\ link = "up"
  /\ \E n \in 1 .. ChunkSize :
       n <= Len(out) /\ sent' = sent \o SubSeq(out, 1, n)
  /\ UNCHANGED <<out, said, holder, link, alive>>

\* flush: write() fails, and flush returns as it is
WriteFails(t) ==
  /\ At(t, "write", "idle")
  /\ out # <<>> /\ link # "up"
  /\ UNCHANGED <<out, said, sent, holder, link, alive>>

\* flush: write() to a closed connection raises SIGPIPE
WriteKills(t) ==
  /\ At(t, "write", "write")
  /\ out # <<>> /\ link = "gone"
  /\ alive' = FALSE
  /\ UNCHANGED <<out, said, sent, holder, link>>

\* flush: the whole buffer is cleared, which ends the loop, and unlock
Clear(t) ==
  /\ At(t, "clear", "idle")
  /\ out' = <<>>
  /\ holder' = NoThread
  /\ UNCHANGED <<said, sent, link, alive>>

\* the client stops reading, reads again, or goes away for good
LinkChanges ==
  /\ alive /\ link # "gone"
  /\ link' \in Links \ {link}
  /\ UNCHANGED <<out, said, sent, holder, pc, alive>>

Step(t) ==
  \/ Write(t) \/ ToClient(t) \/ ReadSocket(t)
  \/ NothingToFlush(t) \/ SomethingToFlush(t)
  \/ Lock(t) \/ BufferGone(t) \/ WriteChunk(t) \/ WriteFails(t) \/ WriteKills(t)
  \/ Clear(t)

Next == (\E t \in Thread : Step(t)) \/ LinkChanges

Spec == Init /\ [][Next]_vars

\* threads keep running: each takes steps as long as it can
FairSpec == Spec /\ \A t \in Thread : WF_vars(Step(t))

-----------------------------------------------------------------------------
(* Properties.                                                             *)

\* Types.
TypeOK ==
  /\ out \in Seq(Nat) /\ sent \in Seq(Nat) /\ said \in Nat
  /\ holder \in Thread \cup {NoThread}
  /\ pc \in [Thread -> {"idle", "toClient", "flush", "lock", "write", "clear"}]
  /\ link \in {"up", "full", "gone"}
  /\ alive \in BOOLEAN

\* The client receives characters in the order they were written and none of
\* them twice, whichever threads write, whatever write() takes, and whenever
\* it fails: flush() and the mutex.
SentInOrder == \A j, k \in DOMAIN sent : j < k => sent[j] < sent[k]

\* The buffer holds the characters written last: nothing in it is out of place.
OutIsLatest == Len(out) <= said /\ out = Upto(said - Len(out), said)

\* Inside flush(), between lock and unlock, a thread has the mutex, and between
\* the write and the clear nothing is added.
WritersHold ==
  /\ \A t \in Thread : pc[t] \in {"write", "clear"} => holder = t
  /\ \A t \in Thread : pc[t] = "clear" => out # <<>>

\* What is in the buffer has not been sent yet, unless a flush is about to
\* clear it.
UnsentInOut ==
  \A j \in DOMAIN sent :
    /\ sent[j] <= said
    /\ (\A t \in Thread : pc[t] # "clear") => sent[j] <= said - Len(out)

\* The inductive invariant: what flush() may rely on at each of its steps.
Consistent == TypeOK /\ SentInOrder /\ OutIsLatest /\ WritersHold /\ UnsentInOut

\* Each thread comes back from its writes, again and again, as long as writes
\* do not fail: none waits for ever for a mutex or in a loop.
WakesWhileUp == [](link = "up") => \A t \in Thread : []<>(pc[t] = "idle")

-----------------------------------------------------------------------------
(* What comments of the repository say, which the code does not do.        *)

\* Connection::Write "sends text to the client and makes sure it gets written
\* out" (connection.cpp:190), and flush() writes the buffer "in predefined chunk
\* sizes" (client_socket.cpp:193): what a client whose connection stays up has
\* received has no hole in it.
NothingSkipped == \A j \in DOMAIN sent : sent[j] = j
=============================================================================
