-------------------------------- MODULE Input --------------------------------
(***************************************************************************)
(* From a client's bytes to its commands: Connection::Read, which is       *)
(* ClientSocket::read_socket into mIn_buffer and Connection::parseBuffer   *)
(* into the command queue, on the driver thread.                           *)
(*                                                                         *)
(* The client types lines; every letter of line k is the number k, so that *)
(* a command shows the lines it was made of.  Other characters are         *)
(* negative.  Bytes may arrive between two calls of read(), which takes    *)
(* what has arrived, up to the length of its buffer.  The buffer is then   *)
(* used as a C string: when read() fills it there is no final zero, and    *)
(* whatever follows in memory is taken too.  Carriage returns, which are   *)
(* removed, and zero bytes are left out.                                   *)
(***************************************************************************)
EXTENDS Vectors

CONSTANTS
  Special,    \* which of the characters below, besides newline, clients send
  BufferLen,  \* kMaxSocketInputBufferLength
  MaxTyped    \* bound of the model: characters typed

NewLine == -1
Space   == -2
Iac     == -3   \* starts a telnet option
Zero    == -4   \* fills the buffer at first
Junk    == -5   \* what follows the buffer in memory

ASSUME InputAssumption ==
  /\ Special \subseteq {Space, Iac}
  /\ BufferLen \in Nat \ {0, 1}
  /\ MaxTyped \in Nat

VARIABLES
  typed,   \* all the client has sent
  taken,   \* how much of it read() has returned
  closed,  \* the client has closed the connection
  buffer,  \* read_socket's array
  inText,  \* mIn_buffer
  queue,   \* mCommandQueue, with the commands already processed
  stage,   \* where the driver thread is
  plain    \* no read has filled the buffer or begun with an option

inputVars == <<typed, taken, closed, buffer, inText, queue, stage, plain>>

InputInit ==
  /\ typed = <<>> /\ taken = 0 /\ closed = FALSE
  /\ buffer = [k \in 1 .. BufferLen |-> Zero]
  /\ inText = <<>> /\ queue = <<>>
  /\ stage = "select" /\ plain = TRUE

\* the line being typed
CurrentLine == 1 + Cardinality({k \in DOMAIN typed : typed[k] = NewLine})

Type ==
  /\ ~closed /\ Len(typed) < MaxTyped
  /\ \E c \in {CurrentLine, NewLine} \cup Special : typed' = Append(typed, c)
  /\ UNCHANGED <<taken, closed, buffer, inText, queue, stage, plain>>

Close ==
  /\ ~closed
  /\ closed' = TRUE
  /\ UNCHANGED <<typed, taken, buffer, inText, queue, stage, plain>>

Arrived == Len(typed) - taken

\* how much read() returns, zero when nothing has arrived
ReadSize == IF Arrived < BufferLen THEN Arrived ELSE BufferLen

\* array a with its start overwritten by what read() returns
Filled(a) == [k \in 1 .. BufferLen |-> IF k <= ReadSize THEN typed[taken + k] ELSE a[k]]

\* array a as a C string: up to its zero, or past its end
CStrings(a) ==
  IF \E k \in 1 .. BufferLen : a[k] = Zero
    THEN {SubSeq(a, 1, k - 1) : k \in {i \in 1 .. BufferLen :
                                         a[i] = Zero /\ \A j \in 1 .. i - 1 : a[j] # Zero}}
    ELSE {a, Append(a, Junk)}

\* read_socket: the first read; select() said there is something to read
FirstRead ==
  /\ stage = "select" /\ (Arrived > 0 \/ closed)
  /\ LET a == Filled([k \in 1 .. BufferLen |-> Zero]) IN
     /\ buffer' = a
     /\ taken' = taken + ReadSize
     /\ plain' = (plain /\ ReadSize < BufferLen /\ a[1] # Iac)
     /\ \/ /\ a[1] = Iac \/ ReadSize = 0   \* options, or the end of the file
           /\ UNCHANGED inText
           /\ stage' = IF ReadSize = 0 THEN "parseLast" ELSE "parse"
        \/ /\ a[1] # Iac /\ ReadSize > 0
           /\ \E s \in CStrings(a) : inText' = inText \o s
           /\ stage' = IF ReadSize = BufferLen THEN "again" ELSE "parse"
  /\ UNCHANGED <<typed, closed, queue>>

\* read_socket: another read, into the same array, when the last one filled it.
\* Nothing may have arrived; the array is appended even then.
ReadAgain ==
  /\ stage = "again"
  /\ buffer' = Filled(buffer)
  /\ taken' = taken + ReadSize
  /\ \E s \in CStrings(buffer') : inText' = inText \o s
  /\ stage' = IF ReadSize = BufferLen THEN "again" ELSE "parse"
  /\ UNCHANGED <<typed, closed, queue, plain>>

\* the line of s that position i is in, from i on
LineFrom(s, i) ==
  SubSeq(s, i, CHOOSE j \in i .. Len(s) : /\ \A k \in i .. j : s[k] # NewLine
                                         /\ (j = Len(s) \/ s[j + 1] = NewLine))

\* mistaken version: the newlines are taken out and the text is left whole
LinesUncut(s) ==
  LET left == Without(s, NewLine) IN IF left = <<>> THEN <<>> ELSE <<left>>

\* Utility::stringToVector: the non-empty pieces between newlines, the last
\* one whether a newline has followed it or not
Lines(s) ==
  LET begins == {i \in DOMAIN s : s[i] # NewLine /\ (i = 1 \/ s[i - 1] = NewLine)}
      starts == InOrder([i \in DOMAIN s |-> i], begins)
  IN [k \in DOMAIN starts |-> LineFrom(s, starts[k])]

Blank(l) == \A k \in DOMAIN l : l[k] = Space

\* Utility::stringClean on a line with something else than spaces
Clean(l) ==
  LET kept == {k \in DOMAIN l : l[k] # Space}
      low  == CHOOSE k \in kept : \A j \in kept : k <= j
      high == CHOOSE k \in kept : \A j \in kept : j <= k
  IN SubSeq(l, low, high)

\* parseBuffer: what it queues is the lines before the first blank one, on which
\* stringClean does not return (an empty string's length less one is npos)
Parsed ==
  LET lines == Lines(inText)
      bad   == {k \in DOMAIN lines : Blank(lines[k])}
      n     == IF bad = {} THEN Len(lines)
               ELSE (CHOOSE k \in bad : \A j \in bad : k <= j) - 1
  IN [hangs |-> bad # {}, commands |-> [k \in 1 .. n |-> Clean(lines[k])]]

\* mistaken version: the text stays in mIn_buffer
ParseKeeping ==
  /\ stage \in {"parse", "parseLast"}
  /\ queue' = queue \o Parsed.commands
  /\ stage' = CASE Parsed.hangs -> "hung"
             [] stage = "parse" /\ ~Parsed.hangs -> "select"
             [] OTHER -> "removed"
  /\ UNCHANGED <<typed, taken, closed, buffer, inText, plain>>

\* parseBuffer; after the end of the file the driver removes the player
Parse ==
  /\ stage \in {"parse", "parseLast"}
  /\ inText' = <<>>
  /\ queue' = queue \o Parsed.commands
  /\ stage' = CASE Parsed.hangs -> "hung"
             [] stage = "parse" /\ ~Parsed.hangs -> "select"
             [] OTHER -> "removed"
  /\ UNCHANGED <<typed, taken, closed, buffer, plain>>

Reader == FirstRead \/ ReadAgain \/ Parse

InputNext == Type \/ Close \/ Reader

InputSpec == InputInit /\ [][InputNext]_inputVars

-----------------------------------------------------------------------------
(* Properties.                                                             *)

\* where a sequence of commands has the letter l
LetterIn(q, l) == UNION {{k} \X {i \in DOMAIN q[k] : q[k][i] = l} : k \in DOMAIN q}

\* As long as no read fills the buffer or begins with a telnet option, what has
\* been read is in the queue: every letter, once, in the order it was typed.
InputKept ==
  plain /\ stage \in {"select", "removed"} =>
    /\ \A l \in 1 .. CurrentLine :
         Cardinality(LetterIn(queue, l)) = Cardinality({j \in 1 .. taken : typed[j] = l})
    /\ \A k, m \in DOMAIN queue : k < m =>
         \A i \in DOMAIN queue[k], j \in DOMAIN queue[m] :
           queue[k][i] > 0 /\ queue[m][j] > 0 => queue[k][i] <= queue[m][j]

\* However the bytes are cut into reads, no command has letters of two lines,
\* unless the buffer was filled.
LinesKeptApart ==
  plain => \A k \in DOMAIN queue :
    \A i, j \in DOMAIN queue[k] : queue[k][i] > 0 /\ queue[k][j] > 0 => queue[k][i] = queue[k][j]
=============================================================================
