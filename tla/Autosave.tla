------------------------------ MODULE Autosave ------------------------------
(***************************************************************************)
(* How rooms reach the disk: the autosave request that ZoneDaemon's        *)
(* heartbeat raises, the save thread that serves it, Room::Save and        *)
(* FileIO::write, and the end of the program, where main() cancels the     *)
(* save and process threads and the destructors of ZoneDaemon and then of  *)
(* each Zone save every room once more.                                    *)
(*                                                                         *)
(* A room's contents are a version number.  Room::Save reads them under    *)
(* the room's mutex and writes the file after giving it back; the file is  *)
(* empty, then partial, until it is closed.  Cancelling is deferred: a     *)
(* cancelled thread goes on to its next open(), write() or sleep, and dies *)
(* there with the mutexes it holds.  saveAll() saves every room, changed   *)
(* or not: that is its default.  The log and its mutex are left out.       *)
(***************************************************************************)
EXTENDS Integers, FiniteSets

CONSTANTS
  Rooms,      \* how many rooms there are
  Timer,      \* AutosaveTimer, in heartbeats
  MayStop,    \* whether the server may be shut down
  MaxVersion  \* bound of the model: changes of one room

ASSUME AutosaveAssumption ==
  /\ Rooms \in Nat \ {0}
  /\ Timer \in Nat \ {0}
  /\ MayStop \in BOOLEAN
  /\ MaxVersion \in Nat

Room    == 1 .. Rooms
Place   == {"serve", "idle", "check", "asleep", "room", "reading", "file", "open", "write",
            "ended", "dead"}
Thread  == {"save", "process", "main"}
Saver   == {"save", "main"}   \* the save thread; main() in ~ZoneDaemon
Partial == -1                 \* a file that was truncated and not closed
Nobody  == "nobody"

VARIABLES
  world,      \* each room's contents
  disk,       \* each room's file
  newest,     \* history: the newest version a room's file was closed with
  toSave,     \* ZoneDaemon::mHeartbeatsToNextSave
  saveRooms,  \* glob.saveRooms
  shutdown,   \* glob.shutdownMUD
  cancelled,  \* main() has called pthread_cancel on both threads
  again,      \* ~ZoneDaemon is done, and ~Zone saves
  pc,         \* where each thread is
  at,         \* the room each saver is at
  got,        \* what it read of that room
  reader,     \* who holds the room mutex of the room it reads, if anybody
  writer      \* who holds FileIO::mWriteLock

autosaveVars == <<world, disk, newest, toSave, saveRooms, shutdown, cancelled, again, pc,
                  at, got, reader, writer>>

AutosaveInit ==
  /\ world = [r \in Room |-> 0] /\ disk = [r \in Room |-> 0]
  /\ newest = [r \in Room |-> 0]
  /\ toSave = Timer
  /\ saveRooms = FALSE
  /\ shutdown = FALSE /\ cancelled = FALSE /\ again = FALSE
  /\ pc = [save |-> "check", process |-> "idle", main |-> "serve"]
  /\ at = [s \in Saver |-> 1] /\ got = [s \in Saver |-> 0]
  /\ reader = [r \in Room |-> Nobody] /\ writer = Nobody

Larger(a, b) == IF a < b THEN b ELSE a

At(t, here, there) == pc[t] = here /\ pc' = [pc EXCEPT ![t] = there]

-----------------------------------------------------------------------------
(* The save thread, and what it shares with main().                        *)

\* thread_saveRooms_func: the flag is up, saveAllZones begins
BeginPass ==
  /\ At("save", "check", "room")
  /\ ~shutdown /\ saveRooms
  /\ at' = [at EXCEPT !["save"] = 1]
  /\ UNCHANGED <<world, disk, newest, toSave, saveRooms, shutdown, cancelled, again, got, reader, writer>>

\* nothing to save: sleep(60)
NoRequest ==
  /\ At("save", "check", "asleep")
  /\ ~shutdown /\ ~saveRooms
  /\ UNCHANGED <<world, disk, newest, toSave, saveRooms, shutdown, cancelled, again, at, got, reader, writer>>

\* the loop ends
SaveThreadEnds ==
  /\ At("save", "check", "ended")
  /\ shutdown
  /\ UNCHANGED <<world, disk, newest, toSave, saveRooms, shutdown, cancelled, again, at, got, reader, writer>>

\* sleep() is over, or the thread is cancelled in it
WakeUp ==
  /\ At("save", "asleep", IF cancelled THEN "dead" ELSE "check")
  /\ UNCHANGED <<world, disk, newest, toSave, saveRooms, shutdown, cancelled, again, at, got, reader, writer>>

\* Room::Save: lock the room and start reading it
LockRoom(s) ==
  /\ At(s, "room", "reading")
  /\ at[s] \in Room /\ reader[at[s]] = Nobody
  /\ reader' = [reader EXCEPT ![at[s]] = s]
  /\ UNCHANGED <<world, disk, newest, toSave, saveRooms, shutdown, cancelled, again, at, got, writer>>

\* Room::Save: the text is complete; unlock
ReadRoom(s) ==
  /\ At(s, "reading", "file")
  /\ got' = [got EXCEPT ![s] = world[at[s]]]
  /\ reader' = [reader EXCEPT ![at[s]] = Nobody]
  /\ UNCHANGED <<world, disk, newest, toSave, saveRooms, shutdown, cancelled, again, at, writer>>

\* FileIO::write: lock
LockFile(s) ==
  /\ At(s, "file", "open")
  /\ writer = Nobody /\ writer' = s
  /\ UNCHANGED <<world, disk, newest, toSave, saveRooms, shutdown, cancelled, again, at, got, reader>>

IsCancelled(s) == s = "save" /\ cancelled

\* FileIO::write: open and truncate the file
OpenFile(s) ==
  /\ At(s, "open", "write") /\ ~IsCancelled(s)
  /\ disk' = [disk EXCEPT ![at[s]] = Partial]
  /\ UNCHANGED <<world, newest, toSave, saveRooms, shutdown, cancelled, again, at, got, reader, writer>>

\* FileIO::write: write and close; then the next room
Finish(s) ==
  /\ At(s, "write", "room") /\ ~IsCancelled(s)
  /\ disk' = [disk EXCEPT ![at[s]] = got[s]]
  /\ newest' = [newest EXCEPT ![at[s]] = Larger(@, got[s])]
  /\ at' = [at EXCEPT ![s] = @ + 1]
  /\ UNCHANGED <<world, toSave, saveRooms, shutdown, cancelled, again, got, reader>>

\* mistaken version: the mutex is kept
CloseFileKeeping(s) == Finish(s) /\ UNCHANGED writer

\* ... and unlock
CloseRoomFile(s) == Finish(s) /\ writer' = Nobody

\* mistaken version: a thread that dies gives the file mutex back
DieUnlocking ==
  /\ \E here \in {"reading", "open", "write"} : At("save", here, "dead")
  /\ IsCancelled("save")
  /\ writer' = IF writer = "save" THEN Nobody ELSE writer
  /\ UNCHANGED <<world, disk, newest, toSave, saveRooms, shutdown, cancelled, again, at, got, reader>>

\* cancelled in open() or write(), or in a log message while reading: the
\* mutex stays locked
Die ==
  /\ \E here \in {"reading", "open", "write"} : At("save", here, "dead")
  /\ IsCancelled("save")
  /\ UNCHANGED <<world, disk, newest, toSave, saveRooms, shutdown, cancelled, again, at, got, reader, writer>>

\* the pass is over; only now is the flag taken down
EndPass ==
  /\ At("save", "room", "asleep")
  /\ at["save"] > Rooms
  /\ saveRooms' = FALSE
  /\ UNCHANGED <<world, disk, newest, toSave, shutdown, cancelled, again, at, got, reader, writer>>

SaveThread ==
  \/ BeginPass \/ NoRequest \/ SaveThreadEnds \/ WakeUp
  \/ LockRoom("save") \/ ReadRoom("save") \/ LockFile("save")
  \/ OpenFile("save") \/ CloseRoomFile("save") \/ Die
  \/ EndPass

-----------------------------------------------------------------------------
(* The process thread.                                                     *)

\* ZoneDaemon::heartbeat
Heartbeat ==
  /\ pc["process"] = "idle"
  /\ toSave' = IF toSave = 0 THEN Timer - 1 ELSE toSave - 1
  /\ saveRooms' = (saveRooms \/ toSave = 0)
  /\ UNCHANGED <<world, disk, newest, shutdown, cancelled, again, pc, at, got, reader, writer>>

\* a command changes a room's contents: moving, create, get and drop do not
\* lock the room, removing a player does
ChangeRoom(r, locked) ==
  /\ pc["process"] = "idle"
  /\ world[r] < MaxVersion
  /\ locked => reader[r] = Nobody
  /\ world' = [world EXCEPT ![r] = @ + 1]
  /\ UNCHANGED <<disk, newest, toSave, saveRooms, shutdown, cancelled, again, pc, at, got, reader, writer>>

\* a player's file is written, under the same mutex
BeginPlayerFile ==
  /\ At("process", "idle", "write")
  /\ writer = Nobody /\ writer' = "process"
  /\ UNCHANGED <<world, disk, newest, toSave, saveRooms, shutdown, cancelled, again, at, got, reader>>

EndPlayerFile ==
  /\ At("process", "write", "idle") /\ ~cancelled
  /\ writer' = Nobody
  /\ UNCHANGED <<world, disk, newest, toSave, saveRooms, shutdown, cancelled, again, at, got, reader>>

\* the shutdown command
RaiseShutdown ==
  /\ MayStop /\ pc["process"] = "idle" /\ ~shutdown
  /\ shutdown' = TRUE
  /\ UNCHANGED <<world, disk, newest, toSave, saveRooms, cancelled, again, pc, at, got, reader, writer>>

\* the loop ends, or the thread is cancelled: asleep, or writing a player file
ProcessEnds ==
  /\ \/ shutdown /\ At("process", "idle", "ended")
     \/ cancelled /\ \E here \in {"idle", "write"} : At("process", here, "dead")
  /\ UNCHANGED <<world, disk, newest, toSave, saveRooms, shutdown, cancelled, again, at, got, reader, writer>>

Process ==
  \/ Heartbeat \/ BeginPlayerFile \/ EndPlayerFile \/ RaiseShutdown \/ ProcessEnds
  \/ \E r \in Room, locked \in BOOLEAN : ChangeRoom(r, locked)

-----------------------------------------------------------------------------
(* main().                                                                 *)

\* mistaken version: the threads are left to themselves
StopUncancelled ==
  /\ At("main", "serve", "room")
  /\ shutdown
  /\ UNCHANGED <<world, disk, newest, toSave, saveRooms, shutdown, cancelled, again, at, got, reader, writer>>

\* the driver loop has ended; main cancels both threads and returns, and
\* ~ZoneDaemon saves all zones
CancelThreads ==
  /\ At("main", "serve", "room")
  /\ shutdown
  /\ cancelled' = TRUE
  /\ UNCHANGED <<world, disk, newest, toSave, saveRooms, shutdown, again, at, got, reader, writer>>

\* every ~Zone saves its rooms once more
SaveZones ==
  /\ pc["main"] = "room" /\ at["main"] > Rooms
  /\ ~again /\ again' = TRUE
  /\ at' = [at EXCEPT !["main"] = 1]
  /\ UNCHANGED <<world, disk, newest, toSave, saveRooms, shutdown, cancelled, pc, got, reader, writer>>

Exit ==
  /\ At("main", "room", "ended")
  /\ at["main"] > Rooms /\ again
  /\ UNCHANGED <<world, disk, newest, toSave, saveRooms, shutdown, cancelled, again, at, got, reader, writer>>

Main ==
  \/ CancelThreads
  \/ LockRoom("main") \/ ReadRoom("main") \/ LockFile("main")
  \/ OpenFile("main") \/ CloseRoomFile("main")
  \/ SaveZones \/ Exit

\* when main has returned the process is gone, and its threads with it
AutosaveNext == pc["main"] # "ended" /\ (SaveThread \/ Process \/ Main)

AutosaveSpec == AutosaveInit /\ [][AutosaveNext]_autosaveVars

\* each thread keeps running, the save thread is not starved of the file mutex
\* by player files, and the process thread keeps its heartbeats
FairAutosave ==
  /\ AutosaveSpec
  /\ WF_autosaveVars(pc["main"] # "ended" /\ SaveThread)
  /\ SF_autosaveVars(pc["main"] # "ended" /\ LockFile("save"))
  /\ WF_autosaveVars(Main)
  /\ WF_autosaveVars(pc["main"] # "ended" /\ (EndPlayerFile \/ ProcessEnds))
  /\ SF_autosaveVars(pc["main"] # "ended" /\ Heartbeat)

-----------------------------------------------------------------------------
(* Properties.                                                             *)

\* Types, and that a thread at a room is at one there is.
TypeOK ==
  /\ world \in [Room -> 0 .. MaxVersion] /\ newest \in [Room -> 0 .. MaxVersion]
  /\ disk \in [Room -> Partial .. MaxVersion]
  /\ toSave \in 0 .. Timer
  /\ saveRooms \in BOOLEAN /\ shutdown \in BOOLEAN /\ cancelled \in BOOLEAN /\ again \in BOOLEAN
  /\ pc \in [Thread -> Place]
  /\ at \in [Saver -> 1 .. Rooms + 1] /\ got \in [Saver -> 0 .. MaxVersion]
  /\ \A s \in Saver : pc[s] \in {"reading", "file", "open", "write"} => at[s] \in Room
  /\ reader \in [Room -> Saver \cup {Nobody}]
  /\ writer \in Saver \cup {"process", Nobody}

\* A room file that was written whole is never replaced by an older version
\* of the room, although Room::Save writes after giving the room's mutex back
\* and two threads save: a thread that lost time is cancelled before it opens
\* the file.
DiskGoesForward == \A r \in Room : disk[r] \in {Partial, newest[r]}

\* A file is partial only while mWriteLock is held: nobody else overwrites it
\* or takes it for finished.
PartialIsLocked ==
  \A r \in Room : disk[r] = Partial => \E s \in Saver : writer = s /\ at[s] = r

\* mWriteLock is held by whoever is in FileIO::write, and kept by a thread that
\* was cancelled there; main() is past its driver loop only once it has cancelled.
LocksAgree ==
  /\ \A s \in Saver : pc[s] \in {"open", "write"} => writer = s
  /\ \A s \in Saver : writer = s => pc[s] \in {"open", "write", "dead"}
  /\ pc["process"] = "write" => writer = "process"
  /\ pc["main"] = "serve" \/ cancelled

\* What a saver is about to write is at most what the room is by now, and unless
\* it will die first at least what the file was closed with.
CopiesAgree ==
  /\ \A r \in Room : newest[r] <= world[r]
  /\ \A s \in Saver : pc[s] \in {"file", "open", "write"} =>
       /\ got[s] <= world[at[s]]
       /\ IsCancelled(s) \/ newest[at[s]] <= got[s]

\* The inductive invariant: why no saver can put an old text over a newer one.
Consistent == TypeOK /\ PartialIsLocked /\ DiskGoesForward /\ LocksAgree /\ CopiesAgree

\* Every change of a room reaches the disk, as long as the server runs: the
\* timer, the flag, the pass and the writes, although a request that is raised
\* during a pass is cleared at its end.
SavedEventually ==
  [](~shutdown) => \A r \in Room : \A v \in 1 .. MaxVersion : world[r] = v ~> disk[r] >= v

=============================================================================
