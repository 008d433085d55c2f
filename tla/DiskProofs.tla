----------------------------- MODULE DiskProofs -----------------------------
(***************************************************************************)
(* What reaches the disk while the server runs (module Autosave), and what *)
(* of it the next start has (module Restart).                              *)
(*                                                                         *)
(* Autosave, for every number of rooms, every timer and every bound on the *)
(* changes: the inductive invariant is Consistent; each of its conjuncts   *)
(* has a lemma that says a step keeps it, which looks at the actions that  *)
(* change what it speaks of.                                               *)
(*                                                                         *)
(* Restart: the bans and the settings through starts, ends and crashes,    *)
(* for all clients, reasons, keys and documents, any number of starts and  *)
(* whatever the other files hold.  For the bans, the file agrees while the *)
(* list exists with what memory has, or had before the command that is     *)
(* about to write; for the settings, memory holds what could be read of    *)
(* the file that is there, up to the first mistake.                        *)
(*                                                                         *)
(* Then the room and the player, for all capacities, texts, metals and     *)
(* numbers of coins.  The first half has no state: what each class loads   *)
(* from what it saved, from nicknames up to ContentsKept, RoomKept and     *)
(* PlayerKept.  A load is a fold of the model; Coursed gives its values    *)
(* one node after the other, and the proof follows them.  The second half  *)
(* is RecordsInv, what is in memory, in the files and on its way there,    *)
(* from which FilesGiveBack and NobodyIsOverwritten follow.                *)
(***************************************************************************)
EXTENDS Autosave, Restart, VectorsProofs, FiniteSetTheorems, SequenceTheorems, TLAPS

\* The places where a saver is at a room there is.
Inside == {"reading", "file", "open", "write"}

\* A thread that moves leaves the others where they are.
LEMMA Moves ==
  ASSUME TypeOK, NEW t \in Thread, NEW here, NEW there \in Place, At(t, here, there)
  PROVE  /\ pc[t] = here /\ pc' \in [Thread -> Place] /\ pc'[t] = there
         /\ \A u \in Thread : u # t => pc'[u] = pc[u]
BY DEF TypeOK, At, Thread

\* One that does not move into a room stays at a room.
LEMMA StaysInside ==
  ASSUME TypeOK, NEW t \in Thread, NEW here, NEW there \in Place, At(t, here, there),
         there \in Inside /\ t \in Saver => at[t] \in Room
  PROVE  \A s \in Saver : pc'[s] \in Inside => at[s] \in Room
BY Moves DEF TypeOK, Inside, Thread, Saver

\* A step of the model is one of a saver, of the rest of the save thread, of
\* the process thread, or main()'s beginning or end.
SaverStep(s) == LockRoom(s) \/ ReadRoom(s) \/ LockFile(s) \/ OpenFile(s) \/ CloseRoomFile(s)

SaveThreadRest == BeginPass \/ NoRequest \/ SaveThreadEnds \/ WakeUp \/ Die \/ EndPass

MainRest == CancelThreads \/ SaveZones \/ Exit

LEMMA StepKinds ==
  ASSUME AutosaveNext
  PROVE  (\E s \in Saver : SaverStep(s)) \/ SaveThreadRest \/ Process \/ MainRest
BY DEF AutosaveNext, SaveThread, Main, SaverStep, SaveThreadRest, MainRest, Saver

-----------------------------------------------------------------------------
(* Types.                                                                  *)

LEMMA SaveThreadKeepsTypes ==
  ASSUME TypeOK, SaveThreadRest
  PROVE  TypeOK'
<1> USE DEF Thread, Saver, Place, Inside
<1>1. CASE BeginPass
  <2>1. /\ pc' \in [Thread -> Place] /\ pc'["save"] = "room"
        /\ \A u \in Thread : u # "save" => pc'[u] = pc[u]
    BY <1>1, Moves DEF BeginPass
  <2>2. 1 \in 1 .. Rooms + 1
    BY AutosaveAssumption
  <2>3. at' \in [Saver -> 1 .. Rooms + 1]
    BY <1>1, <2>2 DEF BeginPass, TypeOK
  <2>4. \A s \in Saver : pc'[s] \in Inside => at'[s] \in Room
    BY <1>1, <2>1 DEF BeginPass, TypeOK
  <2> QED
    BY <1>1, <2>1, <2>3, <2>4 DEF BeginPass, TypeOK
<1>2. CASE NoRequest \/ SaveThreadEnds \/ WakeUp \/ Die \/ EndPass
  <2>1. \E here \in Place, there \in Place \ (Inside \cup {"room"}) : At("save", here, there)
    BY <1>2 DEF NoRequest, SaveThreadEnds, WakeUp, Die, EndPass
  <2>2. /\ pc' \in [Thread -> Place]
        /\ \A s \in Saver : pc'[s] \in Inside => at[s] \in Room
    BY <2>1, Moves, StaysInside
  <2>3. /\ UNCHANGED <<world, disk, newest, toSave, shutdown, cancelled, again, at, got, reader, writer>>
        /\ saveRooms' \in BOOLEAN
    BY <1>2 DEF NoRequest, SaveThreadEnds, WakeUp, Die, EndPass, TypeOK
  <2> QED
    BY <2>2, <2>3 DEF TypeOK
<1> QED
  BY <1>1, <1>2 DEF SaveThreadRest

LEMMA ProcessKeepsTypes ==
  ASSUME TypeOK, Process
  PROVE  TypeOK'
<1> USE DEF Thread, Saver, Place, Inside
<1>1. CASE Heartbeat
  <2>1. toSave' \in 0 .. Timer
    BY <1>1, AutosaveAssumption DEF Heartbeat, TypeOK
  <2> QED
    BY <1>1, <2>1 DEF Heartbeat, TypeOK
<1>2. CASE BeginPlayerFile \/ EndPlayerFile \/ ProcessEnds
  <2>1. \E here, there \in Place : At("process", here, there)
    BY <1>2 DEF BeginPlayerFile, EndPlayerFile, ProcessEnds
  <2>2. /\ pc' \in [Thread -> Place]
        /\ \A s \in Saver : pc'[s] \in Inside => at[s] \in Room
    BY <2>1, Moves, StaysInside
  <2>3. /\ UNCHANGED <<world, disk, newest, toSave, saveRooms, shutdown, cancelled, again, at, got, reader>>
        /\ writer' \in Saver \cup {"process", Nobody}
    BY <1>2 DEF BeginPlayerFile, EndPlayerFile, ProcessEnds, TypeOK
  <2> QED
    BY <2>2, <2>3 DEF TypeOK
<1>3. CASE RaiseShutdown
  BY <1>3 DEF RaiseShutdown, TypeOK
<1>4. ASSUME NEW r \in Room, NEW locked \in BOOLEAN, ChangeRoom(r, locked)
      PROVE  TypeOK'
  <2>1. world[r] + 1 \in 0 .. MaxVersion
    BY <1>4, AutosaveAssumption DEF ChangeRoom, TypeOK
  <2>2. world' \in [Room -> 0 .. MaxVersion]
    BY <1>4, <2>1 DEF ChangeRoom, TypeOK
  <2> QED
    BY <1>4, <2>2 DEF ChangeRoom, TypeOK
<1> QED
  BY <1>1, <1>2, <1>3, <1>4 DEF Process

LEMMA SaverKeepsTypes ==
  ASSUME TypeOK, NEW s \in Saver, SaverStep(s)
  PROVE  TypeOK'
<1> USE DEF Thread, Saver, Place, Inside
<1>1. CASE LockRoom(s)
  <2>1. at[s] \in Room
    BY <1>1 DEF LockRoom
  <2>2. pc' \in [Thread -> Place] /\ \A t \in Saver : pc'[t] \in Inside => at[t] \in Room
    BY <1>1, <2>1, Moves, StaysInside DEF LockRoom
  <2> QED
    BY <1>1, <2>2 DEF LockRoom, TypeOK
<1>2. CASE ReadRoom(s)
  <2>1. pc[s] = "reading" /\ at[s] \in Room
    BY <1>2, Moves DEF ReadRoom, TypeOK
  <2>2. pc' \in [Thread -> Place] /\ \A t \in Saver : pc'[t] \in Inside => at[t] \in Room
    BY <1>2, <2>1, Moves, StaysInside DEF ReadRoom
  <2>3. got' \in [Saver -> 0 .. MaxVersion] /\ reader' \in [Room -> Saver \cup {Nobody}]
    BY <1>2, <2>1 DEF ReadRoom, TypeOK
  <2> QED
    BY <1>2, <2>2, <2>3 DEF ReadRoom, TypeOK
<1>3. CASE LockFile(s)
  <2>1. pc[s] = "file" /\ at[s] \in Room
    BY <1>3, Moves DEF LockFile, TypeOK
  <2>2. pc' \in [Thread -> Place] /\ \A t \in Saver : pc'[t] \in Inside => at[t] \in Room
    BY <1>3, <2>1, Moves, StaysInside DEF LockFile
  <2> QED
    BY <1>3, <2>2 DEF LockFile, TypeOK
<1>4. CASE OpenFile(s)
  <2>1. pc[s] = "open" /\ at[s] \in Room
    BY <1>4, Moves DEF OpenFile, TypeOK
  <2>2. pc' \in [Thread -> Place] /\ \A t \in Saver : pc'[t] \in Inside => at[t] \in Room
    BY <1>4, <2>1, Moves, StaysInside DEF OpenFile
  <2>3. Partial \in Partial .. MaxVersion
    BY AutosaveAssumption DEF Partial
  <2>4. disk' \in [Room -> Partial .. MaxVersion]
    BY <1>4, <2>1, <2>3 DEF OpenFile, TypeOK
  <2> QED
    BY <1>4, <2>2, <2>4 DEF OpenFile, TypeOK
<1>5. CASE CloseRoomFile(s)
  <2>1. /\ pc[s] = "write" /\ at[s] \in Room
        /\ pc' \in [Thread -> Place] /\ pc'[s] = "room"
        /\ \A t \in Thread : t # s => pc'[t] = pc[t]
    BY <1>5, Moves DEF CloseRoomFile, Finish, TypeOK
  <2>2. at[s] + 1 \in 1 .. Rooms + 1
    BY <2>1, AutosaveAssumption DEF Room
  <2>3. /\ at' \in [Saver -> 1 .. Rooms + 1]
        /\ \A t \in Saver : t # s => at'[t] = at[t]
    BY <1>5, <2>2 DEF CloseRoomFile, Finish, TypeOK
  <2>4. \A t \in Saver : pc'[t] \in Inside => at'[t] \in Room
    BY <2>1, <2>3 DEF TypeOK
  <2>5. got[s] \in 0 .. MaxVersion /\ got[s] \in Partial .. MaxVersion
    BY AutosaveAssumption DEF TypeOK, Partial
  <2>6. Larger(newest[at[s]], got[s]) \in 0 .. MaxVersion
    BY <2>1, <2>5 DEF TypeOK, Larger
  <2>7. disk' \in [Room -> Partial .. MaxVersion] /\ newest' \in [Room -> 0 .. MaxVersion]
    BY <1>5, <2>1, <2>5, <2>6 DEF CloseRoomFile, Finish, TypeOK
  <2> QED
    BY <1>5, <2>1, <2>3, <2>4, <2>7 DEF CloseRoomFile, Finish, TypeOK
<1> QED
  BY <1>1, <1>2, <1>3, <1>4, <1>5 DEF SaverStep

LEMMA MainKeepsTypes ==
  ASSUME TypeOK, MainRest
  PROVE  TypeOK'
<1> USE DEF Thread, Saver, Place, Inside
<1>1. CASE CancelThreads \/ Exit
  <2>1. \E here \in Place, there \in {"room", "ended"} : At("main", here, there)
    BY <1>1 DEF CancelThreads, Exit
  <2>2. pc' \in [Thread -> Place] /\ \A s \in Saver : pc'[s] \in Inside => at[s] \in Room
    BY <2>1, Moves, StaysInside
  <2>3. /\ UNCHANGED <<world, disk, newest, toSave, saveRooms, shutdown, again, at, got, reader, writer>>
        /\ cancelled' \in BOOLEAN
    BY <1>1 DEF CancelThreads, Exit, TypeOK
  <2> QED
    BY <2>2, <2>3 DEF TypeOK
<1>2. CASE SaveZones
  <2>1. 1 \in 1 .. Rooms + 1
    BY AutosaveAssumption
  <2>2. at' \in [Saver -> 1 .. Rooms + 1] /\ \A s \in Saver : s # "main" => at'[s] = at[s]
    BY <1>2, <2>1 DEF SaveZones, TypeOK
  <2>3. \A s \in Saver : pc'[s] \in Inside => at'[s] \in Room
    BY <1>2, <2>2 DEF SaveZones, TypeOK
  <2> QED
    BY <1>2, <2>2, <2>3 DEF SaveZones, TypeOK
<1> QED
  BY <1>1, <1>2 DEF MainRest

-----------------------------------------------------------------------------
(* The mutex of FileIO.                                                    *)

LEMMA SaverKeepsLocks ==
  ASSUME TypeOK, LocksAgree, NEW s \in Saver, SaverStep(s)
  PROVE  LocksAgree'
<1> USE DEF Thread, Saver, Place
<1>1. CASE LockRoom(s) \/ ReadRoom(s)
  <2>1. /\ \E here \in Place, there \in {"reading", "file"} :
              /\ pc[s] = here /\ here \in {"room", "reading"} /\ pc'[s] = there
              /\ \A u \in Thread : u # s => pc'[u] = pc[u]
        /\ UNCHANGED <<writer, cancelled>>
    BY <1>1, Moves DEF LockRoom, ReadRoom
  <2> QED
    BY <2>1 DEF LocksAgree
<1>2. CASE LockFile(s)
  <2>1. /\ pc[s] = "file" /\ pc'[s] = "open" /\ \A u \in Thread : u # s => pc'[u] = pc[u]
        /\ writer = Nobody /\ writer' = s /\ UNCHANGED cancelled
    BY <1>2, Moves DEF LockFile
  <2> QED
    BY <2>1 DEF LocksAgree, Nobody
<1>3. CASE OpenFile(s)
  <2>1. /\ pc[s] = "open" /\ pc'[s] = "write" /\ \A u \in Thread : u # s => pc'[u] = pc[u]
        /\ UNCHANGED <<writer, cancelled>>
    BY <1>3, Moves DEF OpenFile
  <2> QED
    BY <2>1 DEF LocksAgree
<1>4. CASE CloseRoomFile(s)
  <2>1. /\ pc[s] = "write" /\ pc'[s] = "room" /\ \A u \in Thread : u # s => pc'[u] = pc[u]
        /\ writer' = Nobody /\ UNCHANGED cancelled
    BY <1>4, Moves DEF CloseRoomFile, Finish
  <2> QED
    BY <2>1 DEF LocksAgree, Nobody
<1> QED
  BY <1>1, <1>2, <1>3, <1>4 DEF SaverStep

LEMMA OthersKeepLocks ==
  ASSUME TypeOK, LocksAgree, SaveThreadRest \/ Process \/ MainRest
  PROVE  LocksAgree'
<1> USE DEF Thread, Saver, Place
<1>1. CASE SaveThreadRest
  <2>1. /\ pc["save"] \in {"open", "write"} => pc'["save"] = "dead"
        /\ pc'["save"] \notin {"open", "write"}
        /\ pc["save"] # "dead"
        /\ \A u \in Thread : u # "save" => pc'[u] = pc[u]
        /\ UNCHANGED <<writer, cancelled>>
    BY <1>1, Moves DEF SaveThreadRest, BeginPass, NoRequest, SaveThreadEnds, WakeUp, Die, EndPass
  <2> QED
    BY <2>1 DEF LocksAgree
<1>2. CASE Process
  <2>1. CASE BeginPlayerFile
    <3>1. /\ pc'["process"] = "write" /\ \A u \in Thread : u # "process" => pc'[u] = pc[u]
          /\ writer = Nobody /\ writer' = "process" /\ UNCHANGED cancelled
      BY <2>1, Moves DEF BeginPlayerFile
    <3> QED
      BY <3>1 DEF LocksAgree, Nobody
  <2>2. CASE EndPlayerFile
    <3>1. /\ pc["process"] = "write" /\ pc'["process"] = "idle"
          /\ \A u \in Thread : u # "process" => pc'[u] = pc[u]
          /\ writer' = Nobody /\ UNCHANGED cancelled
      BY <2>2, Moves DEF EndPlayerFile
    <3> QED
      BY <3>1 DEF LocksAgree, Nobody
  <2>3. CASE ProcessEnds
    <3>1. /\ pc'["process"] # "write" /\ \A u \in Thread : u # "process" => pc'[u] = pc[u]
          /\ UNCHANGED <<writer, cancelled>>
      BY <2>3, Moves DEF ProcessEnds
    <3> QED
      BY <3>1 DEF LocksAgree
  <2>4. CASE Heartbeat \/ RaiseShutdown \/ \E r \in Room, locked \in BOOLEAN : ChangeRoom(r, locked)
    <3>1. UNCHANGED <<pc, writer, cancelled>>
      BY <2>4 DEF Heartbeat, RaiseShutdown, ChangeRoom
    <3> QED
      BY <3>1 DEF LocksAgree
  <2> QED
    BY <1>2, <2>1, <2>2, <2>3, <2>4 DEF Process
<1>3. CASE SaveZones
  BY <1>3 DEF SaveZones, LocksAgree
<1>4. CASE CancelThreads \/ Exit
  <2>1. /\ pc["main"] \in {"serve", "room"} /\ pc'["main"] \in {"room", "ended"}
        /\ \A u \in Thread : u # "main" => pc'[u] = pc[u]
        /\ writer' = writer /\ (cancelled => cancelled') /\ (pc["main"] = "serve" => cancelled')
    BY <1>4, Moves DEF CancelThreads, Exit
  <2> QED
    BY <2>1 DEF LocksAgree
<1> QED
  BY <1>1, <1>2, <1>3, <1>4 DEF MainRest

-----------------------------------------------------------------------------
(* The files.                                                              *)

\* Without the mutex no file is partial, and with it at most the holder's.
LEMMA SaverKeepsPartial ==
  ASSUME TypeOK, LocksAgree, PartialIsLocked, NEW s \in Saver, SaverStep(s)
  PROVE  PartialIsLocked'
<1> USE DEF Thread, Saver, Place
<1>1. CASE LockRoom(s) \/ ReadRoom(s)
  BY <1>1 DEF LockRoom, ReadRoom, PartialIsLocked
<1>2. CASE LockFile(s)
  BY <1>2 DEF LockFile, PartialIsLocked, Nobody
<1>3. CASE OpenFile(s)
  <2>1. writer = s /\ writer' = s /\ at' = at
    BY <1>3, Moves DEF OpenFile, LocksAgree
  <2>2. \A r \in Room : r # at[s] => disk'[r] = disk[r]
    BY <1>3 DEF OpenFile, TypeOK
  <2> QED
    BY <2>1, <2>2 DEF PartialIsLocked
<1>4. CASE CloseRoomFile(s)
  <2>1. writer = s
    BY <1>4, Moves DEF CloseRoomFile, Finish, LocksAgree
  <2>2. at[s] \in Room /\ got[s] # Partial
    BY <1>4, Moves, AutosaveAssumption DEF CloseRoomFile, Finish, TypeOK, Partial
  <2>3. \A r \in Room : disk'[r] = IF r = at[s] THEN got[s] ELSE disk[r]
    BY <1>4, <2>2 DEF CloseRoomFile, Finish, TypeOK
  <2>4. \A r \in Room : disk'[r] # Partial
    BY <2>1, <2>2, <2>3 DEF PartialIsLocked
  <2> QED
    BY <2>4 DEF PartialIsLocked
<1> QED
  BY <1>1, <1>2, <1>3, <1>4 DEF SaverStep

LEMMA OthersKeepPartial ==
  ASSUME TypeOK, LocksAgree, PartialIsLocked, SaveThreadRest \/ Process \/ MainRest
  PROVE  PartialIsLocked'
<1> USE DEF Thread, Saver, Place
<1>1. CASE BeginPass
  <2>1. writer # "save" /\ UNCHANGED <<disk, writer>> /\ at'["main"] = at["main"]
    BY <1>1, Moves DEF BeginPass, LocksAgree, TypeOK
  <2> QED
    BY <2>1 DEF PartialIsLocked
<1>2. CASE SaveThreadRest /\ ~BeginPass
  BY <1>2 DEF SaveThreadRest, NoRequest, SaveThreadEnds, WakeUp, Die, EndPass, PartialIsLocked
<1>3. CASE BeginPlayerFile \/ EndPlayerFile
  <2>1. writer \notin Saver /\ UNCHANGED <<disk, at>>
    BY <1>3, Moves DEF BeginPlayerFile, EndPlayerFile, LocksAgree, Nobody
  <2> QED
    BY <2>1 DEF PartialIsLocked
<1>4. CASE Process /\ ~BeginPlayerFile /\ ~EndPlayerFile
  <2>1. UNCHANGED <<disk, at, writer>>
    BY <1>4 DEF Process, Heartbeat, RaiseShutdown, ProcessEnds, ChangeRoom
  <2> QED
    BY <2>1 DEF PartialIsLocked
<1>5. CASE CancelThreads \/ Exit
  BY <1>5 DEF CancelThreads, Exit, PartialIsLocked
<1>6. CASE SaveZones
  <2>1. writer # "main" /\ UNCHANGED <<disk, writer>> /\ at'["save"] = at["save"]
    BY <1>6 DEF SaveZones, LocksAgree, TypeOK
  <2> QED
    BY <2>1 DEF PartialIsLocked
<1> QED
  BY <1>1, <1>2, <1>3, <1>4, <1>5, <1>6 DEF MainRest

\* Copies: the room a saver has read is on its way, and main() reads only after
\* the save thread has lost the right to write.
LEMMA SaverKeepsCopies ==
  ASSUME TypeOK, LocksAgree, DiskGoesForward, CopiesAgree, NEW s \in Saver, SaverStep(s)
  PROVE  DiskGoesForward' /\ CopiesAgree'
<1> USE DEF Thread, Saver, Place
<1>1. CASE LockRoom(s)
  <2>1. /\ pc'[s] = "reading" /\ \A u \in Thread : u # s => pc'[u] = pc[u]
        /\ UNCHANGED <<world, disk, newest, cancelled, at, got>>
    BY <1>1, Moves DEF LockRoom
  <2> QED
    BY <2>1 DEF DiskGoesForward, CopiesAgree, IsCancelled
<1>2. CASE ReadRoom(s)
  <2>1. /\ pc[s] = "reading" /\ pc'[s] = "file" /\ \A u \in Thread : u # s => pc'[u] = pc[u]
        /\ got'[s] = world[at[s]] /\ \A u \in Saver : u # s => got'[u] = got[u]
        /\ UNCHANGED <<world, disk, newest, cancelled, at>>
    BY <1>2, Moves DEF ReadRoom, TypeOK
  <2>2. at[s] \in Room
    BY <2>1 DEF TypeOK
  <2>3. got'[s] <= world[at[s]] /\ newest[at[s]] <= got'[s]
    BY <2>1, <2>2 DEF CopiesAgree, TypeOK
  <2> QED
    BY <2>1, <2>3 DEF DiskGoesForward, CopiesAgree, IsCancelled
<1>3. CASE LockFile(s)
  <2>1. /\ pc[s] = "file" /\ pc'[s] = "open" /\ \A u \in Thread : u # s => pc'[u] = pc[u]
        /\ UNCHANGED <<world, disk, newest, cancelled, at, got>>
    BY <1>3, Moves DEF LockFile
  <2> QED
    BY <2>1 DEF DiskGoesForward, CopiesAgree, IsCancelled
<1>4. CASE OpenFile(s)
  <2>1. /\ pc[s] = "open" /\ pc'[s] = "write" /\ \A u \in Thread : u # s => pc'[u] = pc[u]
        /\ \A r \in Room : disk'[r] \in {disk[r], Partial}
        /\ UNCHANGED <<world, newest, cancelled, at, got>>
    BY <1>4, Moves DEF OpenFile, TypeOK
  <2> QED
    BY <2>1 DEF DiskGoesForward, CopiesAgree, IsCancelled
<1>5. CASE CloseRoomFile(s)
  <2>1. /\ pc[s] = "write" /\ pc'[s] = "room" /\ \A u \in Thread : u # s => pc'[u] = pc[u]
        /\ ~IsCancelled(s) /\ UNCHANGED <<world, got, cancelled>>
    BY <1>5, Moves DEF CloseRoomFile, Finish
  <2>2. at[s] \in Room /\ \A u \in Saver : u # s => at'[u] = at[u]
    BY <1>5, <2>1 DEF CloseRoomFile, Finish, TypeOK
  <2>3. newest[at[s]] <= got[s] /\ got[s] <= world[at[s]]
    BY <2>1 DEF CopiesAgree
  <2>4. Larger(newest[at[s]], got[s]) = got[s]
    BY <2>2, <2>3 DEF Larger, TypeOK
  <2>5. \A r \in Room : disk'[r] = IF r = at[s] THEN got[s] ELSE disk[r]
    BY <1>5, <2>2 DEF CloseRoomFile, Finish, TypeOK
  <2>6. \A r \in Room : newest'[r] = IF r = at[s] THEN got[s] ELSE newest[r]
    <3>1. newest' = [newest EXCEPT ![at[s]] = got[s]]
      BY <1>5, <2>4 DEF CloseRoomFile, Finish
    <3> QED
      BY <2>2, <3>1 DEF TypeOK
  <2>7. DiskGoesForward' /\ \A r \in Room : newest'[r] <= world'[r]
    <3>1. SUFFICES ASSUME NEW r \in Room
                   PROVE  disk'[r] \in {Partial, newest'[r]} /\ newest'[r] <= world[r]
      BY <2>1 DEF DiskGoesForward
    <3>2. CASE r = at[s]
      BY <2>3, <2>5, <2>6, <3>2
    <3>3. CASE r # at[s]
      BY <2>5, <2>6, <3>3 DEF DiskGoesForward, CopiesAgree
    <3> QED
      BY <3>2, <3>3
  <2>8. ASSUME NEW u \in Saver, pc'[u] \in {"file", "open", "write"}
        PROVE  got'[u] <= world'[at'[u]] /\ (IsCancelled(u)' \/ newest'[at'[u]] <= got'[u])
    <3>1. u # s /\ pc[u] = pc'[u] /\ at'[u] = at[u]
      BY <2>1, <2>2, <2>8
    <3>2. IsCancelled(u)'
      BY <2>1, <2>8, <3>1 DEF LocksAgree, IsCancelled
    <3> QED
      BY <2>1, <2>8, <3>1, <3>2 DEF CopiesAgree
  <2> QED
    BY <2>7, <2>8 DEF CopiesAgree
<1> QED
  BY <1>1, <1>2, <1>3, <1>4, <1>5 DEF SaverStep

LEMMA OthersKeepCopies ==
  ASSUME TypeOK, DiskGoesForward, CopiesAgree, SaveThreadRest \/ Process \/ MainRest
  PROVE  DiskGoesForward' /\ CopiesAgree'
<1> USE DEF Thread, Saver, Place
<1>1. CASE ~\E r \in Room, locked \in BOOLEAN : ChangeRoom(r, locked)
  <2>1. /\ UNCHANGED <<world, disk, newest, got>>
        /\ cancelled => cancelled'
        /\ \A s \in Saver : pc'[s] \in {"file", "open", "write"} =>
             pc[s] = pc'[s] /\ at'[s] = at[s]
    <3>1. CASE SaveThreadRest
      <4>1. /\ pc'["save"] \notin {"file", "open", "write"} /\ pc'["main"] = pc["main"]
            /\ at'["main"] = at["main"]
            /\ UNCHANGED <<world, disk, newest, got, cancelled>>
        BY <3>1, Moves DEF SaveThreadRest, BeginPass, NoRequest, SaveThreadEnds, WakeUp,
                           Die, EndPass, TypeOK
      <4> QED
        BY <4>1
    <3>2. CASE Process
      <4>1. /\ \A s \in Saver : pc'[s] = pc[s]
            /\ UNCHANGED <<world, disk, newest, got, cancelled, at>>
        <5>1. CASE Heartbeat \/ RaiseShutdown
          BY <5>1 DEF Heartbeat, RaiseShutdown
        <5>2. CASE BeginPlayerFile \/ EndPlayerFile \/ ProcessEnds
          BY <5>2, Moves DEF BeginPlayerFile, EndPlayerFile, ProcessEnds
        <5> QED
          BY <1>1, <3>2, <5>1, <5>2 DEF Process
      <4> QED
        BY <4>1
    <3>3. CASE CancelThreads \/ Exit
      <4>1. /\ pc'["main"] \in {"room", "ended"} /\ pc'["save"] = pc["save"]
            /\ cancelled => cancelled'
            /\ UNCHANGED <<world, disk, newest, got, at>>
        BY <3>3, Moves DEF CancelThreads, Exit
      <4> QED
        BY <4>1
    <3>4. CASE SaveZones
      BY <3>4 DEF SaveZones, TypeOK
    <3> QED
      BY <3>1, <3>2, <3>3, <3>4 DEF MainRest
  <2> QED
    BY <2>1 DEF DiskGoesForward, CopiesAgree, IsCancelled
<1>2. ASSUME NEW r \in Room, NEW locked \in BOOLEAN, ChangeRoom(r, locked)
      PROVE  DiskGoesForward' /\ CopiesAgree'
  <2>1. /\ world'[r] = world[r] + 1 /\ \A q \in Room : q # r => world'[q] = world[q]
        /\ UNCHANGED <<disk, newest, cancelled, pc, at, got>>
    BY <1>2 DEF ChangeRoom, TypeOK
  <2>2. \A q \in Room : \A v \in 0 .. MaxVersion : v <= world[q] => v <= world'[q]
    BY <2>1 DEF TypeOK
  <2>3. /\ \A q \in Room : newest[q] \in 0 .. MaxVersion
        /\ \A s \in Saver : got[s] \in 0 .. MaxVersion
        /\ \A s \in Saver : pc[s] \in {"file", "open", "write"} => at[s] \in Room
    BY DEF TypeOK
  <2> QED
    BY <2>1, <2>2, <2>3 DEF DiskGoesForward, CopiesAgree, IsCancelled
<1> QED
  BY <1>1, <1>2

-----------------------------------------------------------------------------
(* Theorems.                                                               *)

LEMMA InitConsistent == AutosaveInit => Consistent
<1> SUFFICES ASSUME AutosaveInit PROVE Consistent
  OBVIOUS
<1> USE AutosaveAssumption DEF AutosaveInit
<1>1. 0 \in 0 .. MaxVersion /\ 0 \in Partial .. MaxVersion /\ 1 \in 1 .. Rooms + 1
  BY DEF Partial
<1>2. TypeOK
  <2>1. pc \in [Thread -> Place] /\ pc["save"] = "check" /\ pc["main"] = "serve"
    BY DEF Thread, Place
  <2>2. \A s \in Saver : pc[s] \notin {"reading", "file", "open", "write"}
    BY <2>1 DEF Saver
  <2>3. world \in [Room -> 0 .. MaxVersion] /\ newest \in [Room -> 0 .. MaxVersion]
    BY <1>1
  <2>4. disk \in [Room -> Partial .. MaxVersion] /\ toSave \in 0 .. Timer
    BY <1>1
  <2>5. at \in [Saver -> 1 .. Rooms + 1] /\ got \in [Saver -> 0 .. MaxVersion]
    BY <1>1
  <2>6. reader \in [Room -> Saver \cup {Nobody}] /\ writer \in Saver \cup {"process", Nobody}
    OBVIOUS
  <2> QED
    BY <2>1, <2>2, <2>3, <2>4, <2>5, <2>6 DEF TypeOK
<1>3. PartialIsLocked /\ DiskGoesForward /\ CopiesAgree
  BY DEF PartialIsLocked, DiskGoesForward, CopiesAgree, Partial, Saver
<1>4. LocksAgree
  BY DEF LocksAgree, Saver, Nobody
<1> QED
  BY <1>2, <1>3, <1>4 DEF Consistent

LEMMA StepConsistent == Consistent /\ [AutosaveNext]_autosaveVars => Consistent'
<1> SUFFICES ASSUME Consistent, [AutosaveNext]_autosaveVars PROVE Consistent'
  OBVIOUS
<1>1. CASE \E s \in Saver : SaverStep(s)
  BY <1>1, SaverKeepsTypes, SaverKeepsLocks, SaverKeepsPartial, SaverKeepsCopies DEF Consistent
<1>2. CASE SaveThreadRest \/ Process \/ MainRest
  <2>1. TypeOK'
    BY <1>2, SaveThreadKeepsTypes, ProcessKeepsTypes, MainKeepsTypes DEF Consistent
  <2> QED
    BY <1>2, <2>1, OthersKeepLocks, OthersKeepPartial, OthersKeepCopies DEF Consistent
<1>3. CASE UNCHANGED autosaveVars
  BY <1>3 DEF autosaveVars, Consistent, TypeOK, PartialIsLocked, DiskGoesForward, LocksAgree,
              CopiesAgree, IsCancelled
<1> QED
  BY <1>1, <1>2, <1>3, StepKinds

\* The three threads keep files, copies and the file mutex tied together
\* (Room::Save, FileIO::write, and pthread_cancel in main).
THEOREM ConsistentAlways == AutosaveSpec => []Consistent
BY InitConsistent, StepConsistent, PTL DEF AutosaveSpec

\* Types.
THEOREM TypeCorrect == AutosaveSpec => []TypeOK
<1>1. Consistent => TypeOK
  BY DEF Consistent
<1> QED
  BY <1>1, ConsistentAlways, PTL

\* A whole room file is never replaced by an older version of the room
\* (Room::Save writes after it has unlocked the room).
THEOREM NoOldVersion == AutosaveSpec => []DiskGoesForward
<1>1. Consistent => DiskGoesForward
  BY DEF Consistent
<1> QED
  BY <1>1, ConsistentAlways, PTL

\* A partial file is behind mWriteLock, even after its writer was cancelled
\* (FileIO::write).
THEOREM PartialStaysLocked == AutosaveSpec => []PartialIsLocked
<1>1. Consistent => PartialIsLocked
  BY DEF Consistent
<1> QED
  BY <1>1, ConsistentAlways, PTL

-----------------------------------------------------------------------------
(* The bans.                                                               *)

FileNames == {"config", "bans", "room", "player"}
Phases == {"up", "rooms", "zones", "bans", "config", "down"}

TypesOfBans ==
    /\ phase \in Phases
    /\ bans \in BanMaps /\ settled \in BanMaps /\ left \subseteq BanMaps
    /\ waits \in BOOLEAN
    /\ DOMAIN files = FileNames /\ files = [f \in FileNames |-> files[f]]
    /\ files.bans \in BanMaps \cup {NoFile, Torn}

\* Between a command and its file nobody else changes the list.
BansSettled ==
    /\ waits => phase = "up" /\ DOMAIN bans # {}
    /\ phase = "up" /\ ~waits => settled = bans

\* Nobody writes the bans but the process thread, while the program is up,
\* and the destructor of BanMap; they write what is in memory.
WriteOfBans ==
    /\ write.file \in FileNames \cup {"none"}
    /\ write = NoWrite <=> write.file = "none"
    /\ write.by = "save thread" => write.file = "room"
    /\ write.file = "bans" =>
          /\ phase \in {"up", "bans"} /\ ~waits /\ settled = bans
          /\ write.text = bans /\ DOMAIN bans # {} /\ files.bans = Torn

\* While BanMap is there, its file says what was settled, or is being
\* written, or there was no ban.
BanMapThere == {"up", "rooms", "zones", "bans"}
FileAgrees ==
    phase \in BanMapThere =>
        DOMAIN settled = {} \/ write.file = "bans" \/ files.bans = settled

\* When it is gone, the file says what it said last, or was cut short.
FileKeeps ==
    phase \in {"config", "down"} =>
        NoBans \in left \/ files.bans = Torn \/ files.bans \in left

BansKept == TypesOfBans /\ BansSettled /\ WriteOfBans /\ FileAgrees /\ FileKeeps

-----------------------------------------------------------------------------
(* Maps of bans.                                                           *)

LEMMA Maps ==
  ASSUME NEW b \in BanMaps
  PROVE  /\ b # NoFile /\ b # Torn /\ b # Unwritten
         /\ DOMAIN b # {} => SaveBans(b) = b /\ SaveBans(b) # Unwritten
         /\ DOMAIN b = {} => SaveBans(b) = Unwritten
BY BansAssumption DEF SaveBans

LEMMA MapOf ==
  ASSUME NEW S \in SUBSET Ips, NEW f \in [S -> Reasons]
  PROVE  f \in BanMaps
BY DEF BanMaps

LEMMA NoBansIsMap == NoBans \in BanMaps /\ DOMAIN NoBans = {}
<1>1. NoBans \in [{} -> Reasons]
  BY DEF NoBans, NoKeys
<1> QED
  BY <1>1, MapOf

LEMMA OnlyNoBans ==
  ASSUME NEW b \in BanMaps, DOMAIN b = {}
  PROVE  b = NoBans
BY DEF BanMaps, NoBans, NoKeys

\* A ban that is made is one more, a ban that is lifted leaves the others.
LEMMA BannedIsMap ==
  ASSUME NEW b \in BanMaps, NEW ip \in Ips, NEW reason \in Reasons
  PROVE  Banned(b, ip, reason) \in BanMaps /\ DOMAIN Banned(b, ip, reason) # {}
<1>1. PICK S \in SUBSET Ips : b \in [S -> Reasons]
  BY DEF BanMaps
<1> DEFINE T == S \cup {ip}
<1>2. Banned(b, ip, reason) \in [T -> Reasons]
  BY <1>1 DEF Banned, Joined
<1>3. T \in SUBSET Ips
  OBVIOUS
<1> HIDE DEF T
<1>4. Banned(b, ip, reason) \in BanMaps
  BY <1>2, <1>3, MapOf
<1> QED
  BY <1>2, <1>4 DEF T

LEMMA LiftedIsMap ==
  ASSUME NEW b \in BanMaps, NEW ip
  PROVE  Lifted(b, ip) \in BanMaps
<1>1. PICK S \in SUBSET Ips : b \in [S -> Reasons]
  BY DEF BanMaps
<1> DEFINE T == S \ {ip}
<1>2. Lifted(b, ip) \in [T -> Reasons]
  BY <1>1 DEF Lifted, Restricted
<1>3. T \in SUBSET Ips
  OBVIOUS
<1> HIDE DEF T
<1> QED
  BY <1>2, <1>3, MapOf
-----------------------------------------------------------------------------
(* The steps.                                                              *)

LEMMA InitKept == Init => BansKept
<1> SUFFICES ASSUME Init PROVE BansKept
  OBVIOUS
<1>1. /\ ShippedBans \in BanMaps /\ bans = NoBans /\ left = {ShippedBans} /\ phase = "down"
      /\ settled = ShippedBans /\ waits = FALSE
  BY BansAssumption DEF Init
<1>2. /\ DOMAIN files = FileNames /\ files = [f \in FileNames |-> files[f]]
      /\ files.bans = IF DOMAIN ShippedBans = {} THEN NoFile ELSE ShippedBans
  BY DEF Init, FileNames
<1>3. write = NoWrite /\ write.file = "none" /\ write.by = "nobody"
  BY DEF Init, NoWrite
<1> QED
  BY <1>1, <1>2, <1>3, NoBansIsMap, OnlyNoBans
     DEF BansKept, TypesOfBans, BansSettled, WriteOfBans, FileAgrees, FileKeeps, Phases,
         BanMapThere

\* Steps that touch neither the bans nor their file nor a write of it.
LEMMA SameKept ==
  ASSUME BansKept, UNCHANGED <<phase, bans, files, write, waits, settled, left>>
  PROVE  BansKept'
BY DEF BansKept, TypesOfBans, BansSettled, WriteOfBans, FileAgrees, FileKeeps

LEMMA Opened ==
  ASSUME BansKept, NEW f \in FileNames, NEW of, NEW text, NEW by, Open(f, of, text, by)
  PROVE  /\ write = NoWrite /\ write.file = "none"
         /\ DOMAIN files' = FileNames /\ files' = [g \in FileNames |-> files'[g]]
         /\ files'[f] = Torn
         /\ f # "bans" => files'.bans = files.bans
         /\ write'.file = f /\ write'.text = text /\ write'.by = by /\ write' # NoWrite
<1>1. write = NoWrite /\ write.file = "none"
  BY DEF Open, NoWrite
<1>2. files' = [files EXCEPT ![f] = Torn]
  BY DEF Open
<1>3. DOMAIN files = FileNames
  BY DEF BansKept, TypesOfBans
<1>4. /\ DOMAIN files' = FileNames /\ files' = [g \in FileNames |-> files'[g]]
      /\ files'[f] = Torn
      /\ f # "bans" => files'.bans = files.bans
  BY <1>2, <1>3 DEF FileNames
<1>5. write' = [file |-> f, of |-> of, text |-> text, before |-> files[f], by |-> by]
  BY DEF Open
<1>6. /\ write'.file = f /\ write'.text = text /\ write'.by = by
  BY <1>5
<1>7. write' # NoWrite
  BY <1>6 DEF NoWrite, FileNames
<1> QED
  BY <1>1, <1>4, <1>6, <1>7

\* Another file is opened.
LEMMA OpenOtherKept ==
  ASSUME BansKept, NEW f \in FileNames \ {"bans"}, NEW of, NEW text, NEW by,
         Open(f, of, text, by), by = "save thread" => f = "room",
         UNCHANGED <<phase, bans, waits, settled, left>>
  PROVE  BansKept'
<1>1. /\ write = NoWrite /\ write.file = "none"
      /\ DOMAIN files' = FileNames /\ files' = [g \in FileNames |-> files'[g]]
      /\ files'.bans = files.bans
      /\ write'.file = f /\ write'.by = by /\ write' # NoWrite
  BY Opened
<1>2. TypesOfBans'
  BY <1>1 DEF BansKept, TypesOfBans
<1>3. WriteOfBans'
  BY <1>1 DEF WriteOfBans, FileNames, BansKept, NoWrite
<1>4. FileAgrees' /\ FileKeeps' /\ BansSettled'
  BY <1>1 DEF BansKept, FileAgrees, FileKeeps, BansSettled
<1> QED
  BY <1>2, <1>3, <1>4 DEF BansKept

\* The file of the bans is opened, for what is in memory now.
LEMMA OpenBansKept ==
  ASSUME BansKept, NEW of, NEW by, by # "save thread",
         Open("bans", of, bans, by), DOMAIN bans # {},
         phase \in {"up", "bans"}, waits' = FALSE, settled' = bans,
         UNCHANGED <<phase, bans, left>>
  PROVE  BansKept'
<1>1. /\ DOMAIN files' = FileNames /\ files' = [g \in FileNames |-> files'[g]]
      /\ files'.bans = Torn
      /\ write'.file = "bans" /\ write'.text = bans /\ write'.by = by /\ write' # NoWrite
  BY Opened DEF FileNames
<1>2. TypesOfBans'
  BY <1>1 DEF BansKept, TypesOfBans
<1>3. WriteOfBans'
  BY <1>1 DEF WriteOfBans, FileNames, NoWrite
<1> QED
  BY <1>1, <1>2, <1>3 DEF BansKept, BansSettled, FileAgrees, FileKeeps

LEMMA DiesKept ==
  ASSUME BansKept, Dies, phase # "down"
  PROVE  BansKept'
<1>1. /\ phase' = "down" /\ write' = NoWrite /\ bans' = NoBans /\ files' = files
      /\ left' = IF phase = "config" THEN left ELSE {bans, settled}
      /\ settled' = settled /\ waits' = FALSE
  BY DEF Dies
<1>2. write'.file = "none" /\ write'.by = "nobody"
  BY <1>1 DEF NoWrite
<1>3. NoBans \in left' \/ files.bans = Torn \/ files.bans \in left'
  BY <1>1, OnlyNoBans
     DEF BansKept, TypesOfBans, WriteOfBans, FileAgrees, FileKeeps, Phases, BanMapThere
<1>4. left' \subseteq BanMaps /\ bans' \in BanMaps
  BY <1>1, NoBansIsMap DEF BansKept, TypesOfBans
<1> QED
  BY <1>1, <1>2, <1>3, <1>4
     DEF BansKept, TypesOfBans, BansSettled, WriteOfBans, FileAgrees, FileKeeps, Phases,
         BanMapThere

\* The next destructor's turn.
LEMMA Turns ==
  ASSUME BansKept, Destroyed(After(phase)), phase' = After(phase)
  PROVE  /\ phase' \in Phases
         /\ phase = "up" => phase' = "up" /\ bans' = bans /\ left' = left
         /\ phase = "rooms" => phase' = "zones" /\ bans' = bans /\ left' = left
         /\ phase = "zones" => phase' = "bans" /\ bans' = bans /\ left' = left
         /\ phase = "bans" => phase' = "config" /\ left' = {bans, settled}
         /\ phase \in {"config", "down"} => phase' = "down" /\ left' = left
         /\ bans' \in BanMaps /\ left' \subseteq BanMaps
BY NoBansIsMap DEF BansKept, TypesOfBans, Destroyed, After, Phases

LEMMA CloseFileKept ==
  ASSUME BansKept, CloseFile
  PROVE  BansKept'
<1>1. /\ write # NoWrite /\ write' = NoWrite
      /\ files' = [files EXCEPT ![write.file] = write.text]
      /\ phase' = After(phase) /\ Destroyed(After(phase))
      /\ UNCHANGED <<waits, settled>>
  BY DEF CloseFile
<1>2. write.file \in FileNames
  BY <1>1 DEF BansKept, WriteOfBans
<1>3. DOMAIN files = FileNames
  BY DEF BansKept, TypesOfBans
<1>4. /\ DOMAIN files' = FileNames /\ files' = [g \in FileNames |-> files'[g]]
      /\ write.file = "bans" => files'.bans = write.text
      /\ write.file # "bans" => files'.bans = files.bans
  BY <1>1, <1>2, <1>3 DEF FileNames
<1>5. write'.file = "none" /\ write'.by = "nobody"
  BY <1>1 DEF NoWrite
<1>6. write.file = "bans" => phase \in {"up", "bans"} /\ write.text = bans /\ settled = bans
  BY DEF BansKept, WriteOfBans
<1>7. TypesOfBans'
  BY <1>1, <1>2, <1>4, <1>6, Turns DEF BansKept, TypesOfBans
<1>8. WriteOfBans'
  BY <1>1, <1>5 DEF WriteOfBans
<1>9. BansSettled'
  BY <1>1, Turns DEF BansKept, TypesOfBans, BansSettled, Phases
<1>10. FileAgrees'
  BY <1>1, <1>2, <1>4, <1>5, <1>6, Turns
     DEF BansKept, TypesOfBans, FileAgrees, Phases, BanMapThere
<1>11. FileKeeps'
  BY <1>1, <1>2, <1>4, <1>5, <1>6, Turns, OnlyNoBans
     DEF BansKept, TypesOfBans, FileAgrees, FileKeeps, Phases, BanMapThere
<1> QED
  BY <1>7, <1>8, <1>9, <1>10, <1>11 DEF BansKept

LEMMA NothingToSaveKept ==
  ASSUME BansKept, NothingToSave
  PROVE  BansKept'
<1>1. /\ phase \in {"rooms", "zones", "bans", "config"}
      /\ phase = "bans" => SaveBans(bans) = Unwritten
      /\ phase' = After(phase) /\ Destroyed(After(phase))
      /\ files' = files /\ write' = write /\ UNCHANGED <<waits, settled>>
  BY DEF NothingToSave
<1>2. phase = "bans" => bans = NoBans
  BY <1>1, Maps, OnlyNoBans DEF BansKept, TypesOfBans
<1>3. phase = "bans" => write.file # "bans"
  BY <1>2, NoBansIsMap DEF BansKept, WriteOfBans
<1> QED
  BY <1>1, <1>2, <1>3, Turns
     DEF BansKept, TypesOfBans, BansSettled, WriteOfBans, FileAgrees, FileKeeps, Phases,
         BanMapThere

\* What the program reads when it starts is what it wrote, or nothing.
LEMMA StartKept ==
  ASSUME BansKept, Start
  PROVE  /\ BansKept'
         /\ bans' \in left \/ files.bans = Torn \/ NoBans \in left
<1>1. /\ phase = "down" /\ phase' = "up" /\ files' = files /\ write' = write /\ left' = left
      /\ settled' = bans' /\ waits' = waits
      /\ bans' = IF files.bans \notin {NoFile, Torn} THEN files.bans ELSE NoBans
  BY DEF Start, Complete, LoadBans
<1>2. write.file # "bans"
  BY <1>1 DEF BansKept, WriteOfBans
<1>3. bans' \in BanMaps /\ (DOMAIN bans' = {} \/ files.bans = bans')
  BY <1>1, NoBansIsMap DEF BansKept, TypesOfBans
<1>4. BansKept'
  BY <1>1, <1>2, <1>3
     DEF BansKept, TypesOfBans, BansSettled, WriteOfBans, FileAgrees, FileKeeps, Phases,
         BanMapThere
<1>5. NoFile \notin left /\ Torn \notin left
  BY BansAssumption DEF BansKept, TypesOfBans
<1>6. bans' \in left \/ files.bans = Torn \/ NoBans \in left
  BY <1>1, <1>5 DEF BansKept, FileKeeps
<1> QED
  BY <1>4, <1>6

\* A command changes the list; its file is another step.
LEMMA ChangedKept ==
  ASSUME BansKept, phase = "up", ~waits, write # NoWrite => write.by = "save thread",
         bans' \in BanMaps, UNCHANGED <<phase, files, write, left>>,
         \/ waits' = TRUE /\ DOMAIN bans' # {} /\ settled' = settled
         \/ waits' = FALSE /\ DOMAIN bans' = {} /\ settled' = bans'
  PROVE  BansKept'
<1>1. write.file # "bans"
  BY DEF BansKept, WriteOfBans, NoWrite
<1> QED
  BY <1>1 DEF BansKept, TypesOfBans, BansSettled, WriteOfBans, FileAgrees, FileKeeps

LEMMA BanKept ==
  ASSUME BansKept, NEW ip \in Ips, NEW reason \in Reasons, Ban(ip, reason)
  PROVE  BansKept'
<1>1. /\ phase = "up" /\ ~waits /\ (write # NoWrite => write.by = "save thread")
      /\ bans' = Banned(bans, ip, reason) /\ waits' = TRUE
      /\ UNCHANGED <<phase, files, write, settled, left>>
  BY DEF Ban, Changing, Idle
<1>2. bans' \in BanMaps /\ DOMAIN bans' # {}
  BY <1>1, BannedIsMap DEF BansKept, TypesOfBans
<1> QED
  BY <1>1, <1>2, ChangedKept

LEMMA RemoveBanKept ==
  ASSUME BansKept, NEW ip \in Ips, RemoveBan(ip)
  PROVE  BansKept'
<1>1. /\ phase = "up" /\ ~waits /\ (write # NoWrite => write.by = "save thread")
      /\ bans' = Lifted(bans, ip)
      /\ IF SaveBans(bans') = Unwritten THEN settled' = bans' /\ waits' = waits
         ELSE waits' = TRUE /\ settled' = settled
      /\ UNCHANGED <<phase, files, write, left>>
  BY DEF RemoveBan, Changing, Idle
<1>2. bans' \in BanMaps
  BY <1>1, LiftedIsMap DEF BansKept, TypesOfBans
<1>3. DOMAIN bans' = {} <=> SaveBans(bans') = Unwritten
  BY <1>2, Maps
<1>4. waits = FALSE
  BY <1>1 DEF BansKept, TypesOfBans
<1>5. CASE SaveBans(bans') = Unwritten
  BY <1>1, <1>2, <1>3, <1>4, <1>5, ChangedKept
<1>6. CASE SaveBans(bans') # Unwritten
  BY <1>1, <1>2, <1>3, <1>6, ChangedKept
<1> QED
  BY <1>5, <1>6

LEMMA WriteBansKept ==
  ASSUME BansKept, WriteBans
  PROVE  BansKept'
<1>1. /\ phase = "up" /\ waits /\ Open("bans", bans, SaveBans(bans), "process")
      /\ waits' = FALSE /\ settled' = bans /\ UNCHANGED <<phase, bans, left>>
  BY DEF WriteBans
<1>2. DOMAIN bans # {} /\ SaveBans(bans) = bans
  BY <1>1, Maps DEF BansKept, BansSettled, TypesOfBans
<1> QED
  BY <1>1, <1>2, OpenBansKept

LEMMA SaveBanMapKept ==
  ASSUME BansKept, SaveBanMap
  PROVE  BansKept'
<1>1. /\ phase = "bans" /\ SaveBans(bans) # Unwritten
      /\ Open("bans", bans, SaveBans(bans), "main")
      /\ settled' = bans /\ UNCHANGED <<phase, bans, waits, left>>
  BY DEF SaveBanMap
<1>2. DOMAIN bans # {} /\ SaveBans(bans) = bans
  BY <1>1 DEF SaveBans
<1>3. waits' = FALSE
  BY <1>1 DEF BansKept, BansSettled, TypesOfBans
<1> QED
  BY <1>1, <1>2, <1>3, OpenBansKept

LEMMA OtherFilesKept ==
  ASSUME BansKept, SaveRooms \/ SaveSettings \/ Autosave \/ Born \/ Save
  PROVE  BansKept'
<1>1. UNCHANGED <<phase, bans, waits, settled, left>>
  BY DEF SaveRooms, SaveSettings, Autosave, Born, Save
<1>2. CASE SaveRooms
  BY <1>1, <1>2, OpenOtherKept DEF SaveRooms, FileNames
<1>3. CASE SaveSettings
  BY <1>1, <1>3, OpenOtherKept DEF SaveSettings, FileNames
<1>4. CASE Autosave
  BY <1>1, <1>4, OpenOtherKept DEF Autosave, FileNames
<1>5. CASE Born
  <2>1. Open("player", player', PlayerSave(player'), "process")
    BY <1>5, Zenon DEF Born
  <2> QED
    BY <1>1, <2>1, OpenOtherKept DEF FileNames
<1>6. CASE Save
  BY <1>1, <1>6, OpenOtherKept DEF Save, FileNames
<1> QED
  BY <1>2, <1>3, <1>4, <1>5, <1>6

LEMMA EditKept ==
  ASSUME BansKept, Edit
  PROVE  BansKept'
<1>1. UNCHANGED <<phase, bans, write, waits, settled, left>>
  BY DEF Edit
<1>2. PICK doc \in Documents : files' = [files EXCEPT !.config = doc]
  BY DEF Edit
<1>3. /\ DOMAIN files' = FileNames /\ files' = [g \in FileNames |-> files'[g]]
      /\ files'.bans = files.bans
  BY <1>2 DEF BansKept, TypesOfBans, FileNames
<1> QED
  BY <1>1, <1>3
     DEF BansKept, TypesOfBans, BansSettled, WriteOfBans, FileAgrees, FileKeeps

\* Steps that see only players, things or the end.
Elsewhere ==
    \/ Stop \/ Login \/ Quit \/ Alias \/ Describe
    \/ CreateBook \/ CreateCoin \/ TakeWhole \/ TakePart

LEMMA ElsewhereKept ==
  ASSUME BansKept, Elsewhere
  PROVE  BansKept'
<1>1. CASE Stop
  <2>1. /\ phase = "up" /\ write = NoWrite /\ phase' = "rooms"
        /\ waits' = FALSE /\ UNCHANGED <<bans, files, write, settled, left>>
    BY <1>1 DEF Stop
  <2>2. write.file = "none"
    BY <2>1 DEF NoWrite
  <2> QED
    BY <2>1, <2>2
       DEF BansKept, TypesOfBans, BansSettled, WriteOfBans, FileAgrees, FileKeeps, Phases,
           BanMapThere
<1>2. CASE Login \/ Quit \/ Alias \/ Describe \/ TakeWhole \/ TakePart
  <2>1. UNCHANGED <<phase, bans, files, write, waits, settled, left>>
    BY <1>2 DEF Login, Quit, Alias, Describe, TakeWhole, TakePart, Changing, AtWork, Idle
  <2> QED
    BY <2>1, SameKept
<1>3. CASE CreateBook \/ CreateCoin
  <2>1. PICK t : CreateThing(t)
    BY <1>3 DEF CreateBook, CreateCoin
  <2>2. UNCHANGED <<phase, bans, files, write, waits, settled, left>>
    BY <2>1 DEF CreateThing
  <2> QED
    BY <2>2, SameKept
<1> QED
  BY <1>1, <1>2, <1>3 DEF Elsewhere

LEMMA EndingKept ==
  ASSUME BansKept, Crash \/ LoginFails \/ ReadBlank
  PROVE  BansKept'
<1>1. phase # "down" /\ Dies
  BY DEF Crash, LoginFails, ReadBlank, Arrives, Idle
<1> QED
  BY <1>1, DiesKept

LEMMA StepKept ==
  ASSUME BansKept, [Next]_vars
  PROVE  BansKept'
<1>1. CASE UNCHANGED vars
  BY <1>1, SameKept DEF vars
<1>2. CASE \E ip \in Ips, reason \in Reasons : Ban(ip, reason)
  BY <1>2, BanKept
<1>3. CASE \E ip \in Ips : RemoveBan(ip)
  BY <1>3, RemoveBanKept
<1>4. CASE Start
  BY <1>4, StartKept
<1>5. CASE SaveBanMap
  BY <1>5, SaveBanMapKept
<1>6. CASE NothingToSave
  BY <1>6, NothingToSaveKept
<1>7. CASE CloseFile
  BY <1>7, CloseFileKept
<1>8. CASE Edit
  BY <1>8, EditKept
<1>9. CASE SaveRooms \/ SaveSettings \/ Autosave \/ Born \/ Save
  BY <1>9, OtherFilesKept
<1>10. CASE Crash \/ LoginFails \/ ReadBlank
  BY <1>10, EndingKept
<1>11. CASE Elsewhere
  BY <1>11, ElsewhereKept
<1>12. CASE WriteBans
  BY <1>12, WriteBansKept
<1> QED
  BY <1>1, <1>2, <1>3, <1>4, <1>5, <1>6, <1>7, <1>8, <1>9, <1>10, <1>11, <1>12
     DEF Next, Serving, Elsewhere

-----------------------------------------------------------------------------

\* In memory, in the file or between the two: while the program runs the bans
\* are in one of these, and after it whole or cut short.
THEOREM BansKeptAlways == Spec => []BansKept
BY InitKept, StepKept, PTL DEF Spec

\* Only a start leads from "down" to "up".
LEMMA OnlyStarts ==
  ASSUME BansKept, [Next]_vars, phase = "down", phase' = "up"
  PROVE  Start
<1>1. ~ UNCHANGED vars
  BY DEF vars
<1>2. ~ CloseFile
  BY DEF CloseFile, After
<1>3. ~ (Stop \/ SaveRooms \/ SaveBanMap \/ SaveSettings \/ NothingToSave \/ Crash \/ Edit)
  BY DEF Stop, SaveRooms, SaveBanMap, SaveSettings, NothingToSave, Crash, Edit
<1>4. ~ Autosave
  BY DEF Autosave
<1>5. ~ Serving
  BY DEF Serving, Ban, RemoveBan, WriteBans, Born, Login, LoginFails, Quit, Save, Alias, Describe,
         ReadBlank, CreateBook, CreateCoin, CreateThing, TakeWhole, TakePart,
         Arrives, AtWork, Changing, Idle
<1> QED
  BY <1>1, <1>2, <1>3, <1>4, <1>5 DEF Next

\* The bans are there again after a stop, a crash or a failed login: those the
\* last run had, or had before a command it did not get to write, unless it died
\* while it wrote them or there were none.
THEOREM BansAreKept == Spec => BansSurvive
<1>1. BansKept /\ [Next]_vars
        => [phase = "down" /\ phase' = "up" =>
              bans' \in left \/ files.bans = Torn \/ NoBans \in left]_vars
  BY OnlyStarts, StartKept
<1> QED
  BY <1>1, BansKeptAlways, PTL DEF Spec, BansSurvive
-----------------------------------------------------------------------------
(* The settings.  Nothing changes them while the program runs, so what is  *)
(* written is what was read from the file, which nobody changes meanwhile. *)

Loaded(text) == IF text \notin {NoFile, Torn} THEN LoadConfig(text) ELSE Blank

\* An administrator's document, or one without a greeting, which is not read.
Source(text) ==
    text \in Documents \cup {ShippedConfig, NoFile, Torn} \/ text.Greeting = Absent

SettingsKept ==
    /\ DOMAIN files = FileNames
    /\ write.file \in FileNames \cup {"none"}
    /\ Source(files.config)
    /\ phase # "down" /\ write.file # "config" => config = Loaded(files.config)
    /\ write.file = "config" =>
          /\ phase = "config"
          /\ Source(write.before) /\ config = Loaded(write.before)
          /\ write.text = SaveConfig(config) /\ write.text # Unwritten

\* What is not empty after the settings were read was read to the end, but for
\* the last section.
LEMMA BlankIsUnwritten == SaveConfig(Blank) = Unwritten
<1>1. Blank["Strings"] = NoKeys /\ DOMAIN NoKeys = {}
  BY NoBansIsMap DEF Blank, Kinds, NoBans
<1> QED
  BY <1>1 DEF SaveConfig, Kinds

LEMMA ReadToTheEnd ==
  ASSUME NEW doc, SaveConfig(LoadConfig(doc)) # Unwritten
  PROVE  /\ doc.Greeting \notin {Absent, Unreadable}
         /\ \A kind \in Kinds :
               /\ LoadConfig(doc)[kind] = ReadInto(Already(doc, kind), doc[kind])
               /\ kind # "Booleans" => Ok(Already(doc, kind), doc[kind])
<1> DEFINE greeting == [k \in {"Greeting"} |-> doc.Greeting]
           ints == Ok(greeting, doc.Strings)
           floats == ints /\ Ok(NoKeys, doc.Integers)
           bools == floats /\ Ok(NoKeys, doc.Floats)
           loaded == [Strings  |-> ReadInto(greeting, doc.Strings),
                      Integers |-> IF ints THEN ReadInto(NoKeys, doc.Integers) ELSE NoKeys,
                      Floats   |-> IF floats THEN ReadInto(NoKeys, doc.Floats) ELSE NoKeys,
                      Booleans |-> IF bools THEN ReadInto(NoKeys, doc.Booleans) ELSE NoKeys]
<1>1. \A kind \in Kinds : DOMAIN LoadConfig(doc)[kind] # {}
  BY DEF SaveConfig
<1>2. doc.Greeting \notin {Absent, Unreadable} /\ LoadConfig(doc) = loaded
  BY BlankIsUnwritten DEF LoadConfig
<1>3. DOMAIN NoKeys = {}
  BY NoBansIsMap DEF NoBans
<1> HIDE DEF ints, floats, bools, greeting
<1>4. /\ loaded["Strings"] = ReadInto(greeting, doc.Strings)
      /\ loaded["Integers"] = IF ints THEN ReadInto(NoKeys, doc.Integers) ELSE NoKeys
      /\ loaded["Floats"] = IF floats THEN ReadInto(NoKeys, doc.Floats) ELSE NoKeys
      /\ loaded["Booleans"] = IF bools THEN ReadInto(NoKeys, doc.Booleans) ELSE NoKeys
  OBVIOUS
<1> HIDE DEF loaded
<1>5. bools /\ floats /\ ints
  BY <1>1, <1>2, <1>3, <1>4 DEF Kinds, bools, floats
<1> QED
  BY <1>1, <1>2, <1>4, <1>5 DEF Kinds, bools, floats, ints, greeting, Already

\* A section that does not stop the reading is read whole.
LEMMA WholeSection ==
  ASSUME NEW have, NEW section, IsMap(section), DOMAIN section \subseteq Key,
         Stops(have, section) = {}
  PROVE  /\ ReadInto(have, section) = Joined(have, Restricted(section, Key))
         /\ \A x \in DOMAIN section :
               /\ x \in DOMAIN ReadInto(have, section)
               /\ x \notin DOMAIN have /\ ReadInto(have, section)[x] = section[x]
               /\ section[x] # Unreadable
<1>1. {k \in Key : \A s \in Stops(have, section) : Before(k, s)} = Key
  OBVIOUS
<1>2. ReadInto(have, section) = Joined(have, Restricted(section, Key))
  BY <1>1 DEF ReadInto
<1> QED
  BY <1>2 DEF Joined, Restricted, Stops

LEMMA NothingCut ==
  ASSUME NEW doc, Source(doc), doc \notin {NoFile, Torn},
         SaveConfig(LoadConfig(doc)) # Unwritten, NEW kind \in Kinds,
         kind = "Booleans" /\ IsMap(doc[kind]) => Readable(doc[kind]) = doc[kind]
  PROVE  LET new == Readable(SaveConfig(LoadConfig(doc))[kind])
         IN  \A x \in DOMAIN Readable(doc[kind]) :
                x \in DOMAIN new /\ new[x] = Readable(doc[kind])[x]
<1> DEFINE have == Already(doc, kind)
           section == doc[kind]
           loaded == LoadConfig(doc)
<1>1. /\ doc.Greeting # Absent
      /\ loaded[kind] = ReadInto(have, section)
      /\ kind # "Booleans" => Ok(have, section)
  BY ReadToTheEnd
<1>2. doc \in Documents \cup {ShippedConfig}
  BY <1>1 DEF Source
<1>3. SaveConfig(loaded)[kind] = loaded[kind]
  <2>1. SaveConfig(loaded) =
          [Greeting |-> Absent, Strings |-> loaded["Strings"], Integers |-> loaded["Integers"],
           Floats |-> loaded["Floats"], Booleans |-> loaded["Booleans"]]
    BY DEF SaveConfig
  <2> QED
    BY <2>1 DEF Kinds
<1>4. DOMAIN NoKeys = {}
  BY NoBansIsMap DEF NoBans
<1>5. CASE ~IsMap(section)
  BY <1>4, <1>5 DEF Readable
<1>6. CASE IsMap(section)
  <2>1. DOMAIN section \subseteq Key /\ IsMap(Joined(have, section))
    BY <1>2, <1>6, DocumentsAssumption
  <2>2. Stops(have, section) = {}
    <3>1. CASE kind # "Booleans"
      BY <1>1, <1>6, <3>1 DEF Ok
    <3>2. CASE kind = "Booleans"
      <4>1. have = NoKeys
        BY <3>2 DEF Already
      <4>2. Readable(section) = section
        BY <1>6, <3>2
      <4>3. DOMAIN section = DOMAIN section \cap {x \in DOMAIN section : section[x] # Unreadable}
        BY <1>6, <4>2 DEF Readable, Restricted
      <4> QED
        BY <1>4, <4>1, <4>3 DEF Stops
    <3> QED
      BY <3>1, <3>2
  <2>3. /\ loaded[kind] = Joined(have, Restricted(section, Key))
        /\ \A x \in DOMAIN section :
              /\ x \in DOMAIN loaded[kind] /\ loaded[kind][x] = section[x]
              /\ section[x] # Unreadable
    BY <1>1, <1>6, <2>1, <2>2, WholeSection
  <2>4. Joined(have, Restricted(section, Key)) = Joined(have, section)
    BY <2>1 DEF Joined, Restricted
  <2>5. IsMap(loaded[kind])
    BY <2>1, <2>3, <2>4
  <2> HIDE DEF have, section, loaded
  <2>6. \A x \in DOMAIN section :
           /\ x \in DOMAIN Readable(loaded[kind])
           /\ Readable(loaded[kind])[x] = section[x]
    BY <2>3, <2>5 DEF Readable, Restricted
  <2>7. \A x \in DOMAIN Readable(section) :
           x \in DOMAIN section /\ Readable(section)[x] = section[x]
    BY <1>6 DEF Readable, Restricted
  <2> QED
    BY <1>3, <2>6, <2>7 DEF section, loaded
<1> QED
  BY <1>5, <1>6

LEMMA SettingsInit == Init => SettingsKept
<1> SUFFICES ASSUME Init PROVE SettingsKept
  OBVIOUS
<1>1. DOMAIN files = FileNames /\ files.config = ShippedConfig
  BY DEF Init, FileNames
<1>2. write.file = "none" /\ phase = "down"
  BY DEF Init, NoWrite
<1> QED
  BY <1>1, <1>2 DEF SettingsKept, Source

\* Steps that touch neither the settings nor their file nor a write of it.
LEMMA SettingsSame ==
  ASSUME SettingsKept, UNCHANGED <<config, files, write>>,
         phase = "down" <=> phase' = "down", phase = "config" => phase' = "config"
  PROVE  SettingsKept'
BY DEF SettingsKept, Source, Loaded

\* Another file is opened.
LEMMA SettingsOther ==
  ASSUME SettingsKept, NEW f \in FileNames \ {"config"}, NEW of, NEW text, NEW by,
         Open(f, of, text, by), UNCHANGED <<phase, config>>
  PROVE  SettingsKept'
<1>1. write = NoWrite /\ write.file = "none"
  BY DEF Open, NoWrite
<1>2. files' = [files EXCEPT ![f] = Torn] /\ DOMAIN files = FileNames
  BY DEF Open, SettingsKept
<1>3. DOMAIN files' = FileNames /\ files'.config = files.config
  BY <1>2 DEF FileNames
<1>4. write'.file = f
  BY DEF Open
<1> QED
  BY <1>1, <1>3, <1>4 DEF SettingsKept, Source, Loaded

LEMMA SettingsOpened ==
  ASSUME SettingsKept, SaveSettings
  PROVE  SettingsKept'
<1>1. /\ phase = "config" /\ SaveConfig(config) # Unwritten
      /\ UNCHANGED <<phase, config>>
      /\ write = NoWrite
      /\ files' = [files EXCEPT !["config"] = Torn]
      /\ write' = [file |-> "config", of |-> config, text |-> SaveConfig(config),
                   before |-> files["config"], by |-> "main"]
  BY DEF SaveSettings, Open
<1>2. write.file = "none"
  BY <1>1 DEF NoWrite
<1>3. DOMAIN files' = FileNames /\ files'.config = Torn
  BY <1>1 DEF SettingsKept, FileNames
<1>4. /\ write'.file = "config" /\ write'.text = SaveConfig(config)
      /\ write'.before = files.config
  BY <1>1
<1> QED
  BY <1>1, <1>2, <1>3, <1>4 DEF SettingsKept, Source, Loaded, FileNames

\* What is written has no greeting.
LEMMA SettingsClosed ==
  ASSUME SettingsKept, CloseFile
  PROVE  SettingsKept'
<1>1. /\ write # NoWrite /\ write' = NoWrite
      /\ files' = [files EXCEPT ![write.file] = write.text]
      /\ phase' = After(phase) /\ Destroyed(After(phase))
  BY DEF CloseFile
<1>2. DOMAIN files = FileNames
  BY DEF SettingsKept
<1>3. /\ DOMAIN files' = FileNames
      /\ write.file = "config" => files'.config = write.text
      /\ write.file # "config" => files'.config = files.config
  BY <1>1, <1>2 DEF FileNames
<1>4. write'.file = "none"
  BY <1>1 DEF NoWrite
<1>5. write.file = "config" => phase' = "down"
  BY <1>1 DEF SettingsKept, After
<1>6. phase' # "down" => phase # "down" /\ config' = config
  BY <1>1 DEF After, Destroyed
<1>7. write.file = "config" => write.text.Greeting = Absent
  BY DEF SettingsKept, SaveConfig
<1> QED
  BY <1>3, <1>4, <1>5, <1>6, <1>7 DEF SettingsKept, Source, Loaded, FileNames

LEMMA SettingsOthers ==
  ASSUME SettingsKept, Start \/ Edit \/ NothingToSave \/ Dies
  PROVE  SettingsKept'
<1>1. CASE Start
  <2>1. /\ phase = "down" /\ phase' = "up" /\ UNCHANGED <<files, write>>
        /\ config' = Loaded(files.config)
    BY <1>1 DEF Start, Complete, Loaded
  <2> QED
    BY <2>1 DEF SettingsKept, Source, Loaded
<1>2. CASE Edit
  <2>1. phase = "down" /\ UNCHANGED <<phase, write>>
    BY <1>2 DEF Edit
  <2>2. PICK doc \in Documents : files' = [files EXCEPT !.config = doc]
    BY <1>2 DEF Edit
  <2>3. DOMAIN files' = FileNames /\ files'.config = doc
    BY <2>2 DEF SettingsKept, FileNames
  <2> QED
    BY <2>1, <2>3 DEF SettingsKept, Source
<1>3. CASE NothingToSave
  <2>1. /\ phase' = After(phase) /\ Destroyed(After(phase)) /\ UNCHANGED <<files, write>>
        /\ phase = "config" => SaveConfig(config) = Unwritten
    BY <1>3 DEF NothingToSave
  <2>2. phase' # "down" => phase # "down" /\ config' = config
    BY <2>1 DEF After, Destroyed
  <2>3. write.file # "config"
    <3>1. SUFFICES ASSUME write.file = "config" PROVE FALSE
      OBVIOUS
    <3> QED
      BY <2>1, <3>1 DEF SettingsKept
  <2> QED
    BY <2>1, <2>2, <2>3 DEF SettingsKept, Source, Loaded
<1>4. CASE Dies
  <2>1. phase' = "down" /\ write' = NoWrite /\ files' = files
    BY <1>4 DEF Dies
  <2>2. write'.file = "none"
    BY <2>1 DEF NoWrite
  <2> QED
    BY <2>1, <2>2 DEF SettingsKept, Source
<1> QED
  BY <1>1, <1>2, <1>3, <1>4

\* Steps that open another file, or none.
LEMMA SettingsElsewhere ==
  ASSUME SettingsKept,
         \/ SaveRooms \/ SaveBanMap \/ Autosave \/ Born \/ Save \/ Elsewhere
         \/ \E ip \in Ips, reason \in Reasons : Ban(ip, reason)
         \/ \E ip \in Ips : RemoveBan(ip)
         \/ WriteBans
  PROVE  SettingsKept'
<1>1. CASE SaveRooms
  BY <1>1, SettingsOther DEF SaveRooms, FileNames
<1>2. CASE SaveBanMap
  BY <1>2, SettingsOther DEF SaveBanMap, FileNames
<1>3. CASE Autosave
  BY <1>3, SettingsOther DEF Autosave, FileNames
<1>4. CASE Born
  <2>1. /\ Open("player", player', PlayerSave(player'), "process")
        /\ UNCHANGED <<phase, config>>
    BY <1>4, Zenon DEF Born
  <2> QED
    BY <2>1, SettingsOther DEF FileNames
<1>5. CASE Save
  BY <1>5, SettingsOther DEF Save, FileNames
<1>6. CASE (\E ip \in Ips, reason \in Reasons : Ban(ip, reason)) \/ (\E ip \in Ips : RemoveBan(ip))
  <2>1. UNCHANGED <<phase, config, files, write>>
    BY <1>6 DEF Ban, RemoveBan
  <2> QED
    BY <2>1, SettingsSame
<1>7. CASE WriteBans
  BY <1>7, SettingsOther DEF WriteBans, FileNames
<1>8. CASE Elsewhere
  <2>1. CASE CreateBook \/ CreateCoin
    <3>1. PICK t : CreateThing(t)
      BY <2>1 DEF CreateBook, CreateCoin
    <3> QED
      BY <3>1, SettingsSame DEF CreateThing
  <2>2. CASE Stop
    BY <2>2, SettingsSame DEF Stop
  <2>3. CASE Login \/ Quit \/ Alias \/ Describe \/ TakeWhole \/ TakePart
    <3>1. UNCHANGED <<phase, config, files, write>>
      BY <2>3 DEF Login, Quit, Alias, Describe, TakeWhole, TakePart
    <3> QED
      BY <3>1, SettingsSame
  <2> QED
    BY <1>8, <2>1, <2>2, <2>3 DEF Elsewhere
<1> QED
  BY <1>1, <1>2, <1>3, <1>4, <1>5, <1>6, <1>7, <1>8

LEMMA SettingsStep ==
  ASSUME SettingsKept, [Next]_vars
  PROVE  SettingsKept'
<1>1. CASE UNCHANGED vars
  BY <1>1, SettingsSame DEF vars
<1>2. CASE SaveSettings
  BY <1>2, SettingsOpened
<1>3. CASE CloseFile
  BY <1>3, SettingsClosed
<1>4. CASE Start \/ Edit \/ NothingToSave
  BY <1>4, SettingsOthers
<1>5. CASE Crash \/ LoginFails \/ ReadBlank
  BY <1>5, SettingsOthers DEF Crash, LoginFails, ReadBlank
<1>6. CASE \/ SaveRooms \/ SaveBanMap \/ Autosave \/ Born \/ Save \/ Elsewhere
           \/ \E ip \in Ips, reason \in Reasons : Ban(ip, reason)
           \/ \E ip \in Ips : RemoveBan(ip)
           \/ WriteBans
  BY <1>6, SettingsElsewhere
<1> QED
  BY <1>1, <1>2, <1>3, <1>4, <1>5, <1>6 DEF Next, Serving, Elsewhere

\* What is in memory is what the file says, or said before it was opened.
THEOREM SettingsKeptAlways == Spec => []SettingsKept
BY SettingsInit, SettingsStep, PTL DEF Spec

\* Only the end of a write changes the settings' file while they are saved.
LEMMA OnlyTheWrite ==
  ASSUME SettingsKept, [Next]_vars,
         phase = "config", files'.config # files.config, write # NoWrite
  PROVE  /\ write.file = "config" /\ files'.config = write.text
         /\ write.text = SaveConfig(config) /\ write.text # Unwritten
         /\ Source(write.before) /\ config = Loaded(write.before)
<1>1. files' # files
  OBVIOUS
<1>2. ~ \E f, of, text, by : Open(f, of, text, by)
  BY DEF Open
<1>3. ~ (SaveRooms \/ SaveBanMap \/ SaveSettings \/ Autosave \/ Save)
  BY <1>2 DEF SaveRooms, SaveBanMap, SaveSettings, Autosave, Save
<1>4. ~ (Start \/ Edit \/ Stop \/ NothingToSave)
  BY <1>1 DEF Start, Edit, Stop, NothingToSave
<1>5. ~ (Crash \/ UNCHANGED vars)
  BY <1>1 DEF Crash, Dies, vars
<1>6. ~ Serving
  BY DEF Serving, Ban, RemoveBan, WriteBans, Born, Login, LoginFails, Quit, Save, Alias, Describe,
         ReadBlank, CreateBook, CreateCoin, CreateThing, TakeWhole, TakePart,
         Arrives, AtWork, Changing, Idle
<1>7. CloseFile
  BY <1>3, <1>4, <1>5, <1>6 DEF Next
<1>8. files' = [files EXCEPT ![write.file] = write.text]
  BY <1>7 DEF CloseFile
<1>9. write.file = "config" /\ files'.config = write.text
  BY <1>8 DEF SettingsKept, FileNames
<1> QED
  BY <1>9 DEF SettingsKept

\* Saving the settings keeps what an administrator wrote, whatever mistakes the
\* documents have and wherever the program died, but for one among the last.
THEOREM SettingsAreKept == Spec => NeverCutDown
<1> DEFINE Kept ==
      phase = "config" /\ files'.config # files.config /\ write # NoWrite =>
          \A k \in Kinds :
             LET old == Readable(write.before[k])
                 new == Readable(files'.config[k])
             IN  (k = "Booleans" /\ IsMap(write.before[k]) => old = write.before[k])
                 => \A x \in DOMAIN old : x \in DOMAIN new /\ new[x] = old[x]
<1>1. ASSUME SettingsKept, [Next]_vars PROVE Kept
  <2>1. SUFFICES ASSUME phase = "config", files'.config # files.config, write # NoWrite,
                        NEW k \in Kinds,
                        k = "Booleans" /\ IsMap(write.before[k])
                          => Readable(write.before[k]) = write.before[k]
                 PROVE  LET old == Readable(write.before[k])
                            new == Readable(files'.config[k])
                        IN  \A x \in DOMAIN old : x \in DOMAIN new /\ new[x] = old[x]
    OBVIOUS
  <2>2. /\ files'.config = SaveConfig(config) /\ SaveConfig(config) # Unwritten
        /\ Source(write.before) /\ config = Loaded(write.before)
    BY <1>1, <2>1, OnlyTheWrite
  <2>3. write.before \notin {NoFile, Torn} /\ config = LoadConfig(write.before)
    BY <2>2, BlankIsUnwritten DEF Loaded
  <2> QED
    BY <2>1, <2>2, <2>3, NothingCut
<1>2. SettingsKept /\ [Next]_vars => [Kept]_vars
  BY <1>1
<1> QED
  BY <1>2, SettingsKeptAlways, PTL DEF Spec, NeverCutDown

-----------------------------------------------------------------------------
(* Nicknames and conditions.                                               *)

Nicknamed(b, s) == FoldLeft(AddNickname, b, s)

LEMMA NicknameType ==
  ASSUME NEW S, NEW v \in Seq(S), NEW x \in S
  PROVE  AddNickname(v, x) \in Seq(S)
BY DEF AddNickname

\* Physical::addNickname, one nickname after the other.
IsNicknamed(S, b, t, r) ==
  /\ r \in [0 .. Len(t) -> Seq(S)]
  /\ r[0] = b
  /\ \A k \in 1 .. Len(t) : r[k] = AddNickname(r[k - 1], t[k])
  /\ Nicknamed(b, t) = r[Len(t)]

LEMMA NicknamedBySteps ==
  ASSUME NEW S, NEW b \in Seq(S), NEW t \in Seq(S)
  PROVE  \E r : IsNicknamed(S, b, t, r)
<1> DEFINE n == Len(t)
           V == Seq(S)
           base == b
           step == [i \in 1 .. n |-> [v \in V |-> AddNickname(v, t[i])]]
           Folds(g) == g = [s \in SUBSET DOMAIN t |->
                              IF s = {} THEN base
                              ELSE AddNickname(g[s \ {Max(s)}], t[Max(s)])]
           iter == CHOOSE g : Folds(g)
<1>1. n \in Nat /\ DOMAIN t = 1 .. n
  OBVIOUS
<1>2. base \in V
  OBVIOUS
<1>3. \A i \in 1 .. n : \A v \in V : AddNickname(v, t[i]) \in V
  BY NicknameType
<1>4. step \in [1 .. n -> [V -> V]]
  BY <1>3
<1>5. /\ \A s \in SUBSET (1 .. n) : s # {} => Max(s) \in 1 .. n
      /\ \A i \in 1 .. n, v \in V : step[i][v] = AddNickname(v, t[i])
  <2>1. \A s \in SUBSET (1 .. n) : s # {} => Max(s) \in s
    BY <1>1, MaxOf
  <2> QED
    BY <1>1, <2>1
<1>6. Nicknamed(b, t) = iter[DOMAIN t]
  BY DEF Nicknamed, FoldLeft, MapThenFoldSet
<1> HIDE DEF n, V, base, step
<1>7. PICK g \in [SUBSET (1 .. n) -> V] : AtLast(n, base, step, g)
  BY <1>1, <1>2, <1>4, IteratesExists
<1>8. Folds(g)
  <2>1. ASSUME NEW s \in SUBSET (1 .. n), s # {}
        PROVE  step[Max(s)][g[s \ {Max(s)}]]
                 = AddNickname(g[s \ {Max(s)}], t[Max(s)])
    <3>1. Max(s) \in 1 .. n /\ g[s \ {Max(s)}] \in V
      BY <1>5, <2>1
    <3> QED
      BY <1>1, <1>5, <3>1
  <2> DEFINE there(s) == IF s = {} THEN base ELSE AddNickname(g[s \ {Max(s)}], t[Max(s)])
  <2>2. \A s \in SUBSET (1 .. n) : g[s] = there(s)
    BY <1>7, <2>1 DEF AtLast
  <2> HIDE DEF there
  <2>3. g = [s \in SUBSET (1 .. n) |-> there(s)]
    BY <2>2
  <2> QED
    BY <1>1, <2>3 DEF there
<1>9. Folds(iter)
  BY <1>8
<1> HIDE DEF iter
<1>10. Iterates(n, V, base, step, iter)
  <2>1. iter[{}] = base
    BY <1>1, <1>9
  <2>2. ASSUME NEW s \in SUBSET (1 .. n), s # {}, iter[s \ {Max(s)}] \in V
        PROVE  iter[s] = step[Max(s)][iter[s \ {Max(s)}]]
    <3>1. iter[s] = AddNickname(iter[s \ {Max(s)}], t[Max(s)])
      BY <1>1, <1>9, <2>2
    <3> QED
      BY <1>1, <1>5, <2>2, <3>1
  <2> QED
    BY <2>1, <2>2 DEF Iterates
<1>11. PICK r \in [0 .. n -> V] : Course(n, base, step, r) /\ r[n] = iter[1 .. n]
  <2>1. Leads(n, V, base, step, iter[1 .. n])
    BY <1>1, <1>2, <1>4, <1>10, Coursed
  <2> QED
    BY <2>1 DEF Leads
<1>12. \A k \in 1 .. n : r[k - 1] \in V /\ k - 1 \in 0 .. n
  BY <1>1
<1>13. \A k \in 1 .. n : r[k] = AddNickname(r[k - 1], t[k])
  BY <1>5, <1>11, <1>12 DEF Course
<1>14. r[0] = base /\ Nicknamed(b, t) = r[n]
  BY <1>1, <1>6, <1>11 DEF Course
<1> HIDE DEF Folds
<1> USE DEF n, V, base
<1> QED
  BY <1>11, <1>13, <1>14 DEF IsNicknamed

LEMMA NicknamesKept ==
  ASSUME NEW S, NEW s \in Seq(S), IsInjective(s), NEW b, b = <<>> \/ (s # <<>> /\ b = <<s[1]>>)
  PROVE  Nicknamed(b, s) = s
<1> DEFINE n == Len(s)
           upto(k) == SubSeq(s, 1, IF k < Len(b) THEN Len(b) ELSE k)
<1>1. /\ n \in Nat /\ DOMAIN s = 1 .. n /\ b \in Seq(S) /\ Len(b) \in 0 .. n
      /\ \A i, j \in 1 .. n : s[i] = s[j] => i = j
  <2>1. n \in Nat /\ DOMAIN s = 1 .. n
    OBVIOUS
  <2>2. CASE b = <<>>
    BY <2>1, <2>2 DEF IsInjective
  <2>3. CASE s # <<>> /\ b = <<s[1]>>
    <3>1. n > 0 /\ s[1] \in S
      BY <2>3
    <3> QED
      BY <2>1, <2>3, <3>1 DEF IsInjective
  <2> QED
    BY <2>2, <2>3
<1>2. PICK r : IsNicknamed(S, b, s, r)
  BY <1>1, NicknamedBySteps
<1>3. b = SubSeq(s, 1, Len(b))
  BY <1>1
<1>4. r[0] = upto(0)
  BY <1>1, <1>2, <1>3 DEF IsNicknamed
<1>5. ASSUME NEW k \in 1 .. n, r[k - 1] = upto(k - 1)
      PROVE  r[k] = upto(k)
  <2>1. r[k] = AddNickname(r[k - 1], s[k]) /\ s[k] \in S
    BY <1>1, <1>2 DEF IsNicknamed
  <2>2. CASE k <= Len(b)
    <3>1. k = 1 /\ Len(b) = 1 /\ b = <<s[1]>>
      <4>1. b # <<>>
        BY <2>2
      <4>2. b = <<s[1]>>
        BY <4>1
      <4> QED
        BY <2>2, <4>2
    <3>2. r[k - 1] = b /\ upto(k) = b
      <4>1. k - 1 = 0 /\ upto(k) = SubSeq(s, 1, Len(b))
        BY <3>1
      <4> QED
        BY <1>2, <1>3, <4>1 DEF IsNicknamed
    <3>3. Contains(b, s[k])
      BY <3>1 DEF Contains
    <3> QED
      BY <2>1, <3>2, <3>3 DEF AddNickname
  <2>3. CASE k > Len(b)
    <3>1. r[k - 1] = SubSeq(s, 1, k - 1) /\ upto(k) = SubSeq(s, 1, k)
      BY <1>1, <1>5, <2>3
    <3>2. ~Contains(SubSeq(s, 1, k - 1), s[k])
      BY <1>1 DEF Contains
    <3>3. Append(SubSeq(s, 1, k - 1), s[k]) = SubSeq(s, 1, k)
      BY <1>1
    <3> QED
      BY <2>1, <3>1, <3>2, <3>3 DEF AddNickname
  <2> QED
    BY <1>1, <2>2, <2>3
<1> DEFINE P == {k \in 0 .. n : r[k] = upto(k)}
<1>6. 0 \in P /\ \A k \in 1 .. n : k - 1 \in P => k \in P
  BY <1>1, <1>4, <1>5
<1>7. n \in P
  <2> HIDE DEF P, n
  <2>1. 0 .. n \subseteq P
    BY <1>1, <1>6, Upward
  <2> QED
    BY <1>1, <2>1
<1>8. upto(n) = s
  BY <1>1
<1> QED
  BY <1>2, <1>7, <1>8 DEF IsNicknamed

LEMMA NullEnds ==
  ASSUME NEW S, Null \notin S, NEW s \in Seq(S)
  PROVE  UntilNull(SeqOrNull(s)) = s
<1> DEFINE t == SeqOrNull(s)
           nulls == {i \in 1 .. Len(t) : t[i] = Null}
<1>1. CASE s = <<>>
  <2>1. t = <<Null>>
    BY <1>1 DEF SeqOrNull
  <2>2. nulls = {1} /\ Contains(t, Null)
    BY <2>1 DEF Contains
  <2>3. Min(nulls) = 1
    BY <2>2 DEF Min
  <2>4. UntilNull(t) = SubSeq(t, 1, 1 - 1)
    BY <2>2, <2>3 DEF UntilNull, SelectInSeq
  <2> QED
    BY <1>1, <2>1, <2>4
<1>2. CASE s # <<>>
  <2>1. t = s
    BY <1>2 DEF SeqOrNull
  <2>2. ~Contains(s, Null)
    BY DEF Contains
  <2> QED
    BY <2>1, <2>2 DEF UntilNull
<1> QED
  BY <1>1, <1>2

LEMMA PhysicalKept ==
  ASSUME NEW p, NEW new, p.nicknames \in Distinct, p.conditions \in Seq(Text),
         new.conditions = <<>>,
         new.nicknames = <<>> \/ (p.nicknames # <<>> /\ new.nicknames = <<p.nicknames[1]>>)
  PROVE  PhysicalLoad(new, PhysicalSave(p))
           = [new EXCEPT !.nicknames = p.nicknames, !.conditions = p.conditions]
<1> DEFINE node == PhysicalSave(p)
<1>1. node.nicknames = SeqOrNull(p.nicknames) /\ node.conditions = SeqOrNull(p.conditions)
  BY DEF PhysicalSave
<1>2. UntilNull(node.nicknames) = p.nicknames /\ UntilNull(node.conditions) = p.conditions
  BY <1>1, NullEnds, NullAssumption DEF Distinct
<1>3. Nicknamed(new.nicknames, p.nicknames) = p.nicknames
  BY NicknamesKept DEF Distinct
<1>4. new.conditions \o p.conditions = p.conditions
  OBVIOUS
<1> HIDE DEF node
<1>5. PhysicalLoad(new, node)
        = [new EXCEPT !.nicknames = Nicknamed(@, UntilNull(node.nicknames)),
                      !.conditions = @ \o UntilNull(node.conditions)]
  BY DEF PhysicalLoad, Nicknamed
<1> QED
  BY <1>2, <1>3, <1>4, <1>5 DEF node

-----------------------------------------------------------------------------
(* Books and milestones.                                                   *)

LEMMA Lines ==
  ASSUME NEW t \in Text
  PROVE  LineEnded(t) \in Text
BY EndedAssumption DEF LineEnded

LEMMA LinesFit ==
  ASSUME NEW pages \in Seq(Text)
  PROVE  [i \in DOMAIN pages |-> LineEnded(pages[i])] \in Seq(Text)
<1>1. /\ DOMAIN pages = 1 .. Len(pages) /\ Len(pages) \in Nat
      /\ \A i \in DOMAIN pages : LineEnded(pages[i]) \in Text
  BY Lines
<1> QED
  BY <1>1

LEMMA PagesFit ==
  ASSUME NEW pages \in Seq(Text)
  PROVE  PagesBack(pages) \in Seq(Text)
<1>1. <<"~">> \in Seq(Text)
  <2>1. "~" \in Text
    BY DEF Text
  <2> QED
    BY <2>1, One, Zenon
<1> QED
  BY <1>1, LinesFit DEF PagesBack

LEMMA PagesKept ==
  ASSUME NEW pages \in Seq(Text), NEW new, new.pages = <<>>
  PROVE  ReadableLoad(new, ReadableSave(pages)) = [new EXCEPT !.pages = PagesBack(pages)]
<1> DEFINE ended == [i \in DOMAIN pages |-> LineEnded(pages[i])]
           node == ReadableSave(pages)
           read == [i \in DOMAIN node |-> AsText(node[i])]
<1>1. read = PagesBack(pages)
  <2>1. CASE pages = <<>>
    <3>1. ended = <<>>
      BY <2>1
    <3>2. node = <<Null>> /\ DOMAIN node = {1} /\ node[1] = Null
      BY <3>1 DEF ReadableSave, SeqOrNull
    <3>3. AsText(Null) = "~"
      BY DEF AsText
    <3> HIDE DEF node, ended
    <3>4. read = [i \in {1} |-> "~"]
      BY <3>2, <3>3
    <3>5. read = <<"~">>
      BY <3>4
    <3> QED
      BY <2>1, <3>5 DEF PagesBack
  <2>2. CASE pages # <<>>
    <3>1. DOMAIN pages = 1 .. Len(pages) /\ Len(pages) \in Nat \ {0}
      BY <2>2
    <3>2. ended # <<>>
      BY <3>1
    <3>3. node = ended
      BY <3>2 DEF ReadableSave, SeqOrNull
    <3>4. \A i \in DOMAIN pages : AsText(LineEnded(pages[i])) = LineEnded(pages[i])
      BY Lines, NullAssumption DEF AsText
    <3> HIDE DEF node
    <3>5. read = [i \in DOMAIN pages |-> LineEnded(pages[i])]
      BY <3>3, <3>4
    <3> QED
      BY <2>2, <3>5 DEF PagesBack
  <2> QED
    BY <2>1, <2>2
<1>2. new.pages \o read = read
  <2>1. read \in Seq(Text)
    BY <1>1, PagesFit
  <2> HIDE DEF read
  <2> QED
    BY <2>1
<1> HIDE DEF node, read
<1>3. ReadableLoad(new, node) = [new EXCEPT !.pages = @ \o read]
  BY DEF ReadableLoad, read
<1> QED
  BY <1>1, <1>2, <1>3 DEF node

LEMMA BookKept ==
  ASSUME NEW b \in Books
  PROVE  BookLoad(BookSave(b)) = Back(b) /\ Back(b) \in Books
<1> DEFINE new == NewReadable("book", b.id)
           node == BookSave(b)
           phys == PhysicalLoad(new, node.physical)
           read == ReadableLoad(phys, node.pages)
<1>1. /\ b.nicknames \in Distinct /\ b.conditions \in Seq(Text) /\ b.pages \in Seq(Text)
      /\ b = [type |-> "book", id |-> b.id, nicknames |-> b.nicknames, conditions |-> b.conditions,
              title |-> b.title, pages |-> b.pages]
      /\ b.id \in Text /\ b.title \in Text
  BY DEF Books
<1>2. /\ node.id = b.id /\ node.physical = PhysicalSave(b) /\ node.title = TextOrNull(b.title)
      /\ node.pages = ReadableSave(b.pages)
  BY DEF BookSave
<1>3. new = [type |-> "book", id |-> b.id, nicknames |-> <<>>, conditions |-> <<>>, title |-> "",
             pages |-> <<>>]
  BY DEF NewReadable
<1> HIDE DEF new, node
<1>4. phys = [new EXCEPT !.nicknames = b.nicknames, !.conditions = b.conditions]
  BY <1>1, <1>2, <1>3, PhysicalKept
<1>5. phys = [type |-> "book", id |-> b.id, nicknames |-> b.nicknames, conditions |-> b.conditions,
              title |-> "", pages |-> <<>>]
  BY <1>3, <1>4
<1> HIDE DEF phys
<1>6. read = [phys EXCEPT !.pages = PagesBack(b.pages)]
  BY <1>1, <1>2, <1>5, PagesKept, NullAssumption
<1>7. read = [type |-> "book", id |-> b.id, nicknames |-> b.nicknames, conditions |-> b.conditions,
              title |-> "", pages |-> PagesBack(b.pages)]
  BY <1>5, <1>6
<1> HIDE DEF read
<1>8. BookLoad(node) = [read EXCEPT !.title = IF node.title = Null THEN @ ELSE node.title]
  BY <1>2 DEF BookLoad, read, phys, new
<1>9. (IF node.title = Null THEN "" ELSE node.title) = b.title
  BY <1>1, <1>2, NullAssumption DEF TextOrNull
<1>10. BookLoad(node)
         = [type |-> "book", id |-> b.id, nicknames |-> b.nicknames, conditions |-> b.conditions,
            title |-> b.title, pages |-> PagesBack(b.pages)]
  BY <1>7, <1>8, <1>9
<1>11. Back(b)
         = [type |-> "book", id |-> b.id, nicknames |-> b.nicknames, conditions |-> b.conditions,
            title |-> b.title, pages |-> PagesBack(b.pages)]
  BY <1>1 DEF Back
<1>12. PagesBack(b.pages) \in Seq(Text)
  BY <1>1, PagesFit
<1>13. Back(b) \in Books
  BY <1>1, <1>11, <1>12 DEF Books
<1> QED
  BY <1>10, <1>11, <1>13 DEF node

LEMMA AMilestone ==
  ASSUME NEW id \in Text, NEW n \in Distinct, NEW c \in Seq(Text), NEW p \in Seq(Text)
  PROVE  [type |-> "milestone", id |-> id, nicknames |-> n, conditions |-> c, title |-> "",
          pages |-> p] \in Milestones
BY DEF Milestones

LEMMA MilestoneKept ==
  ASSUME NEW b \in Milestones
  PROVE  MilestoneLoad(MilestoneSave(b)) = Back(b) /\ Back(b) \in Milestones
<1> DEFINE new == NewReadable("milestone", b.id)
           node == MilestoneSave(b)
           phys == PhysicalLoad(new, node.physical)
<1>1. /\ b.nicknames \in Distinct /\ b.conditions \in Seq(Text) /\ b.pages \in Seq(Text)
      /\ b = [type |-> "milestone", id |-> b.id, nicknames |-> b.nicknames,
              conditions |-> b.conditions, title |-> "", pages |-> b.pages]
      /\ b.id \in Text /\ b.type = "milestone"
  BY DEF Milestones
<1>2. node.id = b.id /\ node.physical = PhysicalSave(b) /\ node.pages = ReadableSave(b.pages)
  BY DEF MilestoneSave
<1>3. new = [type |-> "milestone", id |-> b.id, nicknames |-> <<>>, conditions |-> <<>>,
             title |-> "", pages |-> <<>>]
  BY DEF NewReadable
<1> HIDE DEF new, node
<1>4. phys = [new EXCEPT !.nicknames = b.nicknames, !.conditions = b.conditions]
  BY <1>1, <1>2, <1>3, PhysicalKept
<1>5. phys = [type |-> "milestone", id |-> b.id, nicknames |-> b.nicknames,
              conditions |-> b.conditions, title |-> "", pages |-> <<>>]
  BY <1>3, <1>4
<1> HIDE DEF phys
<1>6. ReadableLoad(phys, node.pages) = [phys EXCEPT !.pages = PagesBack(b.pages)]
  BY <1>1, <1>2, <1>5, PagesKept, NullAssumption
<1>7. MilestoneLoad(node) = ReadableLoad(phys, node.pages)
  BY <1>2 DEF MilestoneLoad, phys, new
<1>8. MilestoneLoad(node)
        = [type |-> "milestone", id |-> b.id, nicknames |-> b.nicknames,
           conditions |-> b.conditions, title |-> "", pages |-> PagesBack(b.pages)]
  BY <1>5, <1>6, <1>7
<1>9. Back(b)
        = [type |-> "milestone", id |-> b.id, nicknames |-> b.nicknames,
           conditions |-> b.conditions, title |-> "", pages |-> PagesBack(b.pages)]
  <2>1. b.type = "milestone"
    BY <1>1, Zenon
  <2> DEFINE back == PagesBack(b.pages)
  <2>2. Back(b) = [b EXCEPT !.pages = back]
    BY <2>1 DEF Back
  <2> HIDE DEF back
  <2> DEFINE all == [type |-> "milestone", id |-> b.id, nicknames |-> b.nicknames,
                     conditions |-> b.conditions, title |-> "", pages |-> b.pages]
  <2>3. Back(b) = [all EXCEPT !.pages = back]
    BY <1>1, <2>2, Zenon
  <2> QED
    BY <2>3 DEF back
<1>10. PagesBack(b.pages) \in Seq(Text)
  BY <1>1, PagesFit
<1>11. Back(b) \in Milestones
  BY <1>1, <1>9, <1>10, AMilestone
<1> QED
  BY <1>8, <1>9, <1>11 DEF node

-----------------------------------------------------------------------------
(* Coins.                                                                  *)

AlloysOf(node) == IF node.alloys = Null THEN Nothing ELSE node.alloys
NewOf(node) == PhysicalLoad(NewCoin(node.quantity), node.physical)
Alloy(alloys, c, m) == IF m \in DOMAIN alloys THEN AddAlloy(c, m, alloys[m]) ELSE c

\* Piles with any alloys and any nicknames that come from them.
Piles ==
  [type : {"coin"}, nicknames : Seq(Text \cup {Highest(f) : f \in AlloyMaps}),
   conditions : Seq(Text), quantity : Nat, alloys : AlloyMaps]

LEMMA AlloyMap ==
  ASSUME NEW f
  PROVE  f \in AlloyMaps
           <=> DOMAIN f \subseteq Elements(Metals) /\ f \in [DOMAIN f -> 0 .. 100]
BY DEF AlloyMaps

LEMMA WithType ==
  ASSUME NEW f \in AlloyMaps, NEW m \in Elements(Metals), NEW a \in 0 .. 100
  PROVE  With(f, m, a) \in AlloyMaps
<1> DEFINE g == With(f, m, a)
<1>1. /\ DOMAIN f \subseteq Elements(Metals)
      /\ \A x \in DOMAIN f : f[x] \in 0 .. 100
  BY AlloyMap
<1>2. g \in [DOMAIN f \cup {m} -> 0 .. 100]
  BY <1>1 DEF With
<1>3. DOMAIN g \subseteq Elements(Metals) /\ g \in [DOMAIN g -> 0 .. 100]
  BY <1>1, <1>2
<1> HIDE DEF g
<1> QED
  BY <1>3, AlloyMap DEF g

LEMMA AlloyType ==
  ASSUME NEW alloys \in AlloyMaps, NEW c \in Piles, NEW m \in Elements(Metals)
  PROVE  Alloy(alloys, c, m) \in Piles
<1>1. CASE m \notin DOMAIN alloys
  BY <1>1 DEF Alloy
<1>2. CASE m \in DOMAIN alloys
  <2> DEFINE S == Text \cup {Highest(f) : f \in AlloyMaps}
             more == IF m \notin DOMAIN c.alloys /\ Percent(c.alloys) + alloys[m] <= 100
                     THEN With(c.alloys, m, alloys[m]) ELSE c.alloys
             names == AddNickname(c.nicknames, Highest(more))
  <2>1. alloys[m] \in 0 .. 100
    BY <1>2, AlloyMap
  <2>2. c.alloys \in AlloyMaps /\ c.nicknames \in Seq(S)
    BY DEF Piles
  <2>3. more \in AlloyMaps
    BY <2>1, <2>2, WithType
  <2>4. Alloy(alloys, c, m) = [c EXCEPT !.alloys = more, !.nicknames = names]
    BY <1>2 DEF Alloy, AddAlloy
  <2> HIDE DEF more
  <2>5. Highest(more) \in S
    BY <2>3
  <2> HIDE DEF S
  <2>6. names \in Seq(S)
    BY <2>2, <2>5, NicknameType
  <2> HIDE DEF names
  <2>7. c \in [type : {"coin"}, nicknames : Seq(S), conditions : Seq(Text), quantity : Nat,
               alloys : AlloyMaps]
    BY DEF Piles, S
  <2>8. [c EXCEPT !.alloys = more, !.nicknames = names]
          \in [type : {"coin"}, nicknames : Seq(S), conditions : Seq(Text), quantity : Nat,
               alloys : AlloyMaps]
    BY <2>3, <2>6, <2>7
  <2> QED
    BY <2>4, <2>8 DEF Piles, S
<1> QED
  BY <1>1, <1>2

LEMMA MetalsThere ==
  /\ Len(Metals) \in Nat /\ DOMAIN Metals = 1 .. Len(Metals)
  /\ \A i \in 1 .. Len(Metals) : Metals[i] \in Elements(Metals)
  /\ \A i, j \in 1 .. Len(Metals) : Metals[i] = Metals[j] => i = j
BY RecordsAssumption DEF Elements, IsInjective

LEMMA AlloyTypes ==
  ASSUME NEW alloys \in AlloyMaps
  PROVE  \A i \in 1 .. Len(Metals) : \A c \in Piles : Alloy(alloys, c, Metals[i]) \in Piles
BY AlloyType, MetalsThere

\* Coin::load, one alloy after the other.
IsAlloyed(node, r) ==
  /\ r \in [0 .. Len(Metals) -> Piles]
  /\ r[0] = NewOf(node)
  /\ \A k \in 1 .. Len(Metals) : r[k] = Alloy(AlloysOf(node), r[k - 1], Metals[k])
  /\ CoinLoad(node) = r[Len(Metals)]

LEMMA AlloyedBySteps ==
  ASSUME NEW node, NewOf(node) \in Piles, AlloysOf(node) \in AlloyMaps
  PROVE  \E r : IsAlloyed(node, r)
<1> DEFINE n == Len(Metals)
           V == Piles
           base == NewOf(node)
           step == [i \in 1 .. n |-> [v \in V |-> Alloy(AlloysOf(node), v, Metals[i])]]
           Folds(g) == g = [s \in SUBSET DOMAIN Metals |->
                              IF s = {} THEN base
                              ELSE Alloy(AlloysOf(node), g[s \ {Max(s)}], Metals[Max(s)])]
           iter == CHOOSE g : Folds(g)
<1>1. n \in Nat /\ DOMAIN Metals = 1 .. n
  BY MetalsThere
<1>2. base \in V
  OBVIOUS
<1>3. \A i \in 1 .. n : \A v \in V : Alloy(AlloysOf(node), v, Metals[i]) \in V
  BY AlloyTypes
<1>4. step \in [1 .. n -> [V -> V]]
  BY <1>3
<1>5. /\ \A s \in SUBSET (1 .. n) : s # {} => Max(s) \in 1 .. n
      /\ \A i \in 1 .. n, v \in V : step[i][v] = Alloy(AlloysOf(node), v, Metals[i])
  <2>1. \A s \in SUBSET (1 .. n) : s # {} => Max(s) \in s
    BY <1>1, MaxOf
  <2> QED
    BY <1>1, <2>1
<1>6. CoinLoad(node) = iter[DOMAIN Metals]
  BY DEF CoinLoad, FoldLeft, MapThenFoldSet, AlloysOf, NewOf, Alloy
<1> HIDE DEF n, V, base, step
<1>7. PICK g \in [SUBSET (1 .. n) -> V] : AtLast(n, base, step, g)
  BY <1>1, <1>2, <1>4, IteratesExists
<1>8. Folds(g)
  <2>1. ASSUME NEW s \in SUBSET (1 .. n), s # {}
        PROVE  step[Max(s)][g[s \ {Max(s)}]]
                 = Alloy(AlloysOf(node), g[s \ {Max(s)}], Metals[Max(s)])
    <3>1. Max(s) \in 1 .. n /\ g[s \ {Max(s)}] \in V
      BY <1>5, <2>1
    <3> QED
      BY <1>1, <1>5, <3>1
  <2> DEFINE there(s) == IF s = {} THEN base ELSE Alloy(AlloysOf(node), g[s \ {Max(s)}], Metals[Max(s)])
  <2>2. \A s \in SUBSET (1 .. n) : g[s] = there(s)
    BY <1>7, <2>1 DEF AtLast
  <2> HIDE DEF there
  <2>3. g = [s \in SUBSET (1 .. n) |-> there(s)]
    BY <2>2
  <2> QED
    BY <1>1, <2>3 DEF there
<1>9. Folds(iter)
  BY <1>8
<1> HIDE DEF iter
<1>10. Iterates(n, V, base, step, iter)
  <2>1. iter[{}] = base
    BY <1>1, <1>9
  <2>2. ASSUME NEW s \in SUBSET (1 .. n), s # {}, iter[s \ {Max(s)}] \in V
        PROVE  iter[s] = step[Max(s)][iter[s \ {Max(s)}]]
    <3>1. iter[s] = Alloy(AlloysOf(node), iter[s \ {Max(s)}], Metals[Max(s)])
      BY <1>1, <1>9, <2>2
    <3> QED
      BY <1>1, <1>5, <2>2, <3>1
  <2> QED
    BY <2>1, <2>2 DEF Iterates
<1>11. PICK r \in [0 .. n -> V] : Course(n, base, step, r) /\ r[n] = iter[1 .. n]
  <2>1. Leads(n, V, base, step, iter[1 .. n])
    BY <1>1, <1>2, <1>4, <1>10, Coursed
  <2> QED
    BY <2>1 DEF Leads
<1>12. \A k \in 1 .. n : r[k - 1] \in V /\ k - 1 \in 0 .. n
  BY <1>1
<1>13. \A k \in 1 .. n : r[k] = Alloy(AlloysOf(node), r[k - 1], Metals[k])
  BY <1>5, <1>11, <1>12 DEF Course
<1>14. r[0] = base /\ CoinLoad(node) = r[n]
  BY <1>1, <1>6, <1>11 DEF Course
<1> HIDE DEF Folds
<1> USE DEF n, V, base
<1> QED
  BY <1>11, <1>13, <1>14 DEF IsAlloyed

LEMMA UpToMore ==
  ASSUME NEW f \in AlloyMaps, NEW k \in 1 .. Len(Metals)
  PROVE  UpTo(f, k) = IF Metals[k] \in DOMAIN f THEN With(UpTo(f, k - 1), Metals[k], f[Metals[k]])
                      ELSE UpTo(f, k - 1)
<1>1. {Metals[j] : j \in 1 .. k} = {Metals[j] : j \in 1 .. k - 1} \cup {Metals[k]}
  OBVIOUS
<1>2. CASE Metals[k] \notin DOMAIN f
  <2>1. DOMAIN f \cap {Metals[j] : j \in 1 .. k} = DOMAIN f \cap {Metals[j] : j \in 1 .. k - 1}
    BY <1>1, <1>2
  <2> QED
    BY <1>2, <2>1 DEF UpTo
<1>3. CASE Metals[k] \in DOMAIN f
  <2> DEFINE now == DOMAIN f \cap {Metals[j] : j \in 1 .. k}
             old == DOMAIN f \cap {Metals[j] : j \in 1 .. k - 1}
  <2>1. now = old \cup {Metals[k]}
    BY <1>1, <1>3
  <2> HIDE DEF now, old
  <2>2. UpTo(f, k) = [m \in now |-> f[m]] /\ UpTo(f, k - 1) = [m \in old |-> f[m]]
    BY DEF UpTo, now, old
  <2>3. With(UpTo(f, k - 1), Metals[k], f[Metals[k]]) = [m \in now |-> f[m]]
    BY <2>1, <2>2 DEF With
  <2> QED
    BY <1>3, <2>2, <2>3
<1> QED
  BY <1>2, <1>3

LEMMA UpToEnds ==
  ASSUME NEW f \in AlloyMaps
  PROVE  UpTo(f, 0) = Nothing /\ UpTo(f, Len(Metals)) = f
<1>1. {Metals[j] : j \in 1 .. 0} = {} /\ DOMAIN f \subseteq {Metals[j] : j \in 1 .. Len(Metals)}
  BY AlloyMap, MetalsThere DEF Elements
<1>2. f = [m \in DOMAIN f |-> f[m]]
  BY AlloyMap
<1>3. UpTo(f, Len(Metals)) = f
  BY <1>1, <1>2 DEF UpTo
<1>4. UpTo(f, 0) = <<>>
  BY <1>1 DEF UpTo
<1> QED
  BY <1>3, <1>4 DEF Nothing

LEMMA KnownNickname ==
  ASSUME NEW S, NEW s \in Seq(S), NEW x \in Elements(s)
  PROVE  AddNickname(s, x) = s
BY DEF AddNickname, Contains, Elements

LEMMA CoinKept ==
  ASSUME NEW c \in Coins
  PROVE  CoinLoad(CoinSave(c)) = c
<1> DEFINE node == CoinSave(c)
           n == Len(Metals)
           upto(k) == [c EXCEPT !.alloys = UpTo(c.alloys, k)]
<1>1. /\ c.nicknames \in Distinct /\ c.conditions \in Seq(Text) /\ c.quantity \in Nat
      /\ c.alloys \in AlloyMaps /\ WellAlloyed(c)
      /\ c = [type |-> "coin", nicknames |-> c.nicknames, conditions |-> c.conditions,
              quantity |-> c.quantity, alloys |-> c.alloys]
  BY DEF Coins
<1>2. node.quantity = c.quantity /\ node.physical = PhysicalSave(c)
      /\ node.alloys = MapOrNull(c.alloys)
  BY DEF CoinSave
<1>3. AlloysOf(node) = c.alloys
  <2>1. CASE DOMAIN c.alloys = {}
    <3>1. node.alloys = Null
      BY <1>2, <2>1 DEF MapOrNull
    <3>2. UpTo(c.alloys, n) = UpTo(c.alloys, 0)
      BY <2>1 DEF UpTo
    <3> QED
      BY <1>1, <3>1, <3>2, UpToEnds DEF AlloysOf
  <2>2. CASE DOMAIN c.alloys # {}
    BY <1>1, <1>2, <2>2, NullAssumption DEF AlloysOf, MapOrNull
  <2> QED
    BY <2>1, <2>2
<1> HIDE DEF node
<1>4. NewOf(node) = [c EXCEPT !.alloys = Nothing]
  <2> DEFINE new == NewCoin(c.quantity)
  <2>1. new = [type |-> "coin", nicknames |-> <<"coins">>, conditions |-> <<>>,
               quantity |-> c.quantity, alloys |-> Nothing]
    BY DEF NewCoin
  <2> HIDE DEF new
  <2>2. c.nicknames # <<>> /\ new.nicknames = <<c.nicknames[1]>> /\ new.conditions = <<>>
    BY <1>1, <2>1 DEF WellAlloyed
  <2>3. PhysicalLoad(new, PhysicalSave(c))
          = [new EXCEPT !.nicknames = c.nicknames, !.conditions = c.conditions]
    BY <1>1, <2>2, PhysicalKept
  <2> DEFINE it == [type |-> "coin", nicknames |-> c.nicknames, conditions |-> c.conditions,
                    quantity |-> c.quantity, alloys |-> Nothing]
  <2>4. NewOf(node) = [new EXCEPT !.nicknames = c.nicknames, !.conditions = c.conditions]
    BY <1>2, <2>3 DEF NewOf, new
  <2>5. NewOf(node) = it
    BY <2>1, <2>4
  <2>6. [c EXCEPT !.alloys = Nothing] = it
    <3> DEFINE all == [type |-> "coin", nicknames |-> c.nicknames, conditions |-> c.conditions,
                       quantity |-> c.quantity, alloys |-> c.alloys]
    <3>1. [all EXCEPT !.alloys = Nothing] = it
      OBVIOUS
    <3>2. c = all
      BY <1>1
    <3> HIDE DEF all, it
    <3> QED
      BY <3>1, <3>2
  <2> QED
    BY <2>5, <2>6
<1>5. upto(0) = NewOf(node) /\ upto(n) = c
  BY <1>1, <1>4, UpToEnds
<1>6. NewOf(node) \in Piles
  <2> DEFINE S == Text \cup {Highest(f) : f \in AlloyMaps}
  <2>1. c.nicknames \in Seq(S)
    BY <1>1 DEF Distinct
  <2>2. Nothing \in AlloyMaps
    <3>1. UpTo(c.alloys, 0) \in [{} -> 0 .. 100]
      BY MetalsThere DEF UpTo
    <3> QED
      BY <1>1, <3>1, UpToEnds, AlloyMap
  <2> HIDE DEF S
  <2>3. [c EXCEPT !.alloys = Nothing]
          \in [type : {"coin"}, nicknames : Seq(S), conditions : Seq(Text), quantity : Nat,
               alloys : AlloyMaps]
    BY <1>1, <2>1, <2>2
  <2> QED
    BY <1>4, <2>3 DEF Piles, S
<1>7. PICK r : IsAlloyed(node, r)
  BY <1>1, <1>3, <1>6, AlloyedBySteps
<1>8. ASSUME NEW k \in 1 .. n, r[k - 1] = upto(k - 1)
      PROVE  r[k] = upto(k)
  <2> DEFINE m == Metals[k]
             before == UpTo(c.alloys, k - 1)
             after == UpTo(c.alloys, k)
  <2>1. r[k] = Alloy(c.alloys, upto(k - 1), m)
    BY <1>3, <1>7, <1>8 DEF IsAlloyed
  <2>2. CASE m \notin DOMAIN c.alloys
    <3>1. after = before
      BY <1>1, <2>2, UpToMore
    <3> QED
      BY <2>1, <2>2, <3>1 DEF Alloy
  <2>3. CASE m \in DOMAIN c.alloys
    <3>1. after = With(before, m, c.alloys[m])
      BY <1>1, <2>3, UpToMore
    <3>2. m \notin DOMAIN before
      BY MetalsThere DEF UpTo
    <3>3. Percent(before) + c.alloys[m] <= 100 /\ Highest(after) \in Elements(c.nicknames)
      BY <1>1, <2>3, MetalsThere DEF WellAlloyed
    <3>4. AddNickname(c.nicknames, Highest(after)) = c.nicknames
      BY <1>1, <3>3, KnownNickname DEF Distinct
    <3> HIDE DEF before, after, m
    <3> DEFINE u == [c EXCEPT !.alloys = before]
    <3>5. u.alloys = before /\ u.nicknames = c.nicknames
          /\ [u EXCEPT !.alloys = after, !.nicknames = c.nicknames] = [c EXCEPT !.alloys = after]
      BY <1>1
    <3> HIDE DEF u
    <3>6. AddAlloy(u, m, c.alloys[m])
            = [u EXCEPT !.alloys = after, !.nicknames = AddNickname(@, Highest(after))]
      BY <3>1, <3>2, <3>3, <3>5 DEF AddAlloy
    <3>7. AddAlloy(u, m, c.alloys[m]) = [c EXCEPT !.alloys = after]
      BY <3>4, <3>5, <3>6
    <3> QED
      BY <2>1, <2>3, <3>7 DEF Alloy, u, before, after
  <2> QED
    BY <2>2, <2>3
<1> DEFINE P == {k \in 0 .. n : r[k] = upto(k)}
<1>9. 0 \in P /\ \A k \in 1 .. n : k - 1 \in P => k \in P
  BY <1>5, <1>7, <1>8, MetalsThere DEF IsAlloyed
<1>10. n \in P
  <2> HIDE DEF P
  <2>1. n \in Nat
    BY MetalsThere
  <2> HIDE DEF n
  <2>2. 0 .. n \subseteq P
    BY <1>9, <2>1, Upward
  <2> QED
    BY <2>1, <2>2
<1> QED
  BY <1>5, <1>7, <1>10 DEF IsAlloyed, node

-----------------------------------------------------------------------------
(* Things and who is beside them.                                          *)

Occupants == Things \cup {InRoom}

LEMMA Kinded ==
  ASSUME NEW t \in Occupants
  PROVE  /\ t.type = "book" => t \in Books
         /\ t.type = "milestone" => t \in Milestones
         /\ t.type = "coin" => t \in Coins
         /\ t.type = "player" => t = InRoom
         /\ t.type \in {"book", "milestone", "coin", "player"}
<1>1. /\ \A b \in Books : b.type = "book"
      /\ \A m \in Milestones : m.type = "milestone"
      /\ \A c \in Coins : c.type = "coin"
  BY DEF Books, Milestones, Coins
<1>2. InRoom.type = "player"
  BY DEF InRoom
<1> QED
  BY <1>1, <1>2 DEF Occupants, Things

LEMMA NotInRoom ==
  ASSUME NEW t \in Things
  PROVE  t # InRoom /\ t.type \in {"book", "milestone", "coin"} /\ t \in Occupants
<1>1. /\ \A b \in Books : b.type = "book"
      /\ \A m \in Milestones : m.type = "milestone"
      /\ \A c \in Coins : c.type = "coin"
      /\ InRoom.type = "player"
  BY DEF Books, Milestones, Coins, InRoom
<1> QED
  BY <1>1 DEF Occupants, Things

LEMMA NoNone ==
  ASSUME NEW t, t.type \in {"book", "milestone", "coin"}, t \in Things
  PROVE  t # None
<1>1. "type" \in DOMAIN t
  BY DEF Things, Books, Milestones, Coins
<1>2. DOMAIN None = {"null"}
  BY DEF None
<1> QED
  BY <1>1, <1>2

LEMMA NodeOfBook ==
  ASSUME NEW S, NEW s \in Seq(S)
  PROVE  SeqOrNull(s) \in Seq(S \cup {Null})
<1>1. <<Null>> \in Seq(S \cup {Null})
  BY One
<1>2. s \in Seq(S \cup {Null})
  OBVIOUS
<1> QED
  BY <1>1, <1>2 DEF SeqOrNull

LEMMA NodeOfPages ==
  ASSUME NEW pages \in Seq(Text)
  PROVE  ReadableSave(pages) \in Seq(Texts)
BY LinesFit, NodeOfBook DEF ReadableSave, Texts

LEMMA PhysicalNode ==
  ASSUME NEW p, p.nicknames \in Distinct, p.conditions \in Seq(Text)
  PROVE  PhysicalSave(p) \in PhysicalNodes
<1>1. SeqOrNull(p.nicknames) \in Seq(Texts) /\ SeqOrNull(p.conditions) \in Seq(Texts)
  BY NodeOfBook DEF Distinct, Texts
<1> QED
  BY <1>1 DEF PhysicalSave, PhysicalNodes

LEMMA NoNullNode ==
  ASSUME NEW t \in Things
  PROVE  ThingSave(t) # Null
<1>1. CASE t \in Books
  <2>1. /\ t.nicknames \in Distinct /\ t.conditions \in Seq(Text) /\ t.pages \in Seq(Text)
        /\ t.id \in Text /\ t.title \in Text /\ t.type = "book"
    BY <1>1 DEF Books
  <2>2. ThingSave(t) = BookSave(t)
    BY <2>1 DEF ThingSave
  <2>3. PhysicalSave(t) \in PhysicalNodes /\ ReadableSave(t.pages) \in Seq(Texts)
        /\ TextOrNull(t.title) \in Texts
    BY <2>1, PhysicalNode, NodeOfPages DEF Texts, TextOrNull
  <2>4. BookSave(t) \in [type : {"book"}, id : Text, physical : PhysicalNodes, title : Texts,
                         pages : Seq(Texts)]
    BY <2>1, <2>3 DEF BookSave
  <2> QED
    BY <2>2, <2>4, NullAssumption
<1>2. CASE t \in Milestones
  <2>1. /\ t.nicknames \in Distinct /\ t.conditions \in Seq(Text) /\ t.pages \in Seq(Text)
        /\ t.id \in Text /\ t.type = "milestone"
    BY <1>2 DEF Milestones
  <2>2. ThingSave(t) = MilestoneSave(t)
    BY <2>1 DEF ThingSave
  <2>3. PhysicalSave(t) \in PhysicalNodes /\ ReadableSave(t.pages) \in Seq(Texts)
    BY <2>1, PhysicalNode, NodeOfPages
  <2>4. MilestoneSave(t) \in [type : {"milestone"}, id : Text, physical : PhysicalNodes,
                              pages : Seq(Texts)]
    BY <2>1, <2>3 DEF MilestoneSave
  <2> QED
    BY <2>2, <2>4, NullAssumption
<1>3. CASE t \in Coins
  <2>1. /\ t.nicknames \in Distinct /\ t.conditions \in Seq(Text) /\ t.quantity \in Nat
        /\ t.alloys \in AlloyMaps /\ t.type = "coin"
    BY <1>3 DEF Coins
  <2>2. ThingSave(t) = CoinSave(t)
    BY <2>1 DEF ThingSave
  <2>3. PhysicalSave(t) \in PhysicalNodes /\ MapOrNull(t.alloys) \in AlloyMaps \cup {Null}
    BY <2>1, PhysicalNode DEF MapOrNull
  <2>4. CoinSave(t) \in [type : {"coin"}, physical : PhysicalNodes, quantity : Nat,
                         alloys : AlloyMaps \cup {Null}]
    BY <2>1, <2>3 DEF CoinSave
  <2> QED
    BY <2>2, <2>4, NullAssumption
<1> QED
  BY <1>1, <1>2, <1>3 DEF Things

LEMMA ThingKept ==
  ASSUME NEW t \in Things
  PROVE  Create(ThingSave(t)) = Back(t) /\ Back(t) \in Things /\ Back(t).type = t.type
<1>1. CASE t \in Books
  <2>1. ThingSave(t) = BookSave(t) /\ BookSave(t).type = "book" /\ t.type = "book"
    BY <1>1 DEF ThingSave, BookSave, Books
  <2>2. Create(BookSave(t)) = BookLoad(BookSave(t))
    BY <2>1 DEF Create
  <2>3. Back(t) \in Books /\ Back(t).type = "book"
    BY <1>1, BookKept DEF Books
  <2> QED
    BY <1>1, <2>1, <2>2, <2>3, BookKept DEF Things
<1>2. CASE t \in Milestones
  <2>1. ThingSave(t) = MilestoneSave(t) /\ MilestoneSave(t).type = "milestone"
        /\ t.type = "milestone"
    BY <1>2 DEF ThingSave, MilestoneSave, Milestones
  <2>2. Create(MilestoneSave(t)) = MilestoneLoad(MilestoneSave(t))
    BY <2>1 DEF Create
  <2>3. Back(t) \in Milestones /\ Back(t).type = "milestone"
    BY <1>2, MilestoneKept DEF Milestones
  <2> QED
    BY <1>2, <2>1, <2>2, <2>3, MilestoneKept DEF Things
<1>3. CASE t \in Coins
  <2>1. ThingSave(t) = CoinSave(t) /\ CoinSave(t).type = "coin" /\ t.type = "coin"
    BY <1>3 DEF ThingSave, CoinSave, Coins
  <2>2. Create(CoinSave(t)) = CoinLoad(CoinSave(t))
    BY <2>1 DEF Create
  <2>3. Back(t) = t
    BY <2>1 DEF Back
  <2> QED
    BY <1>3, <2>1, <2>2, <2>3, CoinKept DEF Things
<1> QED
  BY <1>1, <1>2, <1>3 DEF Things

-----------------------------------------------------------------------------
(* What is found first.                                                    *)

Pile(contents) == SelectInSeq(contents, LAMBDA x : x.type = "coin")

LEMMA PileFound ==
  ASSUME NEW S, NEW c \in Seq(S)
  PROVE  /\ Pile(c) = 0 => \A i \in DOMAIN c : c[i].type # "coin"
         /\ Pile(c) # 0 => Pile(c) \in DOMAIN c /\ c[Pile(c)].type = "coin"
<1> DEFINE I == {i \in 1 .. Len(c) : c[i].type = "coin"}
<1>1. Pile(c) = IF I # {} THEN Min(I) ELSE 0
  BY DEF Pile, SelectInSeq
<1>2. Len(c) \in Nat /\ DOMAIN c = 1 .. Len(c) /\ I \in SUBSET (1 .. Len(c))
  OBVIOUS
<1>3. I # {} => Min(I) \in I
  <2> HIDE DEF I
  <2> QED
    BY <1>2, First
<1> QED
  BY <1>1, <1>2, <1>3

Spoilt(things) == SelectInSeq(things, SpoilsEmitter)

LEMMA SpoiltFound ==
  ASSUME NEW S, NEW c \in Seq(S)
  PROVE  /\ Spoilt(c) = 0 <=> \A i \in DOMAIN c : ~SpoilsEmitter(c[i])
         /\ Spoilt(c) # 0 => Spoilt(c) \in DOMAIN c
<1> DEFINE I == {i \in 1 .. Len(c) : SpoilsEmitter(c[i])}
<1>1. Spoilt(c) = IF I # {} THEN Min(I) ELSE 0
  BY DEF Spoilt, SelectInSeq
<1>2. Len(c) \in Nat /\ DOMAIN c = 1 .. Len(c) /\ I \in SUBSET (1 .. Len(c))
  OBVIOUS
<1>3. I # {} => Min(I) \in I
  <2> HIDE DEF I
  <2> QED
    BY <1>2, First
<1> QED
  BY <1>1, <1>2, <1>3

-----------------------------------------------------------------------------
(* Adding to a container, and what it writes.                              *)

LEMMA CoinMore ==
  ASSUME NEW c \in Coins, NEW q \in Nat
  PROVE  [c EXCEPT !.quantity = @ + q] \in Coins
<1> DEFINE T == [type : {"coin"}, nicknames : Distinct, conditions : Seq(Text),
                 quantity : Nat, alloys : AlloyMaps]
           d == [c EXCEPT !.quantity = @ + q]
<1>1. c \in T /\ WellAlloyed(c)
  BY DEF Coins
<1>2. c.quantity + q \in Nat
  <2>1. c.quantity \in Nat
    BY <1>1
  <2> QED
    BY <2>1
<1>3. d \in T /\ d.nicknames = c.nicknames /\ d.alloys = c.alloys
  BY <1>1, <1>2
<1> HIDE DEF d
<1>4. WellAlloyed(d)
  BY <1>1, <1>3 DEF WellAlloyed
<1> QED
  BY <1>3, <1>4 DEF Coins, d

LEMMA Contained ==
  ASSUME NEW cap, NEW c
  PROVE  c \in ContentsOf(cap) <=>
           /\ c \in Seq(Occupants)
           /\ \A i, j \in DOMAIN c : c[i].type = "coin" /\ c[j].type = "coin" => i = j
           /\ \A i \in DOMAIN c : c[i].type = "coin" \/ i <= cap
BY DEF ContentsOf, Occupants

\* A thing is merged with the pile there, appended, or refused.
LEMMA AddKinds ==
  ASSUME NEW c \in Seq(Occupants), NEW cap, NEW t \in Occupants
  PROVE  LET to == ContainerAdd(c, cap, t)
         IN  \/ /\ t.type = "coin" /\ to.added /\ Pile(c) \in DOMAIN c
                /\ c[Pile(c)] \in Coins /\ t \in Coins
                /\ to.contents = [c EXCEPT ![Pile(c)] =
                                     [c[Pile(c)] EXCEPT !.quantity = @ + t.quantity]]
             \/ /\ to.added /\ to.contents = Append(c, t)
                /\ t.type = "coin" => \A i \in DOMAIN c : c[i].type # "coin"
                /\ t.type # "coin" => Len(c) < cap
             \/ ~to.added /\ to.contents = c /\ t.type # "coin" /\ ~(Len(c) < cap)
<1> DEFINE to == ContainerAdd(c, cap, t)
<1>1. /\ Pile(c) = 0 => \A i \in DOMAIN c : c[i].type # "coin"
      /\ Pile(c) # 0 => Pile(c) \in DOMAIN c /\ c[Pile(c)].type = "coin"
  BY PileFound
<1>2. to = IF t.type = "coin" /\ Pile(c) # 0
           THEN [added |-> TRUE,
                 contents |-> [c EXCEPT ![Pile(c)].quantity = @ + t.quantity]]
           ELSE IF t.type = "coin" \/ Len(c) < cap
           THEN [added |-> TRUE, contents |-> Append(c, t)]
           ELSE [added |-> FALSE, contents |-> c]
  BY DEF ContainerAdd, Pile
<1> HIDE DEF to
<1>3. CASE t.type = "coin" /\ Pile(c) # 0
  <2>1. c[Pile(c)] \in Occupants
    BY <1>1, <1>3
  <2>2. c[Pile(c)] \in Coins /\ t \in Coins
    BY <1>1, <1>3, <2>1, Kinded
  <2> QED
    BY <1>1, <1>2, <1>3, <2>2 DEF to
<1>4. CASE ~(t.type = "coin" /\ Pile(c) # 0) /\ (t.type = "coin" \/ Len(c) < cap)
  BY <1>1, <1>2, <1>4 DEF to
<1>5. CASE t.type # "coin" /\ ~(Len(c) < cap)
  BY <1>2, <1>5 DEF to
<1> QED
  BY <1>3, <1>4, <1>5

LEMMA AddKeeps ==
  ASSUME NEW cap \in Nat, NEW c \in ContentsOf(cap), NEW t \in Occupants
  PROVE  /\ ContainerAdd(c, cap, t).contents \in ContentsOf(cap)
         /\ ContainerAdd(c, cap, t).added \in BOOLEAN
<1> DEFINE to == ContainerAdd(c, cap, t)
           p == Pile(c)
           more == [c[p] EXCEPT !.quantity = @ + t.quantity]
<1>1. /\ c \in Seq(Occupants)
      /\ \A i, j \in DOMAIN c : c[i].type = "coin" /\ c[j].type = "coin" => i = j
      /\ \A i \in DOMAIN c : c[i].type = "coin" \/ i <= cap
  BY Contained
<1>2. \/ /\ to.added /\ p \in DOMAIN c /\ c[p] \in Coins /\ t \in Coins
         /\ to.contents = [c EXCEPT ![p] = more]
      \/ /\ to.added /\ to.contents = Append(c, t)
         /\ t.type = "coin" => \A i \in DOMAIN c : c[i].type # "coin"
         /\ t.type # "coin" => Len(c) < cap
      \/ ~to.added /\ to.contents = c
  BY <1>1, AddKinds
<1>3. to.added \in BOOLEAN
  BY DEF ContainerAdd
<1> HIDE DEF to
<1>4. CASE p \in DOMAIN c /\ c[p] \in Coins /\ t \in Coins /\ to.contents = [c EXCEPT ![p] = more]
  <2>1. t.quantity \in Nat /\ c[p].type = "coin"
    BY <1>4 DEF Coins
  <2>2. more \in Coins
    BY <1>4, <2>1, CoinMore
  <2>3. more \in Occupants /\ more.type = "coin"
    BY <2>2 DEF Occupants, Things, Coins
  <2> HIDE DEF p, more
  <2>4. /\ to.contents \in Seq(Occupants) /\ DOMAIN to.contents = DOMAIN c
        /\ \A i \in DOMAIN c : to.contents[i].type = c[i].type
    BY <1>1, <1>4, <2>1, <2>3, Replaced
  <2> QED
    BY <1>1, <1>3, <2>4, Contained DEF to
<1>5. CASE /\ to.contents = Append(c, t)
           /\ t.type = "coin" => \A i \in DOMAIN c : c[i].type # "coin"
           /\ t.type # "coin" => Len(c) < cap
  <2>1. /\ to.contents \in Seq(Occupants) /\ Len(c) \in Nat
        /\ \A i \in DOMAIN to.contents :
              \/ i \in DOMAIN c /\ to.contents[i] = c[i]
              \/ i = Len(c) + 1 /\ i \notin DOMAIN c /\ to.contents[i] = t
    BY <1>1, <1>5, Extended
  <2>2. \A i, j \in DOMAIN to.contents :
           to.contents[i].type = "coin" /\ to.contents[j].type = "coin" => i = j
    BY <1>1, <1>5, <2>1
  <2>3. \A i \in DOMAIN to.contents : to.contents[i].type = "coin" \/ i <= cap
    BY <1>1, <1>5, <2>1
  <2> QED
    BY <1>3, <2>1, <2>2, <2>3, Contained DEF to
<1> QED
  BY <1>2, <1>3, <1>4, <1>5 DEF to

\* What is written of a container's contents.
Written(c) == UpToSpoiler(ThingsIn(c))

LEMMA SavedAs ==
  ASSUME NEW c \in Seq(Occupants)
  PROVE  ContainerSave(c) = SeqOrNull([i \in DOMAIN Written(c) |-> ThingSave(Written(c)[i])])
<1> DEFINE things == Without(c, InRoom)
           w == IF Spoilt(things) = 0 THEN things ELSE SubSeq(things, 1, Spoilt(things))
<1>1. things \in Seq(Occupants)
  BY Taken
<1> HIDE DEF things
<1>2. Spoilt(things) = 0 <=> ~\E i \in DOMAIN things : SpoilsEmitter(things[i])
  BY <1>1, SpoiltFound
<1>3. Written(c) = w
  BY <1>2 DEF Written, UpToSpoiler, ThingsIn, Spoilt, things
<1>4. ContainerSave(c) = SeqOrNull([i \in DOMAIN w |-> ThingSave(w[i])])
  BY DEF ContainerSave, Spoilt, things
<1> QED
  BY <1>3, <1>4

LEMMA PrefixFits ==
  ASSUME NEW cap \in Nat, NEW c \in ContentsOf(cap), NEW k \in 0 .. Len(c)
  PROVE  SubSeq(c, 1, k) \in ContentsOf(cap)
<1>1. /\ c \in Seq(Occupants)
      /\ \A i, j \in DOMAIN c : c[i].type = "coin" /\ c[j].type = "coin" => i = j
      /\ \A i \in DOMAIN c : c[i].type = "coin" \/ i <= cap
  BY Contained
<1>2. /\ SubSeq(c, 1, k) \in Seq(Occupants) /\ DOMAIN SubSeq(c, 1, k) \subseteq DOMAIN c
      /\ \A i \in DOMAIN SubSeq(c, 1, k) : SubSeq(c, 1, k)[i] = c[i]
  BY <1>1, Shorter
<1> HIDE DEF ContentsOf
<1> QED
  BY <1>1, <1>2, Contained

LEMMA ThingsFit ==
  ASSUME NEW cap \in Nat, NEW c \in ContentsOf(cap)
  PROVE  ThingsIn(c) \in ContentsOf(cap) /\ ThingsIn(c) \in Seq(Things)
<1> DEFINE I == {i \in DOMAIN c : c[i] # InRoom}
           m == Cardinality(I)
           t == ThingsIn(c)
<1>1. /\ c \in Seq(Occupants)
      /\ \A i, j \in DOMAIN c : c[i].type = "coin" /\ c[j].type = "coin" => i = j
      /\ \A i \in DOMAIN c : c[i].type = "coin" \/ i <= cap
  BY Contained
<1>2. t = InOrder(c, I) /\ I \in SUBSET DOMAIN c
  BY DEF ThingsIn, Without
<1> HIDE DEF I, t
<1>3. PICK place \in [1 .. m -> I] : Placed(c, I, place)
  BY <1>1, <1>2, Chosen
<1>4. t \in Seq(Occupants) /\ DOMAIN t = 1 .. m /\ m \in Nat
  BY <1>1, <1>2, Chosen
<1>5. /\ \A k \in 1 .. m : t[k] = c[place[k]] /\ k <= place[k]
      /\ \A k, l \in 1 .. m : k < l => place[k] < place[l]
  BY <1>2, <1>3 DEF Placed
<1>6. \A k \in 1 .. m : place[k] \in DOMAIN c /\ c[place[k]] # InRoom /\ place[k] \in Int
  <2>1. DOMAIN c = 1 .. Len(c)
    BY <1>1
  <2> QED
    BY <1>2, <2>1 DEF I
<1> HIDE DEF m
<1>7. \A k, l \in 1 .. m : t[k].type = "coin" /\ t[l].type = "coin" => k = l
  <2>1. \A k, l \in 1 .. m : k < l \/ l < k \/ k = l
    BY <1>4
  <2>2. \A k, l \in 1 .. m : place[k] = place[l] => k = l
    <3>1. ASSUME NEW k \in 1 .. m, NEW l \in 1 .. m, k < l
          PROVE  place[k] # place[l]
      BY <1>5, <1>6, <3>1
    <3> QED
      BY <2>1, <3>1
  <2> QED
    BY <1>1, <1>5, <1>6, <2>2
<1>8. \A k \in 1 .. m : t[k].type = "coin" \/ k <= cap
  <2>1. ASSUME NEW k \in 1 .. m, t[k].type # "coin"
        PROVE  k <= cap
    <3>1. place[k] <= cap /\ k <= place[k] /\ place[k] \in Int /\ k \in Int
      BY <1>1, <1>5, <1>6, <2>1
    <3> QED
      BY <3>1
  <2> QED
    BY <2>1
<1>9. t \in Seq(Things)
  <2>1. \A k \in 1 .. m : t[k] \in Things
    BY <1>1, <1>5, <1>6 DEF Occupants
  <2> QED
    BY <1>4, <2>1
<1> QED
  BY <1>4, <1>7, <1>8, <1>9, Contained DEF t

LEMMA WrittenFits ==
  ASSUME NEW cap \in Nat, NEW c \in ContentsOf(cap)
  PROVE  /\ Written(c) \in ContentsOf(cap) /\ Written(c) \in Seq(Things)
         /\ \E k \in 0 .. Len(ThingsIn(c)) : Written(c) = SubSeq(ThingsIn(c), 1, k)
<1> DEFINE t == ThingsIn(c)
<1>1. t \in ContentsOf(cap) /\ t \in Seq(Things)
  BY ThingsFit
<1> HIDE DEF t
<1>2. /\ Written(c) = IF Spoilt(t) = 0 THEN t ELSE SubSeq(t, 1, Spoilt(t))
      /\ Spoilt(t) # 0 => Spoilt(t) \in 0 .. Len(t)
  <2>1. Spoilt(t) = 0 <=> ~\E i \in DOMAIN t : SpoilsEmitter(t[i])
    BY <1>1, SpoiltFound
  <2>2. Spoilt(t) # 0 => Spoilt(t) \in 0 .. Len(t)
    <3>1. Spoilt(t) # 0 => Spoilt(t) \in DOMAIN t
      BY <1>1, SpoiltFound
    <3>2. DOMAIN t = 1 .. Len(t) /\ Len(t) \in Nat
      BY <1>1
    <3> QED
      BY <3>1, <3>2
  <2>3. Written(c) = UpToSpoiler(t)
    BY DEF Written, t
  <2> QED
    BY <2>1, <2>2, <2>3 DEF UpToSpoiler, Spoilt
<1>3. t = SubSeq(t, 1, Len(t)) /\ Len(t) \in 0 .. Len(t)
  BY <1>1
<1>4. PICK k \in 0 .. Len(t) : Written(c) = SubSeq(t, 1, k)
  BY <1>2, <1>3
<1>5. SubSeq(t, 1, k) \in ContentsOf(cap) /\ SubSeq(t, 1, k) \in Seq(Things)
  BY <1>1, PrefixFits, Shorter
<1> QED
  BY <1>4, <1>5 DEF t

-----------------------------------------------------------------------------
(* What a container reads back.                                            *)

Nodes == {ThingSave(t) : t \in Things} \cup {Null}

LoadOne(v, n, cap) ==
  IF v.ended THEN v
  ELSE IF n = Null THEN [v EXCEPT !.ok = TRUE, !.ended = TRUE]
  ELSE IF Create(n) = None \/ ~ContainerAdd(v.contents, cap, Create(n)).added THEN v
  ELSE [v EXCEPT !.ok = TRUE, !.contents = ContainerAdd(v.contents, cap, Create(n)).contents]

Loads(cap) == [ok : BOOLEAN, ended : BOOLEAN, contents : ContentsOf(cap)]
NoneRead == [ok |-> FALSE, ended |-> FALSE, contents |-> <<>>]

LEMMA NothingFits ==
  ASSUME NEW cap \in Nat
  PROVE  <<>> \in ContentsOf(cap)
<1> DEFINE e == <<>>
<1>1. e \in Seq(Occupants) /\ DOMAIN e = {}
  OBVIOUS
<1> HIDE DEF e
<1>2. e \in ContentsOf(cap)
  BY <1>1, Contained
<1> QED
  BY <1>2 DEF e

LEMMA LoadType ==
  ASSUME NEW cap \in Nat, NEW v \in Loads(cap), NEW n \in Nodes
  PROVE  LoadOne(v, n, cap) \in Loads(cap)
<1>1. CASE v.ended
  BY <1>1 DEF LoadOne
<1>2. CASE ~v.ended /\ n = Null
  BY <1>2 DEF LoadOne, Loads
<1>3. CASE ~v.ended /\ n # Null
  <2> DEFINE t == Create(n)
             to == ContainerAdd(v.contents, cap, t)
  <2>1. PICK x \in Things : n = ThingSave(x)
    BY <1>3 DEF Nodes
  <2>2. t \in Occupants
    BY <2>1, ThingKept DEF Occupants
  <2> HIDE DEF t
  <2>3. v.contents \in ContentsOf(cap)
    BY DEF Loads
  <2>4. to.contents \in ContentsOf(cap)
    BY <2>2, <2>3, AddKeeps
  <2> HIDE DEF to
  <2>5. [v EXCEPT !.ok = TRUE, !.contents = to.contents] \in Loads(cap)
    BY <2>4 DEF Loads
  <2>6. LoadOne(v, n, cap) \in {v, [v EXCEPT !.ok = TRUE, !.contents = to.contents]}
    BY <1>3 DEF LoadOne, t, to
  <2> QED
    BY <2>5, <2>6
<1> QED
  BY <1>1, <1>2, <1>3

LEMMA LoadTypes ==
  ASSUME NEW cap \in Nat, NEW node \in Seq(Nodes)
  PROVE  \A i \in 1 .. Len(node) : \A v \in Loads(cap) : LoadOne(v, node[i], cap) \in Loads(cap)
<1>1. \A i \in 1 .. Len(node) : node[i] \in Nodes
  OBVIOUS
<1> QED
  BY <1>1, LoadType

\* Container::load, one node after the other.
IsLoaded(cap, node, r) ==
  /\ r \in [0 .. Len(node) -> Loads(cap)]
  /\ r[0] = NoneRead
  /\ \A k \in 1 .. Len(node) : r[k] = LoadOne(r[k - 1], node[k], cap)
  /\ ContainerLoad(node, cap) = r[Len(node)]

LEMMA LoadedBySteps ==
  ASSUME NEW cap \in Nat, NEW node \in Seq(Nodes)
  PROVE  \E r : IsLoaded(cap, node, r)
<1> DEFINE n == Len(node)
           V == Loads(cap)
           base == NoneRead
           step == [i \in 1 .. n |-> [v \in V |-> LoadOne(v, node[i], cap)]]
           Folds(g) == g = [s \in SUBSET DOMAIN node |->
                              IF s = {} THEN base
                              ELSE LoadOne(g[s \ {Max(s)}], node[Max(s)], cap)]
           iter == CHOOSE g : Folds(g)
<1>1. n \in Nat /\ DOMAIN node = 1 .. n
  OBVIOUS
<1>2. base \in V
  BY NothingFits DEF NoneRead, Loads
<1>3. \A i \in 1 .. n : \A v \in V : LoadOne(v, node[i], cap) \in V
  BY LoadTypes
<1>4. step \in [1 .. n -> [V -> V]]
  BY <1>3
<1>5. /\ \A s \in SUBSET (1 .. n) : s # {} => Max(s) \in 1 .. n
      /\ \A i \in 1 .. n, v \in V : step[i][v] = LoadOne(v, node[i], cap)
  <2>1. \A s \in SUBSET (1 .. n) : s # {} => Max(s) \in s
    BY <1>1, MaxOf
  <2> QED
    BY <1>1, <2>1
<1>6. ContainerLoad(node, cap) = iter[DOMAIN node]
  BY DEF ContainerLoad, FoldLeft, MapThenFoldSet, LoadOne, NoneRead
<1> HIDE DEF n, V, base, step
<1>7. PICK g \in [SUBSET (1 .. n) -> V] : AtLast(n, base, step, g)
  BY <1>1, <1>2, <1>4, IteratesExists
<1>8. Folds(g)
  <2>1. ASSUME NEW s \in SUBSET (1 .. n), s # {}
        PROVE  step[Max(s)][g[s \ {Max(s)}]]
                 = LoadOne(g[s \ {Max(s)}], node[Max(s)], cap)
    <3>1. Max(s) \in 1 .. n /\ g[s \ {Max(s)}] \in V
      BY <1>5, <2>1
    <3> QED
      BY <1>1, <1>5, <3>1
  <2> DEFINE there(s) == IF s = {} THEN base ELSE LoadOne(g[s \ {Max(s)}], node[Max(s)], cap)
  <2>2. \A s \in SUBSET (1 .. n) : g[s] = there(s)
    BY <1>7, <2>1 DEF AtLast
  <2> HIDE DEF there
  <2>3. g = [s \in SUBSET (1 .. n) |-> there(s)]
    BY <2>2
  <2> QED
    BY <1>1, <2>3 DEF there
<1>9. Folds(iter)
  BY <1>8
<1> HIDE DEF iter
<1>10. Iterates(n, V, base, step, iter)
  <2>1. iter[{}] = base
    BY <1>1, <1>9
  <2>2. ASSUME NEW s \in SUBSET (1 .. n), s # {}, iter[s \ {Max(s)}] \in V
        PROVE  iter[s] = step[Max(s)][iter[s \ {Max(s)}]]
    <3>1. iter[s] = LoadOne(iter[s \ {Max(s)}], node[Max(s)], cap)
      BY <1>1, <1>9, <2>2
    <3> QED
      BY <1>1, <1>5, <2>2, <3>1
  <2> QED
    BY <2>1, <2>2 DEF Iterates
<1>11. PICK r \in [0 .. n -> V] : Course(n, base, step, r) /\ r[n] = iter[1 .. n]
  <2>1. Leads(n, V, base, step, iter[1 .. n])
    BY <1>1, <1>2, <1>4, <1>10, Coursed
  <2> QED
    BY <2>1 DEF Leads
<1>12. \A k \in 1 .. n : r[k - 1] \in V /\ k - 1 \in 0 .. n
  BY <1>1
<1>13. \A k \in 1 .. n : r[k] = LoadOne(r[k - 1], node[k], cap)
  BY <1>5, <1>11, <1>12 DEF Course
<1>14. r[0] = base /\ ContainerLoad(node, cap) = r[n]
  BY <1>1, <1>6, <1>11 DEF Course
<1> HIDE DEF Folds
<1> USE DEF n, V, base
<1> QED
  BY <1>11, <1>13, <1>14 DEF IsLoaded

LEMMA ReadBackOne ==
  ASSUME NEW S, NEW w \in Seq(S), NEW k \in 1 .. Len(w)
  PROVE  ReadBack(SubSeq(w, 1, k)) = Append(ReadBack(SubSeq(w, 1, k - 1)), Back(w[k]))
<1> DEFINE B == S \cup {Back(w[i]) : i \in DOMAIN w}
           now == [i \in 1 .. k |-> Back(w[i])]
           old == [i \in 1 .. k - 1 |-> Back(w[i])]
<1>1. DOMAIN w = 1 .. Len(w) /\ Len(w) \in Nat /\ k \in Nat
  OBVIOUS
<1>2. ReadBack(SubSeq(w, 1, k)) = now
  <2>1. DOMAIN SubSeq(w, 1, k) = 1 .. k /\ \A i \in 1 .. k : SubSeq(w, 1, k)[i] = w[i]
    BY <1>1, Shorter
  <2> QED
    BY <2>1 DEF ReadBack, Back
<1>3. ReadBack(SubSeq(w, 1, k - 1)) = old
  <2>1. /\ DOMAIN SubSeq(w, 1, k - 1) = 1 .. k - 1
        /\ \A i \in 1 .. k - 1 : SubSeq(w, 1, k - 1)[i] = w[i]
    <3>1. k - 1 \in 0 .. Len(w)
      BY <1>1
    <3> QED
      BY <1>1, <3>1, Shorter
  <2> QED
    BY <2>1 DEF ReadBack, Back
<1>4. now = Append(old, Back(w[k]))
  <2> HIDE DEF B
  <2>1. \A i \in 1 .. k : Back(w[i]) \in B
    BY <1>1 DEF B
  <2> DEFINE b(i) == Back(w[i])
  <2> HIDE DEF b
  <2>2. [i \in 1 .. k |-> b(i)] = Append([i \in 1 .. k - 1 |-> b(i)], b(k))
    <3>1. \A i \in 1 .. k : b(i) \in B
      BY <2>1 DEF b
    <3>2. [i \in 1 .. k - 1 |-> b(i)] \in Seq(B) /\ Len([i \in 1 .. k - 1 |-> b(i)]) = k - 1
      BY <1>1, <3>1
    <3> QED
      BY <1>1, <3>1, <3>2
  <2> QED
    BY <2>2 DEF b
<1> QED
  BY <1>2, <1>3, <1>4

LEMMA ReadBackFits ==
  ASSUME NEW cap \in Nat, NEW w \in ContentsOf(cap), w \in Seq(Things)
  PROVE  /\ ReadBack(w) \in ContentsOf(cap) /\ ReadBack(w) \in Seq(Things)
         /\ DOMAIN ReadBack(w) = DOMAIN w /\ Len(ReadBack(w)) = Len(w)
         /\ \A i \in DOMAIN w : ReadBack(w)[i].type = w[i].type /\ ReadBack(w)[i] = Back(w[i])
<1> DEFINE b == ReadBack(w)
<1>1. /\ \A i, j \in DOMAIN w : w[i].type = "coin" /\ w[j].type = "coin" => i = j
      /\ \A i \in DOMAIN w : w[i].type = "coin" \/ i <= cap
      /\ DOMAIN w = 1 .. Len(w) /\ Len(w) \in Nat
      /\ \A i \in DOMAIN w : w[i] \in Things
  BY Contained
<1>2. b = [i \in DOMAIN w |-> Back(w[i])]
  BY DEF ReadBack, Back
<1>3. \A i \in DOMAIN w : Back(w[i]) \in Things /\ Back(w[i]).type = w[i].type
  BY <1>1, ThingKept
<1> HIDE DEF b
<1>4. b \in Seq(Things) /\ DOMAIN b = DOMAIN w /\ Len(b) = Len(w)
  BY <1>1, <1>2, <1>3
<1>5. \A i \in DOMAIN w : b[i].type = w[i].type /\ b[i] = Back(w[i])
  BY <1>2, <1>3
<1>6. b \in Seq(Occupants)
  BY <1>4 DEF Occupants
<1> QED
  BY <1>1, <1>4, <1>5, <1>6, Contained DEF b

\* A container gives back what was written of it.
LEMMA ContentsKept ==
  ASSUME NEW cap \in Nat, NEW c \in ContentsOf(cap)
  PROVE  /\ ContainerLoad(ContainerSave(c), cap).ok
         /\ ContainerLoad(ContainerSave(c), cap).contents = ReadBack(Written(c))
<1> DEFINE w == Written(c)
           n == Len(w)
           texts == [i \in DOMAIN w |-> ThingSave(w[i])]
           node == ContainerSave(c)
<1>1. w \in ContentsOf(cap) /\ w \in Seq(Things) /\ c \in Seq(Occupants)
  BY WrittenFits, Contained
<1>2. node = SeqOrNull(texts)
  BY <1>1, SavedAs
<1> HIDE DEF w, node
<1>3. n \in Nat /\ DOMAIN w = 1 .. n /\ \A i \in 1 .. n : w[i] \in Things
  BY <1>1
<1>4. CASE n = 0
  <2>1. w = <<>> /\ texts = <<>>
    BY <1>1, <1>3, <1>4
  <2>2. node = <<Null>>
    BY <1>2, <2>1 DEF SeqOrNull
  <2>3. Null \in Nodes
    BY DEF Nodes
  <2>4. node \in Seq(Nodes) /\ Len(node) = 1 /\ node[1] = Null
    BY <2>2, <2>3, One
  <2>5. PICK r : IsLoaded(cap, node, r)
    BY <2>4, LoadedBySteps
  <2>6. r[0] = NoneRead /\ r[1] = LoadOne(r[0], Null, cap) /\ ContainerLoad(node, cap) = r[1]
    <3>1. 1 \in 1 .. Len(node) /\ 1 - 1 = 0
      BY <2>4
    <3> QED
      BY <2>4, <2>5, <3>1 DEF IsLoaded
  <2>7. r[1] = [NoneRead EXCEPT !.ok = TRUE, !.ended = TRUE]
    BY <2>6 DEF LoadOne, NoneRead
  <2>8. r[1].ok /\ r[1].contents = <<>>
    BY <2>7 DEF NoneRead
  <2>9. ReadBack(w) = <<>>
    BY <2>1 DEF ReadBack
  <2> QED
    BY <2>6, <2>8, <2>9 DEF w, node
<1>5. CASE n # 0
  <2>1. texts \in Seq(Nodes) /\ Len(texts) = n /\ DOMAIN texts = 1 .. n
        /\ \A i \in 1 .. n : texts[i] = ThingSave(w[i])
    <3>1. \A i \in 1 .. n : ThingSave(w[i]) \in Nodes
      BY <1>3 DEF Nodes
    <3> HIDE DEF n
    <3> QED
      BY <1>3, <3>1
  <2> HIDE DEF texts
  <2>2. node = texts
    <3>1. texts # <<>>
      BY <1>3, <1>5, <2>1
    <3> QED
      BY <1>2, <3>1 DEF SeqOrNull
  <2>3. PICK r : IsLoaded(cap, node, r)
    BY <2>1, <2>2, LoadedBySteps
  <2>4. r[0] = NoneRead /\ ContainerLoad(node, cap) = r[n]
        /\ \A k \in 1 .. n : r[k] = LoadOne(r[k - 1], ThingSave(w[k]), cap)
    BY <2>1, <2>2, <2>3 DEF IsLoaded
  <2> DEFINE upto(k) == ReadBack(SubSeq(w, 1, k))
             goal(k) == [ok |-> k # 0, ended |-> FALSE, contents |-> upto(k)]
  <2>5. r[0] = goal(0)
    <3>1. SubSeq(w, 1, 0) = <<>>
      BY <1>1
    <3>2. upto(0) = <<>>
      BY <3>1 DEF ReadBack
    <3> QED
      BY <2>4, <3>2 DEF NoneRead
  <2>6. ASSUME NEW k \in 1 .. n, r[k - 1] = goal(k - 1)
        PROVE  r[k] = goal(k)
    <3> DEFINE old == upto(k - 1)
               t == Back(w[k])
               to == ContainerAdd(old, cap, t)
               v == goal(k - 1)
    <3>1. k - 1 \in 0 .. n /\ k \in Nat
      BY <1>3
    <3>2. /\ old \in ContentsOf(cap) /\ old \in Seq(Things) /\ Len(old) = k - 1
          /\ DOMAIN old = 1 .. k - 1 /\ \A i \in 1 .. k - 1 : old[i].type = w[i].type
      <4> DEFINE pre == SubSeq(w, 1, k - 1)
      <4>1. /\ pre \in ContentsOf(cap) /\ pre \in Seq(Things) /\ Len(pre) = k - 1
            /\ DOMAIN pre = 1 .. k - 1 /\ \A i \in 1 .. k - 1 : pre[i] = w[i]
        BY <1>1, <3>1, PrefixFits, Shorter
      <4> HIDE DEF pre
      <4>2. /\ ReadBack(pre) \in ContentsOf(cap) /\ ReadBack(pre) \in Seq(Things)
            /\ DOMAIN ReadBack(pre) = DOMAIN pre /\ Len(ReadBack(pre)) = Len(pre)
            /\ \A i \in DOMAIN pre : ReadBack(pre)[i].type = pre[i].type
        BY <4>1, ReadBackFits
      <4> QED
        BY <4>1, <4>2 DEF pre
    <3>3. w[k] \in Things /\ t \in Things /\ t \in Occupants /\ t.type = w[k].type
      BY <1>3, ThingKept DEF Occupants
    <3>4. ThingSave(w[k]) # Null /\ Create(ThingSave(w[k])) = t /\ t # None
      <4>1. t.type \in {"book", "milestone", "coin"}
        BY <3>3, NotInRoom
      <4> QED
        BY <3>3, <4>1, ThingKept, NoNullNode, NoNone
    <3>5. upto(k) = Append(old, t)
      BY <1>1, ReadBackOne
    <3>6. to.added /\ to.contents = Append(old, t)
      <4>1. old \in Seq(Occupants)
        BY <3>2, Contained
      <4>2. /\ \A i, j \in DOMAIN w : w[i].type = "coin" /\ w[j].type = "coin" => i = j
            /\ \A i \in DOMAIN w : w[i].type = "coin" \/ i <= cap
        BY <1>1, Contained
      <4>3. t.type = "coin" => \A i \in DOMAIN old : old[i].type # "coin"
        <5>1. \A i \in 1 .. k - 1 : i \in DOMAIN w /\ i # k /\ k \in DOMAIN w
          BY <1>3
        <5> QED
          BY <3>2, <3>3, <4>2, <5>1
      <4>4. t.type # "coin" => Len(old) < cap
        <5>1. k \in DOMAIN w
          BY <1>3
        <5> QED
          BY <3>1, <3>2, <3>3, <4>2, <5>1
      <4> HIDE DEF old, t
      <4>5. \/ t.type = "coin" /\ Pile(old) \in DOMAIN old /\ old[Pile(old)] \in Coins
            \/ to.added /\ to.contents = Append(old, t)
            \/ t.type # "coin" /\ ~(Len(old) < cap)
        BY <3>3, <4>1, AddKinds
      <4>6. \A x \in Coins : x.type = "coin"
        BY DEF Coins
      <4> QED
        BY <4>3, <4>4, <4>5, <4>6
    <3>7. v.ended = FALSE /\ v.contents = old
      OBVIOUS
    <3>8. r[k] = LoadOne(v, ThingSave(w[k]), cap)
      BY <2>4, <2>6
    <3> DEFINE u == LoadOne(v, ThingSave(w[k]), cap)
    <3>9. u = [v EXCEPT !.ok = TRUE, !.contents = Append(old, t)]
      <4> HIDE DEF v, old, t
      <4> QED
        BY <3>4, <3>6, <3>7 DEF LoadOne
    <3>10. v = [ok |-> k - 1 # 0, ended |-> FALSE, contents |-> old]
      OBVIOUS
    <3>11. u = [ok |-> TRUE, ended |-> FALSE, contents |-> Append(old, t)]
      <4> HIDE DEF u, v, old, t
      <4> QED
        BY <3>9, <3>10
    <3>12. (k # 0) = TRUE
      BY <3>1
    <3> QED
      BY <3>5, <3>8, <3>11, <3>12
  <2> DEFINE Q == {k \in 0 .. n : r[k] = goal(k)}
  <2>7. 0 \in Q /\ \A k \in 1 .. n : k - 1 \in Q => k \in Q
    <3>1. 0 \in 0 .. n /\ \A k \in 1 .. n : k \in 0 .. n
      BY <1>3
    <3> HIDE DEF goal, n
    <3> QED
      BY <2>5, <2>6, <3>1
  <2>8. n \in Q
    <3> HIDE DEF Q, n
    <3>1. 0 .. n \subseteq Q
      BY <1>3, <2>7, Upward
    <3> QED
      BY <1>3, <3>1
  <2>9. SubSeq(w, 1, n) = w
    BY <1>1
  <2>10. r[n] = [ok |-> TRUE, ended |-> FALSE, contents |-> ReadBack(w)]
    <3>1. r[n] = goal(n) /\ upto(n) = ReadBack(w) /\ (n # 0) = TRUE
      BY <1>5, <2>8, <2>9
    <3> QED
      BY <3>1
  <2>11. r[n].ok /\ r[n].contents = ReadBack(w)
    BY <2>10
  <2> QED
    BY <2>4, <2>11 DEF w, node
<1> QED
  BY <1>3, <1>4, <1>5

-----------------------------------------------------------------------------
(* Exits, rooms and players.                                               *)

Inventory(capacity) == {c \in ContentsOf(capacity) : InRoom \notin Elements(c)}

\* Rooms and players as there can be any.
RoomRecords ==
    [interest : {ShippedRoom.interest}, exits : {ShippedRoom.exits},
     contents : ContentsOf(RoomCapacity)]

IsPlayer(p) ==
    /\ p = [nicknames |-> <<>>, conditions |-> <<>>, location |-> p.location,
            description |-> p.description, aliases |-> p.aliases, languages |-> Nothing,
            contents |-> p.contents]
    /\ p.aliases \in AliasMaps
    /\ p.contents \in Inventory(PlayerCapacity)

\* What is in memory, what is in the files and what is on its way there.
InMemory ==
    /\ room # None => phase \in {"up", "rooms", "zones"} /\ room \in RoomRecords
    /\ player # None => phase = "up" /\ IsPlayer(player)

InFiles ==
    /\ Complete("room") => kept.room \in RoomRecords /\ files.room = RoomSave(kept.room)
    /\ Complete("player") => IsPlayer(kept.player) /\ files.player = PlayerSave(kept.player)

OnTheWay ==
    /\ DOMAIN kept = {"player", "room"} /\ DOMAIN files = {"config", "bans", "room", "player"}
    /\ phase \in {"bans", "config", "down"} => write.file \notin {"room", "player"}
    /\ phase \in {"rooms", "zones"} /\ write # NoWrite => write.file = "room" /\ write.of = room
    /\ write.file = "room" =>
          room # None /\ write.of \in RoomRecords /\ write.text = RoomSave(write.of)
    /\ write.file = "player" =>
          /\ phase = "up" /\ write.by = "process"
          /\ player # None /\ write.of = player /\ write.text = PlayerSave(player)

RecordsInv == InMemory /\ InFiles /\ OnTheWay

LEMMA ExitKept ==
  ASSUME NEW e \in Exits
  PROVE  ExitLoad(ExitSave(e)) = e
<1> DEFINE node == ExitSave(e)
           x == ExitLoad(node)
<1>1. e = [name |-> e.name, to |-> e.to, key |-> e.key, closed |-> e.closed, locked |-> FALSE]
      /\ e.key \in Text
  BY DEF Exits
<1>2. node = [name |-> e.name, to |-> e.to, key |-> TextOrNull(e.key), closed |-> e.closed]
  BY DEF ExitSave
<1>3. (IF TextOrNull(e.key) = Null THEN "" ELSE TextOrNull(e.key)) = e.key
  BY <1>1, NullAssumption DEF TextOrNull
<1> HIDE DEF node
<1>4. x = [name |-> node.name, to |-> node.to, key |-> IF node.key = Null THEN "" ELSE node.key,
           closed |-> node.closed, locked |-> FALSE]
  BY DEF ExitLoad
<1>5. node.name = e.name /\ node.to = e.to /\ node.closed = e.closed
      /\ (IF node.key = Null THEN "" ELSE node.key) = e.key
  BY <1>2, <1>3
<1> HIDE DEF x
<1>6. x = [name |-> e.name, to |-> e.to, key |-> e.key, closed |-> e.closed, locked |-> FALSE]
  BY <1>4, <1>5
<1> QED
  BY <1>1, <1>6 DEF x, node

AddedExits(t) == FoldLeft(AddExit, <<>>, t)

LEMMA ExitTypes ==
  ASSUME NEW S, NEW t \in Seq(S)
  PROVE  \A i \in 1 .. Len(t) : \A v \in Seq(S) : AddExit(v, t[i]) \in Seq(S)
<1>1. \A i \in 1 .. Len(t) : t[i] \in S
  OBVIOUS
<1>2. \A v \in Seq(S), x \in S : Append(v, x) \in Seq(S)
  OBVIOUS
<1> QED
  BY <1>1, <1>2 DEF AddExit

\* Room::load, one exit after the other.
AreAdded(S, t, r) ==
  /\ r \in [0 .. Len(t) -> Seq(S)]
  /\ r[0] = <<>>
  /\ \A k \in 1 .. Len(t) : r[k] = AddExit(r[k - 1], t[k])
  /\ AddedExits(t) = r[Len(t)]

LEMMA ExitsAddedBySteps ==
  ASSUME NEW S, NEW t \in Seq(S)
  PROVE  \E r : AreAdded(S, t, r)
<1> DEFINE n == Len(t)
           V == Seq(S)
           base == <<>>
           step == [i \in 1 .. n |-> [v \in V |-> AddExit(v, t[i])]]
           Folds(g) == g = [s \in SUBSET DOMAIN t |->
                              IF s = {} THEN base
                              ELSE AddExit(g[s \ {Max(s)}], t[Max(s)])]
           iter == CHOOSE g : Folds(g)
<1>1. n \in Nat /\ DOMAIN t = 1 .. n
  OBVIOUS
<1>2. base \in V
  OBVIOUS
<1>3. \A i \in 1 .. n : \A v \in V : AddExit(v, t[i]) \in V
  BY ExitTypes
<1>4. step \in [1 .. n -> [V -> V]]
  BY <1>3
<1>5. /\ \A s \in SUBSET (1 .. n) : s # {} => Max(s) \in 1 .. n
      /\ \A i \in 1 .. n, v \in V : step[i][v] = AddExit(v, t[i])
  <2>1. \A s \in SUBSET (1 .. n) : s # {} => Max(s) \in s
    BY <1>1, MaxOf
  <2> QED
    BY <1>1, <2>1
<1>6. AddedExits(t) = iter[DOMAIN t]
  BY DEF AddedExits, FoldLeft, MapThenFoldSet
<1> HIDE DEF n, V, base, step
<1>7. PICK g \in [SUBSET (1 .. n) -> V] : AtLast(n, base, step, g)
  BY <1>1, <1>2, <1>4, IteratesExists
<1>8. Folds(g)
  <2>1. ASSUME NEW s \in SUBSET (1 .. n), s # {}
        PROVE  step[Max(s)][g[s \ {Max(s)}]]
                 = AddExit(g[s \ {Max(s)}], t[Max(s)])
    <3>1. Max(s) \in 1 .. n /\ g[s \ {Max(s)}] \in V
      BY <1>5, <2>1
    <3> QED
      BY <1>1, <1>5, <3>1
  <2> DEFINE there(s) == IF s = {} THEN base ELSE AddExit(g[s \ {Max(s)}], t[Max(s)])
  <2>2. \A s \in SUBSET (1 .. n) : g[s] = there(s)
    BY <1>7, <2>1 DEF AtLast
  <2> HIDE DEF there
  <2>3. g = [s \in SUBSET (1 .. n) |-> there(s)]
    BY <2>2
  <2> QED
    BY <1>1, <2>3 DEF there
<1>9. Folds(iter)
  BY <1>8
<1> HIDE DEF iter
<1>10. Iterates(n, V, base, step, iter)
  <2>1. iter[{}] = base
    BY <1>1, <1>9
  <2>2. ASSUME NEW s \in SUBSET (1 .. n), s # {}, iter[s \ {Max(s)}] \in V
        PROVE  iter[s] = step[Max(s)][iter[s \ {Max(s)}]]
    <3>1. iter[s] = AddExit(iter[s \ {Max(s)}], t[Max(s)])
      BY <1>1, <1>9, <2>2
    <3> QED
      BY <1>1, <1>5, <2>2, <3>1
  <2> QED
    BY <2>1, <2>2 DEF Iterates
<1>11. PICK r \in [0 .. n -> V] : Course(n, base, step, r) /\ r[n] = iter[1 .. n]
  <2>1. Leads(n, V, base, step, iter[1 .. n])
    BY <1>1, <1>2, <1>4, <1>10, Coursed
  <2> QED
    BY <2>1 DEF Leads
<1>12. \A k \in 1 .. n : r[k - 1] \in V /\ k - 1 \in 0 .. n
  BY <1>1
<1>13. \A k \in 1 .. n : r[k] = AddExit(r[k - 1], t[k])
  BY <1>5, <1>11, <1>12 DEF Course
<1>14. r[0] = base /\ AddedExits(t) = r[n]
  BY <1>1, <1>6, <1>11 DEF Course
<1> HIDE DEF Folds
<1> USE DEF n, V, base
<1> QED
  BY <1>11, <1>13, <1>14 DEF AreAdded

LEMMA ExitsAdded ==
  ASSUME NEW S, NEW t \in Seq(S), \A i, j \in DOMAIN t : t[i].name = t[j].name => i = j
  PROVE  AddedExits(t) = t
<1> DEFINE n == Len(t)
           upto(k) == SubSeq(t, 1, k)
<1>1. n \in Nat /\ DOMAIN t = 1 .. n
  OBVIOUS
<1>2. PICK r : AreAdded(S, t, r)
  BY ExitsAddedBySteps
<1>3. r[0] = upto(0)
  <2>1. upto(0) = <<>>
    OBVIOUS
  <2> QED
    BY <1>2, <2>1 DEF AreAdded
<1>4. ASSUME NEW k \in 1 .. n, r[k - 1] = upto(k - 1)
      PROVE  r[k] = upto(k)
  <2>1. r[k] = AddExit(upto(k - 1), t[k])
    BY <1>2, <1>4 DEF AreAdded
  <2>2. /\ DOMAIN upto(k - 1) = 1 .. k - 1
        /\ \A i \in 1 .. k - 1 : upto(k - 1)[i] = t[i] /\ i \in DOMAIN t /\ i # k
    BY <1>1
  <2>3. k \in DOMAIN t
    BY <1>1
  <2>4. Append(upto(k - 1), t[k]) = upto(k)
    BY <1>1
  <2> HIDE DEF upto
  <2> QED
    BY <2>1, <2>2, <2>3, <2>4 DEF AddExit
<1> DEFINE Q == {k \in 0 .. n : r[k] = upto(k)}
<1>5. 0 \in Q /\ \A k \in 1 .. n : k - 1 \in Q => k \in Q
  BY <1>1, <1>3, <1>4
<1>6. n \in Q
  <2> HIDE DEF Q, n
  <2>1. 0 .. n \subseteq Q
    BY <1>1, <1>5, Upward
  <2> QED
    BY <1>1, <2>1
<1>7. upto(n) = t
  OBVIOUS
<1> QED
  BY <1>2, <1>6, <1>7 DEF AreAdded

ExitNodes == [name : Text, to : Text, key : Texts, closed : BOOLEAN]
ExitsNode(exits) == IF exits = <<>> THEN Null ELSE [i \in DOMAIN exits |-> ExitSave(exits[i])]

LEMMA ExitsKept ==
  ASSUME NEW exits \in Seq(Exits),
         \A i, j \in DOMAIN exits : exits[i].name = exits[j].name => i = j
  PROVE  ExitsNode(exits) # <<>> /\ LoadExits(ExitsNode(exits)) = exits
<1> DEFINE node == ExitsNode(exits)
<1>1. CASE exits = <<>>
  <2>1. node = Null
    BY <1>1 DEF ExitsNode
  <2> QED
    BY <1>1, <2>1, NullAssumption DEF LoadExits
<1>2. CASE exits # <<>>
  <2>1. DOMAIN exits = 1 .. Len(exits) /\ Len(exits) \in Nat /\ Len(exits) # 0
        /\ \A i \in DOMAIN exits : exits[i] \in Exits
    BY <1>2
  <2>2. node = [i \in DOMAIN exits |-> ExitSave(exits[i])]
    BY <1>2 DEF ExitsNode
  <2> HIDE DEF node
  <2>3. \A e \in Exits : ExitSave(e) \in ExitNodes
    <3>1. \A e \in Exits : /\ e.name \in Text /\ e.to \in Text /\ e.closed \in BOOLEAN
                           /\ TextOrNull(e.key) \in Texts
      BY DEF Exits, TextOrNull, Texts
    <3> QED
      BY <3>1 DEF ExitSave, ExitNodes
  <2>4. node \in Seq(ExitNodes) /\ DOMAIN node = DOMAIN exits
        /\ \A i \in DOMAIN exits : node[i] = ExitSave(exits[i])
    BY <2>1, <2>2, <2>3
  <2>5. node # Null /\ node # <<>>
    <3>1. node # Null
      BY <2>4, NullAssumption DEF ExitNodes
    <3>2. Len(node) # 0
      BY <2>1, <2>4
    <3> QED
      BY <2>4, <3>1, <3>2
  <2>6. [i \in DOMAIN node |-> ExitLoad(node[i])] = exits
    <3>1. \A i \in DOMAIN exits : ExitLoad(node[i]) = exits[i]
      BY <2>1, <2>4, ExitKept
    <3>2. exits = [i \in DOMAIN exits |-> exits[i]]
      OBVIOUS
    <3> QED
      BY <2>4, <3>1, <3>2
  <2>7. LoadExits(node) = AddedExits([i \in DOMAIN node |-> ExitLoad(node[i])])
    BY <2>5 DEF LoadExits, AddedExits
  <2>8. AddedExits(exits) = exits
    BY ExitsAdded
  <2> QED
    BY <2>5, <2>6, <2>7, <2>8 DEF node
<1> QED
  BY <1>1, <1>2

\* A map without keys is written as a null.
LEMMA MapKept ==
  ASSUME NEW f, f = [k \in DOMAIN f |-> f[k]], Null # f
  PROVE  (IF MapOrNull(f) = Null THEN Nothing ELSE MapOrNull(f)) = f
<1>1. CASE DOMAIN f = {}
  <2>1. f = [k \in {} |-> f[k]]
    BY <1>1
  <2>2. <<>> = [k \in {} |-> f[k]]
    OBVIOUS
  <2> QED
    BY <1>1, <2>1, <2>2 DEF MapOrNull, Nothing
<1>2. CASE DOMAIN f # {}
  BY <1>2 DEF MapOrNull
<1> QED
  BY <1>1, <1>2

LEMMA RoomKept ==
  ASSUME NEW r \in RoomRecords
  PROVE  /\ RoomLoad(RoomSave(r), RoomCapacity)
              = [r EXCEPT !.contents = ReadBack(Written(@))]
         /\ [r EXCEPT !.contents = ReadBack(Written(@))] \in RoomRecords
<1> DEFINE node == RoomSave(r)
           inside == ContainerLoad(node.contents, RoomCapacity)
           back == ReadBack(Written(r.contents))
           loaded == RoomLoad(node, RoomCapacity)
<1>1. /\ r = [interest |-> r.interest, exits |-> r.exits, contents |-> r.contents]
      /\ r.interest = ShippedRoom.interest /\ r.exits = ShippedRoom.exits
      /\ r.contents \in ContentsOf(RoomCapacity)
  BY DEF RoomRecords
<1>2. node = [interest |-> MapOrNull(r.interest), exits |-> ExitsNode(r.exits),
              contents |-> ContainerSave(r.contents)]
  BY DEF RoomSave, ExitsNode
<1> HIDE DEF node
<1>3. /\ node.interest = MapOrNull(r.interest) /\ node.exits = ExitsNode(r.exits)
      /\ node.contents = ContainerSave(r.contents)
  BY <1>2
<1>4. node.exits # <<>> /\ LoadExits(node.exits) = r.exits
  BY <1>1, <1>3, ExitsKept, ShippedAssumption
<1>5. (IF node.interest = Null THEN Nothing ELSE node.interest) = r.interest
  BY <1>1, <1>3, MapKept, ShippedAssumption
<1>6. inside.ok /\ inside.contents = back
  BY <1>1, <1>3, ContentsKept, RestartAssumption
<1> HIDE DEF inside, back
<1>7. loaded = [interest |-> IF node.interest = Null THEN Nothing ELSE node.interest,
                exits |-> LoadExits(node.exits), contents |-> inside.contents]
  BY <1>4, <1>6 DEF RoomLoad, inside
<1> HIDE DEF loaded
<1>8. loaded = [interest |-> r.interest, exits |-> r.exits, contents |-> back]
  BY <1>4, <1>5, <1>6, <1>7
<1>9. [r EXCEPT !.contents = back] = [interest |-> r.interest, exits |-> r.exits, contents |-> back]
  <2> DEFINE all == [interest |-> r.interest, exits |-> r.exits, contents |-> r.contents]
  <2>1. [all EXCEPT !.contents = back]
          = [interest |-> r.interest, exits |-> r.exits, contents |-> back]
    OBVIOUS
  <2>2. r = all
    BY <1>1
  <2> HIDE DEF all
  <2> QED
    BY <2>1, <2>2
<1>10. back \in ContentsOf(RoomCapacity)
  BY <1>1, WrittenFits, ReadBackFits, RestartAssumption DEF back
<1>11. [r EXCEPT !.contents = back] \in RoomRecords
  BY <1>1, <1>9, <1>10 DEF RoomRecords
<1> QED
  BY <1>8, <1>9, <1>11 DEF back, loaded, node

LEMMA NotNone ==
  /\ \A r \in RoomRecords : r # None
  /\ \A p : IsPlayer(p) => p # None
<1>1. DOMAIN None = {"null"}
  BY DEF None
<1>2. \A r \in RoomRecords : "contents" \in DOMAIN r
  BY DEF RoomRecords
<1>3. ASSUME NEW p, IsPlayer(p) PROVE "contents" \in DOMAIN p
  <2> DEFINE all == [nicknames |-> <<>>, conditions |-> <<>>, location |-> p.location,
                     description |-> p.description, aliases |-> p.aliases,
                     languages |-> Nothing, contents |-> p.contents]
  <2>1. p = all
    BY <1>3 DEF IsPlayer
  <2>2. "contents" \in DOMAIN all
    OBVIOUS
  <2> HIDE DEF all
  <2> QED
    BY <2>1, <2>2
<1> QED
  BY <1>1, <1>2, <1>3

PlayerOf(location, description, aliases, contents) ==
  [nicknames |-> <<>>, conditions |-> <<>>, location |-> location, description |-> description,
   aliases |-> aliases, languages |-> Nothing, contents |-> contents]

LEMMA PlayerFields ==
  ASSUME NEW l, NEW d, NEW a, NEW c, NEW p, p = PlayerOf(l, d, a, c)
  PROVE  /\ p.nicknames = <<>> /\ p.conditions = <<>> /\ p.location = l /\ p.description = d
         /\ p.aliases = a /\ p.languages = Nothing /\ p.contents = c
BY DEF PlayerOf

LEMMA PlayerOrNot ==
  ASSUME NEW p
  PROVE  IsPlayer(p) <=> /\ p = PlayerOf(p.location, p.description, p.aliases, p.contents)
                         /\ p.aliases \in AliasMaps /\ p.contents \in Inventory(PlayerCapacity)
BY DEF IsPlayer, PlayerOf

LEMMA APlayer ==
  ASSUME NEW l, NEW d, NEW a \in AliasMaps, NEW c \in Inventory(PlayerCapacity)
  PROVE  IsPlayer(PlayerOf(l, d, a, c))
<1> DEFINE p == PlayerOf(l, d, a, c)
<1>1. p.location = l /\ p.description = d /\ p.aliases = a /\ p.contents = c
  BY PlayerFields
<1> QED
  BY <1>1, PlayerOrNot

\* A player with other fields.
LEMMA PlayerChanged ==
  ASSUME NEW p, NEW x, IsPlayer(p)
  PROVE  /\ [p EXCEPT !.location = x] = PlayerOf(x, p.description, p.aliases, p.contents)
         /\ [p EXCEPT !.description = x] = PlayerOf(p.location, x, p.aliases, p.contents)
         /\ [p EXCEPT !.aliases = x] = PlayerOf(p.location, p.description, x, p.contents)
         /\ [p EXCEPT !.contents = x] = PlayerOf(p.location, p.description, p.aliases, x)
<1> DEFINE l == p.location
           d == p.description
           a == p.aliases
           c == p.contents
<1>1. p = PlayerOf(l, d, a, c)
  BY PlayerOrNot
<1> HIDE DEF l, d, a, c
<1> DEFINE w == [p EXCEPT !.location = x]
<1>2. w = PlayerOf(x, d, a, c)
  BY <1>1 DEF PlayerOf
<1> DEFINE v == [p EXCEPT !.description = x]
<1>3. v = PlayerOf(l, x, a, c)
  BY <1>1 DEF PlayerOf
<1> DEFINE z == [p EXCEPT !.aliases = x]
<1>4. z = PlayerOf(l, d, x, c)
  BY <1>1 DEF PlayerOf
<1> DEFINE y == [p EXCEPT !.contents = x]
<1>5. y = PlayerOf(l, d, a, x)
  BY <1>1 DEF PlayerOf
<1> QED
  BY <1>2, <1>3, <1>4, <1>5 DEF l, d, a, c

LEMMA InventoryFits ==
  ASSUME NEW cap \in Nat, NEW c \in ContentsOf(cap)
  PROVE  ReadBack(Written(c)) \in Inventory(cap)
<1> DEFINE b == ReadBack(Written(c))
<1>1. b \in ContentsOf(cap) /\ b \in Seq(Things)
  BY WrittenFits, ReadBackFits
<1> HIDE DEF b
<1>2. InRoom \notin Elements(b)
  <2>1. \A i \in DOMAIN b : b[i] \in Things
    BY <1>1
  <2> QED
    BY <2>1, NotInRoom DEF Elements
<1> QED
  BY <1>1, <1>2 DEF Inventory, b

\* What a player is after he was saved and loaded.
PlayerBack(p) == PlayerOf(p.location, "", p.aliases, ReadBack(Written(p.contents)))

LEMMA PlayerKept ==
  ASSUME NEW p, IsPlayer(p)
  PROVE  /\ PlayerLoad(PlayerSave(p), PlayerCapacity) = PlayerBack(p)
         /\ PlayerBack(p) = [p EXCEPT !.description = "", !.contents = ReadBack(Written(@))]
         /\ IsPlayer(PlayerBack(p))
<1> DEFINE node == PlayerSave(p)
           inside == ContainerLoad(node.contents, PlayerCapacity)
           back == ReadBack(Written(p.contents))
           loaded == PlayerLoad(node, PlayerCapacity)
           phys == PhysicalLoad(NewPlayer, node.physical)
<1>1. /\ p = PlayerOf(p.location, p.description, p.aliases, p.contents)
      /\ p.aliases \in AliasMaps /\ p.contents \in Inventory(PlayerCapacity)
  BY PlayerOrNot
<1>2. p.nicknames = <<>> /\ p.conditions = <<>> /\ p.languages = Nothing
  BY <1>1, PlayerFields
<1>3. /\ node.physical = PhysicalSave(p) /\ node.location = p.location
      /\ node.aliases = MapOrNull(p.aliases) /\ node.languages = MapOrNull(Nothing)
      /\ node.contents = ContainerSave(p.contents)
  BY <1>2 DEF PlayerSave, SentientSave
<1> HIDE DEF node
<1>4. NewPlayer = PlayerOf("", "", Nothing, <<>>)
  BY DEF NewPlayer, PlayerOf
<1>5. phys = PlayerOf("", "", Nothing, <<>>)
  <2>1. <<>> \in Seq(Text) /\ IsInjective(<<>>)
    BY DEF IsInjective
  <2>2. <<>> \in Distinct
    BY <2>1 DEF Distinct
  <2>3. NewPlayer.nicknames = <<>> /\ NewPlayer.conditions = <<>>
    BY DEF NewPlayer
  <2>4. PhysicalLoad(NewPlayer, PhysicalSave(p))
          = [NewPlayer EXCEPT !.nicknames = p.nicknames, !.conditions = p.conditions]
    BY <1>2, <2>1, <2>2, <2>3, PhysicalKept
  <2>5. phys = [NewPlayer EXCEPT !.nicknames = <<>>, !.conditions = <<>>]
    BY <1>2, <1>3, <2>4
  <2> HIDE DEF phys
  <2> QED
    BY <1>4, <2>5 DEF PlayerOf
<1>6. node.contents = ContainerSave(p.contents) /\ p.contents \in ContentsOf(PlayerCapacity)
  BY <1>1, <1>3 DEF Inventory
<1>7. inside.ok /\ inside.contents = back /\ back \in Inventory(PlayerCapacity)
  BY <1>6, ContentsKept, InventoryFits, RestartAssumption
<1>8. (IF node.aliases = Null THEN Nothing ELSE node.aliases) = p.aliases
  <2>1. p.aliases = [k \in DOMAIN p.aliases |-> p.aliases[k]] /\ Null # p.aliases
    BY <1>1, ShippedAssumption DEF AliasMaps
  <2> QED
    BY <1>3, <2>1, MapKept
<1>9. SentientLoad(node.languages) = Nothing
  <2>1. DOMAIN Nothing = {}
    BY DEF Nothing
  <2> QED
    BY <1>3, <2>1 DEF MapOrNull, SentientLoad
<1> HIDE DEF inside, back, phys
<1>10. loaded = [phys EXCEPT !.location = node.location,
                             !.aliases = IF node.aliases = Null THEN @ ELSE node.aliases,
                             !.languages = SentientLoad(node.languages),
                             !.contents = inside.contents]
  BY <1>7 DEF PlayerLoad, inside, phys
<1>11. loaded = [phys EXCEPT !.location = p.location, !.aliases = p.aliases,
                             !.languages = Nothing, !.contents = back]
  <2>1. phys.aliases = Nothing
    BY <1>5 DEF PlayerOf
  <2> QED
    BY <1>3, <1>7, <1>8, <1>9, <1>10, <2>1
<1> HIDE DEF loaded
<1>12. loaded = PlayerOf(p.location, "", p.aliases, back)
  BY <1>5, <1>11 DEF PlayerOf
<1> DEFINE u == [p EXCEPT !.description = "", !.contents = back]
<1>13. u = PlayerOf(p.location, "", p.aliases, back)
  <2> DEFINE v == [p EXCEPT !.description = ""]
  <2>1. v = PlayerOf(p.location, "", p.aliases, p.contents)
    BY PlayerChanged
  <2>2. u = [v EXCEPT !.contents = back]
    OBVIOUS
  <2> HIDE DEF v, u
  <2>3. IsPlayer(v) /\ v.location = p.location /\ v.description = "" /\ v.aliases = p.aliases
    <3>1. IsPlayer(v)
      BY <1>1, <2>1, APlayer, Zenon
    <3> QED
      BY <2>1, <3>1 DEF PlayerOf
  <2>4. u = PlayerOf(v.location, v.description, v.aliases, back)
    BY <2>2, <2>3, PlayerChanged, Zenon
  <2> QED
    BY <2>3, <2>4
<1>14. IsPlayer(PlayerOf(p.location, "", p.aliases, back))
  BY <1>1, <1>7, APlayer
<1> QED
  BY <1>12, <1>13, <1>14 DEF back, loaded, node, PlayerBack

-----------------------------------------------------------------------------
(* New things.                                                             *)

LEMMA PercentOf ==
  ASSUME NEW f
  PROVE  /\ DOMAIN f = {} => Percent(f) = 0
         /\ \A m : DOMAIN f = {m} /\ f[m] \in Nat => Percent(f) = f[m]
<1> DEFINE D == DOMAIN f
           sum(g) == [s \in SUBSET D |->
                        IF s = {} THEN 0
                        ELSE f[CHOOSE x \in s : TRUE] + g[s \ {CHOOSE x \in s : TRUE}]]
           Sums(g) == g = sum(g)
           iter == CHOOSE g : Sums(g)
<1>1. Percent(f) = iter[D]
  BY DEF Percent, MapThenSumSet, MapThenFoldSet
<1>2. ASSUME D = {} PROVE iter[D] = 0
  <2> DEFINE g == [s \in SUBSET D |-> 0]
  <2>1. sum(g) = g
    BY <1>2
  <2>2. Sums(g)
    BY <2>1
  <2>3. Sums(iter)
    <3> HIDE DEF Sums, g
    <3> QED
      BY <2>2
  <2> HIDE DEF iter
  <2> QED
    BY <1>2, <2>3
<1>3. ASSUME NEW m, D = {m}, f[m] \in Nat PROVE iter[D] = f[m]
  <2> DEFINE g == [s \in SUBSET D |-> IF s = {} THEN 0 ELSE f[m]]
  <2>1. \A s \in SUBSET D : s # {} => s = {m} /\ (CHOOSE x \in s : TRUE) = m /\ s \ {m} = {}
    <3>1. \A s \in SUBSET {m} : s # {} => s = {m} /\ s \ {m} = {}
      OBVIOUS
    <3>2. (CHOOSE x \in {m} : TRUE) = m
      OBVIOUS
    <3> QED
      BY <1>3, <3>1, <3>2
  <2>2. \A s \in SUBSET D : sum(g)[s] = g[s]
    <3>1. ASSUME NEW s \in SUBSET D, s # {} PROVE sum(g)[s] = g[s]
      <4>1. s = {m} /\ (CHOOSE x \in s : TRUE) = m /\ s \ {m} = {}
        BY <2>1, <3>1
      <4>2. sum(g)[s] = f[m] + g[{}]
        BY <3>1, <4>1
      <4>3. g[{}] = 0 /\ g[s] = f[m]
        BY <3>1
      <4> QED
        BY <1>3, <4>2, <4>3
    <3>2. sum(g)[{}] = g[{}]
      OBVIOUS
    <3> QED
      BY <3>1, <3>2
  <2>3. sum(g) = g
    BY <2>2
  <2>4. Sums(g)
    BY <2>3
  <2>5. Sums(iter)
    <3> HIDE DEF Sums, g
    <3> QED
      BY <2>4
  <2> HIDE DEF iter
  <2>6. iter[{}] = 0
    BY <2>5
  <2>7. iter[D] = f[m] + iter[{}]
    BY <1>3, <2>1, <2>5
  <2> QED
    BY <1>3, <2>6, <2>7
<1> QED
  BY <1>1, <1>2, <1>3

\* The metal there is most of.
LEMMA HighestIs ==
  ASSUME NEW f, NEW m \in Elements(Metals), m \in DOMAIN f,
         \A o \in DOMAIN f : f[o] \in Int /\ (o # m => f[o] < f[m])
  PROVE  Highest(f) = m
<1> DEFINE most == {x \in DOMAIN f : \A o \in DOMAIN f : f[o] <= f[x]}
           I == {i \in 1 .. Len(Metals) : Metals[i] \in most}
<1>1. most = {m}
  <2>1. m \in most
    OBVIOUS
  <2>2. \A x \in most : x = m
    OBVIOUS
  <2> QED
    BY <2>1, <2>2
<1>2. PICK i \in 1 .. Len(Metals) : Metals[i] = m
  BY MetalsThere DEF Elements
<1>3. I = {i}
  BY <1>1, <1>2, MetalsThere
<1>4. Min(I) = i
  BY <1>3, <1>2 DEF Min
<1>5. Highest(f) = IF most = {} THEN "" ELSE Metals[IF I # {} THEN Min(I) ELSE 0]
  BY DEF Highest, SelectInSeq
<1> QED
  BY <1>1, <1>2, <1>3, <1>4, <1>5

LEMMA NewCoinFits ==
  ASSUME NEW q \in Nat
  PROVE  NewCoin(q) \in Coins
<1> DEFINE c == NewCoin(q)
<1>1. c = [type |-> "coin", nicknames |-> <<"coins">>, conditions |-> <<>>, quantity |-> q,
           alloys |-> Nothing]
  BY DEF NewCoin
<1>2. /\ c.type = "coin" /\ c.nicknames = <<"coins">> /\ c.conditions = <<>> /\ c.quantity = q
      /\ c.alloys = Nothing
  BY <1>1
<1>3. <<"coins">> \in Distinct
  <2>1. "coins" \in Text
    BY DEF Text
  <2>2. <<"coins">> \in Seq(Text)
    BY <2>1, One, Zenon
  <2>3. IsInjective(<<"coins">>)
    BY DEF IsInjective
  <2> QED
    BY <2>2, <2>3 DEF Distinct
<1>4. DOMAIN Nothing = {}
  BY DEF Nothing
<1>5. Nothing \in AlloyMaps
  <2>1. Nothing \in [{} -> 0 .. 100]
    BY DEF Nothing
  <2> QED
    BY <1>4, <2>1, AlloyMap
<1> HIDE DEF c
<1>6. WellAlloyed(c)
  <2>1. c.nicknames # <<>> /\ c.nicknames[1] = "coins"
    BY <1>2
  <2> QED
    BY <1>2, <1>4, <2>1 DEF WellAlloyed
<1>7. <<>> \in Seq(Text)
  OBVIOUS
<1>8. c \in [type : {"coin"}, nicknames : Distinct, conditions : Seq(Text), quantity : Nat,
             alloys : AlloyMaps]
  BY <1>1, <1>3, <1>5, <1>7
<1> QED
  BY <1>6, <1>8 DEF Coins, c

LEMMA ABook ==
  ASSUME NEW id \in Text, NEW n \in Distinct, NEW c \in Seq(Text), NEW title \in Text,
         NEW p \in Seq(Text)
  PROVE  [type |-> "book", id |-> id, nicknames |-> n, conditions |-> c, title |-> title,
          pages |-> p] \in Books
BY DEF Books

LEMMA BookFits ==
  ASSUME NEW id \in Text
  PROVE  NewReadable("book", id) \in Books
<1> DEFINE b == NewReadable("book", id)
<1>1. b = [type |-> "book", id |-> id, nicknames |-> <<>>, conditions |-> <<>>, title |-> "",
           pages |-> <<>>]
  BY DEF NewReadable
<1>2. <<>> \in Seq(Text) /\ IsInjective(<<>>)
  BY DEF IsInjective
<1>3. <<>> \in Distinct
  BY <1>2 DEF Distinct
<1>4. "" \in Text
  BY DEF Text
<1> HIDE DEF b
<1>5. b \in Books
  BY <1>1, <1>2, <1>3, <1>4, ABook
<1> QED
  BY <1>5 DEF b

\* The coin of the `create` command.
Made == AddAlloy(AddAlloy(NewCoin(1), "copper", 90), "iron", 10)

LEMMA AlloyAdded ==
  ASSUME NEW c, NEW m, NEW a, m \notin DOMAIN c.alloys, Percent(c.alloys) + a <= 100
  PROVE  AddAlloy(c, m, a)
           = [c EXCEPT !.alloys = With(c.alloys, m, a),
                       !.nicknames = AddNickname(@, Highest(With(c.alloys, m, a)))]
BY DEF AddAlloy

Copper == With(Nothing, "copper", 90)
CopperAndIron == With(Copper, "iron", 10)

LEMMA MadeOf ==
  Made = [type |-> "coin", nicknames |-> <<"coins", "copper">>, conditions |-> <<>>,
          quantity |-> 1, alloys |-> CopperAndIron]
<1> DEFINE c0 == NewCoin(1)
           c1 == AddAlloy(c0, "copper", 90)
           names == <<"coins", "copper">>
<1>1. "copper" \in Elements(Metals) /\ "iron" \in Elements(Metals)
  BY RecordsAssumption DEF Elements
<1>2. DOMAIN Nothing = {} /\ Percent(Nothing) = 0
  BY PercentOf DEF Nothing
<1>3. DOMAIN Copper = {"copper"} /\ Copper["copper"] = 90 /\ Percent(Copper) = 90
  <2>1. DOMAIN Copper = {"copper"} /\ Copper["copper"] = 90
    BY <1>2 DEF Copper, With
  <2> QED
    BY <2>1, PercentOf
<1>4. Highest(Copper) = "copper"
  BY <1>1, <1>3, HighestIs
<1>5. /\ DOMAIN CopperAndIron = {"copper", "iron"} /\ CopperAndIron["copper"] = 90
      /\ CopperAndIron["iron"] = 10
  BY <1>3 DEF CopperAndIron, With
<1>6. Highest(CopperAndIron) = "copper"
  BY <1>1, <1>5, HighestIs
<1>7. c0 = [type |-> "coin", nicknames |-> <<"coins">>, conditions |-> <<>>, quantity |-> 1,
            alloys |-> Nothing]
  BY DEF NewCoin
<1>8. c1 = [type |-> "coin", nicknames |-> names, conditions |-> <<>>, quantity |-> 1,
            alloys |-> Copper]
  <2>1. c0.alloys = Nothing /\ c0.nicknames = <<"coins">>
    BY <1>7
  <2> HIDE DEF c0
  <2>2. c1 = [c0 EXCEPT !.alloys = Copper, !.nicknames = AddNickname(@, "copper")]
    <3>1. "copper" \notin DOMAIN c0.alloys /\ Percent(c0.alloys) + 90 <= 100
          /\ With(c0.alloys, "copper", 90) = Copper
      BY <1>2, <2>1 DEF Copper
    <3>2. c1 = [c0 EXCEPT !.alloys = With(c0.alloys, "copper", 90),
                          !.nicknames = AddNickname(@, Highest(With(c0.alloys, "copper", 90)))]
      BY <3>1, AlloyAdded, Zenon
    <3> QED
      BY <1>4, <3>1, <3>2
  <2>3. AddNickname(<<"coins">>, "copper") = names
    <3>1. ~Contains(<<"coins">>, "copper")
      BY DEF Contains
    <3>2. Append(<<"coins">>, "copper") = names
      BY Two, Zenon
    <3> QED
      BY <3>1, <3>2 DEF AddNickname
  <2> HIDE DEF c1, names
  <2>4. c1 = [c0 EXCEPT !.alloys = Copper, !.nicknames = names]
    BY <2>1, <2>2, <2>3
  <2> QED
    BY <1>7, <2>4
<1>9. Made = [type |-> "coin", nicknames |-> names, conditions |-> <<>>, quantity |-> 1,
              alloys |-> CopperAndIron]
  <2>1. c1.alloys = Copper /\ c1.nicknames = names
    BY <1>8
  <2>2. Made = AddAlloy(c1, "iron", 10)
    BY DEF Made
  <2> HIDE DEF c1
  <2>3. Made = [c1 EXCEPT !.alloys = CopperAndIron, !.nicknames = AddNickname(@, "copper")]
    <3>1. "iron" \notin DOMAIN c1.alloys /\ Percent(c1.alloys) + 10 <= 100
          /\ With(c1.alloys, "iron", 10) = CopperAndIron
      BY <1>3, <2>1 DEF CopperAndIron
    <3>2. Made = [c1 EXCEPT !.alloys = With(c1.alloys, "iron", 10),
                            !.nicknames = AddNickname(@, Highest(With(c1.alloys, "iron", 10)))]
      BY <2>2, <3>1, AlloyAdded, Zenon
    <3> QED
      BY <1>6, <3>1, <3>2
  <2>4. AddNickname(names, "copper") = names
    BY DEF AddNickname, Contains
  <2> HIDE DEF names
  <2>5. Made = [c1 EXCEPT !.alloys = CopperAndIron, !.nicknames = names]
    BY <2>1, <2>3, <2>4
  <2> QED
    BY <1>8, <2>5
<1> QED
  BY <1>9

LEMMA MadeFits == Made \in Coins
<1> DEFINE names == <<"coins", "copper">>
           a == CopperAndIron
<1>1. PICK i \in 1 .. Len(Metals), j \in 1 .. Len(Metals) :
         i < j /\ Metals[i] = "copper" /\ Metals[j] = "iron"
  BY RecordsAssumption, MetalsThere
<1>2. "copper" \in Elements(Metals) /\ "iron" \in Elements(Metals) /\ "copper" \in Text
  BY <1>1, RecordsAssumption, MetalsThere
<1>3. DOMAIN a = {"copper", "iron"} /\ a["copper"] = 90 /\ a["iron"] = 10
  BY DEF CopperAndIron, Copper, Nothing, With
<1>4. a \in AlloyMaps
  <2>1. a = [m \in DOMAIN a |-> a[m]]
    BY DEF CopperAndIron, With
  <2> HIDE DEF a
  <2>2. DOMAIN a \subseteq Elements(Metals) /\ a \in [DOMAIN a -> 0 .. 100]
    BY <1>2, <1>3, <2>1
  <2> QED
    BY <2>2, AlloyMap
<1> HIDE DEF a
<1>5. Made.nicknames = names /\ Made.alloys = a
  BY MadeOf DEF a
<1>6. \A k \in 1 .. Len(Metals) : Metals[k] \in DOMAIN a => k = i \/ k = j
  BY <1>1, <1>3, MetalsThere
<1>7. DOMAIN UpTo(a, i - 1) = {}
  BY <1>1, <1>3, MetalsThere DEF UpTo
<1>8. \A k \in i .. j - 1 : DOMAIN UpTo(a, k) = {"copper"} /\ UpTo(a, k)["copper"] = 90
  BY <1>1, <1>3, MetalsThere DEF UpTo
<1>9. /\ DOMAIN UpTo(a, j) = {"copper", "iron"} /\ UpTo(a, j)["copper"] = 90
      /\ UpTo(a, j)["iron"] = 10
  BY <1>1, <1>3, MetalsThere DEF UpTo
<1>10. i \in i .. j - 1 /\ j - 1 \in i .. j - 1
  BY <1>1
<1>11. /\ Percent(UpTo(a, i - 1)) = 0 /\ Percent(UpTo(a, j - 1)) = 90
       /\ Highest(UpTo(a, i)) = "copper" /\ Highest(UpTo(a, j)) = "copper"
  <2>1. Percent(UpTo(a, i - 1)) = 0
    BY <1>7, PercentOf
  <2>2. Percent(UpTo(a, j - 1)) = 90
    BY <1>8, <1>10, PercentOf
  <2>3. Highest(UpTo(a, i)) = "copper"
    BY <1>2, <1>8, <1>10, HighestIs
  <2>4. Highest(UpTo(a, j)) = "copper"
    BY <1>2, <1>9, HighestIs
  <2> QED
    BY <2>1, <2>2, <2>3, <2>4
<1>12. /\ names # <<>> /\ names[1] = "coins" /\ "copper" \in Elements(names)
       /\ names \in Distinct
  <2>1. names # <<>> /\ names[1] = "coins" /\ names[2] = "copper" /\ DOMAIN names = {1, 2}
    OBVIOUS
  <2>2. "copper" \in Elements(names)
    BY <2>1 DEF Elements
  <2>3. "coins" \in Text
    BY DEF Text
  <2>4. names \in Seq(Text)
    BY <1>2, <2>3
  <2>5. IsInjective(names)
    BY <2>1 DEF IsInjective
  <2> QED
    BY <2>1, <2>2, <2>4, <2>5 DEF Distinct
<1> HIDE DEF names
<1>13. WellAlloyed(Made)
  <2>1. ASSUME NEW k \in DOMAIN Metals, Metals[k] \in DOMAIN a
        PROVE  /\ Percent(UpTo(a, k - 1)) + a[Metals[k]] <= 100
               /\ Highest(UpTo(a, k)) \in Elements(names)
    <3>1. k = i \/ k = j
      BY <1>6, <2>1, MetalsThere
    <3>2. CASE k = i
      <4>1. a[Metals[k]] = 90
        BY <1>1, <1>3, <3>2
      <4> QED
        BY <1>11, <1>12, <3>2, <4>1
    <3>3. CASE k = j
      <4>1. a[Metals[k]] = 10
        BY <1>1, <1>3, <3>3
      <4> QED
        BY <1>11, <1>12, <3>3, <4>1
    <3> QED
      BY <3>1, <3>2, <3>3
  <2> QED
    BY <1>5, <1>12, <2>1 DEF WellAlloyed
<1>14. <<>> \in Seq(Text) /\ 1 \in Nat
  OBVIOUS
<1>15. Made \in [type : {"coin"}, nicknames : Distinct, conditions : Seq(Text), quantity : Nat,
                 alloys : AlloyMaps]
  BY <1>4, <1>12, <1>14, MadeOf DEF names, a
<1> QED
  BY <1>13, <1>15 DEF Coins

-----------------------------------------------------------------------------
(* What players do with things.                                            *)

LEMMA RoomChanged ==
  ASSUME NEW r \in RoomRecords, NEW c \in ContentsOf(RoomCapacity)
  PROVE  /\ [r EXCEPT !.contents = c] \in RoomRecords
         /\ [r EXCEPT !.contents = c].contents = c
         /\ r.contents \in ContentsOf(RoomCapacity)
BY DEF RoomRecords

LEMMA InventoryAdd ==
  ASSUME NEW cap \in Nat, NEW c \in Inventory(cap), NEW t \in Things
  PROVE  ContainerAdd(c, cap, t).contents \in Inventory(cap)
<1> DEFINE to == ContainerAdd(c, cap, t)
<1>1. c \in ContentsOf(cap) /\ c \in Seq(Occupants) /\ t \in Occupants
      /\ \A i \in DOMAIN c : c[i] # InRoom
  BY NotInRoom, Contained DEF Inventory, Elements
<1>2. to.contents \in ContentsOf(cap)
  BY <1>1, AddKeeps
<1>3. \/ /\ Pile(c) \in DOMAIN c /\ c[Pile(c)] \in Coins /\ t \in Coins
         /\ to.contents = [c EXCEPT ![Pile(c)] = [c[Pile(c)] EXCEPT !.quantity = @ + t.quantity]]
      \/ to.contents = Append(c, t)
      \/ to.contents = c
  BY <1>1, AddKinds
<1> HIDE DEF to
<1>4. CASE /\ Pile(c) \in DOMAIN c /\ c[Pile(c)] \in Coins /\ t \in Coins
           /\ to.contents
                = [c EXCEPT ![Pile(c)] = [c[Pile(c)] EXCEPT !.quantity = @ + t.quantity]]
  <2> DEFINE p == Pile(c)
             more == [c[p] EXCEPT !.quantity = @ + t.quantity]
  <2>1. t.quantity \in Nat
    BY <1>4 DEF Coins
  <2>2. more \in Things
    BY <1>4, <2>1, CoinMore DEF Things
  <2>3. more # InRoom /\ more \in Occupants
    BY <2>2, NotInRoom
  <2> HIDE DEF p, more
  <2>4. to.contents = [c EXCEPT ![p] = more] /\ p \in DOMAIN c
    BY <1>4 DEF p, more
  <2>5. \A i \in DOMAIN to.contents : to.contents[i] # InRoom
    BY <1>1, <2>3, <2>4, Replaced
  <2> QED
    BY <1>2, <2>5 DEF Inventory, Elements, to
<1>5. CASE to.contents = Append(c, t)
  <2>1. \A i \in DOMAIN to.contents : to.contents[i] # InRoom
    BY <1>1, <1>5, Extended, NotInRoom
  <2> QED
    BY <1>2, <2>1 DEF Inventory, Elements, to
<1>6. CASE to.contents = c
  BY <1>6 DEF to
<1> QED
  BY <1>3, <1>4, <1>5, <1>6

\* What is left when one is taken out: those before it, and those behind it
\* one place further.
LEMMA LeftOver ==
  ASSUME NEW S, NEW s \in Seq(S), NEW i \in DOMAIN s
  PROVE  /\ RemoveAt(s, i) \in Seq(S) /\ Len(s) \in Nat /\ DOMAIN s = 1 .. Len(s)
         /\ DOMAIN RemoveAt(s, i) = 1 .. Len(s) - 1
         /\ \A k \in 1 .. Len(s) - 1 :
              RemoveAt(s, i)[k] = IF k < i THEN s[k] ELSE s[k + 1]
<1> DEFINE front == SubSeq(s, 1, i - 1)
           rest == SubSeq(s, i + 1, Len(s))
<1>1. Len(s) \in Nat /\ DOMAIN s = 1 .. Len(s) /\ i \in 1 .. Len(s)
  OBVIOUS
<1>2. /\ front \in Seq(S) /\ Len(front) = i - 1 /\ \A k \in 1 .. i - 1 : front[k] = s[k]
      /\ rest \in Seq(S) /\ Len(rest) = Len(s) - i
      /\ \A k \in 1 .. Len(s) - i : rest[k] = s[i + k]
  BY <1>1
<1> HIDE DEF front, rest
<1>3. /\ front \o rest \in Seq(S) /\ Len(front \o rest) = Len(s) - 1
      /\ \A k \in 1 .. Len(s) - 1 :
            (front \o rest)[k] = IF k < i THEN front[k] ELSE rest[k - (i - 1)]
  <2>1. /\ front \o rest \in Seq(S) /\ Len(front \o rest) = Len(front) + Len(rest)
        /\ \A k \in 1 .. Len(front) + Len(rest) :
              (front \o rest)[k] = IF k <= Len(front) THEN front[k] ELSE rest[k - Len(front)]
    BY <1>2, InARow
  <2>2. Len(front) + Len(rest) = Len(s) - 1
    BY <1>1, <1>2
  <2>3. \A k \in 1 .. Len(s) - 1 : k <= i - 1 <=> k < i
    BY <1>1
  <2> HIDE DEF front, rest
  <2> QED
    BY <1>2, <2>1, <2>2, <2>3
<1>4. \A k \in 1 .. Len(s) - 1 : (front \o rest)[k] = IF k < i THEN s[k] ELSE s[k + 1]
  <2>1. ASSUME NEW k \in 1 .. Len(s) - 1, ~(k < i)
        PROVE  rest[k - (i - 1)] = s[k + 1]
    <3>1. k - (i - 1) \in 1 .. Len(s) - i /\ i + (k - (i - 1)) = k + 1
      BY <1>1, <2>1
    <3>2. rest[k - (i - 1)] = s[i + (k - (i - 1))]
      BY <1>2, <3>1
    <3> QED
      BY <3>1, <3>2
  <2>2. ASSUME NEW k \in 1 .. Len(s) - 1, k < i
        PROVE  front[k] = s[k]
    <3>1. k \in 1 .. i - 1
      BY <1>1, <2>2
    <3> QED
      BY <1>2, <3>1
  <2> QED
    BY <1>3, <2>1, <2>2
<1>5. RemoveAt(s, i) = front \o rest
  BY DEF RemoveAt, front, rest
<1>6. DOMAIN (front \o rest) = 1 .. Len(s) - 1
  BY <1>1, <1>3, Positions
<1> QED
  BY <1>1, <1>3, <1>4, <1>5, <1>6

LEMMA DroppedFits ==
  ASSUME NEW cap \in Nat, NEW c \in ContentsOf(cap), NEW i \in DOMAIN c
  PROVE  RemoveAt(c, i) \in ContentsOf(cap)
<1> DEFINE d == RemoveAt(c, i)
           from(k) == IF k < i THEN k ELSE k + 1
<1>1. /\ c \in Seq(Occupants)
      /\ \A k, l \in DOMAIN c : c[k].type = "coin" /\ c[l].type = "coin" => k = l
      /\ \A k \in DOMAIN c : c[k].type = "coin" \/ k <= cap
  BY Contained
<1>2. /\ d \in Seq(Occupants) /\ Len(c) \in Nat /\ DOMAIN c = 1 .. Len(c)
      /\ DOMAIN d = 1 .. Len(c) - 1
      /\ \A k \in 1 .. Len(c) - 1 : d[k] = IF k < i THEN c[k] ELSE c[k + 1]
  BY <1>1, LeftOver
<1> HIDE DEF d
<1>3. \A k \in DOMAIN d : d[k] = c[from(k)] /\ from(k) \in DOMAIN c /\ k <= from(k)
  BY <1>2
<1>4. \A k, l \in DOMAIN d : from(k) = from(l) => k = l
  BY <1>2
<1>5. \A k \in DOMAIN d : k \in Int /\ from(k) \in Int
  BY <1>2
<1> HIDE DEF from
<1>6. \A k, l \in DOMAIN d : d[k].type = "coin" /\ d[l].type = "coin" => k = l
  BY <1>1, <1>3, <1>4
<1>7. \A k \in DOMAIN d : d[k].type = "coin" \/ k <= cap
  BY <1>1, <1>3, <1>5
<1> QED
  BY <1>2, <1>6, <1>7, Contained DEF d

-----------------------------------------------------------------------------
(* The records in memory, in the files and on their way: RecordsInv.       *)

LEMMA NoFileOpen == NoWrite.file = "none"
BY DEF NoWrite

\* A step of players that leaves the files alone.
LEMMA MemoryKeeps ==
  ASSUME RecordsInv, Idle, UNCHANGED <<phase, files, write, kept>>,
         (room' # None <=> room # None) /\ (room # None => room' \in RoomRecords),
         player' # None => IsPlayer(player')
  PROVE  RecordsInv'
<1>1. InMemory'
  BY DEF RecordsInv, InMemory, Idle, IsPlayer, RoomRecords
<1>2. InFiles'
  BY DEF RecordsInv, InFiles, Complete, IsPlayer, RoomRecords
<1>3. write.file # "player"
  BY NoFileOpen DEF RecordsInv, OnTheWay, Idle
<1>4. OnTheWay'
  BY <1>3 DEF RecordsInv, OnTheWay, Idle, RoomRecords
<1> QED
  BY <1>1, <1>2, <1>4 DEF RecordsInv

\* A step that opens a file.
LEMMA OpenKeeps ==
  ASSUME RecordsInv, NEW f, NEW of, NEW text, NEW by, Open(f, of, text, by),
         UNCHANGED <<phase, room, kept>>, f \in {"config", "bans", "room", "player"},
         player' # None => phase = "up" /\ IsPlayer(player'),
         phase \in {"rooms", "zones"} => f = "room",
         f = "room" => room # None /\ of = room /\ text = RoomSave(room),
         f = "player" => phase = "up" /\ by = "process" /\ player' # None /\ of = player'
                         /\ text = PlayerSave(player')
  PROVE  RecordsInv'
<1>1. /\ files' = [files EXCEPT ![f] = Torn] /\ DOMAIN files' = DOMAIN files /\ files'[f] = Torn
      /\ \A g \in DOMAIN files : g # f => files'[g] = files[g]
      /\ write'.file = f /\ write'.of = of /\ write'.text = text /\ write'.by = by
      /\ DOMAIN files = {"config", "bans", "room", "player"}
  BY DEF Open, RecordsInv, OnTheWay
<1>2. InMemory'
  BY DEF RecordsInv, InMemory, IsPlayer, RoomRecords
<1>3. InFiles'
  BY <1>1 DEF RecordsInv, InFiles, Complete, IsPlayer, RoomRecords
<1>4. OnTheWay'
  BY <1>1 DEF RecordsInv, OnTheWay, InMemory, RoomRecords
<1> QED
  BY <1>2, <1>3, <1>4 DEF RecordsInv

LEMMA CloseKeeps ==
  ASSUME RecordsInv, CloseFile
  PROVE  RecordsInv'
<1> USE DEF RoomRecords, IsPlayer
<1>1. /\ files' = [files EXCEPT ![write.file] = write.text] /\ DOMAIN files' = DOMAIN files
      /\ \A g \in DOMAIN files : g # write.file => files'[g] = files[g]
      /\ write.file \in DOMAIN files => files'[write.file] = write.text
      /\ write' = NoWrite /\ player' = player
      /\ DOMAIN files = {"config", "bans", "room", "player"} /\ DOMAIN kept = {"player", "room"}
      /\ kept' = IF write.file \in DOMAIN kept THEN [kept EXCEPT ![write.file] = write.of]
                 ELSE kept
  BY DEF CloseFile, RecordsInv, OnTheWay
<1>2. /\ phase' = "up" <=> phase = "up"
      /\ room' = IF phase' \in {"up", "rooms", "zones"} THEN room ELSE None
  <2>1. phase' = After(phase) /\ Destroyed(After(phase))
    BY DEF CloseFile
  <2>2. phase' = "up" <=> phase = "up"
    BY <2>1 DEF After
  <2> QED
    BY <2>1, <2>2 DEF Destroyed
<1>3. InMemory'
  BY <1>1, <1>2 DEF RecordsInv, InMemory
<1>4. /\ DOMAIN kept' = DOMAIN kept
      /\ write.file = "room" => kept'.room = write.of
      /\ write.file # "room" => kept'.room = kept.room
      /\ write.file = "player" => kept'.player = write.of
      /\ write.file # "player" => kept'.player = kept.player
  BY <1>1
<1>5. Complete("room")' => kept'.room \in RoomRecords /\ files'.room = RoomSave(kept'.room)
  <2>1. CASE write.file = "room"
    BY <1>1, <1>4, <2>1 DEF RecordsInv, OnTheWay
  <2>2. CASE write.file # "room"
    BY <1>1, <1>4, <2>2 DEF RecordsInv, InFiles, Complete
  <2> QED
    BY <2>1, <2>2
<1>6. Complete("player")' => IsPlayer(kept'.player) /\ files'.player = PlayerSave(kept'.player)
  <2>1. CASE write.file = "player"
    BY <1>1, <1>4, <2>1 DEF RecordsInv, OnTheWay, InMemory
  <2>2. CASE write.file # "player"
    BY <1>1, <1>4, <2>2 DEF RecordsInv, InFiles, Complete
  <2> QED
    BY <2>1, <2>2
<1>7. InFiles'
  BY <1>5, <1>6 DEF InFiles
<1>8. OnTheWay'
  BY <1>1, <1>4, NoFileOpen DEF OnTheWay
<1> QED
  BY <1>3, <1>7, <1>8 DEF RecordsInv

LEMMA DiesKeeps ==
  ASSUME RecordsInv, Dies
  PROVE  RecordsInv'
<1> USE DEF RoomRecords, IsPlayer
<1>1. InMemory'
  BY DEF Dies, InMemory
<1>2. InFiles'
  BY DEF Dies, InFiles, RecordsInv, Complete
<1>3. OnTheWay'
  BY NoFileOpen DEF Dies, OnTheWay, RecordsInv
<1> QED
  BY <1>1, <1>2, <1>3 DEF RecordsInv

\* What the files give when they are loaded.
LEMMA LoadedRoomIs ==
  ASSUME RecordsInv
  PROVE  /\ ~Complete("room") => LoadedRoom(files.room) = None
         /\ Complete("room") =>
              /\ LoadedRoom(files.room) = [kept.room EXCEPT !.contents = ReadBack(Written(@))]
              /\ LoadedRoom(files.room) \in RoomRecords /\ LoadedRoom(files.room) # None
BY RoomKept, NotNone DEF RecordsInv, InFiles, Complete, LoadedRoom

LEMMA LoadedPlayerIs ==
  ASSUME RecordsInv
  PROVE  /\ ~Complete("player") => LoadedPlayer(files.player) = None
         /\ Complete("player") =>
              /\ LoadedPlayer(files.player) = PlayerBack(kept.player)
              /\ LoadedPlayer(files.player)
                   = [kept.player EXCEPT !.description = "", !.contents = ReadBack(Written(@))]
              /\ IsPlayer(LoadedPlayer(files.player)) /\ LoadedPlayer(files.player) # None
<1>1. CASE ~Complete("player")
  BY <1>1 DEF Complete, LoadedPlayer
<1>2. CASE Complete("player")
  <2>1. IsPlayer(kept.player) /\ files.player = PlayerSave(kept.player)
    BY <1>2 DEF RecordsInv, InFiles
  <2>2. LoadedPlayer(files.player) = PlayerLoad(PlayerSave(kept.player), PlayerCapacity)
    BY <1>2, <2>1 DEF Complete, LoadedPlayer
  <2> DEFINE who == kept.player
  <2> HIDE DEF who
  <2>3. /\ PlayerLoad(PlayerSave(who), PlayerCapacity) = PlayerBack(who)
        /\ PlayerBack(who) = [who EXCEPT !.description = "", !.contents = ReadBack(Written(@))]
        /\ IsPlayer(PlayerBack(who)) /\ PlayerBack(who) # None
    BY <2>1, PlayerKept, NotNone DEF who
  <2> QED
    BY <1>2, <2>2, <2>3 DEF who
<1> QED
  BY <1>1, <1>2

-----------------------------------------------------------------------------
(* RecordsInv is inductive: one lemma for every few actions.               *)

\* The room that is shipped is one that was saved.
LEMMA RecordsFirst ==
  ASSUME Init
  PROVE  RecordsInv
<1>1. ShippedRoom \in RoomRecords
  BY ShippedAssumption DEF RoomRecords
<1>2. InMemory
  BY DEF Init, InMemory
<1>3. /\ files.room = RoomSave(ShippedRoom) /\ files.player = NoFile
      /\ DOMAIN files = {"config", "bans", "room", "player"}
      /\ kept.room = ShippedRoom /\ DOMAIN kept = {"player", "room"}
  BY DEF Init
<1>4. InFiles
  BY <1>1, <1>3 DEF InFiles, Complete
<1>5. OnTheWay
  BY <1>3, NoFileOpen DEF Init, OnTheWay
<1> QED
  BY <1>2, <1>4, <1>5 DEF RecordsInv

LEMMA PlayerNow ==
  ASSUME RecordsInv, player # None
  PROVE  /\ IsPlayer(player) /\ player.aliases \in AliasMaps
         /\ player.contents \in Inventory(PlayerCapacity)
BY PlayerOrNot DEF RecordsInv, InMemory

\* A player with other things, or who is elsewhere.
LEMMA StillPlayer ==
  ASSUME NEW p, IsPlayer(p), NEW x
  PROVE  /\ IsPlayer([p EXCEPT !.location = x])
         /\ IsPlayer([p EXCEPT !.description = x])
         /\ x \in AliasMaps => IsPlayer([p EXCEPT !.aliases = x])
         /\ x \in Inventory(PlayerCapacity) => IsPlayer([p EXCEPT !.contents = x])
<1>1. p.aliases \in AliasMaps /\ p.contents \in Inventory(PlayerCapacity)
  BY PlayerOrNot
<1> QED
  BY <1>1, PlayerChanged, APlayer

\* Starts and ends.
LEMMA RunsKeepRecords ==
  ASSUME RecordsInv, Start \/ Stop \/ NothingToSave \/ Edit
  PROVE  RecordsInv'
<1> USE DEF RoomRecords, IsPlayer
<1>1. CASE Start
  <2>1. room' # None => room' \in RoomRecords
    BY <1>1, LoadedRoomIs DEF Start
  <2>2. player = None /\ write.file \notin {"room", "player"}
    BY <1>1 DEF Start, RecordsInv, InMemory, OnTheWay
  <2>3. InMemory'
    BY <1>1, <2>1, <2>2 DEF Start, InMemory
  <2>4. InFiles'
    BY <1>1 DEF Start, RecordsInv, InFiles, Complete
  <2>5. OnTheWay'
    BY <1>1, <2>2, NoFileOpen DEF Start, RecordsInv, OnTheWay
  <2> QED
    BY <2>3, <2>4, <2>5 DEF RecordsInv
<1>2. CASE Stop
  <2>1. InMemory'
    BY <1>2 DEF Stop, RecordsInv, InMemory
  <2>2. InFiles'
    BY <1>2 DEF Stop, RecordsInv, InFiles, Complete
  <2>3. OnTheWay'
    BY <1>2, NoFileOpen DEF Stop, RecordsInv, OnTheWay
  <2> QED
    BY <2>1, <2>2, <2>3 DEF RecordsInv
<1>3. CASE NothingToSave
  <2>1. /\ phase \in {"rooms", "zones", "bans", "config"}
        /\ phase \in {"rooms", "zones"} => room = None
        /\ phase' \in {"zones", "bans", "config", "down"} /\ room' = None
        /\ phase = "rooms" <=> phase' = "zones"
        /\ phase = "zones" <=> phase' = "bans"
        /\ phase = "bans" <=> phase' = "config"
        /\ UNCHANGED <<player, files, write, kept>>
    BY <1>3 DEF NothingToSave, After, Destroyed
  <2>2. room = None
    BY <2>1 DEF RecordsInv, InMemory
  <2>3. write.file # "room" /\ write.file # "player"
    BY <2>1, <2>2 DEF RecordsInv, OnTheWay
  <2>4. InMemory'
    BY <2>1 DEF RecordsInv, InMemory
  <2>5. InFiles'
    BY <2>1 DEF RecordsInv, InFiles, Complete
  <2>6. OnTheWay'
    BY <2>1, <2>3 DEF RecordsInv, OnTheWay
  <2> QED
    BY <2>4, <2>5, <2>6 DEF RecordsInv
<1>4. CASE Edit
  <2>1. PICK doc \in Documents : files' = [files EXCEPT !.config = doc]
    BY <1>4 DEF Edit
  <2>2. /\ files'.room = files.room /\ files'.player = files.player
        /\ DOMAIN files' = DOMAIN files /\ UNCHANGED <<phase, room, player, write, kept>>
    BY <1>4, <2>1 DEF Edit, RecordsInv, OnTheWay
  <2>3. InMemory'
    BY <2>2 DEF RecordsInv, InMemory
  <2>4. InFiles'
    BY <2>2 DEF RecordsInv, InFiles, Complete
  <2>5. OnTheWay'
    BY <2>2 DEF RecordsInv, OnTheWay
  <2> QED
    BY <2>3, <2>4, <2>5 DEF RecordsInv
<1> QED
  BY <1>1, <1>2, <1>3, <1>4

\* Savers.
LEMMA SaversKeepRecords ==
  ASSUME RecordsInv,
         SaveRooms \/ SaveBanMap \/ SaveSettings \/ Autosave \/ Born \/ Save
           \/ (\E ip \in Ips, reason \in Reasons : Ban(ip, reason)) \/ (\E ip \in Ips : RemoveBan(ip))
           \/ WriteBans
  PROVE  RecordsInv'
<1>1. CASE SaveRooms
  <2>1. Open("room", room, RoomSave(room), "main") /\ phase \in {"rooms", "zones"} /\ room # None
        /\ UNCHANGED <<phase, room, player, kept>>
    BY <1>1 DEF SaveRooms
  <2>2. player = None
    BY <2>1 DEF RecordsInv, InMemory
  <2> QED
    BY <2>1, <2>2, OpenKeeps
<1>2. CASE SaveBanMap
  <2>1. Open("bans", bans, SaveBans(bans), "main") /\ phase = "bans"
        /\ UNCHANGED <<phase, room, player, kept>>
    BY <1>2 DEF SaveBanMap
  <2>2. player = None
    BY <2>1 DEF RecordsInv, InMemory
  <2> QED
    BY <2>1, <2>2, OpenKeeps
<1>3. CASE SaveSettings
  <2>1. Open("config", config, SaveConfig(config), "main") /\ phase = "config"
        /\ UNCHANGED <<phase, room, player, kept>>
    BY <1>3 DEF SaveSettings
  <2>2. player = None
    BY <2>1 DEF RecordsInv, InMemory
  <2> QED
    BY <2>1, <2>2, OpenKeeps
<1>4. CASE Autosave
  <2>1. Open("room", room, RoomSave(room), "save thread") /\ phase = "up" /\ room # None
        /\ UNCHANGED <<phase, room, player, kept>>
    BY <1>4 DEF Autosave
  <2>2. player # None => IsPlayer(player)
    BY DEF RecordsInv, InMemory
  <2>3. player' # None => phase = "up" /\ IsPlayer(player')
    BY <2>1, <2>2
  <2> QED
    BY <2>1, <2>3, OpenKeeps
<1>5. CASE Born
  <2> DEFINE aliases == [w \in Words |-> Commands[1]]
  <2>1. /\ player' = [NewPlayer EXCEPT !.location = StartingRoom, !.aliases = aliases]
        /\ Open("player", player', PlayerSave(player'), "process") /\ phase = "up"
        /\ UNCHANGED <<phase, room, kept>>
    BY <1>5 DEF Born, Arrives, Idle
  <2>2. aliases \in AliasMaps
    BY RestartAssumption DEF AliasMaps, Elements
  <2>3. <<>> \in Inventory(PlayerCapacity)
    <3>1. <<>> \in ContentsOf(PlayerCapacity)
      BY NothingFits, RestartAssumption
    <3>2. Elements(<<>>) = {}
      BY DEF Elements
    <3> QED
      BY <3>1, <3>2 DEF Inventory
  <2> HIDE DEF aliases
  <2>4. player' = PlayerOf(StartingRoom, "", aliases, <<>>)
    BY <2>1 DEF NewPlayer, PlayerOf
  <2>5. IsPlayer(player') /\ player' # None
    BY <2>2, <2>3, <2>4, APlayer, NotNone
  <2> QED
    BY <2>1, <2>5, OpenKeeps
<1>6. CASE Save
  <2>1. /\ Open("player", player, PlayerSave(player), "process") /\ phase = "up" /\ player # None
        /\ player' = player /\ UNCHANGED <<phase, room, kept>>
    BY <1>6 DEF Save, Idle
  <2>2. IsPlayer(player)
    BY <2>1, PlayerNow
  <2>3. player' # None /\ phase = "up" /\ IsPlayer(player') /\ player = player'
        /\ PlayerSave(player) = PlayerSave(player')
    BY <2>1, <2>2
  <2> QED
    BY <2>1, <2>3, OpenKeeps
<1>7. CASE (\E ip \in Ips, reason \in Reasons : Ban(ip, reason)) \/ (\E ip \in Ips : RemoveBan(ip))
  <2>1. Idle /\ UNCHANGED <<phase, files, write, kept, room, player>>
    BY <1>7 DEF Ban, RemoveBan, Changing
  <2>2. /\ room # None => room' \in RoomRecords
        /\ player # None => IsPlayer(player)
    BY <2>1 DEF RecordsInv, InMemory
  <2>3. player' # None => IsPlayer(player')
    BY <2>1, <2>2
  <2> QED
    BY <2>1, <2>2, <2>3, MemoryKeeps
<1>8. CASE WriteBans
  <2>1. Open("bans", bans, SaveBans(bans), "process") /\ phase = "up"
        /\ UNCHANGED <<phase, room, player, kept>>
    BY <1>8 DEF WriteBans
  <2>2. player # None => IsPlayer(player)
    BY DEF RecordsInv, InMemory
  <2>3. player' # None => phase = "up" /\ IsPlayer(player')
    BY <2>1, <2>2
  <2> QED
    BY <2>1, <2>3, OpenKeeps
<1> QED
  BY <1>1, <1>2, <1>3, <1>4, <1>5, <1>6, <1>7, <1>8

\* Players.
LEMMA CallsKeepRecords ==
  ASSUME RecordsInv, Login \/ Quit \/ Alias \/ Describe
  PROVE  RecordsInv'
<1>0. /\ room # None => room \in RoomRecords
      /\ RoomCapacity \in Nat /\ PlayerCapacity \in Nat
      /\ \A r \in RoomRecords : r # None
      /\ \A p : IsPlayer(p) => p # None
  BY RestartAssumption, NotNone DEF RecordsInv, InMemory
<1>1. CASE Login
  <2> DEFINE who == LoadedPlayer(files.player)
  <2>1. who # None => IsPlayer(who)
    BY LoadedPlayerIs
  <2> HIDE DEF who
  <2>2. /\ Idle /\ who # None /\ room # None /\ player = None
        /\ UNCHANGED <<phase, files, write, kept>>
        /\ \/ /\ player' = [who EXCEPT !.location = RoomName] /\ room' = WithPlayer(room)
           \/ UNCHANGED <<player, room>>
    BY <1>1 DEF Login, Arrives, who
  <2>3. IsPlayer([who EXCEPT !.location = RoomName])
    BY <2>1, <2>2, StillPlayer
  <2>4. WithPlayer(room) \in RoomRecords
    <3>1. InRoom \in Occupants
      BY DEF Occupants
    <3> DEFINE more == ContainerAdd(room.contents, RoomCapacity, InRoom).contents
    <3>2. more \in ContentsOf(RoomCapacity)
      BY <1>0, <2>2, <3>1, RoomChanged, AddKeeps, NothingFits
    <3>3. WithPlayer(room) = [room EXCEPT !.contents = more]
      BY DEF WithPlayer
    <3> HIDE DEF more
    <3> QED
      BY <1>0, <2>2, <3>2, <3>3, RoomChanged
  <2>5. room' \in RoomRecords /\ (player' # None => IsPlayer(player'))
    BY <1>0, <2>2, <2>3, <2>4
  <2> QED
    BY <1>0, <2>2, <2>5, MemoryKeeps
<1>2. CASE Quit
  <2>1. Idle /\ player' = None /\ room' = WithoutPlayer(room) /\ UNCHANGED <<phase, files, write, kept>>
    BY <1>2 DEF Quit
  <2>2. room = None => room' = None
    BY <2>1 DEF WithoutPlayer
  <2>3. room # None => room' \in RoomRecords
    <3>1. SUFFICES ASSUME room # None PROVE room' \in RoomRecords
      OBVIOUS
    <3>2. room' = [room EXCEPT !.contents = ThingsIn(room.contents)]
      BY <2>1, <3>1 DEF WithoutPlayer, ThingsIn
    <3>3. ThingsIn(room.contents) \in ContentsOf(RoomCapacity)
      <4>1. room.contents \in ContentsOf(RoomCapacity)
        BY <1>0, <3>1, RoomChanged, NothingFits
      <4> QED
        BY <1>0, <4>1, ThingsFit
    <3> QED
      BY <1>0, <3>1, <3>2, <3>3, RoomChanged
  <2> QED
    BY <1>0, <2>1, <2>2, <2>3, MemoryKeeps
<1>3. CASE Alias
  <2>1. /\ Idle /\ player # None /\ UNCHANGED <<phase, files, write, kept, room>>
        /\ \E w \in Words, i \in DOMAIN Commands : player' = AddAlias(player, w, Commands[i])
    BY <1>3 DEF Alias, Changing
  <2>2. PICK w \in Words, i \in DOMAIN Commands : player' = AddAlias(player, w, Commands[i])
    BY <2>1
  <2> DEFINE more == With(player.aliases, w, Commands[i])
  <2>3. player' = [player EXCEPT !.aliases = more]
    BY <2>2 DEF AddAlias
  <2>4. IsPlayer(player) /\ player.aliases \in AliasMaps
    BY <2>1, PlayerNow
  <2>5. more \in AliasMaps
    <3>1. Commands[i] \in Elements(Commands)
      BY DEF Elements
    <3>2. DOMAIN player.aliases \cup {w} = Words
      BY <2>4 DEF AliasMaps
    <3> QED
      BY <2>4, <3>1, <3>2 DEF AliasMaps, With
  <2> HIDE DEF more
  <2>6. IsPlayer(player')
    BY <2>3, <2>4, <2>5, StillPlayer
  <2> QED
    BY <1>0, <2>1, <2>6, MemoryKeeps
<1>4. CASE Describe
  <2>1. /\ Idle /\ player # None /\ UNCHANGED <<phase, files, write, kept, room>>
        /\ player' = [player EXCEPT !.description
                        = IF player.description = "" THEN "described" ELSE ""]
    BY <1>4 DEF Describe, Changing
  <2>2. IsPlayer(player')
    BY <2>1, PlayerNow, StillPlayer
  <2> QED
    BY <1>0, <2>1, <2>2, MemoryKeeps
<1> QED
  BY <1>1, <1>2, <1>3, <1>4

\* Things.
LEMMA AtWorkIs ==
  ASSUME RecordsInv, AtWork
  PROVE  /\ Idle /\ room # None /\ player # None /\ room \in RoomRecords /\ IsPlayer(player)
         /\ room.contents \in ContentsOf(RoomCapacity)
         /\ room.contents \in Seq(Occupants)
         /\ player.contents \in Inventory(PlayerCapacity)
         /\ player.contents \in ContentsOf(PlayerCapacity) /\ player.contents \in Seq(Occupants)
<1>1. Idle /\ room # None /\ player # None /\ room \in RoomRecords
  BY DEF AtWork, Changing, RecordsInv, InMemory
<1>2. room.contents \in ContentsOf(RoomCapacity)
  BY <1>1, RoomChanged, NothingFits, RestartAssumption
<1>3. IsPlayer(player) /\ player.contents \in Inventory(PlayerCapacity)
  BY <1>1, PlayerNow
<1> QED
  BY <1>1, <1>2, <1>3, Contained DEF Inventory

\* What CreateThing and the two kinds of `get` do.
LEMMA ThingSteps ==
  ASSUME RecordsInv, CreateBook \/ CreateCoin \/ TakeWhole \/ TakePart
  PROVE  /\ AtWork /\ UNCHANGED <<phase, files, write, kept>>
         /\ \/ \E id \in Ids \ UsedIds :
                 /\ player' = player
                 /\ room' = [room EXCEPT !.contents =
                                ContainerAdd(@, RoomCapacity, NewReadable("book", id)).contents]
            \/ /\ player' = player
               /\ room' = [room EXCEPT !.contents = ContainerAdd(@, RoomCapacity, Made).contents]
            \/ \E i \in DOMAIN room.contents :
                 LET t == room.contents[i]
                     to == ContainerAdd(player.contents, PlayerCapacity, t)
                 IN  /\ t \in Things /\ to.added
                     /\ player' = [player EXCEPT !.contents = to.contents]
                     /\ room' = [room EXCEPT !.contents = RemoveAt(@, i)]
            \/ \E q \in Nat :
                 /\ player' = [player EXCEPT !.contents =
                        ContainerAdd(player.contents, PlayerCapacity, NewCoin(q)).contents]
                 /\ room' = room
<1>1. CASE CreateBook
  <2>1. PICK id \in Ids \ UsedIds : CreateThing(NewReadable("book", id))
    BY <1>1 DEF CreateBook
  <2> QED
    BY <2>1 DEF CreateThing
<1>2. CASE CreateCoin
  BY <1>2 DEF CreateCoin, CreateThing, Made
<1>3. CASE TakeWhole
  <2>1. PICK i \in DOMAIN room.contents :
          LET t == room.contents[i]
              to == ContainerAdd(player.contents, PlayerCapacity, t)
          IN  /\ t.type # "player" /\ to.added
              /\ player' = [player EXCEPT !.contents = to.contents]
              /\ room' = [room EXCEPT !.contents = RemoveAt(@, i)]
    BY <1>3 DEF TakeWhole
  <2>2. room.contents[i] \in Things
    <3>1. AtWork
      BY <1>3 DEF TakeWhole
    <3>2. room.contents[i] \in Occupants
      BY <3>1, AtWorkIs
    <3>3. InRoom.type = "player"
      BY DEF InRoom
    <3> QED
      BY <2>1, <3>2, <3>3 DEF Occupants
  <2> QED
    BY <1>3, <2>1, <2>2 DEF TakeWhole
<1>4. CASE TakePart
  <2>1. AtWork /\ UNCHANGED <<phase, files, write, kept, room>>
    BY <1>4 DEF TakePart
  <2>2. PICK i \in DOMAIN room.contents :
          \E n \in 1 .. room.contents[i].quantity - 1 :
             LET merges == \E j \in DOMAIN player.contents : player.contents[j].type = "coin"
                 to == ContainerAdd(player.contents, PlayerCapacity,
                                    NewCoin(IF merges THEN n ELSE 0))
             IN  player' = [player EXCEPT !.contents = to.contents]
    BY <1>4 DEF TakePart
  <2> DEFINE merges == \E j \in DOMAIN player.contents : player.contents[j].type = "coin"
  <2>3. PICK n \in 1 .. room.contents[i].quantity - 1 :
          player' = [player EXCEPT !.contents =
              ContainerAdd(player.contents, PlayerCapacity,
                           NewCoin(IF merges THEN n ELSE 0)).contents]
    BY <2>2
  <2>4. (IF merges THEN n ELSE 0) \in Nat
    OBVIOUS
  <2> HIDE DEF merges
  <2> QED
    BY <2>1, <2>3, <2>4
<1> QED
  BY <1>1, <1>2, <1>3, <1>4

LEMMA ThingsKeepRecords ==
  ASSUME RecordsInv, CreateBook \/ CreateCoin \/ TakeWhole \/ TakePart
  PROVE  RecordsInv'
<1>1. AtWork /\ UNCHANGED <<phase, files, write, kept>>
  BY ThingSteps
<1>2. /\ Idle /\ room # None /\ player # None /\ room \in RoomRecords /\ IsPlayer(player)
      /\ room.contents \in ContentsOf(RoomCapacity)
      /\ player.contents \in Inventory(PlayerCapacity)
      /\ RoomCapacity \in Nat /\ PlayerCapacity \in Nat
  BY <1>1, AtWorkIs, RestartAssumption
<1>3. SUFFICES room' \in RoomRecords /\ IsPlayer(player')
  BY <1>1, <1>2, MemoryKeeps, NotNone
<1>4. \A t \in Things :
        /\ [room EXCEPT !.contents = ContainerAdd(room.contents, RoomCapacity, t).contents]
              \in RoomRecords
        /\ IsPlayer([player EXCEPT !.contents =
                        ContainerAdd(player.contents, PlayerCapacity, t).contents])
  <2> TAKE t \in Things
  <2>1. ContainerAdd(room.contents, RoomCapacity, t).contents \in ContentsOf(RoomCapacity)
    BY <1>2, AddKeeps, NotInRoom
  <2>2. ContainerAdd(player.contents, PlayerCapacity, t).contents \in Inventory(PlayerCapacity)
    BY <1>2, InventoryAdd
  <2> QED
    BY <1>2, <2>1, <2>2, RoomChanged, StillPlayer
<1>5. \A i \in DOMAIN room.contents :
         [room EXCEPT !.contents = RemoveAt(room.contents, i)] \in RoomRecords
  <2> TAKE i \in DOMAIN room.contents
  <2>1. RemoveAt(room.contents, i) \in ContentsOf(RoomCapacity)
    BY <1>2, DroppedFits
  <2> QED
    BY <1>2, <2>1, RoomChanged
<1>6. /\ \A id \in Ids : NewReadable("book", id) \in Things
      /\ Made \in Things /\ \A q \in Nat : NewCoin(q) \in Things
  BY BookFits, MadeFits, NewCoinFits, RestartAssumption DEF Things
<1>7. CASE \E id \in Ids \ UsedIds :
             /\ player' = player
             /\ room' = [room EXCEPT !.contents =
                            ContainerAdd(@, RoomCapacity, NewReadable("book", id)).contents]
  BY <1>2, <1>4, <1>6, <1>7
<1>8. CASE /\ player' = player
           /\ room' = [room EXCEPT !.contents = ContainerAdd(@, RoomCapacity, Made).contents]
  BY <1>2, <1>4, <1>6, <1>8
<1>9. CASE \E i \in DOMAIN room.contents :
             LET t == room.contents[i]
                 to == ContainerAdd(player.contents, PlayerCapacity, t)
             IN  /\ t \in Things /\ to.added
                 /\ player' = [player EXCEPT !.contents = to.contents]
                 /\ room' = [room EXCEPT !.contents = RemoveAt(@, i)]
  BY <1>4, <1>5, <1>9
<1>10. CASE \E q \in Nat :
              /\ player' = [player EXCEPT !.contents =
                     ContainerAdd(player.contents, PlayerCapacity, NewCoin(q)).contents]
              /\ room' = room
  BY <1>2, <1>4, <1>6, <1>10
<1> QED
  BY <1>7, <1>8, <1>9, <1>10, ThingSteps

LEMMA RecordsStep ==
  ASSUME RecordsInv, [Next]_vars
  PROVE  RecordsInv'
<1>1. CASE UNCHANGED vars
  BY <1>1 DEF vars, RecordsInv, InMemory, InFiles, OnTheWay, Complete, IsPlayer, RoomRecords
<1>2. CASE Start \/ Stop \/ NothingToSave \/ Edit
  BY <1>2, RunsKeepRecords
<1>3. CASE SaveRooms \/ SaveBanMap \/ SaveSettings \/ Autosave \/ Born \/ Save
             \/ (\E ip \in Ips, reason \in Reasons : Ban(ip, reason))
             \/ (\E ip \in Ips : RemoveBan(ip)) \/ WriteBans
  BY <1>3, SaversKeepRecords
<1>4. CASE Crash \/ LoginFails \/ ReadBlank
  <2>1. Dies
    BY <1>4 DEF Crash, LoginFails, ReadBlank
  <2> QED
    BY <2>1, DiesKeeps
<1>5. CASE Login \/ Quit \/ Alias \/ Describe
  BY <1>5, CallsKeepRecords
<1>6. CASE CreateBook \/ CreateCoin \/ TakeWhole \/ TakePart
  BY <1>6, ThingsKeepRecords
<1>7. CASE CloseFile
  BY <1>7, CloseKeeps
<1> QED
  BY <1>1, <1>2, <1>3, <1>4, <1>5, <1>6, <1>7 DEF Next, Serving

\* RecordsInv holds in every state.
LEMMA RecordsThroughout == Spec => []RecordsInv
<1>1. Init => RecordsInv
  BY RecordsFirst
<1>2. RecordsInv /\ [Next]_vars => RecordsInv'
  BY RecordsStep
<1> QED
  BY <1>1, <1>2, PTL DEF Spec

\* Whatever was saved comes back: Room::Load gives the room that was written
\* last into a file that is whole, and PlayerDatabase the player, but for what
\* Restored excepts.
THEOREM FilesGiveBack == Spec => []Restored
<1>1. RecordsInv => Restored
  BY LoadedRoomIs, LoadedPlayerIs DEF Restored, Written
<1> QED
  BY <1>1, RecordsThroughout, PTL

\* PlayerDatabase makes a new player only for a name whose file is missing or
\* was only truncated: a record that is there always loads.
THEOREM NobodyIsOverwritten == Spec => NotOverwritten
<1> DEFINE Opens == write = NoWrite /\ write' # NoWrite /\ write'.file = "player" /\ player = None
<1>1. ASSUME RecordsInv, [Next]_vars, Opens
      PROVE  write'.before \in {NoFile, Torn}
  <2>2. CASE Born
    <3>1. LoadedPlayer(files.player) = None
          /\ Open("player", player', PlayerSave(player'), "process")
      BY <2>2 DEF Born
    <3>2. ~Complete("player")
      BY <1>1, <3>1, LoadedPlayerIs
    <3>3. write'.before = files.player
      BY <3>1 DEF Open
    <3> QED
      BY <3>2, <3>3 DEF Complete
  <2>3. CASE Save
    BY <1>1, <2>3 DEF Save
  <2>4. CASE SaveRooms \/ Autosave
    <3>1. \E by : Open("room", room, RoomSave(room), by)
      BY <2>4 DEF SaveRooms, Autosave
    <3>2. write'.file = "room"
      BY <3>1 DEF Open
    <3> QED
      BY <1>1, <3>2
  <2>5. CASE SaveBanMap \/ SaveSettings
    BY <1>1, <2>5 DEF SaveBanMap, SaveSettings, Open
  <2>6. CASE (\E ip \in Ips, reason \in Reasons : Ban(ip, reason)) \/ (\E ip \in Ips : RemoveBan(ip))
    BY <1>1, <2>6 DEF Ban, RemoveBan
  <2>7. CASE WriteBans
    BY <1>1, <2>7 DEF WriteBans, Open
  <2>8. CASE write' \in {write, NoWrite}
    BY <1>1, <2>8
  <2>9. CASE Start \/ Stop \/ NothingToSave \/ Edit \/ CloseFile \/ UNCHANGED vars
    BY <2>8, <2>9 DEF Start, Stop, NothingToSave, Edit, CloseFile, vars
  <2>10. CASE Crash \/ LoginFails \/ ReadBlank
    BY <2>8, <2>10 DEF Crash, LoginFails, ReadBlank, Dies
  <2>11. CASE Login \/ Quit \/ Alias \/ Describe
    BY <2>8, <2>11 DEF Login, Quit, Alias, Describe
  <2>12. CASE CreateBook \/ CreateCoin \/ TakeWhole \/ TakePart
    BY <1>1, <2>8, <2>12, ThingSteps
  <2> QED
    BY <1>1, <2>2, <2>3, <2>4, <2>5, <2>6, <2>7, <2>9, <2>10, <2>11, <2>12 DEF Next, Serving
<1>2. RecordsInv /\ [Next]_vars => [Opens => write'.before \in {NoFile, Torn}]_vars
  BY <1>1
<1> QED
  BY <1>2, RecordsThroughout, PTL DEF Spec, NotOverwritten
=============================================================================
