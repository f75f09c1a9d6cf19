------------------------- MODULE OTAFinalizeProofs --------------------------
(***************************************************************************)
(* What Finalize switches to is complete, when nothing interrupted the     *)
(* update: the chunks by OTAJournalProofs, the partitions by following the *)
(* copy thread.                                                            *)
(***************************************************************************)
EXTENDS OTAJournalProofs

\* The process does not die, power, mounts and devices do not fail.  Otherwise Finalize can be
\* wrong: after a resumed update, and about a copy or a clearing whose error nobody looks at.
Unbroken == Faults \intersect {"kill", "power", "device", "mount"} = {}

Replaced(p) == \E n \in DOMAIN chunks : Dest[chunks[n].ident] = p /\ Whole(chunks[n].ident)

\* The partitions that a copy thread has behind it.
Past(c) ==
  CASE c = "copyBI"                         -> {}
    [] c \in {"setValidity", "copyRoot"}    -> {"BootInfo"}
    [] c = "copySystem"                     -> {"BootInfo", "Root"}
    [] c = "clearCache"                     -> {"BootInfo", "Root", "System"}
    [] OTHER                                -> DualPartition

\* The server is up, and the cancel flag goes with the state until the cleanup.
Canceled ==
  /\ main # "down" /\ state # "UpdateAvailable"
  /\ cancelUpdate => state = "Canceling" /\ ~Cleaning
  /\ state = "Canceling" => cancelUpdate \/ Cleaning

\* No chunk is processed before the preparation has ended.
Untouched == state \in {"Idle", "Preparing"} => \A n \in DOMAIN chunks : ~chunks[n].processed

\* While it prepares, the copy thread has done what it has behind it.
Preparation ==
  state = "Preparing" =>
    /\ copyThread # None /\ chunks # <<>>
    /\ singleContainerOnly \/ \A p \in DualPartition : p \in copyFlags \/ Replaced(p)
    /\ Past(pc[copyThread]) \intersect copyFlags \subseteq fresh

\* After it, every partition is a copy or will have been replaced when all chunks succeeded.
Ready ==
  state \in {"InitDone", "AllDone", "AllDoneFailed"} /\ ~Cleaning =>
    singleContainerOnly \/ \A p \in DualPartition : p \in fresh \/ Replaced(p)

Successful == state = "AllDone" => AllSucceeded

Finalizable == Canceled /\ Untouched /\ Preparation /\ Ready /\ Successful
-----------------------------------------------------------------------------
\* A step that no thread takes and that concerns only the cache directory or the main thread.
LEMMA FinalizableFrame ==
  ASSUME Finalizable, main' # "down",
         UNCHANGED <<state, chunks, singleContainerOnly, copyFlags, copyThread, fresh, cancelUpdate, pc>>,
         Cleaning' <=> Cleaning
  PROVE  Finalizable'
<1>1. Canceled' /\ Untouched'
  BY DEF Finalizable, Canceled, Untouched
<1>2. Preparation'
  BY DEF Finalizable, Preparation, Replaced
<1>3. Ready' /\ Successful'
  BY DEF Finalizable, Ready, Successful, Replaced, AllSucceeded
<1> QED
  BY <1>1, <1>2, <1>3 DEF Finalizable

\* A step that has to do with a chunk: the list keeps its idents, and what is no longer fresh
\* is a partition that a chunk replaces.
LEMMA FinalizableChunk ==
  ASSUME Finalizable, state \in {"InitDone", "Canceling"},
         UNCHANGED <<state, main, cancelUpdate, singleContainerOnly>>,
         DOMAIN chunks' = DOMAIN chunks,
         \A n \in DOMAIN chunks : chunks'[n].ident = chunks[n].ident,
         \A p \in fresh : p \in fresh' \/ Replaced(p)
  PROVE  Finalizable'
<1>1. Canceled'
  BY DEF Finalizable, Canceled, Cleaning
<1>2. Untouched' /\ Preparation' /\ Successful'
  BY DEF Untouched, Preparation, Successful
<1>3. \A p : Replaced(p) => Replaced(p)'
  BY DEF Replaced
<1>4. Ready'
  BY <1>3 DEF Finalizable, Ready, Cleaning
<1> QED
  BY <1>1, <1>2, <1>4 DEF Finalizable

\* A step of the copy thread: while it prepares, it has copied what it has behind it.
LEMMA FinalizableCopying ==
  ASSUME Finalizable, state \in {"Preparing", "Canceling"}, copyThread # None,
         UNCHANGED <<state, chunks, main, cancelUpdate, singleContainerOnly, copyFlags, copyThread>>,
         state = "Preparing" => Past(pc'[copyThread]) \intersect copyFlags \subseteq fresh'
  PROVE  Finalizable'
<1>1. Canceled' /\ Untouched'
  BY DEF Finalizable, Canceled, Untouched, Cleaning
<1>2. Preparation'
  BY DEF Finalizable, Preparation, Replaced
<1>3. Ready' /\ Successful'
  BY DEF Ready, Successful
<1> QED
  BY <1>1, <1>2, <1>3 DEF Finalizable
-----------------------------------------------------------------------------
(* Messages *)

LEMMA FinalizableBegin ==
  ASSUME Basis, Finalizable, NEW m \in Manifests, BeginUpdate(m)
  PROVE  Finalizable'
<1> DEFINE new == NewChunks(m)
           cs  == chunks \o new
<1>1. PICK started \in BOOLEAN :
        /\ PrepareForUpdate(cs, FALSE, started)
        /\ state' = IF started THEN "Preparing" ELSE "Idle"
  BY DEF BeginUpdate
<1>2. /\ chunks' = cs /\ cs # <<>> /\ main = "loop" /\ main' = "loop" /\ state = "Idle"
      /\ UNCHANGED cancelUpdate
  BY DEF BeginUpdate
<1>3. chunks \in Seq(ChunkInfo) /\ new \in Seq(ChunkInfo)
  BY NewChunksType, ChunkAssumption DEF Basis, TypeOK
<1>4. \A k \in DOMAIN new : new[k] = [ident |-> m[k], processed |-> FALSE, succeeded |-> FALSE]
  BY DEF NewChunks
<1>5. \A k \in DOMAIN new : ~new[k].processed
  BY <1>4
<1>6. \A k \in DOMAIN chunks : ~chunks[k].processed
  BY <1>2 DEF Finalizable, Untouched
<1> HIDE DEF new
<1>7. \A n \in DOMAIN (chunks \o new) : ~(chunks \o new)[n].processed
  BY <1>3, <1>5, <1>6
<1>8. Untouched'
  BY <1>2, <1>7 DEF Untouched
<1> HIDE DEF cs
<1>9. Canceled'
  BY <1>1, <1>2 DEF Finalizable, Canceled, Cleaning
<1>10. Preparation'
  <2> SUFFICES ASSUME started PROVE Preparation'
    BY <1>1 DEF Preparation
  <2>1. PICK t \in Thread : Spawn(copyThread, t, "copyBI")
    BY <1>1 DEF PrepareForUpdate
  <2>2. copyThread' = t /\ t # None /\ pc'[t] = "copyBI"
    BY <2>1, ChunkAssumption DEF Spawn, Basis, TypeOK
  <2>3. Past(pc'[copyThread']) = {}
    BY <2>2 DEF Past
  <2>4. singleContainerOnly' = SingleOnly(cs) /\ copyFlags' = CopyFlags(cs, FALSE)
    BY <1>1 DEF PrepareForUpdate
  <2>5. ASSUME ~SingleOnly(cs), NEW p \in DualPartition, p \notin copyFlags' PROVE Replaced(p)'
    BY <1>2, <2>4, <2>5 DEF CopyFlags, Replaced
  <2>6. singleContainerOnly' \/ \A p \in DualPartition : p \in copyFlags' \/ Replaced(p)'
    BY <2>4, <2>5
  <2> QED
    BY <1>2, <2>2, <2>3, <2>6 DEF Preparation
<1>11. Ready' /\ Successful'
  BY <1>1 DEF Ready, Successful
<1> QED
  BY <1>8, <1>9, <1>10, <1>11 DEF Finalizable

LEMMA FinalizableCancel ==
  ASSUME Finalizable, CancelUpdate
  PROVE  Finalizable'
<1>1. state' = "Canceling" /\ cancelUpdate' /\ main = "loop" /\ main' = "loop"
  BY DEF CancelUpdate
<1>2. Canceled'
  BY <1>1 DEF Canceled, Cleaning
<1> QED
  BY <1>1, <1>2 DEF Finalizable, Untouched, Preparation, Ready, Successful

LEMMA FinalizableProcess ==
  ASSUME Basis, Journaled, Finalizable, Resumable, NEW i \in Ident,
         \/ ProcessChunkLocation(i)
         \/ ProcessChunkPayload(i)
         \/ \E path \in Ident \union {None} : ProcessChunk(i, path)
  PROVE  Finalizable'
<1>1. ProcessAccepted(i) /\ UNCHANGED <<state, main, cancelUpdate, singleContainerOnly, fresh>>
  BY DEF ProcessChunkLocation, ProcessChunkPayload, ProcessChunk, flagVars, altVars
<1>2. FindChunk(chunks, i) \in DOMAIN chunks /\ state = "InitDone"
  BY <1>1, AcceptedNew
<1>3. /\ DOMAIN chunks' = DOMAIN chunks
      /\ \A n \in DOMAIN chunks : chunks'[n].ident = chunks[n].ident
  <2>1. CASE UNCHANGED chunks
    BY <2>1
  <2>2. CASE ProcessChunkPayload(i)
    BY <1>2, <2>2, ChunkType DEF ProcessChunkPayload, Basis, ChunkInfo
  <2> QED
    BY <2>1, <2>2 DEF ProcessChunkLocation, ProcessChunk
<1> QED
  BY <1>1, <1>2, <1>3, FinalizableChunk

LEMMA FinalizableEnd ==
  ASSUME Finalizable, Finalize \/ FinishCancel
  PROVE  Finalizable'
<1>1. /\ Cleaning' /\ main' = "rmManifest" /\ chunks' = <<>> /\ UNCHANGED state
      /\ state \in {"AllDone", "Canceling"}
  BY DEF Finalize, FinishCancel, Cleaning, Finalizable, Canceled
<1>2. ~cancelUpdate'
  BY DEF Finalize, FinishCancel, Finalizable, Canceled
<1>3. Canceled'
  BY <1>1, <1>2 DEF Canceled
<1> QED
  BY <1>1, <1>3 DEF Finalizable, Untouched, Preparation, Ready, Successful, AllSucceeded
-----------------------------------------------------------------------------
(* Process(), and the removal of the cached files *)

LEMMA FinalizableJoinCopy ==
  ASSUME Basis, Finalizable, JoinCopyThread
  PROVE  Finalizable'
<1>1. /\ main = "procCopy" /\ main' = "procChunk" /\ copyThread # None /\ pc[copyThread] = "exited"
      /\ state' = IF cancelUpdate THEN state ELSE AfterCopy
      /\ UNCHANGED <<chunks, cancelUpdate, singleContainerOnly, copyFlags, fresh>>
  BY DEF JoinCopyThread, Join, flagVars, altVars
<1>2. state \in {"Preparing", "Canceling"}
  BY <1>1 DEF Basis, HandleInv, CopyHandle, Finalizable, Canceled
<1>3. CASE state = "Canceling"
  <2>1. cancelUpdate /\ state' = state
    BY <1>1, <1>3 DEF Finalizable, Canceled, Cleaning
  <2>2. Canceled'
    BY <1>1, <1>3, <2>1 DEF Canceled, Cleaning
  <2> QED
    BY <1>3, <2>1, <2>2 DEF Finalizable, Untouched, Preparation, Ready, Successful
<1>4. CASE state = "Preparing"
  <2>1. ~cancelUpdate
    BY <1>4 DEF Finalizable, Canceled
  <2>2. chunks # <<>> /\ chunks \in Seq(ChunkInfo) /\ \A n \in DOMAIN chunks : ~chunks[n].processed
    BY <1>4 DEF Finalizable, Untouched, Preparation, Basis, TypeOK
  <2>3. 1 \in DOMAIN chunks
    BY <2>2
  <2>4. state' = "InitDone"
    BY <1>1, <2>1, <2>2, <2>3 DEF AfterCopy, AllProcessed
  <2>5. singleContainerOnly \/ \A p \in DualPartition : p \in fresh \/ Replaced(p)
    BY <1>1, <1>4 DEF Finalizable, Preparation, Past
  <2>6. Ready'
    BY <1>1, <2>5 DEF Ready, Replaced
  <2>7. Canceled'
    BY <1>1, <2>1, <2>4 DEF Canceled
  <2> QED
    BY <2>4, <2>6, <2>7 DEF Finalizable, Untouched, Preparation, Successful
<1> QED
  BY <1>2, <1>3, <1>4

LEMMA FinalizableJoinProcess ==
  ASSUME Basis, Finalizable, JoinProcessThread
  PROVE  Finalizable'
<1>1. /\ main = "procChunk" /\ main' = "procCancel" /\ processThread # None
      /\ state' = IF cancelUpdate THEN state ELSE AfterChunk
      /\ UNCHANGED <<chunks, cancelUpdate, singleContainerOnly, copyFlags, fresh>>
  BY DEF JoinProcessThread, flagVars, altVars
<1>2. state \in {"InitDone", "Canceling"}
  BY <1>1 DEF Basis, HandleInv, ProcessHandle
<1>3. CASE state = "Canceling"
  <2>1. cancelUpdate /\ state' = state
    BY <1>1, <1>3 DEF Finalizable, Canceled, Cleaning
  <2>2. Canceled'
    BY <1>1, <1>3, <2>1 DEF Canceled, Cleaning
  <2> QED
    BY <1>3, <2>1, <2>2 DEF Finalizable, Untouched, Preparation, Ready, Successful
<1>4. CASE state = "InitDone"
  <2>1. ~cancelUpdate
    BY <1>4 DEF Finalizable, Canceled
  <2>2. state' \in {"InitDone", "AllDone", "AllDoneFailed"} /\ (state' = "AllDone" => AllSucceeded)
    BY <1>1, <1>4, <2>1 DEF AfterChunk
  <2>3. Ready'
    BY <1>1, <1>4 DEF Finalizable, Ready, Replaced, Cleaning
  <2>4. Canceled' /\ Successful'
    BY <1>1, <2>1, <2>2 DEF Canceled, Successful, AllSucceeded
  <2> QED
    BY <2>2, <2>3, <2>4 DEF Finalizable, Untouched, Preparation
<1> QED
  BY <1>2, <1>3, <1>4

LEMMA FinalizableSync ==
  ASSUME Journaled, Finalizable, Sync
  PROVE  Finalizable'
<1>1. state' = "Idle" /\ main' = "loop" /\ chunks' = <<>> /\ UNCHANGED cancelUpdate /\ Cleaning
  BY DEF Sync, Journaled, Cleared, Cleaning
<1>2. ~cancelUpdate
  BY <1>1 DEF Finalizable, Canceled
<1>3. Canceled'
  BY <1>1, <1>2 DEF Canceled
<1> QED
  BY <1>1, <1>3 DEF Finalizable, Untouched, Preparation, Ready, Successful

LEMMA FinalizableMain ==
  ASSUME Basis, Journaled, Finalizable, Resumable, MainStep
  PROVE  Finalizable'
<1>1. CASE ContinueUpdate
  BY <1>1 DEF ContinueUpdate, Finalizable, Canceled
<1>2. CASE EnterProcess \/ NoCopyJoin \/ NoProcessJoin \/ LeaveProcess \/ RemoveManifest \/ RemoveJournal
  <2>1. /\ main' # "down" /\ (Cleaning' <=> Cleaning)
        /\ UNCHANGED <<state, chunks, singleContainerOnly, copyFlags, copyThread, fresh, cancelUpdate, pc>>
    BY <1>2 DEF EnterProcess, NoCopyJoin, NoProcessJoin, LeaveProcess, RemoveManifest, RemoveJournal,
                Cleaning, flagVars, handleVars, workerVars, altVars
  <2> QED
    BY <2>1, FinalizableFrame
<1> QED
  BY <1>1, <1>2, FinalizableBegin, FinalizableCancel, FinalizableProcess, FinalizableEnd,
     FinalizableJoinCopy, FinalizableJoinProcess, FinalizableSync DEF MainStep
-----------------------------------------------------------------------------
(* The threads *)

LEMMA FinalizableCopyThread ==
  ASSUME Basis, Finalizable, Unbroken, NEW t \in Thread, pc[t] \in CopyPc, WorkerStep(t)
  PROVE  Finalizable'
<1> USE DEF mainVars, flagVars, altVars
<1>1. copyThread = t /\ t # None /\ state \in {"Preparing", "Canceling"}
  BY Alone, ChunkAssumption DEF Basis, HandleInv, CopyHandle, Finalizable, Canceled
<1>2. state = "Preparing" => ~cancelUpdate /\ Past(pc[t]) \intersect copyFlags \subseteq fresh
  BY <1>1 DEF Finalizable, Canceled, Preparation
<1>3. "device" \notin Faults /\ "mount" \notin Faults
  BY DEF Unbroken
<1>4. UNCHANGED <<state, chunks, main, cancelUpdate, singleContainerOnly, copyFlags, copyThread>>
  BY DEF WorkerStep, CopyBootInfo, SetAlternateInvalid, CopyRoot, CopySystem, ClearCache, InitSuccess,
         EndCopyThread, FindJob, WriteChunk, RecordChunk, EndProcessThread, CopyPartition,
         CopyPc
<1>5. ASSUME NEW p \in DualPartition, NEW next \in WorkerPc, CopyPartition(t, p, next),
             Past(next) \subseteq Past(pc[t]) \union {p}
      PROVE  Finalizable'
  <2>1. pc'[t] = next
    BY <1>5 DEF CopyPartition, Goto, Basis, TypeOK
  <2>2. state = "Preparing" => fresh \subseteq fresh' /\ (p \in copyFlags => p \in fresh')
    BY <1>2, <1>3, <1>5 DEF CopyPartition
  <2>3. state = "Preparing" => Past(pc'[t]) \intersect copyFlags \subseteq fresh'
    BY <1>2, <1>5, <2>1, <2>2
  <2> QED
    BY <1>1, <1>4, <2>3, FinalizableCopying
<1>6. CASE CopyBootInfo(t) \/ CopyRoot(t) \/ CopySystem(t)
  BY <1>5, <1>6 DEF CopyBootInfo, CopyRoot, CopySystem, Past, DualPartition, WorkerPc, RunningPc, CopyPc
<1>7. CASE SetAlternateInvalid(t) \/ InitSuccess(t) \/ EndCopyThread(t)
  <2>1. Past(pc'[t]) = Past(pc[t]) /\ UNCHANGED fresh
    BY <1>7 DEF SetAlternateInvalid, InitSuccess, EndCopyThread, Goto, Past, Basis, TypeOK
  <2> QED
    BY <1>1, <1>2, <1>4, <2>1, FinalizableCopying
<1>8. CASE ClearCache(t)
  <2>1. Past(pc'[t]) = Past(pc[t]) \union {"Cache"}
    BY <1>8 DEF ClearCache, Goto, Past, DualPartition, Basis, TypeOK
  <2>2. fresh \subseteq fresh' /\ ("Cache" \in copyFlags => "Cache" \in fresh')
    BY <1>3, <1>8 DEF ClearCache
  <2> QED
    BY <1>1, <1>2, <1>4, <2>1, <2>2, FinalizableCopying
<1> QED
  BY <1>6, <1>7, <1>8 DEF WorkerStep, FindJob, WriteChunk, RecordChunk, EndProcessThread, CopyPc

LEMMA FinalizableProcessThread ==
  ASSUME Basis, Finalizable, NEW t \in Thread, pc[t] \in ChunkPc, WorkerStep(t)
  PROVE  Finalizable'
<1> USE DEF mainVars, flagVars, altVars
<1>1. state \in {"InitDone", "Canceling"}
  BY Alone, ChunkAssumption DEF Basis, HandleInv, ProcessHandle
<1>2. FindJob(t) \/ WriteChunk(t) \/ RecordChunk(t) \/ EndProcessThread(t)
  BY DEF WorkerStep, CopyBootInfo, SetAlternateInvalid, CopyRoot, CopySystem, ClearCache, InitSuccess,
         EndCopyThread, ChunkPc
<1>3. UNCHANGED <<state, main, cancelUpdate, singleContainerOnly>>
  BY <1>2 DEF FindJob, WriteChunk, RecordChunk, EndProcessThread
<1>4. DOMAIN chunks' = DOMAIN chunks /\ \A n \in DOMAIN chunks : chunks'[n].ident = chunks[n].ident
  <2>1. CASE RecordChunk(t)
    BY <2>1, ChunkType DEF RecordChunk, Basis, ChunkInfo
  <2> QED
    BY <1>2, <2>1 DEF FindJob, WriteChunk, EndProcessThread
<1>5. \A p \in fresh : p \in fresh' \/ Replaced(p)
  <2>1. CASE WriteChunk(t)
    <3>1. local[t].index \in DOMAIN chunks /\ JobIdent(t) = chunks[local[t].index].ident
      BY <2>1 DEF WriteChunk, Basis, JobStable, JobIdent
    <3>2. UNCHANGED fresh \/ (Whole(JobIdent(t)) /\ fresh' = fresh \ {Dest[JobIdent(t)]})
      BY <2>1 DEF WriteChunk
    <3> QED
      BY <3>1, <3>2 DEF Replaced
  <2> QED
    BY <1>2, <2>1 DEF FindJob, RecordChunk, EndProcessThread
<1> QED
  BY <1>1, <1>3, <1>4, <1>5, FinalizableChunk
-----------------------------------------------------------------------------
LEMMA FinalizableStep ==
  ASSUME Basis, Journaled, Finalizable, Resumable, Unbroken, [Next]_vars
  PROVE  Finalizable'
<1>1. CASE UNCHANGED vars
  <2>1. /\ UNCHANGED <<state, chunks, singleContainerOnly, copyFlags, copyThread, fresh, cancelUpdate, pc>>
        /\ UNCHANGED main
    BY <1>1 DEF vars, flagVars, handleVars, workerVars, altVars
  <2> QED
    BY <2>1, FinalizableFrame DEF Finalizable, Canceled, Cleaning
<1>2. ASSUME NEW t \in Thread, WorkerStep(t) PROVE Finalizable'
  <2>1. pc[t] \in CopyPc \/ pc[t] \in ChunkPc
    BY <1>2 DEF WorkerStep, CopyBootInfo, SetAlternateInvalid, CopyRoot, CopySystem, ClearCache, InitSuccess,
                EndCopyThread, FindJob, WriteChunk, RecordChunk, EndProcessThread, CopyPc, ChunkPc
  <2> QED
    BY <1>2, <2>1, FinalizableCopyThread, FinalizableProcessThread
<1>3. ~Kill /\ ~PowerLoss
  BY DEF Unbroken, Kill, PowerLoss
<1>4. ~Restart
  BY DEF Restart, Finalizable, Canceled
<1> QED
  BY <1>1, <1>2, <1>3, <1>4, FinalizableMain DEF Next

LEMMA FinalizableInit == Init => Finalizable
<1> SUFFICES ASSUME Init PROVE Finalizable
  OBVIOUS
<1>1. state = "Idle" /\ chunks = <<>> /\ main = "loop" /\ ~cancelUpdate
  BY DEF Init
<1> QED
  BY <1>1 DEF Finalizable, Canceled, Untouched, Preparation, Ready, Successful

\* Finalize switches to the alternate container only when every chunk of the update is in place
\* and each of its partitions is a copy of the running one or was replaced by a chunk, when
\* nothing interrupts the update and no device or mount fails; threads that cannot be started,
\* scripts that fail, refused chunks and cancels at any time are part of it.
THEOREM FinalizedIsComplete == Resumable /\ Unbroken => (Spec => []FinalizeComplete)
<1> SUFFICES ASSUME Resumable, Unbroken PROVE Spec => []FinalizeComplete
  OBVIOUS
<1>1. Basis /\ Journaled /\ Finalizable /\ [Next]_vars => Finalizable'
  BY FinalizableStep
<1>2. Init => Finalizable
  BY FinalizableInit
<1>3. Finalizable /\ SucceededInPlace => FinalizeComplete
  <2> SUFFICES ASSUME Finalizable, SucceededInPlace, main = "loop", state = "AllDone" PROVE Complete
    BY DEF FinalizeComplete
  <2>1. AllSucceeded /\ main # "down" /\ ~Cleaning
    BY DEF Finalizable, Successful, Cleaning
  <2>2. \A n \in DOMAIN chunks : chunks[n].ident \in applied
    BY <2>1 DEF AllSucceeded, SucceededInPlace
  <2>3. singleContainerOnly \/ \A p \in DualPartition : p \in fresh \/ Replaced(p)
    BY <2>1 DEF Finalizable, Ready
  <2> QED
    BY <2>2, <2>3 DEF Complete, Replaced
<1>4. Spec => [](Basis /\ Journaled) /\ []SucceededInPlace
  BY JournalHolds, SuccessIsInPlace, PTL
<1> QED
  BY <1>1, <1>2, <1>3, <1>4, PTL DEF Spec
=============================================================================
