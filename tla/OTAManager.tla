----------------------------- MODULE OTAManager -----------------------------
(***************************************************************************)
(* The update manager of the iVeiOTA server: src/ota_manager.cc.           *)
(*                                                                         *)
(* One process.  Its main thread alternates between handling messages and  *)
(* OTAManager::Process(); a copy thread (initUpdateFunction) prepares the  *)
(* alternate container and a process thread (processChunk) applies one     *)
(* chunk.  They share the members of OTAManager without a lock.  A cached  *)
(* manifest and a journal on disk let a restarted server offer to continue *)
(* an interrupted update.                                                  *)
(*                                                                         *)
(* A chunk stands for its identifier, its data and a file holding that     *)
(* data: a path is the identifier of the chunk whose data it holds, so a   *)
(* file passes a chunk's hash test exactly when its path is the chunk.     *)
(***************************************************************************)
EXTENDS Naturals, Sequences

CONSTANTS
  Ident,          \* chunk identifiers
  Kind,           \* Kind[i]: the type field of chunk i in the manifest
  Dest,           \* Dest[i]: the partition chunk i is written to
  Manifests,      \* the manifests a client may send, as sequences of idents
  Thread,         \* pthread ids the system can hand out
  None,           \* the empty string, and the thread id -1
  Faults,         \* what may go wrong around the server (see FaultKind)
  Habits,         \* what the client does beyond waiting for the status (see HabitKind)
  MaxJournal,     \* bound: lines in the journal
  MaxChunks       \* bound: entries of the chunk list

ChunkKind == {"image", "archive", "completeArchive", "file", "script", "dummy"}

\* iVeiOTA.conf: the partitions each container has, and the single ones ("none" is
\* where a dummy chunk, or a script without a filesystem, goes).
DualPartition   == {"BootInfo", "Root", "System", "Cache"}
SinglePartition == {"Data", "Boot", "None"}
Partition       == DualPartition \union SinglePartition

\* thread:  pthread_create fails        device:  CopyFileData cannot open or write
\* mount:   a mount fails               signal:  a script dies of a signal
\* kill:    the server process dies     power:   the board loses power
\* cleanup: either may also happen between the two RemoveFile calls and sync
\* truncate: a power failure may leave the manifest empty when it was being rewritten
\* bootwrite: writing uEnvAB.txt fails
FaultKind == {"thread", "device", "mount", "signal", "kill", "power", "cleanup",
              "truncate", "bootwrite"}

\* pipeline: sends Continue and ProcessChunk without waiting for the status
\* redo:     sends a chunk that already succeeded again
\* payload:  sends ProcessChunk with imm[0] = 0     location: with imm[0] > 1
HabitKind == {"pipeline", "redo", "payload", "location"}

ASSUME ChunkAssumption ==
  /\ None \notin Ident /\ None \notin Thread
  /\ Kind \in [Ident -> ChunkKind]
  /\ Dest \in [Ident -> Partition]
  /\ Manifests \subseteq Seq(Ident)
ASSUME EnvironmentAssumption == Faults \subseteq FaultKind /\ Habits \subseteq HabitKind
ASSUME BoundAssumption == MaxJournal \in Nat /\ MaxChunks \in Nat

VARIABLES
  state, chunks, cancelUpdate, singleContainerOnly, copyFlags,
  whichChunk, processingChunk, intChunkPath,
  copyThread, processThread, joinCopyThread, joinProcessThread,
  main,           \* where the main thread is
  pc,             \* pc[t]: where worker thread t is
  local,          \* local[t]: the locals of processChunk in thread t
  disk,           \* the cache directory as the running system sees it
  synced,         \* disk, fresh and applied as of the last sync
  altValid,       \* BOOT_VALID on the alternate container's BootInfo partition
  fresh,          \* partitions of the alternate container copied or cleared for this update
  applied         \* chunks of this update whose data is on their partition

jobVars    == <<whichChunk, processingChunk, intChunkPath>>
handleVars == <<copyThread, processThread, joinCopyThread, joinProcessThread>>
flagVars   == <<singleContainerOnly, copyFlags>>
workerVars == <<pc, local>>
diskVars   == <<disk, synced>>
altVars    == <<altValid, fresh, applied>>
vars == <<state, chunks, cancelUpdate, flagVars, jobVars, handleVars, main,
          workerVars, diskVars, altVars>>

OTAState == {"Idle", "Canceling", "UpdateAvailable", "Preparing", "InitDone",
             "AllDone", "AllDoneFailed"}
MainPc == {"loop", "procCopy", "procChunk", "procCancel", "rmManifest", "rmJournal",
           "sync", "down"}
CopyPc  == {"copyBI", "setValidity", "copyRoot", "copySystem", "clearCache",
            "initSuccess", "copyFlag"}
ChunkPc == {"find", "write", "record", "chunkFlag"}
RunningPc == CopyPc \union ChunkPc
WorkerPc  == RunningPc \union {"free", "exited"}

ChunkInfo   == [ident: Ident, processed: BOOLEAN, succeeded: BOOLEAN]
JournalLine == [ident: Ident, ok: BOOLEAN]
CacheDir    == [manifest: Seq(Ident), journal: Seq(JournalLine)]
Medium      == [manifest: Seq(Ident), journal: Seq(JournalLine),
                fresh: SUBSET DualPartition, applied: SUBSET Ident]

\* The locals of a thread that has not found its chunk (yet).
NoLocal == [index |-> 0, ident |-> None, ok |-> FALSE]

TypeOK ==
  /\ state \in OTAState
  /\ chunks \in Seq(ChunkInfo)
  /\ cancelUpdate \in BOOLEAN /\ singleContainerOnly \in BOOLEAN
  /\ copyFlags \subseteq DualPartition
  /\ whichChunk \in Ident \union {None} /\ intChunkPath \in Ident \union {None}
  /\ processingChunk \in BOOLEAN
  /\ copyThread \in Thread \union {None} /\ processThread \in Thread \union {None}
  /\ joinCopyThread \in BOOLEAN /\ joinProcessThread \in BOOLEAN
  /\ main \in MainPc
  /\ pc \in [Thread -> WorkerPc]
  /\ local \in [Thread -> [index: Nat, ident: Ident \union {None}, ok: BOOLEAN]]
  /\ disk \in CacheDir /\ synced \in Medium
  /\ altValid \in BOOLEAN
  /\ fresh \subseteq DualPartition /\ applied \subseteq Ident
-----------------------------------------------------------------------------
(* The chunk list *)

Idents == {chunks[n].ident : n \in DOMAIN chunks}

\* The chunks whose data is files or blocks of partition p.
ChunksOn(p) == {i \in Ident : Dest[i] = p /\ Kind[i] \notin {"script", "dummy"}}

\* A chunk that replaces all of its partition: prepareForUpdate does not copy it.
Whole(i) == Kind[i] \in {"image", "completeArchive"}

\* Mutated form of NewChunks: succeeded keeps whatever was in memory.
NewChunksUninitialised(m) ==
  [n \in DOMAIN m |-> [ident |-> m[n], processed |-> FALSE, succeeded |-> None]]

\* processManifest: the entries a manifest adds to the list.  succeeded is left
\* uninitialised there, and nothing reads it before processed is set.
NewChunks(m) == [n \in DOMAIN m |-> [ident |-> m[n], processed |-> FALSE, succeeded |-> FALSE]]

Entries(cs, i) == {n \in DOMAIN cs : cs[n].ident = i}

\* std::find_if over the list: the first entry with this ident, 0 for end().
FindChunk(cs, i) ==
  IF Entries(cs, i) = {} THEN 0
  ELSE CHOOSE n \in Entries(cs, i) : \A k \in Entries(cs, i) : n <= k

AllProcessed == \A n \in DOMAIN chunks : chunks[n].processed
AllSucceeded == \A n \in DOMAIN chunks : chunks[n].succeeded

\* The constructor's reading of the journal: a chunk has the outcome of its last line.
Lines(j, i) == {n \in DOMAIN j : j[n].ident = i}

\* Mutated form of LastOk: a chunk that is in the journal at all has succeeded.
LastOkIgnoresOutcome(j, i) == Lines(j, i) # {}

LastOk(j, i) == \E n \in Lines(j, i) : j[n].ok /\ \A k \in Lines(j, i) : k <= n

\* Mutated form of Replay: a chunk that failed counts as not processed.
ReplayForgetsFailures(m, j) ==
  [n \in DOMAIN m |->
    IF FindChunk(NewChunks(m), m[n]) = n /\ LastOk(j, m[n])
    THEN [ident |-> m[n], processed |-> TRUE, succeeded |-> TRUE]
    ELSE NewChunks(m)[n]]

Replay(m, j) ==
  [n \in DOMAIN m |->
    IF FindChunk(NewChunks(m), m[n]) = n
    THEN [ident |-> m[n], processed |-> Lines(j, m[n]) # {}, succeeded |-> LastOk(j, m[n])]
    ELSE NewChunks(m)[n]]
-----------------------------------------------------------------------------
(* Worker threads *)

Running(t) == pc[t] \in RunningPc
FreeThreads == {t \in Thread : pc[t] = "free"}

\* pthread_create: a free thread starts at entry and its id goes to the handle.
Spawn(handle, t, entry) ==
  /\ t \in FreeThreads
  /\ pc' = [pc EXCEPT ![t] = entry]
  /\ handle' = t

\* It may fail when the system says so, and must when it has no thread to give.
SpawnMayFail == "thread" \in Faults \/ FreeThreads = {}

\* Mutated form of Join: the handle is not set back to -1.
JoinKeepsHandle(handle) ==
  /\ pc[handle] = "exited"
  /\ pc' = [pc EXCEPT ![handle] = "free"]
  /\ UNCHANGED handle

\* pthread_join returns once the thread has ended, and releases its id.
Join(handle) ==
  /\ pc[handle] = "exited"
  /\ pc' = [pc EXCEPT ![handle] = "free"]
  /\ handle' = None

\* Mutated form of RunSync: the command does nothing.
RunSyncFails == UNCHANGED synced

\* RunCommand("sync"): everything written so far is on the medium.
RunSync ==
  synced' = [manifest |-> disk.manifest, journal |-> disk.journal,
             fresh |-> fresh, applied |-> applied]

\* Mutated form of SetValidity: the flag can only be raised.
SetValidityRaises(v) == altValid' = (altValid \/ v)

\* bootMgr.SetValidity(Alternate, v): the value written is lost when the write fails.
SetValidity(v) ==
  altValid' \in {v} \union (IF "bootwrite" \in Faults THEN {altValid} ELSE {})
-----------------------------------------------------------------------------
(* prepareForUpdate *)

SingleOnly(cs) == \A n \in DOMAIN cs : Dest[cs[n].ident] \in SinglePartition

\* Mutated form of CopyFlags: any chunk on a partition saves the copy, as with noCopy.
CopyFlagsAnyChunk(cs, noCopy) ==
  IF SingleOnly(cs) THEN {}
  ELSE DualPartition \ {Dest[cs[n].ident] : n \in DOMAIN cs}

\* A partition is not copied when a chunk replaces it, and with noCopy when any
\* chunk goes to it; the cache is cleared whatever noCopy says.
CopyFlags(cs, noCopy) ==
  IF SingleOnly(cs) THEN {}
  ELSE DualPartition \
         {p \in {"BootInfo", "Root", "System"} :
            \E n \in DOMAIN cs : Dest[cs[n].ident] = p /\ (noCopy \/ Whole(cs[n].ident))}

\* started: pthread_create succeeded.
PrepareForUpdate(cs, noCopy, started) ==
  /\ singleContainerOnly' = SingleOnly(cs)
  /\ copyFlags' = CopyFlags(cs, noCopy)
  /\ SetValidity(FALSE)
  /\ IF started
     THEN \E t \in Thread : Spawn(copyThread, t, "copyBI")
     ELSE SpawnMayFail /\ UNCHANGED <<pc, copyThread>>
-----------------------------------------------------------------------------
(* Messages, handled by the main thread.  A message that is answered with a NACK *)
(* before anything is assigned is a stuttering step.                             *)

\* BeginUpdate with manifest m.  The chunks of m go behind whatever the list holds;
\* the update's data is new, so nothing of it is on the alternate container.
BeginUpdate(m) ==
  LET cs == chunks \o NewChunks(m) IN
  /\ main = "loop" /\ state = "Idle"
  /\ cs # <<>> /\ Len(cs) <= MaxChunks
  /\ chunks' = cs
  /\ disk' = [disk EXCEPT !.manifest = m]
  /\ fresh' = {} /\ applied' = {}
  /\ synced' = [synced EXCEPT !.fresh = {}, !.applied = {}]
  /\ \E started \in BOOLEAN :
       /\ PrepareForUpdate(cs, FALSE, started)
       /\ state' = IF started THEN "Preparing" ELSE "Idle"
  /\ UNCHANGED <<cancelUpdate, jobVars, processThread, joinCopyThread, joinProcessThread,
                 main, local>>

\* The state stays UpdateAvailable until the copy thread is joined.
ContinueUpdate ==
  /\ main = "loop" /\ state = "UpdateAvailable"
  /\ "pipeline" \in Habits \/ copyThread = None
  /\ \E started \in BOOLEAN :
       PrepareForUpdate(chunks, \E n \in DOMAIN chunks : chunks[n].processed, started)
  /\ UNCHANGED <<state, chunks, cancelUpdate, jobVars, processThread, joinCopyThread,
                 joinProcessThread, main, local, diskVars, fresh, applied>>

CancelUpdate ==
  /\ main = "loop" /\ state # "Idle"
  /\ cancelUpdate' = TRUE
  /\ state' = "Canceling"
  /\ UNCHANGED <<chunks, flagVars, jobVars, handleVars, main, workerVars, diskVars, altVars>>

\* Mutated form of ProcessAccepted: a chunk is taken while the update is being prepared.
ProcessAcceptedEarly(i) ==
  /\ main = "loop" /\ state \in {"Preparing", "InitDone"} /\ i \in Idents
  /\ ~processingChunk

\* What ProcessChunk asks before it looks at where the chunk's data is.
ProcessAccepted(i) ==
  /\ main = "loop" /\ state = "InitDone" /\ i \in Idents
  /\ "pipeline" \in Habits \/ ~processingChunk
  /\ "redo" \in Habits \/ ~chunks[FindChunk(chunks, i)].succeeded

\* imm[0] = 1: the payload names a file.  When no thread can be started the job
\* stays marked as being processed.
ProcessChunk(i, path) ==
  /\ ProcessAccepted(i)
  /\ Len(disk.journal) < MaxJournal
  /\ whichChunk' = i /\ processingChunk' = TRUE /\ intChunkPath' = path
  /\ \/ \E t \in Thread : Spawn(processThread, t, "find")
     \/ SpawnMayFail /\ UNCHANGED <<pc, processThread>>
  /\ UNCHANGED <<state, chunks, cancelUpdate, flagVars, copyThread, joinCopyThread,
                 joinProcessThread, main, local, diskVars, altVars>>

\* imm[0] = 0: the chunk's data in the payload is not implemented; the chunk fails.
ProcessChunkPayload(i) ==
  /\ "payload" \in Habits /\ ProcessAccepted(i)
  /\ chunks' = [chunks EXCEPT ![FindChunk(chunks, i)].processed = TRUE,
                              ![FindChunk(chunks, i)].succeeded = FALSE]
  /\ whichChunk' = None /\ processingChunk' = FALSE
  /\ UNCHANGED <<state, cancelUpdate, flagVars, intChunkPath, handleVars, main, workerVars,
                 diskVars, altVars>>

\* imm[0] > 1: refused, after the chunk has been marked as being processed.
ProcessChunkLocation(i) ==
  /\ "location" \in Habits /\ ProcessAccepted(i)
  /\ whichChunk' = i /\ processingChunk' = TRUE
  /\ UNCHANGED <<state, chunks, cancelUpdate, flagVars, intChunkPath, handleVars, main,
                 workerVars, diskVars, altVars>>

\* SetAll on the alternate container, then the list and the cache are cleared; the
\* state becomes Idle when the cleanup ends (Sync).
Finalize ==
  /\ main = "loop" /\ state = "AllDone"
  /\ IF singleContainerOnly THEN UNCHANGED altValid ELSE SetValidity(TRUE)
  /\ chunks' = <<>>
  /\ main' = "rmManifest"
  /\ UNCHANGED <<state, cancelUpdate, flagVars, jobVars, handleVars, workerVars, diskVars,
                 fresh, applied>>
-----------------------------------------------------------------------------
(* OTAManager::Process() and the removal of the cached files *)

\* server.Process() returned: the event loop calls manager.Process().
EnterProcess ==
  /\ main = "loop" /\ main' = "procCopy"
  /\ UNCHANGED <<state, chunks, cancelUpdate, flagVars, jobVars, handleVars, workerVars,
                 diskVars, altVars>>

\* Process() after joining the copy thread: it looks at processed only.
AfterCopy == IF AllProcessed THEN "AllDone" ELSE "InitDone"

JoinCopyThread ==
  /\ main = "procCopy" /\ joinCopyThread /\ copyThread # None
  /\ Join(copyThread)
  /\ joinCopyThread' = FALSE
  /\ state' = IF cancelUpdate THEN state ELSE AfterCopy
  /\ main' = "procChunk"
  /\ UNCHANGED <<chunks, cancelUpdate, flagVars, jobVars, processThread, joinProcessThread,
                 local, diskVars, altVars>>

NoCopyJoin ==
  /\ main = "procCopy" /\ ~(joinCopyThread /\ copyThread # None)
  /\ main' = "procChunk"
  /\ UNCHANGED <<state, chunks, cancelUpdate, flagVars, jobVars, handleVars, workerVars,
                 diskVars, altVars>>

\* Process() after joining the process thread.
AfterChunk == IF ~AllProcessed THEN state
              ELSE IF AllSucceeded THEN "AllDone" ELSE "AllDoneFailed"

JoinProcessThread ==
  /\ main = "procChunk" /\ joinProcessThread /\ processThread # None
  /\ Join(processThread)
  /\ joinProcessThread' = FALSE
  /\ whichChunk' = None /\ processingChunk' = FALSE /\ intChunkPath' = None
  /\ state' = IF cancelUpdate THEN state ELSE AfterChunk
  /\ main' = "procCancel"
  /\ UNCHANGED <<chunks, cancelUpdate, flagVars, copyThread, joinCopyThread, local,
                 diskVars, altVars>>

NoProcessJoin ==
  /\ main = "procChunk" /\ ~(joinProcessThread /\ processThread # None)
  /\ main' = "procCancel"
  /\ UNCHANGED <<state, chunks, cancelUpdate, flagVars, jobVars, handleVars, workerVars,
                 diskVars, altVars>>

\* Mutated form of AllJoined: the process thread is forgotten.
AllJoinedButChunk == ~joinCopyThread /\ copyThread = None

\* The cancel flag goes down when no thread is left to join.
AllJoined == /\ ~joinProcessThread /\ processThread = None
             /\ ~joinCopyThread /\ copyThread = None

FinishCancel ==
  /\ main = "procCancel" /\ cancelUpdate /\ AllJoined
  /\ cancelUpdate' = FALSE
  /\ chunks' = <<>>
  /\ main' = "rmManifest"
  /\ UNCHANGED <<state, flagVars, jobVars, handleVars, workerVars, diskVars, altVars>>

LeaveProcess ==
  /\ main = "procCancel" /\ ~(cancelUpdate /\ AllJoined)
  /\ main' = "loop"
  /\ UNCHANGED <<state, chunks, cancelUpdate, flagVars, jobVars, handleVars, workerVars,
                 diskVars, altVars>>

\* The three steps that end Finalize, a cancel, and a start on a foreign journal.
RemoveManifest ==
  /\ main = "rmManifest" /\ main' = "rmJournal"
  /\ disk' = [disk EXCEPT !.manifest = <<>>]
  /\ UNCHANGED <<state, chunks, cancelUpdate, flagVars, jobVars, handleVars, workerVars,
                 synced, altVars>>

RemoveJournal ==
  /\ main = "rmJournal" /\ main' = "sync"
  /\ disk' = [disk EXCEPT !.journal = <<>>]
  /\ UNCHANGED <<state, chunks, cancelUpdate, flagVars, jobVars, handleVars, workerVars,
                 synced, altVars>>

Sync ==
  /\ main = "sync" /\ main' = "loop"
  /\ RunSync
  /\ state' = "Idle"
  /\ UNCHANGED <<chunks, cancelUpdate, flagVars, jobVars, handleVars, workerVars, disk,
                 altVars>>

MainStep ==
  \/ \E m \in Manifests : BeginUpdate(m)
  \/ ContinueUpdate
  \/ CancelUpdate
  \/ \E i \in Ident, path \in Ident \union {None} : ProcessChunk(i, path)
  \/ \E i \in Ident : ProcessChunkPayload(i)
  \/ \E i \in Ident : ProcessChunkLocation(i)
  \/ Finalize
  \/ EnterProcess
  \/ JoinCopyThread \/ NoCopyJoin
  \/ JoinProcessThread \/ NoProcessJoin
  \/ FinishCancel \/ LeaveProcess
  \/ RemoveManifest \/ RemoveJournal \/ Sync
-----------------------------------------------------------------------------
(* The copy thread: initUpdateFunction *)

mainVars == <<state, chunks, cancelUpdate, flagVars, jobVars, copyThread, processThread, main>>

Goto(t, next) == pc' = [pc EXCEPT ![t] = next]

\* CopyFileData from the active container to partition p, then on to next.  It stops
\* early when it sees cancelUpdate, and its result is not looked at.
\* The active container is the one that booted: its uEnvAB.txt, which comes along with
\* the BootInfo partition, says valid.
CopyPartition(t, p, next) ==
  /\ Goto(t, next)
  /\ IF p \notin copyFlags THEN UNCHANGED altVars
     ELSE \/ /\ fresh' = fresh \union {p} /\ applied' = applied \ ChunksOn(p)
             /\ altValid' = IF p = "BootInfo" THEN TRUE ELSE altValid
          \/ /\ cancelUpdate
             /\ fresh' = fresh \ {p} /\ applied' = applied \ ChunksOn(p)
             /\ altValid' \in IF p = "BootInfo" THEN BOOLEAN ELSE {altValid}
          \/ "device" \in Faults /\ UNCHANGED altVars
  /\ UNCHANGED <<mainVars, joinCopyThread, joinProcessThread, local, diskVars>>

CopyBootInfo(t) ==
  /\ pc[t] = "copyBI"
  /\ CopyPartition(t, "BootInfo", IF "BootInfo" \in copyFlags THEN "setValidity" ELSE "copyRoot")

\* Unmounting BootInfo after the write flushes the partition.
SetAlternateInvalid(t) ==
  /\ pc[t] = "setValidity"
  /\ Goto(t, "copyRoot")
  /\ SetValidity(FALSE)
  /\ synced' = [synced EXCEPT !.fresh = (@ \ {"BootInfo"}) \union (fresh \intersect {"BootInfo"})]
  /\ UNCHANGED <<mainVars, joinCopyThread, joinProcessThread, local, disk, fresh, applied>>

CopyRoot(t) ==
  pc[t] = "copyRoot" /\ CopyPartition(t, "Root", "copySystem")

CopySystem(t) ==
  pc[t] = "copySystem" /\ CopyPartition(t, "System", "clearCache")

\* Every file of the alternate cache partition is removed, if it can be mounted.
ClearCache(t) ==
  /\ pc[t] = "clearCache"
  /\ Goto(t, "initSuccess")
  /\ \/ /\ "Cache" \in copyFlags
        /\ fresh' = fresh \union {"Cache"} /\ applied' = applied \ ChunksOn("Cache")
     \/ /\ "Cache" \notin copyFlags \/ "mount" \in Faults
        /\ UNCHANGED <<fresh, applied>>
  /\ UNCHANGED <<mainVars, joinCopyThread, joinProcessThread, local, diskVars, altValid>>

\* sync, then init_success goes to the journal (the constructor skips that line).
InitSuccess(t) ==
  /\ pc[t] = "initSuccess"
  /\ Goto(t, "copyFlag")
  /\ RunSync
  /\ UNCHANGED <<mainVars, joinCopyThread, joinProcessThread, local, disk, altVars>>

EndCopyThread(t) ==
  /\ pc[t] = "copyFlag"
  /\ Goto(t, "exited")
  /\ joinCopyThread' = TRUE
  /\ UNCHANGED <<mainVars, joinProcessThread, local, diskVars, altVars>>
-----------------------------------------------------------------------------
(* The process thread: processChunk and processChunkFile *)

\* Mutated form of JobEntry: the search stops before the last entry.
JobEntryButLast ==
  IF whichChunk = chunks[Len(chunks)].ident THEN 0 ELSE FindChunk(chunks, whichChunk)

JobEntry == FindChunk(chunks, whichChunk)

FindJob(t) ==
  LET n == JobEntry IN
  /\ pc[t] = "find"
  /\ IF n = 0
     THEN Goto(t, "chunkFlag") /\ UNCHANGED local
     ELSE /\ Goto(t, "write")
          /\ local' = [local EXCEPT ![t] = [index |-> n, ident |-> whichChunk, ok |-> FALSE]]
  /\ UNCHANGED <<mainVars, joinCopyThread, joinProcessThread, diskVars, altVars>>

\* The chunk the thread's iterator points at; the memory of a cleared list still
\* holds the entry.
JobIdent(t) ==
  IF local[t].index \in DOMAIN chunks THEN chunks[local[t].index].ident ELSE local[t].ident

\* The hash of the file at intChunkPath is the chunk's; a dummy needs only a file.
Accepts(i) == intChunkPath = i \/ (Kind[i] = "dummy" /\ intChunkPath # None)

\* What processChunkFile does with an accepted file.
\* - done: the data is written and true is returned
\* - failed: false before anything was written
\* - torn: false, with the chunk half written (an image that was cancelled or whose
\*   device failed, a complete archive whose second mount failed)
Outcome(i) ==
  {"done"}
  \union (IF Kind[i] = "image" /\ (cancelUpdate \/ "device" \in Faults) THEN {"torn"} ELSE {})
  \union (IF Kind[i] \in {"archive", "completeArchive", "file"} /\ "mount" \in Faults
          THEN {"failed"} ELSE {})
  \union (IF Kind[i] = "completeArchive" /\ "mount" \in Faults THEN {"torn"} ELSE {})
  \union (IF Kind[i] = "script" /\ "signal" \in Faults THEN {"failed"} ELSE {})

\* Chunks whose data is gone once chunk i is being written: a complete archive removes
\* every file of its partition, an image writes over the files of its own.
Overwritten(i) ==
  {i} \union CASE Kind[i] = "completeArchive" -> ChunksOn(Dest[i])
               [] Kind[i] = "image" -> {j \in ChunksOn(Dest[i]) : Kind[j] # "image"}
               [] OTHER -> {}

WriteChunk(t) ==
  LET i == JobIdent(t) IN
  /\ pc[t] = "write"
  /\ Goto(t, "record")
  /\ \E result \in (IF Accepts(i) THEN Outcome(i) ELSE {"failed"}) :
       /\ local' = [local EXCEPT ![t].ok = (result = "done")]
       /\ applied' = CASE result = "done"   -> (applied \ Overwritten(i)) \union {i}
                       [] result = "torn"   -> applied \ Overwritten(i)
                       [] result = "failed" -> applied
       /\ fresh' = IF result = "failed" \/ ~Whole(i) THEN fresh ELSE fresh \ {Dest[i]}
       /\ IF result # "failed" /\ Whole(i) /\ Dest[i] = "BootInfo"
          THEN altValid' \in BOOLEAN
          ELSE UNCHANGED altValid
  /\ UNCHANGED <<mainVars, joinCopyThread, joinProcessThread, diskVars>>

\* The outcome goes to the list, sync is called, and then a line to the journal.
RecordChunk(t) ==
  LET n == local[t].index IN
  /\ pc[t] = "record"
  /\ Goto(t, "chunkFlag")
  /\ chunks' = IF n \in DOMAIN chunks
               THEN [chunks EXCEPT ![n].processed = TRUE, ![n].succeeded = local[t].ok]
               ELSE chunks
  /\ RunSync
  /\ disk' = [disk EXCEPT !.journal =
                Append(disk.journal, [ident |-> JobIdent(t), ok |-> local[t].ok])]
  /\ UNCHANGED <<state, cancelUpdate, flagVars, jobVars, handleVars, main, local, altVars>>

\* Mutated form of EndProcessThread: the join flag is forgotten when the update is canceled.
EndProcessThreadSilent(t) ==
  /\ pc[t] = "chunkFlag"
  /\ Goto(t, "exited")
  /\ joinProcessThread' = ~cancelUpdate
  /\ local' = [local EXCEPT ![t] = NoLocal]
  /\ UNCHANGED <<mainVars, joinCopyThread, diskVars, altVars>>

EndProcessThread(t) ==
  /\ pc[t] = "chunkFlag"
  /\ Goto(t, "exited")
  /\ joinProcessThread' = TRUE
  /\ local' = [local EXCEPT ![t] = NoLocal]
  /\ UNCHANGED <<mainVars, joinCopyThread, diskVars, altVars>>

WorkerStep(t) ==
  \/ CopyBootInfo(t) \/ SetAlternateInvalid(t) \/ CopyRoot(t) \/ CopySystem(t)
  \/ ClearCache(t) \/ InitSuccess(t) \/ EndCopyThread(t)
  \/ FindJob(t) \/ WriteChunk(t) \/ RecordChunk(t) \/ EndProcessThread(t)
-----------------------------------------------------------------------------
(* The end of the server process, and its start *)

Cleaning == main \in {"rmManifest", "rmJournal", "sync"}
MayStop  == main # "down" /\ (Cleaning => "cleanup" \in Faults)

\* The partition the copy thread is in the middle of copying, and the chunk the
\* process thread is in the middle of writing.
CopyingNow(t) == CASE pc[t] = "copyBI"     -> {"BootInfo"}
                   [] pc[t] = "copyRoot"   -> {"Root"}
                   [] pc[t] = "copySystem" -> {"System"}
                   [] OTHER                -> {}
WritingNow(t) == IF pc[t] = "write" /\ Accepts(JobIdent(t)) THEN Overwritten(JobIdent(t)) ELSE {}

\* Partitions ps and chunks is of the alternate container are left incomplete.
Tear(ps, is) ==
  LET torn == ps \union {Dest[i] : i \in {j \in is : Whole(j)}} IN
  /\ fresh' = fresh \ torn
  /\ applied' = applied \ (is \union UNION {ChunksOn(p) : p \in ps})
  /\ altValid' \in IF "BootInfo" \in torn THEN BOOLEAN ELSE {altValid}

Stop ==
  /\ MayStop
  /\ main' = "down"
  /\ pc' = [t \in Thread |-> "free"]
  /\ local' = [t \in Thread |-> NoLocal]
  /\ copyThread' = None /\ processThread' = None
  /\ joinCopyThread' = FALSE /\ joinProcessThread' = FALSE
  /\ UNCHANGED <<state, chunks, cancelUpdate, flagVars, jobVars>>

Torn       == UNION {CopyingNow(t) \intersect copyFlags : t \in Thread}
TornChunks == UNION {WritingNow(t) : t \in Thread}

\* The process dies: what it wrote to files stays in the page cache.
Kill ==
  /\ "kill" \in Faults /\ Stop
  /\ \E ps \in SUBSET Torn, is \in SUBSET TornChunks : Tear(ps, is)
  /\ UNCHANGED diskVars

\* The power fails: each file is as it is or as it was last synced, and so is each
\* partition and each chunk.
PowerLoss ==
  /\ "power" \in Faults /\ Stop
  /\ \E ps \in SUBSET (Torn \union (fresh \ synced.fresh)),
        is \in SUBSET (TornChunks \union (applied \ synced.applied)) : Tear(ps, is)
  /\ \E m \in {disk.manifest, synced.manifest}
                \union {n \in {<<>>} : "truncate" \in Faults /\ disk.manifest # synced.manifest},
        j \in {disk.journal, synced.journal} :
       /\ disk' = [manifest |-> m, journal |-> j]
       /\ synced' = [manifest |-> m, journal |-> j, fresh |-> fresh', applied |-> applied']

ForeignLine(m, j) == \E n \in DOMAIN j : \A k \in DOMAIN m : m[k] # j[n].ident

\* The constructor: a cached manifest is offered to be continued with the outcomes in
\* the journal; a journal naming a chunk outside the manifest discards both files.
\* processManifest writes the manifest anew, without a sync.
Restart ==
  LET m == disk.manifest
      j == disk.journal
      usable == m # <<>> /\ ~ForeignLine(m, j) IN
  /\ main = "down"
  /\ main' = IF m # <<>> /\ ForeignLine(m, j) THEN "rmManifest" ELSE "loop"
  /\ state' = IF usable THEN "UpdateAvailable" ELSE "Idle"
  /\ chunks' = IF usable THEN Replay(m, j) ELSE <<>>
  /\ cancelUpdate' = FALSE
  /\ whichChunk' = None /\ processingChunk' = FALSE /\ intChunkPath' = None
  /\ synced' = IF "truncate" \in Faults THEN [synced EXCEPT !.manifest = <<>>] ELSE synced
  /\ UNCHANGED <<flagVars, handleVars, workerVars, disk, altVars>>
-----------------------------------------------------------------------------
\* The first start: nothing cached, and an alternate container of unknown validity.
Init ==
  /\ state = "Idle" /\ chunks = <<>> /\ cancelUpdate = FALSE
  /\ singleContainerOnly = FALSE /\ copyFlags = {}
  /\ whichChunk = None /\ processingChunk = FALSE /\ intChunkPath = None
  /\ copyThread = None /\ processThread = None
  /\ joinCopyThread = FALSE /\ joinProcessThread = FALSE
  /\ main = "loop"
  /\ pc = [t \in Thread |-> "free"]
  /\ local = [t \in Thread |-> NoLocal]
  /\ disk = [manifest |-> <<>>, journal |-> <<>>]
  /\ synced = [manifest |-> <<>>, journal |-> <<>>, fresh |-> {}, applied |-> {}]
  /\ altValid \in BOOLEAN
  /\ fresh = {} /\ applied = {}

Next ==
  \/ MainStep
  \/ \E t \in Thread : WorkerStep(t)
  \/ Kill \/ PowerLoss \/ Restart

Spec == Init /\ [][Next]_vars

\* The main thread's own steps: all but the handling of a message.
ServerStep ==
  \/ EnterProcess \/ JoinCopyThread \/ NoCopyJoin \/ JoinProcessThread \/ NoProcessJoin
  \/ FinishCancel \/ LeaveProcess \/ RemoveManifest \/ RemoveJournal \/ Sync

\* select() waits at most a second, so Process() is called again and again; the
\* scheduler runs every thread.  Nothing makes the client send anything.
Fairness == WF_vars(ServerStep) /\ \A t \in Thread : WF_vars(WorkerStep(t))

FairSpec == Spec /\ Fairness
-----------------------------------------------------------------------------
(* Properties *)

\* The manager never loses a thread: every thread that was started is the one its handle
\* names until it is joined, and a join flag is up exactly when that thread has ended.
ThreadsTracked ==
  /\ \A t \in Thread :
       /\ pc[t] \in CopyPc => t = copyThread
       /\ pc[t] \in ChunkPc => t = processThread
       /\ pc[t] = "exited" => t \in {copyThread, processThread}
  /\ joinCopyThread    <=> copyThread # None /\ pc[copyThread] = "exited"
  /\ joinProcessThread <=> processThread # None /\ pc[processThread] = "exited"

\* The copy thread and the process thread never run at the same time: no chunk is
\* written to a partition that is still being copied.
OneWorker == \A t, u \in Thread : Running(t) /\ Running(u) => t = u

\* While a chunk is processed the list entry its thread holds an iterator to stays in
\* place, and the job in whichChunk and intChunkPath is the one that was accepted.
JobStable ==
  \A t \in Thread : pc[t] \in {"write", "record"} =>
    /\ processingChunk
    /\ local[t].index \in DOMAIN chunks
    /\ whichChunk = local[t].ident /\ chunks[local[t].index].ident = whichChunk

\* The bootloader never sees a valid alternate container that a thread is changing,
\* except between the copy of BootInfo and SetValidity (the TODO at line 537).
NotBootableWhileWritten ==
  \A t \in Thread : pc[t] \in RunningPc \ {"copyBI", "setValidity"} => ~altValid

\* What Finalize promises of the alternate container: each chunk of the update is in
\* place and each of its partitions is a copy of the active one or was replaced.
Complete ==
  /\ \A n \in DOMAIN chunks : chunks[n].ident \in applied
  /\ singleContainerOnly \/ \A p \in DualPartition :
       p \in fresh \/ \E n \in DOMAIN chunks :
                        Dest[chunks[n].ident] = p /\ Whole(chunks[n].ident)

\* Line 384: "We can only finalize when all chunks have been processed successfully".
FinalizeNeedsSuccess == [][Finalize => AllSucceeded]_vars

\* Line 76: "There was no cached manifest, so if there is a journal we should delete it".
JournalNeedsManifest ==
  main = "loop" /\ state = "Idle" /\ disk.manifest = <<>> => disk.journal = <<>>

\* Finalize switches containers only when the alternate one is complete.
FinalizeComplete == main = "loop" /\ state = "AllDone" => Complete

\* A chunk listed as succeeded, also after a restart, is in place: resuming an update
\* never takes an outcome from the journal that the disk does not bear out.
SucceededInPlace ==
  main # "down" /\ ~Cleaning =>
    \A n \in DOMAIN chunks : chunks[n].succeeded => chunks[n].ident \in applied

\* The journal never gets ahead of the data, in the page cache or on the medium: a
\* chunk whose last line says 1 is in place where the line is.
JournalSound ==
  \A n \in DOMAIN disk.manifest :
    /\ LastOk(disk.journal, disk.manifest[n])   => disk.manifest[n] \in applied
    /\ LastOk(synced.journal, disk.manifest[n]) => disk.manifest[n] \in synced.applied

\* The list the constructor makes of a manifest and a journal, if it offers the update.
Offered(m, j) == IF ForeignLine(m, j) THEN <<>> ELSE Replay(m, j)

\* pthread_create failed for the update in the list, and another one was begun behind it.
Muddled == main # "down" /\ ~Cleaning /\ Len(chunks) # Len(disk.manifest)

\* The list a client is shown; with the server down, the one it will be shown.
ListKept == IF main = "down" THEN Offered(disk.manifest, disk.journal) ELSE chunks

\* The list a power failure would leave.  The cleanup ends with a sync.
ListOnMedium == IF Cleaning THEN <<>> ELSE Offered(synced.manifest, synced.journal)

Promise == INSTANCE Resumption WITH
  list <- ListKept, medium <- ListOnMedium, muddled <- Muddled

\* The server implements what a client relies on when it resumes an update: the death of
\* the server costs nothing, a power failure one outcome at most, and an update that was
\* finalized or canceled does not come back.
KeepsUpdate == Promise!Spec

\* A cancel that was accepted ends: the server gets back to Idle.
CancelEnds == state = "Canceling" ~> state = "Idle"

\* A chunk the server says it is processing is processed, or the update is gone.
JobEnds == \A i \in Ident :
  (processingChunk /\ whichChunk = i) ~>
    (state = "Idle" \/ \E n \in DOMAIN chunks : chunks[n].ident = i /\ chunks[n].processed)

=============================================================================
