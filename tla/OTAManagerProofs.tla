-------------------------- MODULE OTAManagerProofs --------------------------
(* Theorems about OTAManager, for every set of chunks, manifests, threads and faults. *)
EXTENDS OTAManager, TLAPS, SequenceTheorems, WellFoundedInduction

-----------------------------------------------------------------------------
(* The operators on the chunk list *)

\* A set of positive numbers has a smallest element.
LEMMA SmallestIndex ==
  ASSUME NEW S \in SUBSET Nat, S # {}
  PROVE  \E n \in S : \A k \in S : n <= k
<1> DEFINE R == {p \in Nat \X Nat : p[1] < p[2]}
<1>1. IsWellFoundedOn(R, Nat)
  BY NatLessThanWellFounded, Zenon DEF OpToRel
<1> HIDE DEF R
<1>2. PICK n \in S : \A k \in S : ~(<<k, n>> \in R)
  BY <1>1, WFMin, Zenon
<1>3. ASSUME NEW k \in S PROVE n <= k
  <2>1. k \in Nat /\ n \in Nat
    OBVIOUS
  <2>2. <<k, n>> \in Nat \X Nat /\ <<k, n>>[1] = k /\ <<k, n>>[2] = n
    BY <2>1
  <2>3. ~(k < n)
    BY <1>2, <2>2 DEF R
  <2>4. QED
    BY <2>1, <2>3
<1>4. QED
  BY <1>3

\* find_if returns an entry with the ident it looks for, when the list has one.
LEMMA FindChunkFinds ==
  ASSUME NEW cs \in Seq(ChunkInfo), NEW i
  PROVE  /\ FindChunk(cs, i) \in Nat
         /\ Entries(cs, i) # {} => FindChunk(cs, i) \in DOMAIN cs /\ cs[FindChunk(cs, i)].ident = i
         /\ FindChunk(cs, i) # 0 => FindChunk(cs, i) \in DOMAIN cs /\ cs[FindChunk(cs, i)].ident = i
<1>1. Entries(cs, i) \in SUBSET Nat
  BY DEF Entries
<1>2. CASE Entries(cs, i) = {}
  BY <1>2 DEF FindChunk
<1>3. CASE Entries(cs, i) # {}
  <2>1. \E n \in Entries(cs, i) : \A k \in Entries(cs, i) : n <= k
    BY <1>1, <1>3, SmallestIndex
  <2>2. FindChunk(cs, i) \in Entries(cs, i)
    BY <1>3, <2>1 DEF FindChunk
  <2>3. QED
    BY <1>1, <1>3, <2>2 DEF Entries
<1>4. QED
  BY <1>2, <1>3

\* A manifest turns into a chunk list of the same length.
LEMMA NewChunksType ==
  ASSUME NEW m \in Seq(Ident)
  PROVE  NewChunks(m) \in Seq(ChunkInfo)
<1>1. \A n \in 1 .. Len(m) : [ident |-> m[n], processed |-> FALSE, succeeded |-> FALSE] \in ChunkInfo
  BY DEF ChunkInfo
<1>2. NewChunks(m) \in [1 .. Len(m) -> ChunkInfo]
  BY <1>1 DEF NewChunks
<1>3. QED
  BY <1>2, SeqDef

\* The list a restarted server makes of a manifest and a journal is a chunk list.
LEMMA ReplayType ==
  ASSUME NEW m \in Seq(Ident), NEW j
  PROVE  Replay(m, j) \in Seq(ChunkInfo)
<1>1. DOMAIN m = 1 .. Len(m) /\ Len(m) \in Nat
  OBVIOUS
<1>2. \A n \in 1 .. Len(m) :
        /\ [ident |-> m[n], processed |-> Lines(j, m[n]) # {}, succeeded |-> LastOk(j, m[n])] \in ChunkInfo
        /\ NewChunks(m)[n] \in ChunkInfo
  BY DEF ChunkInfo, NewChunks, LastOk
<1>3. DOMAIN Replay(m, j) = 1 .. Len(m)
  BY <1>1 DEF Replay
<1>4. \A n \in 1 .. Len(m) : Replay(m, j)[n] \in ChunkInfo
  BY <1>1, <1>2 DEF Replay
<1>5. Replay(m, j) = [n \in 1 .. Len(m) |-> Replay(m, j)[n]]
  BY <1>3 DEF Replay
<1>6. Replay(m, j) \in [1 .. Len(m) -> ChunkInfo]
  BY <1>4, <1>5
<1>7. QED
  BY <1>1, <1>6, SeqDef
-----------------------------------------------------------------------------
(* Types *)

LEMMA TypeInit == Init => TypeOK
<1> SUFFICES ASSUME Init PROVE TypeOK
  OBVIOUS
<1>1. <<>> \in Seq(ChunkInfo) /\ <<>> \in Seq(Ident) /\ <<>> \in Seq(JournalLine)
  OBVIOUS
<1>2. disk \in CacheDir /\ synced \in Medium
  BY <1>1 DEF Init, CacheDir, Medium
<1>3. pc \in [Thread -> WorkerPc]
  BY DEF Init, WorkerPc
<1>4. local \in [Thread -> [index: Nat, ident: Ident \union {None}, ok: BOOLEAN]]
  BY DEF Init, NoLocal
<1>5. QED
  BY <1>1, <1>2, <1>3, <1>4 DEF Init, TypeOK, OTAState, MainPc

LEMMA TypePrepare ==
  ASSUME TypeOK, NEW cs \in Seq(ChunkInfo), NEW noCopy \in BOOLEAN, NEW started \in BOOLEAN,
         PrepareForUpdate(cs, noCopy, started)
  PROVE  /\ singleContainerOnly' \in BOOLEAN /\ copyFlags' \subseteq DualPartition
         /\ altValid' \in BOOLEAN
         /\ pc' \in [Thread -> WorkerPc] /\ copyThread' \in Thread \union {None}
<1>1. singleContainerOnly' \in BOOLEAN /\ copyFlags' \subseteq DualPartition
  BY DEF PrepareForUpdate, SingleOnly, CopyFlags, TypeOK
<1>2. altValid' \in BOOLEAN
  BY DEF PrepareForUpdate, SetValidity, TypeOK
<1>3. pc' \in [Thread -> WorkerPc] /\ copyThread' \in Thread \union {None}
  BY DEF PrepareForUpdate, Spawn, TypeOK, WorkerPc, RunningPc, CopyPc
<1>4. QED
  BY <1>1, <1>2, <1>3

LEMMA TypeMain == TypeOK /\ MainStep => TypeOK'
<1> SUFFICES ASSUME TypeOK, MainStep PROVE TypeOK'
  OBVIOUS
<1> USE ChunkAssumption
<1>1. ASSUME NEW m \in Manifests, BeginUpdate(m) PROVE TypeOK'
  <2>1. m \in Seq(Ident) /\ chunks \o NewChunks(m) \in Seq(ChunkInfo)
    BY NewChunksType DEF TypeOK
  <2>2. PICK started \in BOOLEAN : PrepareForUpdate(chunks \o NewChunks(m), FALSE, started)
    BY <1>1 DEF BeginUpdate
  <2>3. state' \in OTAState
    BY <1>1 DEF BeginUpdate, OTAState
  <2>4. disk' \in CacheDir /\ synced' \in Medium
    BY <1>1, <2>1 DEF BeginUpdate, TypeOK, CacheDir, Medium
  <2>5. QED
    BY <1>1, <2>1, <2>2, <2>3, <2>4, TypePrepare DEF BeginUpdate, TypeOK, jobVars
<1>2. CASE ContinueUpdate
  <2> DEFINE noCopy == \E n \in DOMAIN chunks : chunks[n].processed
  <2>1. PICK started \in BOOLEAN : PrepareForUpdate(chunks, noCopy, started)
    BY <1>2 DEF ContinueUpdate
  <2>2. noCopy \in BOOLEAN /\ chunks \in Seq(ChunkInfo)
    BY DEF TypeOK
  <2> HIDE DEF noCopy
  <2>3. /\ singleContainerOnly' \in BOOLEAN /\ copyFlags' \subseteq DualPartition
        /\ altValid' \in BOOLEAN
        /\ pc' \in [Thread -> WorkerPc] /\ copyThread' \in Thread \union {None}
    BY <2>1, <2>2, TypePrepare
  <2>4. QED
    BY <1>2, <2>3 DEF ContinueUpdate, TypeOK, jobVars, diskVars
<1>3. CASE CancelUpdate
  BY <1>3 DEF CancelUpdate, TypeOK, OTAState, flagVars, jobVars, handleVars, workerVars, diskVars, altVars
<1>4. ASSUME NEW i \in Ident, NEW path \in Ident \union {None}, ProcessChunk(i, path) PROVE TypeOK'
  BY <1>4 DEF ProcessChunk, Spawn, TypeOK, WorkerPc, RunningPc, ChunkPc, flagVars, diskVars, altVars
<1>5. ASSUME NEW i \in Ident, ProcessChunkPayload(i) PROVE TypeOK'
  <2> DEFINE n == FindChunk(chunks, i)
             c == [chunks[n] EXCEPT !.processed = TRUE, !.succeeded = FALSE]
  <2>1. n \in DOMAIN chunks
    BY <1>5, FindChunkFinds DEF ProcessChunkPayload, ProcessAccepted, Idents, Entries, TypeOK
  <2>2. chunks[n] \in ChunkInfo
    BY <2>1 DEF TypeOK
  <2>3. c \in ChunkInfo
    BY <2>2 DEF ChunkInfo
  <2>4. chunks' = [chunks EXCEPT ![n] = c]
    BY <1>5, <2>1, <2>2 DEF ProcessChunkPayload, ChunkInfo
  <2>5. chunks' \in Seq(ChunkInfo)
    BY <2>1, <2>3, <2>4, ExceptSeq DEF TypeOK
  <2>6. QED
    BY <1>5, <2>5 DEF ProcessChunkPayload, TypeOK, flagVars, handleVars, workerVars, diskVars, altVars
<1>6. ASSUME NEW i \in Ident, ProcessChunkLocation(i) PROVE TypeOK'
  BY <1>6 DEF ProcessChunkLocation, TypeOK, flagVars, handleVars, workerVars, diskVars, altVars
<1>7. CASE Finalize
  <2>1. altValid' \in BOOLEAN
    BY <1>7 DEF Finalize, SetValidity, TypeOK
  <2>2. chunks' \in Seq(ChunkInfo)
    BY <1>7 DEF Finalize
  <2>3. QED
    BY <1>7, <2>1, <2>2 DEF Finalize, TypeOK, MainPc, flagVars, jobVars, handleVars, workerVars, diskVars
<1>8. CASE EnterProcess \/ NoCopyJoin \/ NoProcessJoin \/ LeaveProcess
  BY <1>8 DEF EnterProcess, NoCopyJoin, NoProcessJoin, LeaveProcess, TypeOK, MainPc, flagVars, jobVars,
              handleVars, workerVars, diskVars, altVars
<1>9. CASE JoinCopyThread
  BY <1>9 DEF JoinCopyThread, Join, AfterCopy, TypeOK, OTAState, MainPc, WorkerPc, flagVars, jobVars, diskVars, altVars
<1>10. CASE JoinProcessThread
  BY <1>10 DEF JoinProcessThread, Join, AfterChunk, TypeOK, OTAState, MainPc, WorkerPc, flagVars, diskVars, altVars
<1>11. CASE FinishCancel
  <2>1. <<>> \in Seq(ChunkInfo)
    OBVIOUS
  <2>2. QED
    BY <1>11, <2>1 DEF FinishCancel, TypeOK, MainPc, flagVars, jobVars, handleVars, workerVars, diskVars, altVars
<1>12. CASE RemoveManifest
  <2>1. <<>> \in Seq(Ident)
    OBVIOUS
  <2>2. disk' \in CacheDir
    BY <1>12, <2>1 DEF RemoveManifest, TypeOK, CacheDir
  <2>3. QED
    BY <1>12, <2>2 DEF RemoveManifest, TypeOK, MainPc, flagVars, jobVars, handleVars, workerVars, altVars
<1>13. CASE RemoveJournal
  <2>1. <<>> \in Seq(JournalLine)
    OBVIOUS
  <2>2. disk' \in CacheDir
    BY <1>13, <2>1 DEF RemoveJournal, TypeOK, CacheDir
  <2>3. QED
    BY <1>13, <2>2 DEF RemoveJournal, TypeOK, MainPc, flagVars, jobVars, handleVars, workerVars, altVars
<1>14. CASE Sync
  <2>1. synced' \in Medium
    BY <1>14 DEF Sync, RunSync, TypeOK, CacheDir, Medium
  <2>2. QED
    BY <1>14, <2>1 DEF Sync, TypeOK, OTAState, MainPc, flagVars, jobVars, handleVars, workerVars, altVars
<1>15. QED
  BY <1>1, <1>2, <1>3, <1>4, <1>5, <1>6, <1>7, <1>8, <1>9, <1>10, <1>11, <1>12, <1>13, <1>14
     DEF MainStep

\* A thread that writes or records has found a chunk.
HasJob == \A t \in Thread : pc[t] \in {"write", "record"} => local[t].ident \in Ident

LEMMA ChunkType ==
  ASSUME TypeOK
  PROVE  \A n \in DOMAIN chunks : chunks[n] \in ChunkInfo /\ chunks[n].ident \in Ident
<1>1. chunks \in Seq(ChunkInfo)
  BY DEF TypeOK
<1>2. \A n \in DOMAIN chunks : chunks[n] \in ChunkInfo
  BY <1>1
<1>3. QED
  BY <1>2 DEF ChunkInfo

LEMMA JobIdentType ==
  ASSUME TypeOK, HasJob, NEW t \in Thread, pc[t] \in {"write", "record"}
  PROVE  JobIdent(t) \in Ident
BY ChunkType DEF HasJob, JobIdent

LEMMA JobEntryType ==
  ASSUME TypeOK
  PROVE  /\ JobEntry \in Nat
         /\ JobEntry # 0 => /\ JobEntry \in DOMAIN chunks /\ chunks[JobEntry].ident = whichChunk
                            /\ whichChunk \in Ident
<1>1. chunks \in Seq(ChunkInfo)
  BY DEF TypeOK
<1>2. /\ JobEntry \in Nat
      /\ JobEntry # 0 => JobEntry \in DOMAIN chunks /\ chunks[JobEntry].ident = whichChunk
  BY <1>1, FindChunkFinds DEF JobEntry
<1>3. QED
  BY <1>2, ChunkType

LEMMA TypeWorker == ASSUME NEW t \in Thread, TypeOK, HasJob, WorkerStep(t) PROVE TypeOK'
<1> USE ChunkAssumption DEF mainVars, flagVars, jobVars, handleVars, diskVars, altVars
<1>1. ASSUME NEW p \in DualPartition, NEW next \in WorkerPc, CopyPartition(t, p, next) PROVE TypeOK'
  <2>1. pc' \in [Thread -> WorkerPc]
    BY <1>1 DEF CopyPartition, Goto, TypeOK
  <2>2. fresh' \subseteq DualPartition /\ applied' \subseteq Ident /\ altValid' \in BOOLEAN
    BY <1>1 DEF CopyPartition, TypeOK
  <2>3. QED
    BY <1>1, <2>1, <2>2 DEF CopyPartition, TypeOK
<1>2. CASE CopyBootInfo(t) \/ CopyRoot(t) \/ CopySystem(t)
  BY <1>1, <1>2 DEF CopyBootInfo, CopyRoot, CopySystem, DualPartition, WorkerPc, RunningPc, CopyPc
<1>3. CASE SetAlternateInvalid(t)
  <2>1. synced' \in Medium
    BY <1>3 DEF SetAlternateInvalid, Medium, TypeOK, DualPartition
  <2>2. altValid' \in BOOLEAN
    BY <1>3 DEF SetAlternateInvalid, SetValidity, TypeOK
  <2>3. pc' \in [Thread -> WorkerPc]
    BY <1>3 DEF SetAlternateInvalid, Goto, TypeOK, WorkerPc, RunningPc, CopyPc
  <2>4. QED
    BY <1>3, <2>1, <2>2, <2>3 DEF SetAlternateInvalid, TypeOK
<1>4. CASE ClearCache(t)
  <2>1. pc' \in [Thread -> WorkerPc]
    BY <1>4 DEF ClearCache, Goto, TypeOK, WorkerPc, RunningPc, CopyPc
  <2>2. fresh' \subseteq DualPartition /\ applied' \subseteq Ident
    BY <1>4 DEF ClearCache, TypeOK, DualPartition
  <2>3. QED
    BY <1>4, <2>1, <2>2 DEF ClearCache, TypeOK
<1>5. CASE InitSuccess(t)
  <2>1. synced' \in Medium
    BY <1>5 DEF InitSuccess, RunSync, TypeOK, CacheDir, Medium
  <2>2. pc' \in [Thread -> WorkerPc]
    BY <1>5 DEF InitSuccess, Goto, TypeOK, WorkerPc, RunningPc, CopyPc
  <2>3. QED
    BY <1>5, <2>1, <2>2 DEF InitSuccess, TypeOK
<1>6. CASE EndCopyThread(t)
  <2>1. pc' \in [Thread -> WorkerPc]
    BY <1>6 DEF EndCopyThread, Goto, TypeOK, WorkerPc
  <2>2. QED
    BY <1>6, <2>1 DEF EndCopyThread, TypeOK
<1>7. CASE FindJob(t)
  <2>1. local' \in [Thread -> [index: Nat, ident: Ident \union {None}, ok: BOOLEAN]]
    <3>1. CASE JobEntry = 0
      BY <1>7, <3>1 DEF FindJob, TypeOK
    <3>2. CASE JobEntry # 0
      <4>1. [index |-> JobEntry, ident |-> whichChunk, ok |-> FALSE]
              \in [index: Nat, ident: Ident \union {None}, ok: BOOLEAN]
        BY <3>2, JobEntryType
      <4>2. QED
        BY <1>7, <3>2, <4>1 DEF FindJob, TypeOK
    <3>3. QED
      BY <3>1, <3>2
  <2>2. pc' \in [Thread -> WorkerPc]
    BY <1>7 DEF FindJob, Goto, TypeOK, WorkerPc, RunningPc, ChunkPc
  <2>3. QED
    BY <1>7, <2>1, <2>2 DEF FindJob, TypeOK
<1>8. CASE WriteChunk(t)
  <2>1. JobIdent(t) \in Ident
    BY <1>8, JobIdentType DEF WriteChunk
  <2> DEFINE i == JobIdent(t)
  <2>2. PICK result \in {"done", "torn", "failed"} :
          /\ result \in IF Accepts(i) THEN Outcome(i) ELSE {"failed"}
          /\ local' = [local EXCEPT ![t].ok = (result = "done")]
          /\ applied' = CASE result = "done"   -> (applied \ Overwritten(i)) \union {i}
                          [] result = "torn"   -> applied \ Overwritten(i)
                          [] result = "failed" -> applied
          /\ fresh' = IF result = "failed" \/ ~Whole(i) THEN fresh ELSE fresh \ {Dest[i]}
    BY <1>8 DEF WriteChunk, Outcome
  <2>3. local' \in [Thread -> [index: Nat, ident: Ident \union {None}, ok: BOOLEAN]]
    <3>1. local' = [local EXCEPT ![t].ok = (result = "done")]
      BY <2>2
    <3>2. local \in [Thread -> [index: Nat, ident: Ident \union {None}, ok: BOOLEAN]]
      BY DEF TypeOK
    <3>3. QED
      BY <3>1, <3>2
  <2>4. applied' \subseteq Ident /\ fresh' \subseteq DualPartition /\ altValid' \in BOOLEAN
    BY <1>8, <2>1, <2>2 DEF WriteChunk, TypeOK
  <2>5. pc' \in [Thread -> WorkerPc]
    BY <1>8 DEF WriteChunk, Goto, TypeOK, WorkerPc, RunningPc, ChunkPc
  <2>6. QED
    BY <1>8, <2>3, <2>4, <2>5 DEF WriteChunk, TypeOK
<1>9. CASE RecordChunk(t)
  <2> DEFINE n == local[t].index
             c == [chunks[n] EXCEPT !.processed = TRUE, !.succeeded = local[t].ok]
             l == [ident |-> JobIdent(t), ok |-> local[t].ok]
  <2>1. chunks' \in Seq(ChunkInfo)
    <3>1. CASE n \in DOMAIN chunks
      <4>1. chunks[n] \in ChunkInfo /\ c \in ChunkInfo
        BY <3>1, ChunkType DEF ChunkInfo, TypeOK
      <4>2. chunks' = [chunks EXCEPT ![n] = c]
        BY <1>9, <3>1, <4>1 DEF RecordChunk, ChunkInfo
      <4>3. QED
        BY <3>1, <4>1, <4>2, ExceptSeq DEF TypeOK
    <3>2. QED
      BY <1>9, <3>1 DEF RecordChunk, TypeOK
  <2>2. l \in JournalLine
    BY <1>9, JobIdentType DEF RecordChunk, JournalLine, TypeOK
  <2>3. disk' \in CacheDir
    <3>1. disk.journal \in Seq(JournalLine)
      BY DEF TypeOK, CacheDir
    <3>2. Append(disk.journal, l) \in Seq(JournalLine)
      BY <2>2, <3>1
    <3>3. QED
      BY <1>9, <3>2 DEF RecordChunk, TypeOK, CacheDir
  <2>6. synced' \in Medium
    BY <1>9 DEF RecordChunk, RunSync, TypeOK, CacheDir, Medium
  <2>4. pc' \in [Thread -> WorkerPc]
    BY <1>9 DEF RecordChunk, Goto, TypeOK, WorkerPc, RunningPc, ChunkPc
  <2>5. QED
    BY <1>9, <2>1, <2>3, <2>4, <2>6 DEF RecordChunk, TypeOK
<1>10. CASE EndProcessThread(t)
  <2>1. pc' \in [Thread -> WorkerPc]
    BY <1>10 DEF EndProcessThread, Goto, TypeOK, WorkerPc
  <2>2. local' \in [Thread -> [index: Nat, ident: Ident \union {None}, ok: BOOLEAN]]
    BY <1>10 DEF EndProcessThread, NoLocal, TypeOK
  <2>3. QED
    BY <1>10, <2>1, <2>2 DEF EndProcessThread, TypeOK
<1>11. QED
  BY <1>2, <1>3, <1>4, <1>5, <1>6, <1>7, <1>8, <1>9, <1>10 DEF WorkerStep
LEMMA TypeTear ==
  ASSUME TypeOK, NEW ps, NEW is, Tear(ps, is)
  PROVE  fresh' \subseteq DualPartition /\ applied' \subseteq Ident /\ altValid' \in BOOLEAN
BY DEF Tear, TypeOK

LEMMA TypeStop == TypeOK /\ (Kill \/ PowerLoss) => TypeOK'
<1> SUFFICES ASSUME TypeOK, Kill \/ PowerLoss PROVE TypeOK'
  OBVIOUS
<1> USE ChunkAssumption
<1>1. fresh' \subseteq DualPartition /\ applied' \subseteq Ident /\ altValid' \in BOOLEAN
  BY TypeTear DEF Kill, PowerLoss
<1>2. Stop
  BY DEF Kill, PowerLoss
<1>3. disk' \in CacheDir /\ synced' \in Medium
  <2>1. CASE Kill
    BY <2>1 DEF Kill, TypeOK, diskVars
  <2>2. CASE PowerLoss
    <3>1. PICK m \in {disk.manifest, synced.manifest} \union {<<>>}, j \in {disk.journal, synced.journal} :
            /\ disk' = [manifest |-> m, journal |-> j]
            /\ synced' = [manifest |-> m, journal |-> j, fresh |-> fresh', applied |-> applied']
      BY <2>2 DEF PowerLoss
    <3>2. m \in Seq(Ident) /\ j \in Seq(JournalLine)
      <4>1. <<>> \in Seq(Ident)
        OBVIOUS
      <4>2. QED
        BY <4>1 DEF TypeOK, CacheDir, Medium
    <3>3. QED
      BY <1>1, <3>1, <3>2 DEF CacheDir, Medium
  <2>3. QED
    BY <2>1, <2>2
<1>4. pc' \in [Thread -> WorkerPc]
  BY <1>2 DEF Stop, WorkerPc
<1>5. local' \in [Thread -> [index: Nat, ident: Ident \union {None}, ok: BOOLEAN]]
  BY <1>2 DEF Stop, NoLocal
<1>6. QED
  BY <1>1, <1>2, <1>3, <1>4, <1>5 DEF Stop, TypeOK, MainPc, flagVars, jobVars

LEMMA TypeRestart == TypeOK /\ Restart => TypeOK'
<1> SUFFICES ASSUME TypeOK, Restart PROVE TypeOK'
  OBVIOUS
<1>1. disk.manifest \in Seq(Ident) /\ disk.journal \in Seq(JournalLine)
  BY DEF TypeOK, CacheDir
<1>2. <<>> \in Seq(ChunkInfo) /\ <<>> \in Seq(Ident)
  OBVIOUS
<1>3. chunks' \in Seq(ChunkInfo)
  BY <1>1, <1>2, ReplayType DEF Restart
<1>4. synced' \in Medium
  BY <1>2 DEF Restart, TypeOK, Medium
<1>5. state' \in OTAState /\ main' \in MainPc
  BY DEF Restart, OTAState, MainPc
<1>6. QED
  BY <1>3, <1>4, <1>5 DEF Restart, TypeOK, flagVars, handleVars, workerVars, altVars

\* A thread finds its chunk before it writes, whatever else happens.
LEMMA HasJobStep == TypeOK /\ HasJob /\ [Next]_vars => HasJob'
<1> SUFFICES ASSUME TypeOK, HasJob, [Next]_vars PROVE HasJob'
  OBVIOUS
<1> USE DEF flagVars, jobVars, handleVars, workerVars, diskVars, altVars
<1>1. ASSUME UNCHANGED pc, UNCHANGED local PROVE HasJob'
  BY <1>1 DEF HasJob
<1>2. ASSUME NEW t \in Thread, NEW entry \in {"copyBI", "find", "free"},
             pc' = [pc EXCEPT ![t] = entry], UNCHANGED local
      PROVE  HasJob'
  BY <1>2 DEF HasJob, TypeOK
<1>3. ASSUME MainStep PROVE HasJob'
  <2>1. ASSUME NEW cs, NEW noCopy, NEW started, PrepareForUpdate(cs, noCopy, started), UNCHANGED local
        PROVE  HasJob'
    BY <2>1, <1>1, <1>2 DEF PrepareForUpdate, Spawn
  <2>2. ASSUME NEW m \in Manifests, BeginUpdate(m) PROVE HasJob'
    BY <2>2, <2>1 DEF BeginUpdate
  <2>3. CASE ContinueUpdate
    BY <2>3, <2>1 DEF ContinueUpdate
  <2>4. ASSUME NEW i \in Ident, NEW path \in Ident \union {None}, ProcessChunk(i, path) PROVE HasJob'
    BY <2>4, <1>1, <1>2 DEF ProcessChunk, Spawn
  <2>5. CASE JoinCopyThread
    <3>1. copyThread \in Thread
      BY <2>5 DEF JoinCopyThread, TypeOK
    <3>2. QED
      BY <2>5, <3>1, <1>2 DEF JoinCopyThread, Join
  <2>6. CASE JoinProcessThread
    <3>1. processThread \in Thread
      BY <2>6 DEF JoinProcessThread, TypeOK
    <3>2. QED
      BY <2>6, <3>1, <1>2 DEF JoinProcessThread, Join
  <2>7. ASSUME \/ CancelUpdate \/ Finalize \/ EnterProcess \/ NoCopyJoin \/ NoProcessJoin
               \/ FinishCancel \/ LeaveProcess \/ RemoveManifest \/ RemoveJournal \/ Sync
               \/ \E i \in Ident : ProcessChunkPayload(i) \/ ProcessChunkLocation(i)
        PROVE  HasJob'
    <3>1. UNCHANGED pc /\ UNCHANGED local
      BY <2>7 DEF CancelUpdate, Finalize, EnterProcess, NoCopyJoin, NoProcessJoin, FinishCancel, LeaveProcess,
                  RemoveManifest, RemoveJournal, Sync, ProcessChunkPayload, ProcessChunkLocation
    <3>2. QED
      BY <1>1, <3>1
  <2>8. QED
    BY <1>3, <2>2, <2>3, <2>4, <2>5, <2>6, <2>7 DEF MainStep
<1>4. ASSUME NEW t \in Thread, WorkerStep(t) PROVE HasJob'
  <2>1. ASSUME NEW next \in WorkerPc \ {"write", "record"}, Goto(t, next),
               local' = local \/ local' = [local EXCEPT ![t] = NoLocal]
        PROVE  HasJob'
    BY <2>1 DEF Goto, HasJob, TypeOK
  <2>2. CASE CopyBootInfo(t) \/ SetAlternateInvalid(t) \/ CopyRoot(t) \/ CopySystem(t)
             \/ ClearCache(t) \/ InitSuccess(t) \/ EndCopyThread(t)
    BY <2>2, <2>1 DEF CopyBootInfo, SetAlternateInvalid, CopyRoot, CopySystem, ClearCache, InitSuccess,
                      EndCopyThread, CopyPartition, WorkerPc, RunningPc, CopyPc
  <2>3. CASE FindJob(t)
    <3>1. CASE JobEntry = 0
      BY <2>1, <2>3, <3>1 DEF FindJob, WorkerPc, RunningPc, ChunkPc
    <3>2. CASE JobEntry # 0
      <4>1. local' = [local EXCEPT ![t] = [index |-> JobEntry, ident |-> whichChunk, ok |-> FALSE]]
        BY <2>3, <3>2 DEF FindJob
      <4>2. local'[t].ident \in Ident
        BY <3>2, <4>1, JobEntryType DEF TypeOK
      <4>3. \A u \in Thread \ {t} : local'[u] = local[u] /\ pc'[u] = pc[u]
        BY <2>3, <4>1 DEF FindJob, Goto, TypeOK
      <4>4. QED
        BY <4>2, <4>3 DEF HasJob
    <3>3. QED
      BY <3>1, <3>2
  <2>4. CASE WriteChunk(t)
    <3>1. \A u \in Thread : local'[u].ident = local[u].ident
      BY <2>4 DEF WriteChunk, TypeOK
    <3>2. \A u \in Thread : pc'[u] \in {"write", "record"} => pc[u] \in {"write", "record"}
      BY <2>4 DEF WriteChunk, Goto, TypeOK
    <3>3. QED
      BY <3>1, <3>2 DEF HasJob
  <2>5. CASE RecordChunk(t) \/ EndProcessThread(t)
    BY <2>5, <2>1 DEF RecordChunk, EndProcessThread, WorkerPc, RunningPc, ChunkPc
  <2>6. QED
    BY <1>4, <2>2, <2>3, <2>4, <2>5 DEF WorkerStep
<1>5. CASE Kill \/ PowerLoss
  BY <1>5 DEF Kill, PowerLoss, Stop, HasJob
<1>6. CASE Restart
  BY <1>6, <1>1 DEF Restart
<1>7. CASE UNCHANGED vars
  BY <1>7, <1>1 DEF vars
<1>8. QED
  BY <1>3, <1>4, <1>5, <1>6, <1>7 DEF Next

\* Every variable keeps its type in every behaviour: in particular no thread reads the
\* locals of a chunk it has not found.
THEOREM TypeCorrect == Spec => []TypeOK
<1>1. Init => TypeOK /\ HasJob
  BY TypeInit DEF Init, HasJob
<1>2. TypeOK /\ HasJob /\ [Next]_vars => (TypeOK /\ HasJob)'
  <2> SUFFICES ASSUME TypeOK, HasJob, [Next]_vars PROVE TypeOK' /\ HasJob'
    OBVIOUS
  <2>1. ASSUME UNCHANGED vars PROVE TypeOK'
    <3>1. /\ UNCHANGED <<state, chunks, cancelUpdate, singleContainerOnly, copyFlags, main>>
          /\ UNCHANGED <<whichChunk, processingChunk, intChunkPath>>
          /\ UNCHANGED <<copyThread, processThread, joinCopyThread, joinProcessThread>>
          /\ UNCHANGED <<pc, local, disk, synced, altValid, fresh, applied>>
      BY <2>1 DEF vars, flagVars, jobVars, handleVars, workerVars, diskVars, altVars
    <3>2. QED
      BY <3>1 DEF TypeOK
  <2>2. TypeOK'
    BY <2>1, TypeMain, TypeWorker, TypeStop, TypeRestart DEF Next
  <2>3. QED
    BY <2>2, HasJobStep
<1>3. QED
  BY <1>1, <1>2, PTL DEF Spec

-----------------------------------------------------------------------------
(* The inductive invariants *)

\* A client that waits for the status before it sends the next message: without the
\* "pipeline" habit the manager has at most one thread.
\* - every thread that is not free is named by a handle
\* - a handle names a thread of its own kind, and its join flag says whether it ended
\* - the states in which each handle can be in use, which is why the two never are
\*   together and why BeginUpdate, Finalize and the cleanup find no thread
CopyHandle ==
  IF copyThread = None THEN ~joinCopyThread
  ELSE /\ processThread = None
       /\ pc[copyThread] \in CopyPc \union {"exited"}
       /\ joinCopyThread <=> pc[copyThread] = "exited"
       /\ state \in {"Preparing", "UpdateAvailable", "Canceling"}

ProcessHandle ==
  IF processThread = None THEN ~joinProcessThread
  ELSE /\ pc[processThread] \in ChunkPc \union {"exited"}
       /\ joinProcessThread <=> pc[processThread] = "exited"
       /\ processingChunk
       /\ state \in {"InitDone", "Canceling"}

HandleInv ==
  /\ \A t \in Thread : pc[t] # "free" => t = copyThread \/ t = processThread
  /\ CopyHandle
  /\ ProcessHandle
  /\ Cleaning \/ main = "down" => copyThread = None /\ processThread = None

\* A valid alternate container: no chunk is accepted, and the only thread that can be
\* running has just copied BootInfo.
BootInv ==
  altValid => /\ main = "down" \/ state # "InitDone"
              /\ \A t \in Thread : pc[t] \in {"free", "setValidity"}
-----------------------------------------------------------------------------
(* The handles *)

\* A step that leaves the threads and their handles alone.
LEMMA HandleFrame ==
  ASSUME HandleInv, UNCHANGED <<pc, handleVars>>,
         processThread # None => processingChunk',
         \/ state' \in {state, "Canceling"}
         \/ copyThread = None /\ processThread = None,
         main' \in {"down", "rmManifest", "rmJournal", "sync"} => copyThread = None /\ processThread = None
  PROVE  HandleInv'
<1>1. UNCHANGED <<copyThread, processThread, joinCopyThread, joinProcessThread>>
  BY DEF handleVars
<1>2. CopyHandle' /\ ProcessHandle'
  BY <1>1 DEF HandleInv, CopyHandle, ProcessHandle
<1>3. QED
  BY <1>1, <1>2 DEF HandleInv, Cleaning

\* prepareForUpdate is called when no thread is known.
LEMMA HandlePrepare ==
  ASSUME TypeOK, HandleInv, NEW cs, NEW noCopy, NEW started,
         PrepareForUpdate(cs, noCopy, started),
         copyThread = None, processThread = None, main = "loop",
         started => state' \in {"Preparing", "UpdateAvailable"},
         UNCHANGED <<processThread, joinCopyThread, joinProcessThread, main>>
  PROVE  HandleInv'
<1>1. \A t \in Thread : pc[t] = "free"
  BY ChunkAssumption DEF HandleInv
<1>2. ~joinCopyThread /\ ~joinProcessThread
  BY DEF HandleInv, CopyHandle, ProcessHandle
<1>3. ASSUME started PROVE HandleInv'
  <2>1. PICK t \in Thread : Spawn(copyThread, t, "copyBI")
    BY <1>3 DEF PrepareForUpdate
  <2>2. /\ copyThread' = t /\ pc'[t] = "copyBI"
        /\ \A u \in Thread \ {t} : pc'[u] = "free"
    BY <1>1, <2>1 DEF Spawn, TypeOK
  <2>3. CopyHandle'
    BY <1>2, <1>3, <2>2 DEF CopyHandle, CopyPc
  <2>4. ProcessHandle'
    BY <1>2 DEF ProcessHandle
  <2>5. QED
    BY <2>2, <2>3, <2>4 DEF HandleInv, Cleaning
<1>4. ASSUME ~started PROVE HandleInv'
  <2>1. UNCHANGED <<pc, copyThread>>
    BY <1>4 DEF PrepareForUpdate
  <2>2. CopyHandle' /\ ProcessHandle'
    BY <1>2, <2>1 DEF CopyHandle, ProcessHandle
  <2>3. QED
    BY <1>1, <2>1, <2>2 DEF HandleInv, Cleaning
<1>5. QED
  BY <1>3, <1>4

\* Joining a thread that has ended leaves none.
LEMMA HandleJoin ==
  ASSUME TypeOK, HandleInv, main' \in {"procChunk", "procCancel"},
         \/ JoinCopyThread
         \/ JoinProcessThread
  PROVE  HandleInv'
<1> USE ChunkAssumption
<1>1. CASE JoinCopyThread
  <2>1. copyThread \in Thread /\ processThread = None /\ ~joinProcessThread
    BY <1>1 DEF JoinCopyThread, TypeOK, HandleInv, CopyHandle, ProcessHandle
  <2>2. /\ copyThread' = None /\ processThread' = None
        /\ ~joinCopyThread' /\ ~joinProcessThread'
    BY <1>1, <2>1 DEF JoinCopyThread, Join
  <2>3. \A t \in Thread : pc'[t] = "free"
    BY <1>1, <2>1 DEF JoinCopyThread, Join, TypeOK, HandleInv
  <2>4. CopyHandle' /\ ProcessHandle'
    BY <2>2 DEF CopyHandle, ProcessHandle
  <2>5. QED
    BY <2>2, <2>3, <2>4 DEF HandleInv
<1>2. CASE JoinProcessThread
  <2>1. processThread \in Thread /\ copyThread = None /\ ~joinCopyThread
    BY <1>2 DEF JoinProcessThread, TypeOK, HandleInv, CopyHandle
  <2>2. /\ copyThread' = None /\ processThread' = None
        /\ ~joinCopyThread' /\ ~joinProcessThread'
    BY <1>2, <2>1 DEF JoinProcessThread, Join
  <2>3. \A t \in Thread : pc'[t] = "free"
    BY <1>2, <2>1 DEF JoinProcessThread, Join, TypeOK, HandleInv
  <2>4. CopyHandle' /\ ProcessHandle'
    BY <2>2 DEF CopyHandle, ProcessHandle
  <2>5. QED
    BY <2>2, <2>3, <2>4 DEF HandleInv
<1>3. QED
  BY <1>1, <1>2

\* What a client that waits makes sure of.
LEMMA AcceptedAlone ==
  ASSUME HandleInv, "pipeline" \notin Habits, NEW i, ProcessAccepted(i)
  PROVE  copyThread = None /\ processThread = None /\ main = "loop" /\ state = "InitDone"
BY DEF ProcessAccepted, HandleInv, CopyHandle, ProcessHandle

LEMMA HandleMain ==
  ASSUME TypeOK, HandleInv, "pipeline" \notin Habits, MainStep
  PROVE  HandleInv'
<1> USE DEF flagVars, jobVars, workerVars, diskVars, altVars
<1>1. ASSUME NEW m \in Manifests, BeginUpdate(m) PROVE HandleInv'
  <2> DEFINE cs == chunks \o NewChunks(m)
  <2>1. copyThread = None /\ processThread = None
    BY <1>1 DEF BeginUpdate, HandleInv, CopyHandle, ProcessHandle
  <2>2. PICK started \in BOOLEAN :
          PrepareForUpdate(cs, FALSE, started) /\ state' = IF started THEN "Preparing" ELSE "Idle"
    BY <1>1 DEF BeginUpdate
  <2> HIDE DEF cs
  <2>3. QED
    BY <1>1, <2>1, <2>2, HandlePrepare DEF BeginUpdate
<1>2. CASE ContinueUpdate
  <2> DEFINE noCopy == \E n \in DOMAIN chunks : chunks[n].processed
  <2>1. copyThread = None /\ processThread = None
    BY <1>2 DEF ContinueUpdate, HandleInv, ProcessHandle
  <2>2. PICK started \in BOOLEAN : PrepareForUpdate(chunks, noCopy, started)
    BY <1>2 DEF ContinueUpdate
  <2> HIDE DEF noCopy
  <2>3. QED
    BY <1>2, <2>1, <2>2, HandlePrepare DEF ContinueUpdate
<1>3. CASE CancelUpdate
  BY <1>3, HandleFrame DEF CancelUpdate, HandleInv, ProcessHandle
<1>4. ASSUME NEW i \in Ident, NEW path \in Ident \union {None}, ProcessChunk(i, path) PROVE HandleInv'
  <2>1. copyThread = None /\ processThread = None /\ main = "loop" /\ state = "InitDone"
    BY <1>4, AcceptedAlone DEF ProcessChunk
  <2>2. CASE UNCHANGED <<pc, processThread>>
    BY <1>4, <2>1, <2>2, HandleFrame DEF ProcessChunk, handleVars
  <2>3. ASSUME NEW t \in Thread, Spawn(processThread, t, "find") PROVE HandleInv'
    <3>1. \A u \in Thread : pc[u] = "free"
      BY <2>1, ChunkAssumption DEF HandleInv
    <3>2. /\ processThread' = t /\ pc'[t] = "find"
          /\ \A u \in Thread \ {t} : pc'[u] = "free"
      BY <2>3, <3>1 DEF Spawn, TypeOK
    <3>3. ~joinCopyThread /\ ~joinProcessThread
      BY <2>1 DEF HandleInv, CopyHandle, ProcessHandle
    <3>4. CopyHandle'
      BY <1>4, <2>1, <3>3 DEF ProcessChunk, CopyHandle
    <3>5. ProcessHandle'
      BY <1>4, <2>1, <3>2, <3>3 DEF ProcessChunk, ProcessHandle, ChunkPc
    <3>6. QED
      BY <1>4, <2>1, <3>2, <3>4, <3>5 DEF ProcessChunk, HandleInv, Cleaning
  <2>4. QED
    BY <1>4, <2>2, <2>3 DEF ProcessChunk
<1>5. ASSUME NEW i \in Ident, ProcessChunkPayload(i) \/ ProcessChunkLocation(i) PROVE HandleInv'
  <2>1. copyThread = None /\ processThread = None /\ main = "loop"
    BY <1>5, AcceptedAlone DEF ProcessChunkPayload, ProcessChunkLocation
  <2>2. QED
    BY <1>5, <2>1, HandleFrame DEF ProcessChunkPayload, ProcessChunkLocation
<1>6. CASE Finalize
  <2>1. copyThread = None /\ processThread = None
    BY <1>6 DEF Finalize, HandleInv, CopyHandle, ProcessHandle
  <2>2. QED
    BY <1>6, <2>1, HandleFrame DEF Finalize
<1>7. CASE EnterProcess \/ NoCopyJoin \/ NoProcessJoin \/ LeaveProcess
  <2>1. processThread # None => processingChunk
    BY DEF HandleInv, ProcessHandle
  <2>2. QED
    BY <1>7, <2>1, HandleFrame DEF EnterProcess, NoCopyJoin, NoProcessJoin, LeaveProcess
<1>8. CASE JoinCopyThread \/ JoinProcessThread
  BY <1>8, HandleJoin DEF JoinCopyThread, JoinProcessThread
<1>9. CASE FinishCancel
  BY <1>9, HandleFrame DEF FinishCancel, AllJoined
<1>10. CASE RemoveManifest \/ RemoveJournal \/ Sync
  <2>1. copyThread = None /\ processThread = None
    BY <1>10 DEF RemoveManifest, RemoveJournal, Sync, HandleInv, Cleaning
  <2>2. QED
    BY <1>10, <2>1, HandleFrame DEF RemoveManifest, RemoveJournal, Sync
<1>11. QED
  BY <1>1, <1>2, <1>3, <1>4, <1>5, <1>6, <1>7, <1>8, <1>9, <1>10 DEF MainStep

\* A worker thread's step: it stays in the part of the code its handle is for, and
\* raises its join flag as it ends.
LEMMA HandleWorker ==
  ASSUME TypeOK, HandleInv, NEW t \in Thread, WorkerStep(t)
  PROVE  HandleInv'
<1> USE ChunkAssumption DEF mainVars, flagVars, jobVars, diskVars, altVars
<1>1. ASSUME t = copyThread, NEW next \in CopyPc, pc[t] \in CopyPc, Goto(t, next), UNCHANGED mainVars,
             UNCHANGED <<joinCopyThread, joinProcessThread>>
      PROVE  HandleInv'
  <2>1. pc'[t] = next /\ \A u \in Thread \ {t} : pc'[u] = pc[u]
    BY <1>1 DEF Goto, TypeOK
  <2>2. CopyHandle'
    BY <1>1, <2>1 DEF HandleInv, CopyHandle, CopyPc
  <2>3. ProcessHandle'
    BY <1>1, <2>1 DEF HandleInv, CopyHandle, ProcessHandle
  <2>4. QED
    BY <1>1, <2>1, <2>2, <2>3 DEF HandleInv, Cleaning
<1>2. ASSUME t = processThread, NEW next \in ChunkPc, pc[t] \in ChunkPc, Goto(t, next),
             UNCHANGED <<state, main, processingChunk, handleVars>>
      PROVE  HandleInv'
  <2>1. pc'[t] = next /\ \A u \in Thread \ {t} : pc'[u] = pc[u]
    BY <1>2 DEF Goto, TypeOK
  <2>2. CopyHandle' /\ ProcessHandle'
    BY <1>2, <2>1 DEF HandleInv, CopyHandle, ProcessHandle, ChunkPc, handleVars
  <2>3. QED
    BY <1>2, <2>1, <2>2 DEF HandleInv, Cleaning, handleVars
<1>3. pc[t] \in CopyPc => t = copyThread
  BY DEF HandleInv, ProcessHandle, CopyPc, ChunkPc
<1>4. pc[t] \in ChunkPc => t = processThread
  BY DEF HandleInv, CopyHandle, CopyPc, ChunkPc
<1>5. CASE CopyBootInfo(t) \/ SetAlternateInvalid(t) \/ CopyRoot(t) \/ CopySystem(t)
           \/ ClearCache(t) \/ InitSuccess(t)
  BY <1>1, <1>3, <1>5 DEF CopyBootInfo, SetAlternateInvalid, CopyRoot, CopySystem, ClearCache, InitSuccess,
                          CopyPartition, CopyPc
<1>6. CASE EndCopyThread(t)
  <2>1. t = copyThread /\ processThread = None
    BY <1>3, <1>6 DEF EndCopyThread, CopyPc, HandleInv, CopyHandle
  <2>2. pc'[t] = "exited" /\ \A u \in Thread \ {t} : pc'[u] = pc[u]
    BY <1>6 DEF EndCopyThread, Goto, TypeOK
  <2>3. CopyHandle'
    BY <1>6, <2>1, <2>2 DEF EndCopyThread, HandleInv, CopyHandle
  <2>4. ProcessHandle'
    BY <1>6, <2>1 DEF EndCopyThread, HandleInv, ProcessHandle
  <2>5. QED
    BY <1>6, <2>1, <2>2, <2>3, <2>4 DEF EndCopyThread, HandleInv, Cleaning
<1>7. CASE FindJob(t) \/ WriteChunk(t) \/ RecordChunk(t)
  <2>1. t = processThread /\ pc[t] \in ChunkPc
    BY <1>4, <1>7 DEF FindJob, WriteChunk, RecordChunk, ChunkPc
  <2>2. UNCHANGED <<state, main, processingChunk, handleVars>>
    BY <1>7 DEF FindJob, WriteChunk, RecordChunk, handleVars
  <2>3. \E next \in ChunkPc : Goto(t, next)
    BY <1>7 DEF FindJob, WriteChunk, RecordChunk, ChunkPc
  <2>4. QED
    BY <1>2, <2>1, <2>2, <2>3
<1>8. CASE EndProcessThread(t)
  <2>1. t = processThread /\ copyThread = None
    BY <1>4, <1>8 DEF EndProcessThread, ChunkPc, HandleInv, CopyHandle
  <2>2. pc'[t] = "exited" /\ \A u \in Thread \ {t} : pc'[u] = pc[u]
    BY <1>8 DEF EndProcessThread, Goto, TypeOK
  <2>3. CopyHandle'
    BY <1>8, <2>1 DEF EndProcessThread, HandleInv, CopyHandle
  <2>4. ProcessHandle'
    BY <1>8, <2>1, <2>2 DEF EndProcessThread, HandleInv, ProcessHandle
  <2>5. QED
    BY <1>8, <2>1, <2>2, <2>3, <2>4 DEF EndProcessThread, HandleInv, Cleaning
<1>9. QED
  BY <1>5, <1>6, <1>7, <1>8 DEF WorkerStep

LEMMA HandleStep ==
  ASSUME TypeOK, HandleInv, "pipeline" \notin Habits, [Next]_vars
  PROVE  HandleInv'
<1>1. CASE Kill \/ PowerLoss
  <2>1. Stop
    BY <1>1 DEF Kill, PowerLoss
  <2>2. QED
    BY <2>1 DEF Stop, HandleInv, CopyHandle, ProcessHandle
<1>2. CASE Restart
  <2>1. copyThread = None /\ processThread = None
    BY <1>2 DEF Restart, HandleInv
  <2>2. QED
    BY <1>2, <2>1, HandleFrame DEF Restart, workerVars
<1>3. CASE UNCHANGED vars
  <2>1. processThread # None => processingChunk
    BY DEF HandleInv, ProcessHandle
  <2>2. main \in {"down", "rmManifest", "rmJournal", "sync"} => copyThread = None /\ processThread = None
    BY DEF HandleInv, Cleaning
  <2>3. UNCHANGED <<pc, handleVars, state, main, processingChunk>>
    BY <1>3 DEF vars, workerVars, jobVars
  <2>4. QED
    BY <2>1, <2>2, <2>3, HandleFrame
<1>4. QED
  BY <1>1, <1>2, <1>3, HandleMain, HandleWorker DEF Next

\* A client that waits cannot make the manager lose a thread, whatever fails and whenever
\* the server dies: each thread started is joined through the handle that names it.
THEOREM NoThreadLost ==
  ASSUME "pipeline" \notin Habits
  PROVE  Spec => []ThreadsTracked
<1>1. Init => HandleInv
  BY DEF Init, HandleInv, CopyHandle, ProcessHandle, Cleaning
<1>2. TypeOK /\ HandleInv /\ [Next]_vars => HandleInv'
  BY HandleStep
<1>3. TypeOK /\ HandleInv => ThreadsTracked
  <2> SUFFICES ASSUME TypeOK, HandleInv PROVE ThreadsTracked
    OBVIOUS
  <2>1. \A t \in Thread :
          /\ pc[t] \in CopyPc => t = copyThread
          /\ pc[t] \in ChunkPc => t = processThread
          /\ pc[t] = "exited" => t \in {copyThread, processThread}
    BY ChunkAssumption DEF HandleInv, CopyHandle, ProcessHandle, CopyPc, ChunkPc
  <2>2. /\ joinCopyThread    <=> copyThread # None /\ pc[copyThread] = "exited"
        /\ joinProcessThread <=> processThread # None /\ pc[processThread] = "exited"
    BY DEF HandleInv, CopyHandle, ProcessHandle, TypeOK
  <2>3. QED
    BY <2>1, <2>2 DEF ThreadsTracked
<1>4. QED
  BY <1>1, <1>2, <1>3, TypeCorrect, PTL DEF Spec

\* Nor can it make a chunk be written while a partition is being copied.
THEOREM NeverTwoWorkers ==
  ASSUME "pipeline" \notin Habits
  PROVE  Spec => []OneWorker
<1>1. Init => HandleInv
  BY DEF Init, HandleInv, CopyHandle, ProcessHandle, Cleaning
<1>2. TypeOK /\ HandleInv /\ [Next]_vars => HandleInv'
  BY HandleStep
<1>3. TypeOK /\ HandleInv => OneWorker
  BY ChunkAssumption DEF HandleInv, CopyHandle, ProcessHandle, OneWorker, Running, RunningPc, CopyPc, ChunkPc
<1>4. QED
  BY <1>1, <1>2, <1>3, TypeCorrect, PTL DEF Spec
-----------------------------------------------------------------------------
(* The job *)

LEMMA JobFrame ==
  ASSUME JobStable, UNCHANGED <<pc, local, chunks, whichChunk, processingChunk>>
  PROVE  JobStable'
BY DEF JobStable

\* A step taken while no thread works on a chunk and that starts none on a chunk.
LEMMA JobIdle ==
  ASSUME \A t \in Thread : pc'[t] \notin {"write", "record"}
  PROVE  JobStable'
BY DEF JobStable

\* Without a process thread nobody writes; joining needs one that has ended.
LEMMA NoWriter ==
  ASSUME TypeOK, HandleInv, processThread = None
  PROVE  \A t \in Thread : pc[t] \notin {"write", "record"}
BY ChunkAssumption DEF HandleInv, CopyHandle, CopyPc

LEMMA JobMain ==
  ASSUME TypeOK, HandleInv, JobStable, "pipeline" \notin Habits, MainStep
  PROVE  JobStable'
<1> USE DEF flagVars, jobVars, handleVars, workerVars, diskVars, altVars
<1>1. ASSUME processThread = None, UNCHANGED pc PROVE JobStable'
  BY <1>1, NoWriter, JobIdle
<1>2. ASSUME processThread = None, NEW t \in Thread, NEW entry \in {"copyBI", "find", "free"},
             pc' = [pc EXCEPT ![t] = entry]
      PROVE  JobStable'
  <2>1. \A u \in Thread : pc'[u] \notin {"write", "record"}
    BY <1>2, NoWriter DEF TypeOK
  <2>2. QED
    BY <2>1, JobIdle
<1>3. ASSUME processThread = None, NEW cs, NEW noCopy, NEW started, PrepareForUpdate(cs, noCopy, started)
      PROVE  JobStable'
  BY <1>1, <1>2, <1>3 DEF PrepareForUpdate, Spawn
<1>4. ASSUME NEW m \in Manifests, BeginUpdate(m) PROVE JobStable'
  <2>1. processThread = None
    BY <1>4 DEF BeginUpdate, HandleInv, ProcessHandle
  <2>2. QED
    BY <1>3, <1>4, <2>1 DEF BeginUpdate
<1>5. CASE ContinueUpdate
  <2>1. processThread = None
    BY <1>5 DEF ContinueUpdate, HandleInv, ProcessHandle
  <2>2. QED
    BY <1>3, <1>5, <2>1 DEF ContinueUpdate
<1>6. ASSUME NEW i \in Ident, NEW path \in Ident \union {None}, ProcessChunk(i, path) PROVE JobStable'
  <2>1. processThread = None
    BY <1>6, AcceptedAlone DEF ProcessChunk
  <2>2. QED
    BY <1>1, <1>2, <1>6, <2>1 DEF ProcessChunk, Spawn
<1>7. ASSUME NEW i \in Ident, ProcessChunkPayload(i) \/ ProcessChunkLocation(i) PROVE JobStable'
  <2>1. processThread = None
    BY <1>7, AcceptedAlone DEF ProcessChunkPayload, ProcessChunkLocation
  <2>2. QED
    BY <1>1, <1>7, <2>1 DEF ProcessChunkPayload, ProcessChunkLocation
<1>8. CASE Finalize
  <2>1. processThread = None
    BY <1>8 DEF Finalize, HandleInv, ProcessHandle
  <2>2. QED
    BY <1>1, <1>8, <2>1 DEF Finalize
<1>9. CASE FinishCancel
  BY <1>1, <1>9 DEF FinishCancel, AllJoined
<1>10. CASE JoinCopyThread
  <2>1. copyThread \in Thread /\ processThread = None
    BY <1>10 DEF JoinCopyThread, TypeOK, HandleInv, CopyHandle
  <2>2. QED
    BY <1>2, <1>10, <2>1 DEF JoinCopyThread, Join
<1>11. CASE JoinProcessThread
  <2>1. processThread \in Thread /\ copyThread = None
    BY <1>11 DEF JoinProcessThread, TypeOK, HandleInv, CopyHandle
  <2>2. \A u \in Thread : pc'[u] = "free"
    BY <1>11, <2>1, ChunkAssumption DEF JoinProcessThread, Join, TypeOK, HandleInv
  <2>3. QED
    BY <2>2, JobIdle
<1>12. CASE \/ CancelUpdate \/ EnterProcess \/ NoCopyJoin \/ NoProcessJoin \/ LeaveProcess
            \/ RemoveManifest \/ RemoveJournal \/ Sync
  BY <1>12, JobFrame DEF CancelUpdate, EnterProcess, NoCopyJoin, NoProcessJoin, LeaveProcess,
                         RemoveManifest, RemoveJournal, Sync
<1>13. QED
  BY <1>4, <1>5, <1>6, <1>7, <1>8, <1>9, <1>10, <1>11, <1>12 DEF MainStep

LEMMA JobWorker ==
  ASSUME TypeOK, HandleInv, JobStable, NEW t \in Thread, WorkerStep(t)
  PROVE  JobStable'
<1> USE ChunkAssumption DEF mainVars, flagVars, jobVars, handleVars, diskVars, altVars
<1>1. pc[t] \in CopyPc => \A u \in Thread : pc[u] \notin {"write", "record"}
  BY DEF HandleInv, CopyHandle, ProcessHandle, CopyPc, ChunkPc
<1>2. pc[t] \in ChunkPc => t = processThread /\ processingChunk
                         /\ \A u \in Thread \ {t} : pc[u] \notin {"write", "record"}
  BY DEF HandleInv, CopyHandle, ProcessHandle, CopyPc, ChunkPc
<1>3. CASE CopyBootInfo(t) \/ SetAlternateInvalid(t) \/ CopyRoot(t) \/ CopySystem(t)
           \/ ClearCache(t) \/ InitSuccess(t) \/ EndCopyThread(t)
  <2>1. PICK next \in CopyPc \union {"exited"} : pc[t] \in CopyPc /\ Goto(t, next)
    BY <1>3 DEF CopyBootInfo, SetAlternateInvalid, CopyRoot, CopySystem, ClearCache, InitSuccess,
                EndCopyThread, CopyPartition, CopyPc
  <2>2. \A u \in Thread : pc'[u] \notin {"write", "record"}
    BY <1>1, <2>1 DEF Goto, TypeOK, CopyPc
  <2>3. QED
    BY <2>2, JobIdle
<1>4. CASE FindJob(t)
  <2>1. pc[t] \in ChunkPc
    BY <1>4 DEF FindJob, ChunkPc
  <2>2. CASE JobEntry = 0
    <3>1. \A u \in Thread : pc'[u] \notin {"write", "record"}
      BY <1>2, <1>4, <2>1, <2>2 DEF FindJob, Goto, TypeOK
    <3>2. QED
      BY <3>1, JobIdle
  <2>3. CASE JobEntry # 0
    <3>1. local'[t] = [index |-> JobEntry, ident |-> whichChunk, ok |-> FALSE]
      BY <1>4, <2>3 DEF FindJob, TypeOK
    <3>2. JobEntry \in DOMAIN chunks /\ chunks[JobEntry].ident = whichChunk
      BY <2>3, JobEntryType
    <3>3. UNCHANGED <<chunks, whichChunk, processingChunk>>
      BY <1>4 DEF FindJob
    <3>4. \A u \in Thread \ {t} : pc'[u] \notin {"write", "record"}
      BY <1>2, <1>4, <2>1, <2>3 DEF FindJob, Goto, TypeOK
    <3>5. QED
      BY <1>2, <2>1, <3>1, <3>2, <3>3, <3>4 DEF JobStable
  <2>4. QED
    BY <2>2, <2>3
<1>5. CASE WriteChunk(t)
  <2>1. pc[t] = "write" /\ UNCHANGED <<chunks, whichChunk, processingChunk>>
    BY <1>5 DEF WriteChunk
  <2>2. \A u \in Thread : local'[u].index = local[u].index /\ local'[u].ident = local[u].ident
    BY <1>5 DEF WriteChunk, TypeOK
  <2>3. \A u \in Thread : pc'[u] \in {"write", "record"} => pc[u] \in {"write", "record"}
    BY <1>5, <2>1 DEF WriteChunk, Goto, TypeOK
  <2>4. QED
    BY <2>1, <2>2, <2>3 DEF JobStable
<1>6. CASE RecordChunk(t) \/ EndProcessThread(t)
  <2>1. pc[t] \in ChunkPc
    BY <1>6 DEF RecordChunk, EndProcessThread, ChunkPc
  <2>2. \A u \in Thread : pc'[u] \notin {"write", "record"}
    BY <1>2, <1>6, <2>1 DEF RecordChunk, EndProcessThread, Goto, TypeOK
  <2>3. QED
    BY <2>2, JobIdle
<1>7. QED
  BY <1>3, <1>4, <1>5, <1>6 DEF WorkerStep

\* A client that waits cannot pull the job from under the thread that works on it: its
\* iterator stays good and whichChunk is the chunk it was started for.
THEOREM JobNeverSwapped ==
  ASSUME "pipeline" \notin Habits
  PROVE  Spec => []JobStable
<1>1. Init => HandleInv /\ JobStable
  BY DEF Init, HandleInv, CopyHandle, ProcessHandle, Cleaning, JobStable
<1>2. TypeOK /\ HandleInv /\ JobStable /\ [Next]_vars => (HandleInv /\ JobStable)'
  <2> SUFFICES ASSUME TypeOK, HandleInv, JobStable, [Next]_vars PROVE HandleInv' /\ JobStable'
    OBVIOUS
  <2>1. ASSUME Kill \/ PowerLoss PROVE JobStable'
    BY <2>1, JobIdle DEF Kill, PowerLoss, Stop
  <2>2. ASSUME Restart PROVE JobStable'
    <3>1. \A t \in Thread : pc'[t] \notin {"write", "record"}
      BY <2>2, NoWriter DEF Restart, HandleInv, workerVars
    <3>2. QED
      BY <3>1, JobIdle
  <2>3. ASSUME UNCHANGED vars PROVE JobStable'
    BY <2>3, JobFrame DEF vars, workerVars, jobVars
  <2>4. QED
    BY <2>1, <2>2, <2>3, HandleStep, JobMain, JobWorker DEF Next
<1>3. QED
  BY <1>1, <1>2, TypeCorrect, PTL DEF Spec
-----------------------------------------------------------------------------
(* The validity of the alternate container *)

LEMMA BootMain ==
  ASSUME TypeOK, HandleInv, BootInv, "pipeline" \notin Habits, "bootwrite" \notin Faults, MainStep
  PROVE  BootInv'
<1> USE DEF flagVars, jobVars, handleVars, workerVars, diskVars, altVars
<1>1. ASSUME NEW cs, NEW noCopy, NEW started, PrepareForUpdate(cs, noCopy, started) PROVE BootInv'
  BY <1>1 DEF PrepareForUpdate, SetValidity, BootInv
<1>2. CASE ContinueUpdate \/ \E m \in Manifests : BeginUpdate(m)
  BY <1>1, <1>2 DEF ContinueUpdate, BeginUpdate
<1>3. ASSUME NEW i \in Ident,
             \/ ProcessChunkPayload(i) \/ ProcessChunkLocation(i)
             \/ \E path \in Ident \union {None} : ProcessChunk(i, path)
      PROVE  BootInv'
  <2>1. ProcessAccepted(i) /\ UNCHANGED altValid
    BY <1>3 DEF ProcessChunkPayload, ProcessChunkLocation, ProcessChunk
  <2>2. ~altValid
    BY <2>1, AcceptedAlone DEF BootInv
  <2>3. QED
    BY <2>1, <2>2 DEF BootInv
<1>4. CASE Finalize
  <2>1. copyThread = None /\ processThread = None
    BY <1>4 DEF Finalize, HandleInv, CopyHandle, ProcessHandle
  <2>2. \A t \in Thread : pc'[t] = "free"
    BY <1>4, <2>1, ChunkAssumption DEF Finalize, HandleInv
  <2>3. QED
    BY <1>4, <2>2 DEF Finalize, BootInv
<1>5. CASE JoinCopyThread \/ JoinProcessThread
  <2>1. \E t \in Thread : pc[t] = "exited"
    BY <1>5 DEF JoinCopyThread, JoinProcessThread, Join, TypeOK
  <2>2. ~altValid /\ UNCHANGED altValid
    BY <1>5, <2>1 DEF JoinCopyThread, JoinProcessThread, BootInv
  <2>3. QED
    BY <2>2 DEF BootInv
<1>6. CASE \/ CancelUpdate \/ EnterProcess \/ NoCopyJoin \/ NoProcessJoin \/ FinishCancel \/ LeaveProcess
           \/ RemoveManifest \/ RemoveJournal \/ Sync
  BY <1>6 DEF CancelUpdate, EnterProcess, NoCopyJoin, NoProcessJoin, FinishCancel, LeaveProcess,
              RemoveManifest, RemoveJournal, Sync, BootInv
<1>7. QED
  BY <1>2, <1>3, <1>4, <1>5, <1>6 DEF MainStep

LEMMA BootWorker ==
  ASSUME TypeOK, HasJob, HandleInv, BootInv, NEW t \in Thread, WorkerStep(t), "bootwrite" \notin Faults,
         \A i \in Ident : Whole(i) => Dest[i] # "BootInfo"
  PROVE  BootInv'
<1> USE DEF mainVars, flagVars, jobVars, handleVars, diskVars, altVars
<1>1. ASSUME pc[t] \notin {"free", "setValidity"}, UNCHANGED altValid PROVE BootInv'
  BY <1>1 DEF BootInv
<1>2. CASE CopyBootInfo(t)
  <2>1. pc[t] = "copyBI" /\ t = copyThread
    BY <1>2, ChunkAssumption DEF CopyBootInfo, HandleInv, ProcessHandle, ChunkPc
  <2>2. CASE "BootInfo" \in copyFlags
    <3>1. pc' = [pc EXCEPT ![t] = "setValidity"]
      BY <1>2, <2>2 DEF CopyBootInfo, CopyPartition, Goto
    <3>2. \A u \in Thread : pc'[u] \in {"free", "setValidity"}
      BY <2>1, <3>1, ChunkAssumption DEF HandleInv, CopyHandle, TypeOK
    <3>3. state' # "InitDone"
      BY <1>2, <2>1, ChunkAssumption DEF CopyBootInfo, CopyPartition, HandleInv, CopyHandle
    <3>4. QED
      BY <3>2, <3>3 DEF BootInv
  <2>3. CASE "BootInfo" \notin copyFlags
    BY <1>1, <1>2, <2>1, <2>3 DEF CopyBootInfo, CopyPartition
  <2>4. QED
    BY <2>2, <2>3
<1>3. CASE SetAlternateInvalid(t)
  BY <1>3 DEF SetAlternateInvalid, SetValidity, BootInv
<1>4. CASE WriteChunk(t)
  <2>1. JobIdent(t) \in Ident
    BY <1>4, JobIdentType DEF WriteChunk
  <2>2. pc[t] = "write" /\ UNCHANGED altValid
    BY <1>4, <2>1 DEF WriteChunk
  <2>3. QED
    BY <1>1, <2>2
<1>5. CASE \/ CopyRoot(t) \/ CopySystem(t) \/ ClearCache(t) \/ InitSuccess(t) \/ EndCopyThread(t)
           \/ FindJob(t) \/ RecordChunk(t) \/ EndProcessThread(t)
  BY <1>1, <1>5 DEF CopyRoot, CopySystem, CopyPartition, ClearCache, InitSuccess, EndCopyThread,
                    FindJob, RecordChunk, EndProcessThread
<1>6. QED
  BY <1>2, <1>3, <1>4, <1>5 DEF WorkerStep

\* As long as the flag in BootInfo can be written and no chunk replaces BootInfo, a reset
\* never boots a container that a thread is changing, except between the copy of BootInfo
\* and SetValidity: the client, the other faults and any crash notwithstanding.
THEOREM NeverBootsHalfWritten ==
  ASSUME "pipeline" \notin Habits, "bootwrite" \notin Faults,
         \A i \in Ident : Whole(i) => Dest[i] # "BootInfo"
  PROVE  Spec => []NotBootableWhileWritten
<1> DEFINE Inv == TypeOK /\ HasJob /\ HandleInv /\ BootInv
<1>1. Init => Inv
  BY TypeInit DEF Init, HasJob, HandleInv, CopyHandle, ProcessHandle, Cleaning, BootInv
<1>2. Inv /\ TypeOK' /\ [Next]_vars => Inv'
  <2> SUFFICES ASSUME Inv, TypeOK', [Next]_vars PROVE Inv'
    OBVIOUS
  <2>1. ASSUME Kill \/ PowerLoss PROVE BootInv'
    BY <2>1 DEF Kill, PowerLoss, Stop, BootInv
  <2>2. ASSUME Restart PROVE BootInv'
    <3>1. \A t \in Thread : pc'[t] = "free"
      BY <2>2, ChunkAssumption DEF Restart, HandleInv, workerVars
    <3>2. QED
      BY <2>2, <3>1 DEF Restart, BootInv
  <2>3. ASSUME UNCHANGED vars PROVE BootInv'
    BY <2>3 DEF vars, workerVars, altVars, BootInv
  <2>4. BootInv'
    BY <2>1, <2>2, <2>3, BootMain, BootWorker DEF Next
  <2>5. QED
    BY <2>4, HandleStep, HasJobStep
<1>3. Inv => NotBootableWhileWritten
  BY DEF BootInv, NotBootableWhileWritten, RunningPc, CopyPc, ChunkPc
<1> HIDE DEF Inv
<1>4. QED
  BY <1>1, <1>2, <1>3, TypeCorrect, PTL DEF Spec
=============================================================================
