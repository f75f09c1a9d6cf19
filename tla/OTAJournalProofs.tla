-------------------------- MODULE OTAJournalProofs --------------------------
(***************************************************************************)
(* Theorems about what OTAManager remembers of an update, and for how      *)
(* long: the journal, the chunk list, and the data they speak of, through  *)
(* every crash, power failure and restart.                                 *)
(***************************************************************************)
EXTENDS OTAManagerProofs

\* The journal on disk says that chunk i is applied.
Ok(i) == LastOk(disk.journal, i)

Members(m) == {m[n] : n \in DOMAIN m}

\* No chunk of S takes away the data of another one.
Apart(S) == \A i, j \in S : j \in Overwritten(i) => j = i

\* When the copy thread cannot be started, the chunks stay in the list and the next
\* manifest's are put behind them.
StartFails == "thread" \in Faults \/ Thread = {}

\* - the client waits, and does not send a chunk that succeeded again
\* - the removal of the cached files is not cut short, and a manifest being rewritten is
\*   not lost
\* - the chunks of an update go to different places, none of them the cache partition
\* - where chunks may stay behind in the list: those of two updates do so too, and no manifest
\*   is empty (otherwise BeginUpdate refuses an empty one, since the list is empty)
Resumable ==
  /\ Habits \subseteq {"payload", "location"}
  /\ Faults \intersect {"cleanup", "truncate"} = {}
  /\ \A m \in Manifests : Apart(Members(m))
  /\ StartFails => Apart(Ident) /\ \A m \in Manifests : m # <<>>
  /\ ChunksOn("Cache") = {}

Up == main \in {"loop", "procCopy", "procChunk", "procCancel"}

\* The list and the journal agree, a new update finds none of the last one's successes,
\* and what is in the list goes to different places.
Listed == Up =>
  /\ \A n \in DOMAIN chunks : chunks[n].succeeded => Ok(chunks[n].ident) /\ chunks[n].processed
  /\ \A i \in Ident : Ok(i) => FindChunk(chunks, i) # 0 /\ chunks[FindChunk(chunks, i)].succeeded
  /\ state = "Idle" => \A n \in DOMAIN chunks : ~chunks[n].succeeded
  /\ chunks # <<>> => disk.manifest # <<>>
  /\ Apart(Idents)
  /\ state = "Idle" /\ ~StartFails => chunks = <<>>

\* What a journal says is applied is, and was synced before the journal said so.
Sound == \A i \in Ident :
  /\ Ok(i) => i \in applied /\ i \in synced.applied
  /\ LastOk(synced.journal, i) => i \in synced.applied

\* The medium does not say more than the file.
Behind == main # "sync" => \A i \in Ident : LastOk(synced.journal, i) => Ok(i)

\* A journal that says something belongs to a manifest.
Kept == \A m \in {disk.manifest, synced.manifest} :
  Apart(Members(m)) /\ (m = <<>> /\ ~Cleaning => \A i \in Ident : ~Ok(i))

Cleared == (Cleaning => chunks = <<>>) /\ (main = "sync" => disk.journal = <<>>)

\* A partition that is not synced yet has no chunk that the journal speaks of.
Flushed == \A p \in fresh \ synced.fresh : \A i \in ChunksOn(p) : ~Ok(i)

\* The copy thread copies no partition that has a chunk the journal speaks of.
Copying == copyThread # None => \A p \in copyFlags : \A i \in ChunksOn(p) : ~Ok(i)

\* The process thread works on the entry of a chunk that is not applied yet.
Working == \A t \in Thread :
  /\ pc[t] \in {"find", "write", "record"} => ~Ok(whichChunk)
  /\ pc[t] \in {"write", "record"} => local[t].index = FindChunk(chunks, whichChunk)
  /\ pc[t] = "record" /\ local[t].ok => whichChunk \in applied

Stored == Sound /\ Behind /\ Kept /\ Flushed
Journaled == Listed /\ Stored /\ Cleared /\ Copying /\ Working
Basis == TypeOK /\ HasJob /\ HandleInv /\ JobStable

USE ChunkAssumption
-----------------------------------------------------------------------------
(* Journals and lists *)

\* The outcome of a chunk is that of the line written last.
LEMMA LastOkAppend ==
  ASSUME NEW j \in Seq(JournalLine), NEW l \in JournalLine, NEW i
  PROVE  LastOk(Append(j, l), i) <=> IF l.ident = i THEN l.ok ELSE LastOk(j, i)
<1> DEFINE k == Append(j, l)
<1>1. /\ Len(j) \in Nat /\ DOMAIN j = 1 .. Len(j) /\ DOMAIN k = 1 .. Len(j) + 1
      /\ k[Len(j) + 1] = l /\ \A n \in 1 .. Len(j) : k[n] = j[n]
  OBVIOUS
<1> HIDE DEF k
<1>2. Lines(j, i) \subseteq 1 .. Len(j)
  BY <1>1 DEF Lines
<1>3. CASE l.ident = i
  <2>1. Lines(k, i) = Lines(j, i) \union {Len(j) + 1}
    BY <1>1, <1>3 DEF Lines
  <2>2. ASSUME NEW n \in Lines(j, i) PROVE ~(Len(j) + 1 <= n)
    BY <1>1, <1>2
  <2>3. \A n \in Lines(k, i) : n <= Len(j) + 1
    BY <1>1, <1>2, <2>1
  <2>4. LastOk(k, i) <=> l.ok
    BY <1>1, <2>1, <2>2, <2>3 DEF LastOk
  <2> QED
    BY <1>3, <2>4 DEF k
<1>4. CASE l.ident # i
  <2>1. Lines(k, i) = Lines(j, i)
    BY <1>1, <1>4 DEF Lines
  <2>2. LastOk(k, i) <=> LastOk(j, i)
    BY <1>1, <1>2, <2>1 DEF LastOk
  <2> QED
    BY <1>4, <2>2 DEF k
<1> QED
  BY <1>3, <1>4

LEMMA LastOkEmpty == ASSUME NEW i PROVE ~LastOk(<<>>, i)
  BY DEF LastOk, Lines

LEMMA IdentsIn == ASSUME NEW cs \in Seq(ChunkInfo) PROVE \A n \in DOMAIN cs : cs[n].ident \in Ident
<1>1. \A n \in DOMAIN cs : cs[n] \in ChunkInfo
  OBVIOUS
<1> QED
  BY <1>1 DEF ChunkInfo

\* find_if looks at nothing but the idents.
LEMMA FindSame ==
  ASSUME NEW cs, NEW ds, DOMAIN cs = DOMAIN ds, \A n \in DOMAIN cs : cs[n].ident = ds[n].ident
  PROVE  \A i : FindChunk(cs, i) = FindChunk(ds, i)
<1> SUFFICES ASSUME NEW i PROVE FindChunk(cs, i) = FindChunk(ds, i)
  OBVIOUS
<1>1. Entries(cs, i) = Entries(ds, i)
  BY DEF Entries
<1> DEFINE First(E) == IF E = {} THEN 0 ELSE CHOOSE n \in E : \A k \in E : n <= k
<1>2. FindChunk(cs, i) = First(Entries(cs, i)) /\ FindChunk(ds, i) = First(Entries(ds, i))
  BY DEF FindChunk
<1> HIDE DEF First
<1> QED
  BY <1>1, <1>2

\* Where the threads are: one at most, and none while files are removed or all is down.
LEMMA Alone ==
  ASSUME TypeOK, HandleInv
  PROVE  /\ copyThread = None /\ processThread = None => \A t \in Thread : pc[t] = "free"
         /\ \A t \in Thread : pc[t] \in CopyPc =>
              Up /\ copyThread = t /\ \A u \in Thread \ {t} : pc[u] = "free"
         /\ \A t \in Thread : pc[t] \in ChunkPc =>
              Up /\ copyThread = None /\ processThread = t /\ \A u \in Thread \ {t} : pc[u] = "free"
         /\ ~Up => copyThread = None /\ processThread = None
         /\ ~Up <=> Cleaning \/ main = "down"
<1>1. ~Up <=> Cleaning \/ main = "down"
  BY DEF TypeOK, MainPc, Up, Cleaning
<1>2. ~Up => copyThread = None /\ processThread = None
  BY <1>1 DEF HandleInv
<1>3. \A t \in Thread : pc[t] \in CopyPc => copyThread = t /\ processThread = None
  BY DEF HandleInv, CopyHandle, ProcessHandle, CopyPc, ChunkPc
<1>4. \A t \in Thread : pc[t] \in ChunkPc => copyThread = None /\ processThread = t
  BY DEF HandleInv, CopyHandle, ProcessHandle, CopyPc, ChunkPc
<1>5. \A t \in Thread : pc[t] # "free" => t = copyThread \/ t = processThread
  BY DEF HandleInv
<1> QED
  BY <1>1, <1>2, <1>3, <1>4, <1>5
-----------------------------------------------------------------------------
(* What a step leaves alone *)

LEMMA StoredFrame ==
  ASSUME Stored, Up, Up', UNCHANGED <<disk, synced, fresh, applied>>
  PROVE  Stored'
<1>1. Sound' /\ Flushed'
  BY DEF Stored, Sound, Flushed, Ok
<1>2. Behind' /\ Kept'
  BY DEF Stored, Behind, Kept, Ok, Up, Cleaning
<1> QED
  BY <1>1, <1>2 DEF Stored

LEMMA ListedFrame ==
  ASSUME Listed, Up, UNCHANGED <<chunks, disk>>, state' = "Idle" => state = "Idle"
  PROVE  Listed'
BY DEF Listed, Ok, Idents

LEMMA ClearedUp == ASSUME Up' PROVE Cleared'
  BY DEF Cleared, Up, Cleaning

LEMMA CopyingFrame ==
  ASSUME Copying, UNCHANGED <<disk, copyFlags>>, copyThread' \in {copyThread, None}
  PROVE  Copying'
BY DEF Copying, Ok

LEMMA CopyingNone == ASSUME copyThread' = None PROVE Copying'
  BY DEF Copying

LEMMA WorkingNone ==
  ASSUME \A t \in Thread : pc'[t] \notin {"find", "write", "record"}
  PROVE  Working'
BY DEF Working

LEMMA WorkingFrame ==
  ASSUME Working, UNCHANGED <<disk, chunks, whichChunk, local, pc, applied>>
  PROVE  Working'
BY DEF Working, Ok

\* Steps of Process() and a cancel change neither the list nor anything stored.
LEMMA JournalFrame ==
  ASSUME Journaled, Up, Up', state' = "Idle" => state = "Idle",
         UNCHANGED <<chunks, disk, synced, fresh, applied, copyFlags, copyThread, whichChunk, local, pc>>
  PROVE  Journaled'
BY StoredFrame, ListedFrame, ClearedUp, CopyingFrame, WorkingFrame DEF Journaled

LEMMA ResumableMeans ==
  ASSUME Resumable
  PROVE  /\ "pipeline" \notin Habits /\ "redo" \notin Habits
         /\ "cleanup" \notin Faults /\ "truncate" \notin Faults
         /\ ChunksOn("Cache") = {}
BY DEF Resumable
-----------------------------------------------------------------------------
(* Messages *)

\* A server that is idle has no success in its list, so none in a journal either.
LEMMA IdleQuiet ==
  ASSUME Basis, Journaled, main = "loop", state = "Idle", NEW i \in Ident
  PROVE  ~Ok(i) /\ ~LastOk(synced.journal, i)
<1>1. \A n \in DOMAIN chunks : ~chunks[n].succeeded
  BY DEF Journaled, Listed, Up
<1>2. ASSUME Ok(i) PROVE FALSE
  <2>1. FindChunk(chunks, i) # 0 /\ chunks[FindChunk(chunks, i)].succeeded
    BY <1>2 DEF Journaled, Listed, Up
  <2>2. FindChunk(chunks, i) \in DOMAIN chunks
    BY <2>1, FindChunkFinds DEF Basis, TypeOK
  <2> QED
    BY <1>1, <2>1, <2>2
<1> QED
  BY <1>2 DEF Journaled, Stored, Behind

\* BeginUpdate refuses a manifest that leaves the list empty.
LEMMA BeginsSomething ==
  ASSUME NEW m \in Seq(Ident), BeginUpdate(m), chunks = <<>> \/ m # <<>>
  PROVE  m # <<>>
<1>1. SUFFICES ASSUME chunks = <<>>, m = <<>> PROVE FALSE
  OBVIOUS
<1> DEFINE new == NewChunks(m)
<1>2. new \in Seq(ChunkInfo) /\ chunks \o new # <<>>
  BY NewChunksType DEF BeginUpdate
<1>3. DOMAIN new = DOMAIN m
  BY DEF NewChunks
<1> HIDE DEF new
<1>4. new = <<>>
  BY <1>1, <1>2, <1>3
<1> QED
  BY <1>1, <1>2, <1>4

LEMMA JournalBegin ==
  ASSUME Basis, Journaled, Resumable, NEW m \in Manifests, BeginUpdate(m)
  PROVE  Journaled'
<1> DEFINE cs == chunks \o NewChunks(m)
<1>1. /\ main = "loop" /\ state = "Idle" /\ Up /\ Up' /\ chunks' = cs /\ cs # <<>>
      /\ disk'.manifest = m /\ disk'.journal = disk.journal
      /\ synced'.manifest = synced.manifest /\ synced'.journal = synced.journal
      /\ synced'.fresh = {} /\ synced'.applied = {} /\ fresh' = {} /\ applied' = {}
      /\ UNCHANGED main
  BY DEF BeginUpdate, Up, Basis, TypeOK, CacheDir, Medium
<1>2. m \in Seq(Ident) /\ m # <<>> /\ Apart(Members(m))
  BY <1>1, BeginsSomething DEF Resumable, Journaled, Listed, Basis, TypeOK
<1>3. \A i \in Ident : ~Ok(i)' /\ ~LastOk(synced'.journal, i)
  BY <1>1, IdleQuiet DEF Ok
<1>4. \A t \in Thread : pc[t] = "free"
  <2>1. copyThread = None /\ processThread = None
    BY <1>1 DEF Basis, HandleInv, CopyHandle, ProcessHandle
  <2> QED
    BY <2>1, Alone DEF Basis
<1>5. /\ cs \in Seq(ChunkInfo) /\ chunks \in Seq(ChunkInfo) /\ NewChunks(m) \in Seq(ChunkInfo)
      /\ \A n \in DOMAIN cs : cs[n] \in {chunks[k] : k \in DOMAIN chunks}
                                        \union {NewChunks(m)[k] : k \in DOMAIN NewChunks(m)}
  <2>1. chunks \in Seq(ChunkInfo) /\ NewChunks(m) \in Seq(ChunkInfo)
    BY <1>2, NewChunksType DEF Basis, TypeOK
  <2> DEFINE new == NewChunks(m)
  <2> HIDE DEF new
  <2>2. \A n \in DOMAIN (chunks \o new) : (chunks \o new)[n] \in {chunks[k] : k \in DOMAIN chunks}
                                                                 \union {new[k] : k \in DOMAIN new}
    <3>1. chunks \in Seq(ChunkInfo) /\ new \in Seq(ChunkInfo)
      BY <2>1 DEF new
    <3> QED
      BY <3>1
  <2> QED
    BY <2>1, <2>2, ConcatProperties DEF new
<1>6. \A k \in DOMAIN NewChunks(m) : NewChunks(m)[k].ident \in Members(m) /\ ~NewChunks(m)[k].succeeded
  BY <1>2 DEF NewChunks, Members
<1> HIDE DEF cs
<1>7. \A n \in DOMAIN cs : ~cs[n].succeeded
  BY <1>1, <1>5, <1>6 DEF Journaled, Listed
<1>8. Apart(Idents)' /\ (state' = "Idle" => StartFails)
  <2>1. CASE StartFails
    <3>1. Idents' \subseteq Ident
      BY <1>1, <1>5, IdentsIn DEF Idents
    <3> QED
      BY <2>1, <3>1 DEF Resumable, Apart
  <2>2. CASE ~StartFails
    <3>1. chunks = <<>>
      BY <1>1, <2>2 DEF Journaled, Listed
    <3>2. Idents' \subseteq Members(m)
      BY <1>1, <1>5, <1>6, <3>1 DEF Idents
    <3>3. state' # "Idle"
      BY <1>4, <2>2 DEF BeginUpdate, PrepareForUpdate, SpawnMayFail, FreeThreads, StartFails
    <3> QED
      BY <1>2, <3>2, <3>3 DEF Apart
  <2> QED
    BY <2>1, <2>2
<1>9. Listed'
  BY <1>1, <1>2, <1>3, <1>5, <1>7, <1>8 DEF Listed, Ok
<1>10. Stored'
  <2>1. Sound' /\ Flushed' /\ Behind'
    BY <1>1, <1>3 DEF Sound, Flushed, Behind
  <2>2. Kept'
    BY <1>1, <1>2, <1>3 DEF Kept, Journaled, Stored
  <2> QED
    BY <2>1, <2>2 DEF Stored
<1>11. Copying'
  BY <1>3 DEF Copying, ChunksOn
<1>12. Working'
  <2>1. \A t \in Thread : pc'[t] \in {"free", "copyBI"}
    BY <1>4 DEF BeginUpdate, PrepareForUpdate, Spawn, Basis, TypeOK
  <2> QED
    BY <2>1, WorkingNone
<1> QED
  BY <1>1, <1>9, <1>10, <1>11, <1>12, ClearedUp DEF Journaled

LEMMA JournalContinue ==
  ASSUME Basis, Journaled, Resumable, ContinueUpdate
  PROVE  Journaled'
<1> DEFINE noCopy == \E n \in DOMAIN chunks : chunks[n].processed
<1>1. /\ main = "loop" /\ Up /\ Up' /\ state = "UpdateAvailable"
      /\ UNCHANGED <<state, chunks, disk, synced, fresh, applied, main>>
      /\ \E started \in BOOLEAN : PrepareForUpdate(chunks, noCopy, started)
  BY DEF ContinueUpdate, Up, diskVars
<1>2. \A t \in Thread : pc[t] = "free"
  <2>1. copyThread = None /\ processThread = None
    BY <1>1, ResumableMeans DEF ContinueUpdate, Basis, HandleInv, ProcessHandle
  <2> QED
    BY <2>1, Alone DEF Basis
<1>3. copyFlags' = CopyFlags(chunks, noCopy)
  BY <1>1 DEF PrepareForUpdate
<1>4. ASSUME NEW p \in copyFlags', NEW i \in ChunksOn(p) PROVE ~Ok(i)
  <2>1. SUFFICES ASSUME Ok(i) PROVE FALSE
    OBVIOUS
  <2>2. i \in Ident /\ Dest[i] = p
    BY DEF ChunksOn
  <2>3. PICK n \in DOMAIN chunks : chunks[n].ident = i /\ chunks[n].succeeded
    BY <1>1, <2>1, <2>2, FindChunkFinds DEF Journaled, Listed, Basis, TypeOK
  <2>4. noCopy
    BY <1>1, <2>3 DEF Journaled, Listed
  <2>5. p # "Cache"
    BY ResumableMeans
  <2>6. p \in DualPartition \ {"Cache"}
    BY <1>3, <2>5 DEF CopyFlags
  <2> HIDE DEF noCopy
  <2>7. p \notin copyFlags'
    BY <1>3, <2>2, <2>3, <2>4, <2>6 DEF CopyFlags, DualPartition
  <2> QED
    BY <2>7
<1> HIDE DEF noCopy
<1>5. Copying'
  BY <1>1, <1>4 DEF Copying, Ok
<1>6. Working'
  <2>1. \A t \in Thread : pc'[t] \in {"free", "copyBI"}
    BY <1>1, <1>2 DEF PrepareForUpdate, Spawn, Basis, TypeOK
  <2> QED
    BY <2>1, WorkingNone
<1> QED
  BY <1>1, <1>5, <1>6, StoredFrame, ListedFrame, ClearedUp DEF Journaled

\* A chunk is accepted when no thread works and the journal has no success of it.
LEMMA AcceptedNew ==
  ASSUME Basis, Journaled, Resumable, NEW i \in Ident, ProcessAccepted(i)
  PROVE  /\ \A t \in Thread : pc[t] = "free"
         /\ copyThread = None /\ Up /\ main = "loop" /\ state = "InitDone"
         /\ ~Ok(i)
         /\ FindChunk(chunks, i) \in DOMAIN chunks
         /\ chunks[FindChunk(chunks, i)].ident = i /\ ~chunks[FindChunk(chunks, i)].succeeded
<1>1. copyThread = None /\ processThread = None /\ main = "loop" /\ state = "InitDone"
  BY ResumableMeans, AcceptedAlone DEF Basis
<1>2. i \in Idents /\ ~chunks[FindChunk(chunks, i)].succeeded
  BY ResumableMeans DEF ProcessAccepted
<1>3. FindChunk(chunks, i) \in DOMAIN chunks /\ chunks[FindChunk(chunks, i)].ident = i
  BY <1>2, FindChunkFinds DEF Idents, Entries, Basis, TypeOK
<1>4. ~Ok(i)
  BY <1>1, <1>2 DEF Journaled, Listed, Up
<1> QED
  BY <1>1, <1>2, <1>3, <1>4, Alone DEF Basis, Up

LEMMA JournalChunk ==
  ASSUME Basis, Journaled, Resumable, NEW i \in Ident, NEW path, ProcessChunk(i, path)
  PROVE  Journaled'
<1>1. ProcessAccepted(i)
  BY DEF ProcessChunk
<1>2. /\ UNCHANGED <<state, chunks, disk, synced, fresh, applied, copyFlags, copyThread, main>>
      /\ Up /\ Up' /\ whichChunk' = i
  BY <1>1, AcceptedNew DEF ProcessChunk, diskVars, altVars, flagVars, Up
<1>3. \A t \in Thread : pc'[t] \in {"free", "find"}
  BY <1>1, AcceptedNew DEF ProcessChunk, Spawn, Basis, TypeOK
<1>4. Working'
  BY <1>1, <1>2, <1>3, AcceptedNew DEF Working, Ok
<1> QED
  BY <1>2, <1>4, StoredFrame, ListedFrame, ClearedUp, CopyingFrame DEF Journaled

LEMMA JournalPayload ==
  ASSUME Basis, Journaled, Resumable, NEW i \in Ident, ProcessChunkPayload(i)
  PROVE  Journaled'
<1> DEFINE f == FindChunk(chunks, i)
<1>1. ProcessAccepted(i)
  BY DEF ProcessChunkPayload
<1>2. /\ UNCHANGED <<state, disk, synced, fresh, applied, copyFlags, copyThread, main, pc>>
      /\ Up /\ Up'
      /\ chunks' = [chunks EXCEPT ![f].processed = TRUE, ![f].succeeded = FALSE]
  BY <1>1, AcceptedNew DEF ProcessChunkPayload, diskVars, altVars, flagVars, handleVars, workerVars, Up
<1>3. f \in DOMAIN chunks /\ ~chunks[f].succeeded /\ \A n \in DOMAIN chunks : chunks[n] \in ChunkInfo
  BY <1>1, AcceptedNew, ChunkType DEF Basis
<1>4. /\ DOMAIN chunks' = DOMAIN chunks
      /\ \A n \in DOMAIN chunks : chunks'[n].ident = chunks[n].ident
      /\ \A n \in DOMAIN chunks : chunks'[n].succeeded = chunks[n].succeeded
      /\ \A n \in DOMAIN chunks : chunks[n].processed => chunks'[n].processed
  BY <1>2, <1>3 DEF ChunkInfo
<1> HIDE DEF f
<1>5. \A j : FindChunk(chunks', j) = FindChunk(chunks, j)
  BY <1>4, FindSame
<1>6. Idents' = Idents
  BY <1>4 DEF Idents
<1>7. Listed'
  <2>1. \A j \in Ident : FindChunk(chunks, j) # 0 => FindChunk(chunks, j) \in DOMAIN chunks
    BY FindChunkFinds DEF Basis, TypeOK
  <2>2. chunks # <<>>
    BY <1>3
  <2>3. state' # "Idle"
    BY <1>1, <1>2, AcceptedNew
  <2> QED
    BY <1>2, <1>4, <1>5, <1>6, <2>1, <2>2, <2>3 DEF Journaled, Listed, Ok
<1>8. Working'
  BY <1>1, <1>2, AcceptedNew, WorkingNone
<1> QED
  BY <1>2, <1>7, <1>8, StoredFrame, ClearedUp, CopyingFrame DEF Journaled

LEMMA JournalLocation ==
  ASSUME Basis, Journaled, Resumable, NEW i \in Ident, ProcessChunkLocation(i)
  PROVE  Journaled'
<1>1. ProcessAccepted(i)
  BY DEF ProcessChunkLocation
<1>2. /\ UNCHANGED <<state, chunks, disk, synced, fresh, applied, copyFlags, copyThread, main, pc>>
      /\ Up /\ Up'
  BY <1>1, AcceptedNew DEF ProcessChunkLocation, diskVars, altVars, flagVars, handleVars, workerVars, Up
<1>3. Working'
  BY <1>1, <1>2, AcceptedNew, WorkingNone
<1> QED
  BY <1>2, <1>3, StoredFrame, ListedFrame, ClearedUp, CopyingFrame DEF Journaled
-----------------------------------------------------------------------------
(* Process(), and the removal of the cached files *)

LEMMA JournalJoin ==
  ASSUME Basis, Journaled, JoinCopyThread \/ JoinProcessThread
  PROVE  Journaled'
<1>1. /\ Up /\ Up' /\ UNCHANGED <<chunks, disk, synced, fresh, applied, copyFlags, local>>
      /\ copyThread' \in {copyThread, None} /\ (state' = "Idle" => state = "Idle")
  BY DEF JoinCopyThread, JoinProcessThread, Join, Up, AfterCopy, AfterChunk, diskVars, altVars, flagVars
<1>2. \A t \in Thread : pc'[t] \notin {"find", "write", "record"}
  <2>1. PICK t \in Thread : pc[t] = "exited" /\ pc' = [pc EXCEPT ![t] = "free"]
    BY DEF JoinCopyThread, JoinProcessThread, Join, Basis, TypeOK
  <2>2. \A u \in Thread : pc[u] \notin ChunkPc
    BY <2>1, Alone DEF Basis, ChunkPc
  <2> QED
    BY <2>1, <2>2 DEF ChunkPc, Basis, TypeOK
<1> QED
  BY <1>1, <1>2, StoredFrame, ListedFrame, ClearedUp, CopyingFrame, WorkingNone DEF Journaled

\* Finalize and the end of a cancel forget the list.
LEMMA JournalForget ==
  ASSUME Basis, Journaled, Finalize \/ FinishCancel
  PROVE  Journaled'
<1>1. copyThread = None /\ processThread = None
  BY DEF Finalize, FinishCancel, AllJoined, Basis, HandleInv, CopyHandle, ProcessHandle
<1>2. /\ Up /\ main' = "rmManifest" /\ chunks' = <<>>
      /\ UNCHANGED <<disk, synced, fresh, applied, copyThread, pc>>
  BY DEF Finalize, FinishCancel, Up, diskVars, altVars, handleVars, workerVars
<1>3. Stored'
  BY <1>2 DEF Journaled, Stored, Sound, Behind, Kept, Flushed, Ok, Up, Cleaning
<1>4. Listed' /\ Cleared'
  BY <1>2 DEF Listed, Cleared, Up
<1>5. Copying' /\ Working'
  BY <1>1, <1>2, Alone, CopyingNone, WorkingNone DEF Basis
<1> QED
  BY <1>3, <1>4, <1>5 DEF Journaled

LEMMA JournalCleanup ==
  ASSUME Basis, Journaled, RemoveManifest \/ RemoveJournal \/ Sync
  PROVE  Journaled'
<1>1. Cleaning /\ ~Up /\ chunks = <<>> /\ copyThread = None /\ processThread = None
  BY DEF RemoveManifest, RemoveJournal, Sync, Cleaning, Up, Journaled, Cleared, Basis, HandleInv
<1>2. UNCHANGED <<chunks, fresh, applied, copyThread, pc>>
  BY DEF RemoveManifest, RemoveJournal, Sync, altVars, handleVars, workerVars
<1>3. Copying' /\ Working'
  BY <1>1, <1>2, Alone, CopyingNone, WorkingNone DEF Basis
<1>4. Apart(Members(<<>>))
  BY DEF Apart, Members
<1>5. CASE RemoveManifest
  <2>1. /\ main' = "rmJournal" /\ UNCHANGED synced
        /\ disk'.manifest = <<>> /\ disk'.journal = disk.journal /\ main = "rmManifest"
    BY <1>5 DEF RemoveManifest, Basis, TypeOK, CacheDir
  <2>2. Stored'
    BY <1>2, <1>4, <2>1 DEF Journaled, Stored, Sound, Behind, Kept, Flushed, Ok, Cleaning
  <2>3. Listed' /\ Cleared'
    BY <1>1, <1>2, <2>1 DEF Listed, Cleared, Up
  <2> QED
    BY <1>3, <2>2, <2>3 DEF Journaled
<1>6. CASE RemoveJournal
  <2>1. /\ main' = "sync" /\ UNCHANGED synced
        /\ disk'.manifest = disk.manifest /\ disk'.journal = <<>>
    BY <1>6 DEF RemoveJournal, Basis, TypeOK, CacheDir
  <2>2. \A i : ~Ok(i)'
    BY <2>1, LastOkEmpty DEF Ok
  <2>3. Stored'
    BY <1>2, <2>1, <2>2 DEF Journaled, Stored, Sound, Behind, Kept, Flushed, Cleaning
  <2>4. Listed' /\ Cleared'
    BY <1>1, <1>2, <2>1 DEF Listed, Cleared, Up
  <2> QED
    BY <1>3, <2>3, <2>4 DEF Journaled
<1>7. CASE Sync
  <2>1. /\ main' = "loop" /\ UNCHANGED disk /\ disk.journal = <<>>
        /\ synced'.manifest = disk.manifest /\ synced'.journal = <<>>
        /\ synced'.fresh = fresh /\ synced'.applied = applied
    BY <1>7 DEF Sync, RunSync, Journaled, Cleared
  <2>2. \A i : ~Ok(i)' /\ ~LastOk(synced'.journal, i)
    BY <2>1, LastOkEmpty DEF Ok
  <2>3. Stored'
    BY <1>2, <2>1, <2>2 DEF Journaled, Stored, Sound, Behind, Kept, Flushed
  <2>4. Listed' /\ Cleared'
    BY <1>1, <1>2, <2>1, <2>2 DEF Listed, Cleared, Up, Cleaning, Idents, Apart
  <2> QED
    BY <1>3, <2>3, <2>4 DEF Journaled
<1> QED
  BY <1>5, <1>6, <1>7

LEMMA JournalMain ==
  ASSUME Basis, Journaled, Resumable, MainStep
  PROVE  Journaled'
<1>1. CASE CancelUpdate \/ EnterProcess \/ NoCopyJoin \/ NoProcessJoin \/ LeaveProcess
  <2>1. /\ Up /\ Up' /\ (state' = "Idle" => state = "Idle")
        /\ UNCHANGED <<chunks, disk, synced, fresh, applied, copyFlags, copyThread, whichChunk, local, pc>>
    BY <1>1 DEF CancelUpdate, EnterProcess, NoCopyJoin, NoProcessJoin, LeaveProcess, Up, diskVars, altVars,
                flagVars, handleVars, workerVars, jobVars
  <2> QED
    BY <2>1, JournalFrame
<1> QED
  BY <1>1, JournalBegin, JournalContinue, JournalChunk, JournalPayload, JournalLocation, JournalJoin,
     JournalForget, JournalCleanup DEF MainStep
-----------------------------------------------------------------------------
(* The worker threads *)

\* The copy thread works on partitions that the journal says nothing of.
LEMMA JournalCopy ==
  ASSUME Basis, Journaled, NEW t \in Thread, pc[t] \in CopyPc,
         NEW next \in CopyPc \union {"exited"}, Goto(t, next),
         UNCHANGED <<mainVars, local, disk>>,
         synced'.manifest = synced.manifest, synced'.journal = synced.journal,
         synced'.applied = synced.applied,
         NEW p \in DualPartition, fresh' \subseteq fresh \union {p},
         applied' = applied \/ (applied' = applied \ ChunksOn(p) /\ p \in copyFlags),
         p \in fresh' \ fresh => p \in copyFlags,
         fresh' \ synced'.fresh \subseteq (fresh \ synced.fresh) \union (fresh' \ fresh)
  PROVE  Journaled'
<1>1. Up /\ Up' /\ copyThread # None /\ UNCHANGED <<state, chunks, main, copyFlags, copyThread, whichChunk>>
  BY Alone DEF Basis, mainVars, flagVars, jobVars, Up
<1>2. \A i : Ok(i)' <=> Ok(i)
  BY DEF Ok
<1>3. p \in copyFlags => \A i \in ChunksOn(p) : ~Ok(i)
  BY <1>1 DEF Journaled, Copying
<1>4. Sound'
  <2>1. ASSUME NEW i \in Ident, Ok(i) PROVE i \in applied'
    BY <1>3, <2>1 DEF Journaled, Stored, Sound
  <2> QED
    BY <1>2, <2>1 DEF Journaled, Stored, Sound
<1>5. Flushed'
  BY <1>2, <1>3 DEF Journaled, Stored, Flushed
<1>6. Behind' /\ Kept'
  BY <1>1, <1>2 DEF Journaled, Stored, Behind, Kept, Up, Cleaning
<1>7. Working'
  <2>1. \A u \in Thread : pc'[u] \in CopyPc \union {"exited", "free"}
    BY Alone DEF Goto, Basis, TypeOK
  <2> QED
    BY <2>1, WorkingNone DEF CopyPc
<1> QED
  BY <1>1, <1>4, <1>5, <1>6, <1>7, ListedFrame, ClearedUp, CopyingFrame DEF Journaled, Stored

\* sync brings the medium up to the files.
LEMMA StoredSync ==
  ASSUME Basis, Journaled, Up, RunSync, UNCHANGED <<main, disk, fresh, applied>>,
         chunks # <<>> \/ disk.manifest # <<>> \/ \A i \in Ident : ~Ok(i)
  PROVE  Stored'
<1>1. /\ synced'.manifest = disk.manifest /\ synced'.journal = disk.journal
      /\ synced'.fresh = fresh /\ synced'.applied = applied
  BY DEF RunSync
<1>2. Sound' /\ Flushed' /\ Behind'
  BY <1>1 DEF Journaled, Stored, Sound, Flushed, Behind, Ok
<1>3. Kept'
  BY <1>1 DEF Journaled, Stored, Kept, Ok, Cleaning
<1> QED
  BY <1>2, <1>3 DEF Stored

LEMMA JournalCopyThread ==
  ASSUME Basis, Journaled, Resumable, NEW t \in Thread, pc[t] \in CopyPc, WorkerStep(t)
  PROVE  Journaled'
<1> USE DEF altVars, diskVars
<1>1. ASSUME NEW p \in {"BootInfo", "Root", "System"}, NEW next \in CopyPc, CopyPartition(t, p, next)
      PROVE  Journaled'
  <2>1. /\ Goto(t, next) /\ UNCHANGED <<mainVars, local, disk, synced>>
        /\ fresh' \subseteq fresh \union {p} /\ (p \in fresh' \ fresh => p \in copyFlags)
        /\ applied' = applied \/ (applied' = applied \ ChunksOn(p) /\ p \in copyFlags)
    BY <1>1 DEF CopyPartition
  <2>2. p \in DualPartition
    BY DEF DualPartition
  <2> QED
    BY <2>1, <2>2, JournalCopy
<1>2. CASE CopyBootInfo(t) \/ CopyRoot(t) \/ CopySystem(t)
  BY <1>1, <1>2 DEF CopyBootInfo, CopyRoot, CopySystem, CopyPc
<1>3. CASE SetAlternateInvalid(t)
  <2>1. /\ Goto(t, "copyRoot") /\ UNCHANGED <<mainVars, local, disk, fresh, applied>>
        /\ synced'.manifest = synced.manifest /\ synced'.journal = synced.journal
        /\ synced'.applied = synced.applied
        /\ fresh' \ synced'.fresh \subseteq fresh \ synced.fresh
    BY <1>3 DEF SetAlternateInvalid, Basis, TypeOK, Medium
  <2>2. "BootInfo" \in DualPartition /\ "copyRoot" \in CopyPc
    BY DEF DualPartition, CopyPc
  <2> QED
    BY <2>1, <2>2, JournalCopy
<1>4. CASE ClearCache(t)
  <2>1. /\ Goto(t, "initSuccess") /\ UNCHANGED <<mainVars, local, disk, synced>>
        /\ fresh' \subseteq fresh \union {"Cache"} /\ ("Cache" \in fresh' \ fresh => "Cache" \in copyFlags)
        /\ applied' = applied \/ (applied' = applied \ ChunksOn("Cache") /\ "Cache" \in copyFlags)
    BY <1>4 DEF ClearCache
  <2>2. "Cache" \in DualPartition /\ "initSuccess" \in CopyPc
    BY DEF DualPartition, CopyPc
  <2> QED
    BY <2>1, <2>2, JournalCopy
<1>5. CASE InitSuccess(t)
  <2>1. /\ Up /\ Up' /\ UNCHANGED <<state, chunks, main, copyFlags, copyThread, disk, fresh, applied>> /\ RunSync
    BY <1>5, Alone DEF InitSuccess, mainVars, flagVars, Basis, Up
  <2>2. chunks # <<>> \/ disk.manifest # <<>> \/ \A i \in Ident : ~Ok(i)
    BY <2>1 DEF Journaled, Stored, Kept, Up, Cleaning
  <2>3. \A u \in Thread : pc'[u] \in {"copyFlag", "free"}
    BY <1>5, Alone DEF InitSuccess, Goto, Basis, TypeOK
  <2> QED
    BY <2>1, <2>2, <2>3, StoredSync, ListedFrame, ClearedUp, CopyingFrame, WorkingNone DEF Journaled
<1>6. CASE EndCopyThread(t)
  <2>1. /\ Goto(t, "exited") /\ UNCHANGED <<mainVars, local, disk, synced, fresh, applied>>
    BY <1>6 DEF EndCopyThread
  <2>2. "BootInfo" \in DualPartition
    BY DEF DualPartition
  <2> QED
    BY <2>1, <2>2, JournalCopy
<1>7. CASE FindJob(t) \/ WriteChunk(t) \/ RecordChunk(t) \/ EndProcessThread(t)
  BY <1>7 DEF FindJob, WriteChunk, RecordChunk, EndProcessThread, CopyPc
<1> QED
  BY <1>2, <1>3, <1>4, <1>5, <1>6, <1>7 DEF WorkerStep

LEMMA JournalFind ==
  ASSUME Basis, Journaled, NEW t \in Thread, FindJob(t)
  PROVE  Journaled'
<1>1. pc[t] = "find"
  BY DEF FindJob
<1>2. /\ Up /\ Up' /\ copyThread = None /\ processThread = t /\ \A u \in Thread \ {t} : pc[u] = "free"
      /\ UNCHANGED <<state, chunks, main, copyFlags, copyThread, whichChunk, disk, synced, fresh, applied>>
  BY <1>1, Alone DEF FindJob, Basis, ChunkPc, mainVars, flagVars, jobVars, diskVars, altVars, Up
<1>3. \A u \in Thread \ {t} : pc'[u] = "free"
  BY <1>2 DEF FindJob, Goto, Basis, TypeOK
<1>4. /\ pc'[t] \in {"write", "chunkFlag"}
      /\ pc'[t] = "write" => local'[t].index = FindChunk(chunks, whichChunk)
  BY DEF FindJob, Goto, Basis, TypeOK, JobEntry
<1>5. ~Ok(whichChunk)
  BY <1>1 DEF Journaled, Working
<1>6. Working'
  BY <1>2, <1>3, <1>4, <1>5 DEF Working, Ok
<1> QED
  BY <1>2, <1>6, StoredFrame, ListedFrame, ClearedUp, CopyingFrame DEF Journaled

\* What a writing thread takes away is not of another chunk in the list.
LEMMA JournalWrite ==
  ASSUME Basis, Journaled, NEW t \in Thread, WriteChunk(t)
  PROVE  Journaled'
<1> DEFINE i == JobIdent(t)
<1>1. pc[t] = "write"
  BY DEF WriteChunk
<1>2. /\ Up /\ Up' /\ copyThread = None /\ processThread = t /\ \A u \in Thread \ {t} : pc[u] = "free"
      /\ UNCHANGED <<state, chunks, main, copyFlags, copyThread, whichChunk, disk, synced>>
  BY <1>1, Alone DEF WriteChunk, Basis, ChunkPc, mainVars, flagVars, jobVars, diskVars, Up
<1>3. i = whichChunk /\ i \in Ident /\ i \in Idents
  <2>1. local[t].index \in DOMAIN chunks /\ chunks[local[t].index].ident = whichChunk
    BY <1>1 DEF Basis, JobStable
  <2> QED
    BY <1>1, <2>1, ChunkType DEF JobIdent, Idents, Basis
<1>4. PICK result \in {"done", "torn", "failed"} :
        /\ local' = [local EXCEPT ![t].ok = (result = "done")]
        /\ applied' = CASE result = "done"   -> (applied \ Overwritten(i)) \union {i}
                        [] result = "torn"   -> applied \ Overwritten(i)
                        [] result = "failed" -> applied
        /\ fresh' = IF result = "failed" \/ ~Whole(i) THEN fresh ELSE fresh \ {Dest[i]}
  BY DEF WriteChunk, Outcome
<1>5. /\ \A u \in Thread \ {t} : pc'[u] = "free"
      /\ pc'[t] = "record" /\ local'[t].index = local[t].index
      /\ local'[t].ok => result = "done"
  <2>1. (\A u \in Thread \ {t} : pc'[u] = "free") /\ pc'[t] = "record"
    BY <1>2 DEF WriteChunk, Goto, Basis, TypeOK
  <2>2. local \in [Thread -> [index: Nat, ident: Ident \union {None}, ok: BOOLEAN]]
    BY DEF Basis, TypeOK
  <2>3. local'[t] = [local[t] EXCEPT !.ok = (result = "done")]
    BY <1>4, <2>2
  <2>4. \A b : [local[t] EXCEPT !.ok = b].ok = b /\ [local[t] EXCEPT !.ok = b].index = local[t].index
    BY <2>2
  <2>5. local'[t].ok = (result = "done") /\ local'[t].index = local[t].index
    BY <2>3, <2>4
  <2> QED
    BY <2>1, <2>5
<1> HIDE DEF i
<1>6. ~Ok(i)
  BY <1>1, <1>3 DEF Journaled, Working
<1>7. ASSUME NEW k \in Ident, Ok(k) PROVE k \in applied'
  <2>1. k \in applied /\ k # i
    BY <1>6, <1>7 DEF Journaled, Stored, Sound
  <2>2. k \in Idents
    BY <1>2, <1>7, FindChunkFinds DEF Journaled, Listed, Idents, Basis, TypeOK
  <2>3. k \notin Overwritten(i)
    BY <1>2, <1>3, <2>1, <2>2 DEF Journaled, Listed, Apart
  <2> QED
    BY <1>4, <2>1, <2>3
<1>8. Stored'
  <2>1. Sound'
    BY <1>2, <1>7 DEF Journaled, Stored, Sound, Ok
  <2>2. Flushed'
    BY <1>2, <1>4 DEF Journaled, Stored, Flushed, Ok
  <2>3. Behind' /\ Kept'
    BY <1>2 DEF Journaled, Stored, Behind, Kept, Ok, Cleaning
  <2> QED
    BY <2>1, <2>2, <2>3 DEF Stored
<1>9. Working'
  <2>1. local[t].index = FindChunk(chunks, whichChunk)
    BY <1>1 DEF Journaled, Working
  <2>2. result = "done" => whichChunk \in applied'
    BY <1>3, <1>4
  <2> QED
    BY <1>2, <1>3, <1>5, <1>6, <2>1, <2>2 DEF Working, Ok
<1> QED
  BY <1>2, <1>8, <1>9, ListedFrame, ClearedUp, CopyingFrame DEF Journaled

\* The outcome: sync comes before the line, so the line is true wherever it gets.
LEMMA JournalRecord ==
  ASSUME Basis, Journaled, Resumable, NEW t \in Thread, RecordChunk(t)
  PROVE  Journaled'
<1> DEFINE n == local[t].index
           i == whichChunk
           l == [ident |-> i, ok |-> local[t].ok]
<1>1. pc[t] = "record"
  BY DEF RecordChunk
<1>2. /\ Up /\ Up' /\ copyThread = None /\ processThread = t /\ \A u \in Thread \ {t} : pc[u] = "free"
      /\ UNCHANGED <<state, main, copyFlags, copyThread, whichChunk, fresh, applied, local>>
      /\ state # "Idle"
  BY <1>1, Alone DEF RecordChunk, Basis, ChunkPc, flagVars, jobVars, handleVars, altVars, Up, HandleInv, ProcessHandle
<1>3. /\ n \in DOMAIN chunks /\ chunks[n].ident = i /\ i \in Ident /\ JobIdent(t) = i
      /\ n = FindChunk(chunks, i) /\ ~Ok(i) /\ (local[t].ok => i \in applied)
      /\ local[t].ok \in BOOLEAN
  <2>1. n \in DOMAIN chunks /\ chunks[n].ident = i
    BY <1>1 DEF Basis, JobStable
  <2>2. i \in Ident /\ JobIdent(t) = i
    BY <1>1, <2>1, ChunkType DEF JobIdent, Basis
  <2>3. n = FindChunk(chunks, i) /\ ~Ok(i) /\ (local[t].ok => i \in applied)
    BY <1>1 DEF Journaled, Working
  <2> QED
    BY <2>1, <2>2, <2>3 DEF Basis, TypeOK
<1>4. /\ disk'.manifest = disk.manifest /\ disk'.journal = Append(disk.journal, l)
      /\ synced'.manifest = disk.manifest /\ synced'.journal = disk.journal
      /\ synced'.fresh = fresh /\ synced'.applied = applied
      /\ disk.journal \in Seq(JournalLine) /\ l \in JournalLine
  BY <1>3 DEF RecordChunk, RunSync, Basis, TypeOK, CacheDir, JournalLine
<1>5. \A k : LastOk(disk'.journal, k) <=> IF k = i THEN local[t].ok ELSE Ok(k)
  <2> HIDE DEF l
  <2>1. l.ident = i /\ l.ok = local[t].ok
    BY DEF l
  <2> QED
    BY <1>4, <2>1, LastOkAppend DEF Ok
<1>6. /\ DOMAIN chunks' = DOMAIN chunks
      /\ \A k \in DOMAIN chunks : chunks'[k].ident = chunks[k].ident
      /\ \A k \in DOMAIN chunks \ {n} : chunks'[k] = chunks[k]
      /\ chunks'[n].processed /\ chunks'[n].succeeded = local[t].ok
  <2>1. chunks' = [chunks EXCEPT ![n].processed = TRUE, ![n].succeeded = local[t].ok]
    BY <1>3 DEF RecordChunk
  <2>2. chunks[n] \in ChunkInfo
    BY <1>3, ChunkType DEF Basis
  <2> QED
    BY <1>3, <2>1, <2>2 DEF ChunkInfo
<1> HIDE DEF n, i, l
<1>7. \A k : FindChunk(chunks', k) = FindChunk(chunks, k)
  BY <1>6, FindSame
<1>8. Listed'
  <2>1. Idents' = Idents
    BY <1>6 DEF Idents
  <2>2. chunks # <<>>
    BY <1>3
  <2>3. ASSUME NEW k \in DOMAIN chunks', chunks'[k].succeeded
        PROVE  LastOk(disk'.journal, chunks'[k].ident) /\ chunks'[k].processed
    <3>1. CASE k = n
      BY <1>3, <1>5, <1>6, <2>3, <3>1
    <3>2. CASE k # n
      <4>1. k \in DOMAIN chunks /\ chunks'[k] = chunks[k]
        BY <1>6, <2>3, <3>2
      <4>2. Ok(chunks[k].ident) /\ chunks[k].processed
        BY <1>2, <2>3, <4>1 DEF Journaled, Listed
      <4>3. chunks[k].ident # i
        BY <1>3, <4>2
      <4> QED
        BY <1>5, <4>1, <4>2, <4>3
    <3> QED
      BY <3>1, <3>2
  <2>4. ASSUME NEW k \in Ident, LastOk(disk'.journal, k)
        PROVE  FindChunk(chunks', k) # 0 /\ chunks'[FindChunk(chunks', k)].succeeded
    <3>1. CASE k = i
      <4>1. FindChunk(chunks', k) = n /\ n # 0
        BY <1>3, <1>7, <3>1 DEF Basis, TypeOK
      <4> QED
        BY <1>5, <1>6, <2>4, <3>1, <4>1
    <3>2. CASE k # i
      <4>1. Ok(k)
        BY <1>5, <2>4, <3>2
      <4>2. FindChunk(chunks, k) # 0 /\ chunks[FindChunk(chunks, k)].succeeded
        BY <1>2, <4>1 DEF Journaled, Listed
      <4>3. FindChunk(chunks, k) \in DOMAIN chunks /\ chunks[FindChunk(chunks, k)].ident = k
        BY <4>2, FindChunkFinds DEF Basis, TypeOK
      <4>4. FindChunk(chunks, k) # n
        BY <1>3, <3>2, <4>3
      <4> QED
        BY <1>6, <1>7, <4>2, <4>3, <4>4
    <3> QED
      BY <3>1, <3>2
  <2>5. disk'.manifest # <<>>
    BY <1>2, <1>4, <2>2 DEF Journaled, Listed
  <2> QED
    BY <1>2, <2>1, <2>3, <2>4, <2>5 DEF Journaled, Listed, Apart, Ok
<1>9. Stored'
  <2>1. Sound'
    BY <1>2, <1>3, <1>4, <1>5 DEF Journaled, Stored, Sound, Ok
  <2>2. Behind'
    BY <1>2, <1>3, <1>4, <1>5 DEF Behind, Ok
  <2>3. Flushed'
    BY <1>2, <1>4 DEF Flushed
  <2>4. chunks # <<>> /\ disk.manifest # <<>>
    BY <1>2, <1>3 DEF Journaled, Listed
  <2>5. Kept'
    BY <1>4, <2>4 DEF Journaled, Stored, Kept
  <2> QED
    BY <2>1, <2>2, <2>3, <2>5 DEF Stored
<1>10. Copying' /\ Working'
  <2>1. \A u \in Thread : pc'[u] \in {"chunkFlag", "free"}
    BY <1>2 DEF RecordChunk, Goto, Basis, TypeOK
  <2> QED
    BY <1>2, <2>1, CopyingNone, WorkingNone
<1> QED
  BY <1>2, <1>8, <1>9, <1>10, ClearedUp DEF Journaled

LEMMA JournalWorker ==
  ASSUME Basis, Journaled, Resumable, NEW t \in Thread, WorkerStep(t)
  PROVE  Journaled'
<1>1. CASE pc[t] \in CopyPc
  BY <1>1, JournalCopyThread
<1>2. CASE EndProcessThread(t)
  <2>1. pc[t] \in ChunkPc
    BY <1>2 DEF EndProcessThread, ChunkPc
  <2>2. /\ Up /\ Up' /\ copyThread = None
        /\ UNCHANGED <<state, chunks, main, copyFlags, copyThread, disk, synced, fresh, applied>>
    BY <1>2, <2>1, Alone DEF EndProcessThread, Basis, mainVars, flagVars, diskVars, altVars, Up
  <2>3. \A u \in Thread : pc'[u] \in {"exited", "free"}
    BY <1>2, <2>1, Alone DEF EndProcessThread, Goto, Basis, TypeOK
  <2> QED
    BY <2>2, <2>3, StoredFrame, ListedFrame, ClearedUp, CopyingFrame, WorkingNone DEF Journaled
<1>3. CASE pc[t] \notin CopyPc /\ ~EndProcessThread(t)
  <2>1. FindJob(t) \/ WriteChunk(t) \/ RecordChunk(t)
    BY <1>3 DEF WorkerStep, CopyBootInfo, SetAlternateInvalid, CopyRoot, CopySystem, ClearCache, InitSuccess,
                EndCopyThread, CopyPc
  <2> QED
    BY <2>1, JournalFind, JournalWrite, JournalRecord
<1> QED
  BY <1>1, <1>2, <1>3
-----------------------------------------------------------------------------
(* The end of the process, and its start *)

\* Nothing that a thread was in the middle of is in the journal.
LEMMA TornNotListed ==
  ASSUME Basis, Journaled, Up, NEW i \in Ident, Ok(i)
  PROVE  i \notin TornChunks /\ \A p \in Torn : i \notin ChunksOn(p)
<1>1. ASSUME NEW t \in Thread, i \in WritingNow(t) PROVE FALSE
  <2>1. pc[t] = "write" /\ i \in Overwritten(JobIdent(t))
    BY <1>1 DEF WritingNow
  <2>2. local[t].index \in DOMAIN chunks /\ chunks[local[t].index].ident = whichChunk
    BY <2>1 DEF Basis, JobStable
  <2>3. JobIdent(t) = whichChunk /\ whichChunk \in Idents
    BY <2>2 DEF JobIdent, Idents
  <2>4. i \in Idents
    BY FindChunkFinds DEF Journaled, Listed, Idents, Basis, TypeOK
  <2>5. i = whichChunk
    BY <2>1, <2>3, <2>4 DEF Journaled, Listed, Apart
  <2> QED
    BY <2>1, <2>5 DEF Journaled, Working
<1>2. ASSUME NEW t \in Thread, NEW p \in CopyingNow(t) \intersect copyFlags, i \in ChunksOn(p) PROVE FALSE
  <2>1. pc[t] \in CopyPc
    BY <1>2 DEF CopyingNow, CopyPc
  <2>2. copyThread # None
    BY <2>1, Alone DEF Basis
  <2> QED
    BY <1>2, <2>2 DEF Journaled, Copying
<1> QED
  BY <1>1, <1>2 DEF TornChunks, Torn

LEMMA JournalStop ==
  ASSUME Basis, Journaled, Resumable, Kill \/ PowerLoss
  PROVE  Journaled'
<1>1. Stop /\ Up /\ ~Up' /\ ~Cleaning /\ ~Cleaning' /\ main' = "down" /\ main # "sync" /\ main' # "sync"
  <2>1. Stop
    BY DEF Kill, PowerLoss
  <2>2. main # "down" /\ ~Cleaning
    BY <2>1, ResumableMeans DEF Stop, MayStop
  <2> QED
    BY <2>1, <2>2, Alone DEF Stop, Up, Cleaning, Basis
<1>2. Listed' /\ Cleared' /\ Copying' /\ Working'
  BY <1>1 DEF Stop, Listed, Cleared, Copying, Working
<1>3. CASE Kill
  <2>1. PICK ps \in SUBSET Torn, is \in SUBSET TornChunks : Tear(ps, is)
    BY <1>3 DEF Kill
  <2>2. UNCHANGED <<disk, synced>> /\ fresh' \subseteq fresh
    BY <1>3, <2>1 DEF Kill, Tear, diskVars
  <2>3. ASSUME NEW i \in Ident, Ok(i) PROVE i \in applied'
    <3>1. i \in applied /\ i \notin is /\ \A p \in ps : i \notin ChunksOn(p)
      BY <1>1, <2>3, TornNotListed DEF Journaled, Stored, Sound
    <3> QED
      BY <2>1, <3>1 DEF Tear
  <2>4. Stored'
    BY <1>1, <2>2, <2>3 DEF Journaled, Stored, Sound, Behind, Kept, Flushed, Ok
  <2> QED
    BY <1>2, <2>4 DEF Journaled
<1>4. CASE PowerLoss
  <2>1. PICK ps \in SUBSET (Torn \union (fresh \ synced.fresh)),
             is \in SUBSET (TornChunks \union (applied \ synced.applied)) : Tear(ps, is)
    BY <1>4 DEF PowerLoss
  <2>2. PICK m \in {disk.manifest, synced.manifest}, j \in {disk.journal, synced.journal} :
          /\ disk' = [manifest |-> m, journal |-> j]
          /\ synced' = [manifest |-> m, journal |-> j, fresh |-> fresh', applied |-> applied']
    BY <1>4, ResumableMeans DEF PowerLoss
  <2>3. /\ disk'.manifest = m /\ disk'.journal = j /\ synced'.manifest = m /\ synced'.journal = j
        /\ synced'.fresh = fresh' /\ synced'.applied = applied'
    BY <2>2
  <2>4. ASSUME NEW i \in Ident, LastOk(j, i) PROVE Ok(i) /\ i \in applied'
    <3>1. Ok(i)
      BY <1>1, <2>4 DEF Journaled, Stored, Behind, Ok
    <3>2. i \in applied /\ i \in synced.applied
      BY <3>1 DEF Journaled, Stored, Sound
    <3>3. \A p \in fresh \ synced.fresh : i \notin ChunksOn(p)
      BY <3>1 DEF Journaled, Stored, Flushed
    <3>4. i \notin is /\ \A p \in ps : i \notin ChunksOn(p)
      BY <1>1, <3>1, <3>2, <3>3, TornNotListed
    <3> QED
      BY <2>1, <3>1, <3>2, <3>4 DEF Tear
  <2>5. Sound' /\ Behind' /\ Flushed'
    BY <2>3, <2>4 DEF Sound, Behind, Flushed, Ok
  <2>6. Kept'
    BY <1>1, <2>3, <2>4 DEF Kept, Journaled, Stored, Ok
  <2> QED
    BY <1>2, <2>5, <2>6 DEF Journaled, Stored
<1> QED
  BY <1>3, <1>4

\* The list that the constructor makes of a manifest and the journal that goes with it.
LEMMA ReplayListed ==
  ASSUME NEW m \in Seq(Ident), NEW j \in Seq(JournalLine), ~ForeignLine(m, j)
  PROVE  LET cs == Replay(m, j)
         IN /\ DOMAIN cs = DOMAIN m /\ \A n \in DOMAIN cs : cs[n].ident = m[n]
            /\ \A n \in DOMAIN cs : cs[n].succeeded => LastOk(j, m[n]) /\ cs[n].processed
            /\ \A i \in Ident : LastOk(j, i) => FindChunk(cs, i) # 0 /\ cs[FindChunk(cs, i)].succeeded
<1> DEFINE cs == Replay(m, j)
           new == NewChunks(m)
<1>1. DOMAIN new = DOMAIN m /\ \A n \in DOMAIN m : new[n].ident = m[n] /\ ~new[n].succeeded
  BY DEF NewChunks
<1>2. /\ DOMAIN cs = DOMAIN m
      /\ \A n \in DOMAIN m : cs[n] = IF FindChunk(new, m[n]) = n
           THEN [ident |-> m[n], processed |-> Lines(j, m[n]) # {}, succeeded |-> LastOk(j, m[n])]
           ELSE new[n]
  BY DEF Replay
<1>3. new \in Seq(ChunkInfo)
  BY NewChunksType
<1> HIDE DEF cs, new
<1>4. \A n \in DOMAIN cs : cs[n].ident = m[n]
  BY <1>1, <1>2
<1>5. \A n \in DOMAIN cs : cs[n].succeeded => LastOk(j, m[n]) /\ cs[n].processed
  <2>1. \A i : LastOk(j, i) => Lines(j, i) # {}
    BY DEF LastOk
  <2>2. SUFFICES ASSUME NEW n \in DOMAIN cs, cs[n].succeeded PROVE LastOk(j, m[n]) /\ cs[n].processed
    OBVIOUS
  <2>3. cs[n] = [ident |-> m[n], processed |-> Lines(j, m[n]) # {}, succeeded |-> LastOk(j, m[n])]
    BY <1>1, <1>2, <2>2
  <2>4. cs[n].processed = (Lines(j, m[n]) # {}) /\ cs[n].succeeded = LastOk(j, m[n])
    BY <2>3
  <2> QED
    BY <2>1, <2>2, <2>4
<1>6. ASSUME NEW i \in Ident, LastOk(j, i) PROVE FindChunk(cs, i) # 0 /\ cs[FindChunk(cs, i)].succeeded
  <2>1. PICK n \in DOMAIN j : j[n].ident = i
    BY <1>6 DEF LastOk, Lines
  <2>2. PICK k \in DOMAIN m : m[k] = i
    BY <2>1 DEF ForeignLine
  <2>3. Entries(new, i) # {}
    BY <1>1, <2>2 DEF Entries
  <2>4. FindChunk(new, i) \in DOMAIN m /\ m[FindChunk(new, i)] = i
    BY <1>1, <1>3, <2>3, FindChunkFinds
  <2>5. FindChunk(cs, i) = FindChunk(new, i)
    BY <1>1, <1>2, <1>4, FindSame
  <2> QED
    BY <1>2, <1>6, <2>4, <2>5
<1> QED
  BY <1>2, <1>4, <1>5, <1>6 DEF cs

LEMMA JournalRestart ==
  ASSUME Basis, Journaled, Resumable, Restart
  PROVE  Journaled'
<1> DEFINE m == disk.manifest
           j == disk.journal
<1>1. /\ UNCHANGED <<disk, synced, fresh, applied, copyThread, pc>> /\ main = "down" /\ ~Cleaning
      /\ copyThread = None /\ processThread = None
  BY ResumableMeans DEF Restart, workerVars, handleVars, altVars, Basis, HandleInv, Cleaning
<1>2. Copying' /\ Working'
  BY <1>1, Alone, CopyingNone, WorkingNone DEF Basis
<1>3. Sound' /\ Flushed' /\ Behind'
  BY <1>1 DEF Journaled, Stored, Sound, Flushed, Behind, Ok
<1>4. Kept'
  BY <1>1 DEF Journaled, Stored, Kept, Ok
<1>5. m = <<>> => \A i \in Ident : ~LastOk(j, i)
  <2>1. Kept
    BY DEF Journaled, Stored
  <2>2. m \in {disk.manifest, synced.manifest}
    OBVIOUS
  <2>3. m = <<>> /\ ~Cleaning => \A i \in Ident : ~Ok(i)
    BY <2>1, <2>2 DEF Kept
  <2> QED
    BY <1>1, <2>3 DEF Ok
<1>6. m \in Seq(Ident) /\ j \in Seq(JournalLine)
  BY DEF Basis, TypeOK, CacheDir
<1>7. CASE m # <<>> /\ ForeignLine(m, j)
  <2>1. main' = "rmManifest" /\ chunks' = <<>>
    BY <1>7 DEF Restart
  <2> QED
    BY <1>2, <1>3, <1>4, <2>1 DEF Journaled, Stored, Listed, Cleared, Up
<1>8. CASE m = <<>>
  <2>1. main' = "loop" /\ chunks' = <<>>
    BY <1>8 DEF Restart
  <2>2. \A i \in Ident : ~Ok(i)'
    BY <1>1, <1>5, <1>8 DEF Ok
  <2>3. Listed' /\ Cleared'
    BY <2>1, <2>2 DEF Listed, Cleared, Cleaning, Idents, Apart
  <2> QED
    BY <1>2, <1>3, <1>4, <2>3 DEF Journaled, Stored
<1>9. CASE m # <<>> /\ ~ForeignLine(m, j)
  <2> DEFINE cs == Replay(m, j)
  <2>1. main' = "loop" /\ chunks' = cs /\ state' = "UpdateAvailable"
    BY <1>9 DEF Restart
  <2>2. /\ DOMAIN cs = DOMAIN m /\ \A n \in DOMAIN cs : cs[n].ident = m[n]
        /\ \A n \in DOMAIN cs : cs[n].succeeded => LastOk(j, m[n]) /\ cs[n].processed
        /\ \A i \in Ident : LastOk(j, i) => FindChunk(cs, i) # 0 /\ cs[FindChunk(cs, i)].succeeded
    BY <1>6, <1>9, ReplayListed
  <2> HIDE DEF cs
  <2>3. Idents' = Members(m)
    BY <2>1, <2>2 DEF Idents, Members
  <2>4. Apart(Members(m))
    BY DEF Journaled, Stored, Kept
  <2>5. Listed'
    BY <1>1, <1>9, <2>1, <2>2, <2>3, <2>4 DEF Listed, Ok, Apart
  <2>6. Cleared'
    BY <2>1 DEF Cleared, Cleaning
  <2> QED
    BY <1>2, <1>3, <1>4, <2>5, <2>6 DEF Journaled, Stored
<1> QED
  BY <1>7, <1>8, <1>9

LEMMA JournalStep ==
  ASSUME Basis, Journaled, Resumable, [Next]_vars
  PROVE  Journaled'
<1>1. CASE UNCHANGED vars
  <2>1. /\ UNCHANGED <<state, chunks, main, disk, synced, fresh, applied, copyFlags, copyThread>>
        /\ UNCHANGED <<whichChunk, local, pc>>
    BY <1>1 DEF vars, flagVars, jobVars, handleVars, workerVars, diskVars, altVars
  <2>2. Listed' /\ Cleared' /\ Copying' /\ Working'
    BY <2>1 DEF Journaled, Listed, Cleared, Copying, Working, Ok, Up, Cleaning, Idents
  <2>3. Stored'
    BY <2>1 DEF Journaled, Stored, Sound, Behind, Kept, Flushed, Ok, Cleaning
  <2> QED
    BY <2>2, <2>3 DEF Journaled
<1> QED
  BY <1>1, JournalMain, JournalWorker, JournalStop, JournalRestart DEF Next

LEMMA JournalInit == Init => Journaled
<1> SUFFICES ASSUME Init PROVE Journaled
  OBVIOUS
<1>1. /\ disk.journal = <<>> /\ disk.manifest = <<>> /\ synced.journal = <<>> /\ synced.manifest = <<>>
      /\ fresh = {} /\ chunks = <<>> /\ main = "loop" /\ copyThread = None
      /\ \A t \in Thread : pc[t] = "free"
  BY DEF Init
<1>2. \A i : ~Ok(i) /\ ~LastOk(synced.journal, i)
  BY <1>1, LastOkEmpty DEF Ok
<1>3. Listed /\ Cleared /\ Copying /\ Working
  BY <1>1, <1>2 DEF Listed, Cleared, Copying, Working, Cleaning, Idents, Apart
<1>4. Stored
  BY <1>1, <1>2 DEF Stored, Sound, Behind, Kept, Flushed, Members, Apart
<1> QED
  BY <1>3, <1>4 DEF Journaled

LEMMA JournalHolds == Resumable => (Spec => [](Basis /\ Journaled))
<1> SUFFICES ASSUME Resumable PROVE Spec => [](Basis /\ Journaled)
  OBVIOUS
<1>1. "pipeline" \notin Habits
  BY ResumableMeans
<1>2. Init => HasJob /\ HandleInv
  BY DEF Init, HasJob, HandleInv, CopyHandle, ProcessHandle, Cleaning
<1>3. TypeOK /\ HasJob /\ HandleInv /\ [Next]_vars => HasJob' /\ HandleInv'
  BY <1>1, HandleStep, HasJobStep
<1>4. Spec => []TypeOK /\ []JobStable
  BY <1>1, TypeCorrect, JobNeverSwapped, PTL
<1>5. Basis /\ Journaled /\ [Next]_vars => Journaled'
  BY JournalStep
<1>6. Init => Journaled
  BY JournalInit
<1>7. Basis <=> TypeOK /\ HasJob /\ HandleInv /\ JobStable
  BY DEF Basis
<1> QED
  BY <1>2, <1>3, <1>4, <1>5, <1>6, <1>7, PTL DEF Spec

\* A chunk that is listed as succeeded is in place, in the first run of the server and in every
\* one that resumed from its journal, whenever the process died or the power failed and whatever
\* system call failed: resuming takes no outcome from the journal that the disk does not bear out.
THEOREM SuccessIsInPlace == Resumable => (Spec => []SucceededInPlace)
<1> SUFFICES ASSUME Resumable PROVE Spec => []SucceededInPlace
  OBVIOUS
<1>1. Basis /\ Journaled => SucceededInPlace
  <2> SUFFICES ASSUME Basis, Journaled, main # "down", ~Cleaning, NEW n \in DOMAIN chunks, chunks[n].succeeded
               PROVE  chunks[n].ident \in applied
    BY DEF SucceededInPlace
  <2>1. Up /\ chunks[n].ident \in Ident
    BY Alone, ChunkType DEF Basis
  <2> QED
    BY <2>1 DEF Journaled, Listed, Stored, Sound
<1> QED
  BY <1>1, JournalHolds, PTL

\* The journal never says more than the data bears out, in the page cache or on the medium: the
\* line is written after the sync of what it speaks of, and nothing later takes it away.
THEOREM JournalTellsTheTruth == Resumable => (Spec => []JournalSound)
<1> SUFFICES ASSUME Resumable PROVE Spec => []JournalSound
  OBVIOUS
<1>1. Basis /\ Journaled => JournalSound
  <2> SUFFICES ASSUME Basis, Journaled, NEW n \in DOMAIN disk.manifest
               PROVE  /\ LastOk(disk.journal, disk.manifest[n])   => disk.manifest[n] \in applied
                      /\ LastOk(synced.journal, disk.manifest[n]) => disk.manifest[n] \in synced.applied
    BY DEF JournalSound
  <2>1. disk.manifest[n] \in Ident
    BY DEF Basis, TypeOK, CacheDir
  <2> QED
    BY <2>1 DEF Journaled, Stored, Sound, Ok
<1> QED
  BY <1>1, JournalHolds, PTL
-----------------------------------------------------------------------------
(* Resuming an update *)

\* - the client waits, and does not send chunk data in the payload, which fails the chunk
\*   without a journal line
\* - the removal of the cached files is not cut short, and a manifest being rewritten is
\*   not lost
\* - no manifest is empty where an earlier one's chunks may still be in the list
Replayable ==
  /\ Habits \subseteq {"redo", "location"}
  /\ Faults \intersect {"cleanup", "truncate"} = {}
  /\ StartFails => \A m \in Manifests : m # <<>>

\* The medium has the cached manifest or none; with none there is no journal anywhere.
OnMedium == ~Cleaning =>
  /\ synced.manifest \in {<<>>, disk.manifest}
  /\ synced.manifest = <<>> => disk.journal = <<>> /\ synced.journal = <<>>

\* The list is what the cache directory says, unless it holds two manifests' chunks, which
\* takes an update whose copy thread could not be started.
Mirrors == Up =>
  /\ chunks # <<>> => disk.manifest # <<>>
  /\ ~Muddled => chunks = Offered(disk.manifest, disk.journal)
  /\ state = "Idle" => synced.manifest = <<>>
  /\ ~StartFails => ~Muddled /\ (state = "Idle" => chunks = <<>>)

\* The list is forgotten before the files are, and the manifest before the journal.
Forgotten ==
  /\ Cleaning => chunks = <<>>
  /\ main \in {"rmJournal", "sync"} => disk.manifest = <<>>
  /\ main = "sync" => disk.journal = <<>>

\* The process thread works on the entry that the journal line will be taken for.
EntryFound == \A t \in Thread :
  pc[t] \in {"write", "record"} => local[t].index = FindChunk(chunks, whichChunk)

Mirrored == OnMedium /\ Mirrors /\ Forgotten /\ EntryFound

LEMMA ReplayableMeans ==
  ASSUME Replayable
  PROVE  /\ "pipeline" \notin Habits /\ "payload" \notin Habits
         /\ "cleanup" \notin Faults /\ "truncate" \notin Faults
BY DEF Replayable
-----------------------------------------------------------------------------
(* The list a journal stands for *)

LEMMA LinesAppend ==
  ASSUME NEW j \in Seq(JournalLine), NEW l \in JournalLine, NEW i
  PROVE  Lines(Append(j, l), i) # {} <=> l.ident = i \/ Lines(j, i) # {}
<1> DEFINE k == Append(j, l)
<1>1. /\ Len(j) \in Nat /\ DOMAIN j = 1 .. Len(j) /\ DOMAIN k = 1 .. Len(j) + 1
      /\ k[Len(j) + 1] = l /\ \A n \in 1 .. Len(j) : k[n] = j[n]
  OBVIOUS
<1> HIDE DEF k
<1>2. \A n \in DOMAIN k : n \in DOMAIN j \/ n = Len(j) + 1
  BY <1>1
<1>3. Len(j) + 1 \in DOMAIN k /\ \A n \in DOMAIN j : n \in DOMAIN k
  BY <1>1
<1> QED
  BY <1>1, <1>2, <1>3 DEF Lines, k

\* Nothing is known of a chunk whose manifest has just come.
LEMMA ReplayNew ==
  ASSUME NEW m \in Seq(Ident)
  PROVE  Offered(m, <<>>) = NewChunks(m) /\ ~ForeignLine(m, <<>>)
<1>1. ~ForeignLine(m, <<>>)
  BY DEF ForeignLine
<1>2. \A i : Lines(<<>>, i) = {} /\ LastOk(<<>>, i) = FALSE
  BY DEF Lines, LastOk
<1>3. \A n \in DOMAIN m : NewChunks(m)[n] = [ident |-> m[n], processed |-> FALSE, succeeded |-> FALSE]
  BY DEF NewChunks
<1>4. Replay(m, <<>>) = [n \in DOMAIN m |-> NewChunks(m)[n]]
  BY <1>2, <1>3 DEF Replay
<1>5. NewChunks(m) = [n \in DOMAIN m |-> NewChunks(m)[n]]
  BY DEF NewChunks
<1> QED
  BY <1>1, <1>4, <1>5 DEF Offered

LEMMA OfferedNothing == Offered(<<>>, <<>>) = <<>>
<1>1. NewChunks(<<>>) = <<>>
  BY DEF NewChunks
<1>2. <<>> \in Seq(Ident)
  OBVIOUS
<1>3. Offered(<<>>, <<>>) = NewChunks(<<>>)
  BY <1>2, ReplayNew
<1> QED
  BY <1>1, <1>3

\* The list that is offered has the manifest's chunks, in its order.
LEMMA OfferedShape ==
  ASSUME NEW m \in Seq(Ident), NEW j, ~ForeignLine(m, j)
  PROVE  /\ Offered(m, j) = Replay(m, j) /\ Offered(m, j) \in Seq(ChunkInfo)
         /\ Len(Offered(m, j)) = Len(m) /\ DOMAIN Offered(m, j) = DOMAIN m
         /\ \A n \in DOMAIN m : Offered(m, j)[n].ident = m[n]
         /\ \A i : FindChunk(Offered(m, j), i) = FindChunk(NewChunks(m), i)
<1> DEFINE cs == Replay(m, j)
           new == NewChunks(m)
<1>1. Offered(m, j) = cs
  BY DEF Offered
<1>2. cs \in Seq(ChunkInfo)
  BY ReplayType
<1>3. DOMAIN new = DOMAIN m /\ \A n \in DOMAIN m : new[n].ident = m[n]
  BY DEF NewChunks
<1>4. /\ DOMAIN cs = DOMAIN m
      /\ \A n \in DOMAIN m : cs[n] = IF FindChunk(new, m[n]) = n
           THEN [ident |-> m[n], processed |-> Lines(j, m[n]) # {}, succeeded |-> LastOk(j, m[n])]
           ELSE new[n]
  BY DEF Replay
<1> HIDE DEF cs, new
<1>5. \A n \in DOMAIN m : cs[n].ident = m[n]
  BY <1>3, <1>4
<1>6. \A i : FindChunk(cs, i) = FindChunk(new, i)
  BY <1>3, <1>4, <1>5, FindSame
<1>7. Len(cs) = Len(m)
  BY <1>2, <1>4
<1>8. Offered(m, j) = Replay(m, j) /\ \A i : FindChunk(cs, i) = FindChunk(NewChunks(m), i)
  BY <1>1, <1>6 DEF cs, new
<1> QED
  BY <1>1, <1>2, <1>4, <1>5, <1>7, <1>8

\* The list with an outcome for entry n, as RecordChunk writes it.
Marked(cs, n, ok) == [cs EXCEPT ![n].processed = TRUE, ![n].succeeded = ok]

LEMMA EntryUpdate ==
  ASSUME NEW cs \in Seq(ChunkInfo), NEW ds \in Seq(ChunkInfo), DOMAIN ds = DOMAIN cs,
         NEW n \in DOMAIN cs, NEW ok \in BOOLEAN,
         \A p \in DOMAIN cs \ {n} : ds[p] = cs[p],
         ds[n].ident = cs[n].ident, ds[n].processed, ds[n].succeeded = ok
  PROVE  ds = Marked(cs, n, ok)
<1> DEFINE es == [cs EXCEPT ![n].processed = TRUE, ![n].succeeded = ok]
<1>1. cs[n] \in ChunkInfo /\ ds[n] \in ChunkInfo
  OBVIOUS
<1>2. /\ DOMAIN es = DOMAIN cs /\ \A p \in DOMAIN cs \ {n} : es[p] = cs[p]
      /\ es[n] \in ChunkInfo
      /\ es[n].ident = cs[n].ident /\ es[n].processed /\ es[n].succeeded = ok
  BY <1>1 DEF ChunkInfo
<1>3. es = [p \in DOMAIN cs |-> es[p]]
  OBVIOUS
<1>4. ds = [p \in DOMAIN cs |-> ds[p]]
  OBVIOUS
<1> HIDE DEF es
<1>5. es[n] = ds[n]
  <2>1. es[n].processed \in BOOLEAN /\ ds[n].processed \in BOOLEAN
    BY <1>1, <1>2 DEF ChunkInfo
  <2>2. es[n].processed = ds[n].processed
    BY <1>2, <2>1
  <2>3. es[n].ident = ds[n].ident /\ es[n].succeeded = ds[n].succeeded
    BY <1>2
  <2>4. ASSUME NEW r \in ChunkInfo, NEW s \in ChunkInfo, r.ident = s.ident, r.processed = s.processed,
               r.succeeded = s.succeeded
        PROVE  r = s
    BY <2>4 DEF ChunkInfo
  <2> QED
    BY <1>1, <1>2, <2>2, <2>3, <2>4
<1>6. \A p \in DOMAIN cs : es[p] = ds[p]
  BY <1>2, <1>5
<1> QED
  BY <1>3, <1>4, <1>6 DEF es, Marked

\* One more journal line is one more outcome in the list: that of the first entry which has
\* the line's chunk.
LEMMA OfferedAppend ==
  ASSUME NEW m \in Seq(Ident), NEW j \in Seq(JournalLine), NEW l \in JournalLine,
         ~ForeignLine(m, j), NEW n \in DOMAIN m, n = FindChunk(NewChunks(m), l.ident), m[n] = l.ident
  PROVE  Offered(m, Append(j, l)) = Marked(Offered(m, j), n, l.ok)
<1> DEFINE k == Append(j, l)
           new == NewChunks(m)
           old == Replay(m, j)
           cs == Replay(m, k)
           Entry(h, p) == IF FindChunk(new, m[p]) = p
             THEN [ident |-> m[p], processed |-> Lines(h, m[p]) # {}, succeeded |-> LastOk(h, m[p])]
             ELSE new[p]
<1>1. ~ForeignLine(m, k)
  <2>1. \A p \in DOMAIN k : k[p] = l \/ \E q \in DOMAIN j : k[p] = j[q]
    OBVIOUS
  <2> QED
    BY <2>1 DEF ForeignLine
<1>2. Offered(m, k) = cs /\ Offered(m, j) = old
  BY <1>1 DEF Offered
<1>3. /\ \A i : Lines(k, i) # {} <=> l.ident = i \/ Lines(j, i) # {}
      /\ \A i : LastOk(k, i) <=> IF l.ident = i THEN l.ok ELSE LastOk(j, i)
  BY LinesAppend, LastOkAppend
<1>4. /\ old = [p \in DOMAIN m |-> Entry(j, p)]
      /\ cs = [p \in DOMAIN m |-> Entry(k, p)]
  BY DEF Replay
<1>5. /\ DOMAIN old = DOMAIN m /\ \A p \in DOMAIN m : old[p] = Entry(j, p)
      /\ DOMAIN cs = DOMAIN m /\ \A p \in DOMAIN m : cs[p] = Entry(k, p)
  BY <1>4
<1> HIDE DEF k, new, old, cs
<1>6. l.ok \in BOOLEAN
  BY DEF JournalLine
<1>7. cs[n].ident = old[n].ident /\ cs[n].processed /\ cs[n].succeeded = l.ok
  <2>1. FindChunk(new, m[n]) = n
    BY DEF new
  <2>2. old[n] = [ident |-> m[n], processed |-> Lines(j, m[n]) # {}, succeeded |-> LastOk(j, m[n])]
    BY <1>5, <2>1
  <2>3. cs[n] = [ident |-> m[n], processed |-> Lines(k, m[n]) # {}, succeeded |-> LastOk(k, m[n])]
    BY <1>5, <2>1
  <2>4. cs[n].succeeded = LastOk(k, m[n]) /\ cs[n].processed = (Lines(k, m[n]) # {})
    BY <2>3
  <2>5. Lines(k, m[n]) # {} /\ (LastOk(k, m[n]) <=> l.ok) /\ LastOk(k, m[n]) \in BOOLEAN
    BY <1>3 DEF LastOk
  <2>6. cs[n].ident = m[n] /\ old[n].ident = m[n]
    BY <2>2, <2>3
  <2>7. cs[n].processed
    BY <2>4, <2>5, Zenon
  <2>8. cs[n].succeeded = l.ok
    <3>1. LastOk(k, m[n]) = l.ok
      BY <1>6, <2>5
    <3> QED
      BY <2>4, <3>1, Zenon
  <2> QED
    BY <2>6, <2>7, <2>8
<1>8. ASSUME NEW p \in DOMAIN m, p # n PROVE cs[p] = old[p]
  <2>1. CASE FindChunk(new, m[p]) = p
    <3>1. m[p] # l.ident
      BY <1>8, <2>1 DEF new
    <3>2. LastOk(k, m[p]) \in BOOLEAN /\ LastOk(j, m[p]) \in BOOLEAN
      BY DEF LastOk
    <3>3. (Lines(k, m[p]) # {}) = (Lines(j, m[p]) # {}) /\ LastOk(k, m[p]) = LastOk(j, m[p])
      BY <1>3, <3>1, <3>2
    <3> QED
      BY <1>5, <3>3
  <2>2. CASE FindChunk(new, m[p]) # p
    BY <1>5, <2>2
  <2> QED
    BY <2>1, <2>2
<1>9. cs \in Seq(ChunkInfo) /\ old \in Seq(ChunkInfo)
  BY ReplayType DEF cs, old
<1>10. cs = Marked(old, n, l.ok)
  <2> HIDE DEF Entry
  <2>1. DOMAIN cs = DOMAIN old /\ n \in DOMAIN old
    BY <1>5
  <2>2. \A p \in DOMAIN old \ {n} : cs[p] = old[p]
    BY <1>5, <1>8
  <2> QED
    BY <1>6, <1>7, <1>9, <2>1, <2>2, EntryUpdate, SMTT(30)
<1> QED
  BY <1>2, <1>10 DEF k
-----------------------------------------------------------------------------
(* What the steps are to a client *)

Simulated == [Promise!Next]_(Promise!vars)

LEMMA IsSave ==
  ASSUME ~Muddled, ~Muddled', ListOnMedium' = ListKept, UNCHANGED ListKept
  PROVE  Simulated
BY DEF Simulated, Promise!Next, Promise!Save

LEMMA IsEnd ==
  ASSUME ~Muddled', ListKept' = <<>>, ListOnMedium' = <<>>
  PROVE  Simulated
BY DEF Simulated, Promise!Next, Promise!End

LEMMA IsPowerFailure ==
  ASSUME ~Muddled, ~Muddled', ListKept' = ListOnMedium, UNCHANGED ListOnMedium
  PROVE  Simulated
BY DEF Simulated, Promise!Next, Promise!PowerFailure

LEMMA IsMuddled == ASSUME Muddled PROVE Simulated
  BY DEF Simulated, Promise!Next

LEMMA IsNothing == ASSUME UNCHANGED <<ListKept, ListOnMedium, Muddled>> PROVE Simulated
  BY DEF Simulated, Promise!vars

LEMMA EntryNone ==
  ASSUME \A t \in Thread : pc'[t] \notin {"write", "record"}
  PROVE  EntryFound'
BY DEF EntryFound

\* Most steps change neither the list nor a file of the cache directory.
LEMMA MirrorFrame ==
  ASSUME Mirrored, Up, Up', state' = "Idle" => state = "Idle", UNCHANGED <<chunks, disk>>,
         synced'.manifest = synced.manifest, synced'.journal = synced.journal, EntryFound'
  PROVE  Mirrored' /\ Simulated
<1>1. main # "down" /\ main' # "down" /\ ~Cleaning /\ ~Cleaning' /\ main' \notin {"rmJournal", "sync"}
  BY DEF Up, Cleaning
<1>2. Muddled' <=> Muddled
  BY <1>1 DEF Muddled
<1>3. OnMedium' /\ Forgotten'
  BY <1>1 DEF Mirrored, OnMedium, Forgotten
<1>4. Mirrors'
  BY <1>2 DEF Mirrored, Mirrors
<1>5. ListKept' = ListKept /\ ListOnMedium' = ListOnMedium
  BY <1>1 DEF ListKept, ListOnMedium
<1>6. Muddled' = Muddled
  BY <1>2 DEF Muddled
<1> QED
  BY <1>3, <1>4, <1>5, <1>6, IsNothing DEF Mirrored

\* The bookkeeping of a step that leaves the threads, the list and the files alone.
LEMMA MirrorQuiet ==
  ASSUME Mirrored, Up, Up', state' = "Idle" => state = "Idle",
         UNCHANGED <<chunks, disk, synced, whichChunk, local, pc>>
  PROVE  Mirrored' /\ Simulated
<1>1. EntryFound'
  BY DEF Mirrored, EntryFound
<1> QED
  BY <1>1, MirrorFrame
-----------------------------------------------------------------------------
(* Messages *)

\* A new update finds an empty cache directory, here and on the medium.
LEMMA ResumeBegin ==
  ASSUME Basis, Mirrored, Replayable, NEW m \in Manifests, BeginUpdate(m)
  PROVE  Mirrored' /\ Simulated
<1> DEFINE new == NewChunks(m)
<1>1. /\ main = "loop" /\ main' = "loop" /\ state = "Idle" /\ Up /\ Up' /\ ~Cleaning /\ ~Cleaning'
      /\ chunks' = chunks \o new
      /\ disk'.manifest = m /\ disk'.journal = disk.journal
      /\ synced'.manifest = synced.manifest /\ synced'.journal = synced.journal
  BY DEF BeginUpdate, Up, Cleaning, Basis, TypeOK, CacheDir, Medium
<1>2. m \in Seq(Ident) /\ m # <<>>
  BY <1>1, BeginsSomething DEF Replayable, Mirrored, Mirrors, Basis, TypeOK
<1>3. synced.manifest = <<>> /\ disk.journal = <<>> /\ synced.journal = <<>>
  BY <1>1 DEF Mirrored, Mirrors, OnMedium
<1>4. /\ new \in Seq(ChunkInfo) /\ chunks \in Seq(ChunkInfo) /\ Len(new) = Len(m)
      /\ Len(m) \in Nat /\ Len(chunks) \in Nat /\ Len(chunks') = Len(chunks) + Len(m)
      /\ (chunks = <<>> <=> Len(chunks) = 0)
  <2>1. new \in Seq(ChunkInfo) /\ chunks \in Seq(ChunkInfo)
    BY <1>2, NewChunksType DEF Basis, TypeOK
  <2>2. DOMAIN new = DOMAIN m
    BY DEF NewChunks
  <2> HIDE DEF new
  <2>3. Len(new) = Len(m) /\ Len(m) \in Nat /\ Len(chunks) \in Nat /\ (chunks = <<>> <=> Len(chunks) = 0)
    BY <1>2, <2>1, <2>2
  <2>4. Len(chunks \o new) = Len(chunks) + Len(new)
    BY <2>1
  <2> QED
    BY <1>1, <2>1, <2>3, <2>4
<1>5. EntryFound'
  <2>1. copyThread = None /\ processThread = None
    BY <1>1 DEF Basis, HandleInv, CopyHandle, ProcessHandle
  <2>2. \A t \in Thread : pc'[t] \in {"free", "copyBI"}
    BY <2>1, Alone DEF BeginUpdate, PrepareForUpdate, Spawn, Basis, TypeOK
  <2> QED
    BY <2>2, EntryNone
<1>6. OnMedium' /\ Forgotten'
  BY <1>1, <1>3 DEF OnMedium, Forgotten
<1>7. /\ Muddled <=> Len(chunks) # Len(disk.manifest)
      /\ Muddled' <=> chunks # <<>>
  BY <1>1, <1>4 DEF Muddled
<1>8. ASSUME chunks = <<>> PROVE chunks' = new /\ Offered(m, disk'.journal) = new
  <2>1. chunks \o new = new
    <3> HIDE DEF new
    <3> QED
      BY <1>4, <1>8
  <2> QED
    BY <1>1, <1>2, <1>3, <2>1, ReplayNew
<1>9. Mirrors'
  <2>1. ~StartFails => chunks = <<>>
    BY <1>1 DEF Mirrored, Mirrors
  <2>2. ~StartFails => state' # "Idle"
    <3>1. copyThread = None /\ processThread = None
      BY <1>1 DEF Basis, HandleInv, CopyHandle, ProcessHandle
    <3>2. \A t \in Thread : pc[t] = "free"
      BY <3>1, Alone DEF Basis
    <3> QED
      BY <3>2 DEF BeginUpdate, PrepareForUpdate, SpawnMayFail, FreeThreads, StartFails
  <2> QED
    BY <1>1, <1>2, <1>3, <1>7, <1>8, <2>1, <2>2 DEF Mirrors
<1>10. ListKept = chunks /\ ListKept' = chunks' /\ ListOnMedium = <<>> /\ UNCHANGED ListOnMedium
  BY <1>1, <1>3, OfferedNothing DEF ListKept, ListOnMedium
<1>11. new = Promise!Untouched(m)
  BY DEF NewChunks, Promise!Untouched
<1>12. CASE Muddled
  BY <1>5, <1>6, <1>9, <1>12, IsMuddled DEF Mirrored
<1>13. CASE ~Muddled /\ chunks # <<>>
  <2>1. Promise!Muddle(m)
    BY <1>1, <1>10, <1>11, <1>13 DEF Promise!Muddle
  <2>2. Promise!Next
    BY <1>7, <1>13, <2>1 DEF Promise!Next
  <2> QED
    BY <1>5, <1>6, <1>9, <2>2 DEF Mirrored, Simulated
<1>14. CASE ~Muddled /\ chunks = <<>>
  <2>1. Promise!Begin(m)
    BY <1>8, <1>10, <1>11, <1>14 DEF Promise!Begin
  <2>2. Promise!Next
    BY <1>7, <1>14, <2>1 DEF Promise!Next
  <2> QED
    BY <1>5, <1>6, <1>9, <2>2 DEF Mirrored, Simulated
<1> QED
  BY <1>12, <1>13, <1>14

LEMMA ResumeMessage ==
  ASSUME Basis, Mirrored, Replayable,
         \/ ContinueUpdate
         \/ \E i \in Ident, path \in Ident \union {None} : ProcessChunk(i, path)
         \/ \E i \in Ident : ProcessChunkLocation(i)
  PROVE  Mirrored' /\ Simulated
<1>1. Up /\ Up' /\ UNCHANGED <<state, chunks, disk, synced>>
  BY DEF ContinueUpdate, ProcessChunk, ProcessChunkLocation, ProcessAccepted, Up, diskVars
<1>2. copyThread = None /\ processThread = None
  <2>1. CASE ContinueUpdate
    BY <2>1, ReplayableMeans DEF ContinueUpdate, Basis, HandleInv, ProcessHandle
  <2>2. ASSUME NEW i, ProcessAccepted(i) PROVE copyThread = None /\ processThread = None
    BY <2>2, ReplayableMeans, AcceptedAlone DEF Basis
  <2> QED
    BY <2>1, <2>2 DEF ProcessChunk, ProcessChunkLocation
<1>3. \A t \in Thread : pc[t] = "free"
  BY <1>2, Alone DEF Basis
<1>4. \A t \in Thread : pc'[t] \in {"free", "copyBI", "find"}
  BY <1>3 DEF ContinueUpdate, PrepareForUpdate, ProcessChunk, ProcessChunkLocation, Spawn, workerVars, Basis, TypeOK
<1> QED
  BY <1>1, <1>4, EntryNone, MirrorFrame
-----------------------------------------------------------------------------
(* Process(), and the removal of the cached files *)

LEMMA ResumeJoin ==
  ASSUME Basis, Mirrored, JoinCopyThread \/ JoinProcessThread
  PROVE  Mirrored' /\ Simulated
<1>1. Up /\ Up' /\ UNCHANGED <<chunks, disk, synced>> /\ (state' = "Idle" => state = "Idle")
  BY DEF JoinCopyThread, JoinProcessThread, Up, AfterCopy, AfterChunk, diskVars
<1>2. \A t \in Thread : pc'[t] \notin {"write", "record"}
  <2>1. PICK t \in Thread : pc[t] = "exited" /\ pc' = [pc EXCEPT ![t] = "free"]
    BY DEF JoinCopyThread, JoinProcessThread, Join, Basis, TypeOK
  <2>2. \A u \in Thread : pc[u] \notin ChunkPc
    BY <2>1, Alone DEF Basis, ChunkPc
  <2> QED
    BY <2>1, <2>2 DEF ChunkPc, Basis, TypeOK
<1> QED
  BY <1>1, <1>2, EntryNone, MirrorFrame

\* Finalize and the end of a cancel end the update.
LEMMA ResumeForget ==
  ASSUME Basis, Mirrored, Finalize \/ FinishCancel
  PROVE  Mirrored' /\ Simulated
<1>1. main' = "rmManifest" /\ chunks' = <<>> /\ Cleaning' /\ ~Up'
  BY DEF Finalize, FinishCancel, Cleaning, Up
<1>2. \A t \in Thread : pc'[t] = "free"
  <2>1. copyThread = None /\ processThread = None /\ UNCHANGED pc
    BY DEF Finalize, FinishCancel, AllJoined, Basis, HandleInv, CopyHandle, ProcessHandle, workerVars
  <2> QED
    BY <2>1, Alone DEF Basis
<1>3. Mirrored'
  BY <1>1, <1>2, EntryNone DEF Mirrored, OnMedium, Mirrors, Forgotten
<1>4. ~Muddled' /\ ListKept' = <<>> /\ ListOnMedium' = <<>>
  BY <1>1 DEF Muddled, ListKept, ListOnMedium
<1> QED
  BY <1>3, <1>4, IsEnd

LEMMA ResumeCleanup ==
  ASSUME Basis, Mirrored, RemoveManifest \/ RemoveJournal \/ Sync
  PROVE  Mirrored' /\ Simulated
<1>1. Cleaning /\ ~Up /\ main # "down" /\ chunks = <<>> /\ chunks' = <<>>
  BY DEF RemoveManifest, RemoveJournal, Sync, Cleaning, Up, Mirrored, Forgotten
<1>2. EntryFound'
  <2>1. copyThread = None /\ processThread = None /\ UNCHANGED pc
    BY <1>1 DEF RemoveManifest, RemoveJournal, Sync, Basis, HandleInv, workerVars
  <2>2. \A t \in Thread : pc'[t] = "free"
    BY <2>1, Alone DEF Basis
  <2> QED
    BY <2>2, EntryNone
<1>3. CASE RemoveManifest \/ RemoveJournal
  <2>1. Cleaning' /\ ~Up' /\ main' # "down" /\ main' \in {"rmJournal", "sync"}
    BY <1>3 DEF RemoveManifest, RemoveJournal, Cleaning, Up
  <2>2. /\ disk'.manifest = <<>>
        /\ main' = "sync" => disk'.journal = <<>>
    BY <1>3 DEF RemoveManifest, RemoveJournal, Mirrored, Forgotten, Basis, TypeOK, CacheDir
  <2>3. Mirrored'
    BY <1>1, <1>2, <2>1, <2>2 DEF Mirrored, OnMedium, Mirrors, Forgotten
  <2>4. ~Muddled' /\ ListKept' = <<>> /\ ListOnMedium' = <<>>
    BY <1>1, <2>1 DEF Muddled, ListKept, ListOnMedium
  <2> QED
    BY <2>3, <2>4, IsEnd
<1>4. CASE Sync
  <2>1. /\ main' = "loop" /\ ~Cleaning' /\ UNCHANGED disk /\ disk.manifest = <<>> /\ disk.journal = <<>>
        /\ synced'.manifest = <<>> /\ synced'.journal = <<>>
    BY <1>4 DEF Sync, RunSync, Cleaning, Mirrored, Forgotten
  <2>2. ~Muddled'
    BY <1>1, <2>1 DEF Muddled
  <2>3. Mirrored'
    BY <1>1, <1>2, <2>1, <2>2, OfferedNothing DEF Mirrored, OnMedium, Mirrors, Forgotten
  <2>4. ListKept' = <<>> /\ ListOnMedium' = <<>>
    BY <1>1, <2>1, OfferedNothing DEF ListKept, ListOnMedium
  <2> QED
    BY <2>2, <2>3, <2>4, IsEnd
<1> QED
  BY <1>3, <1>4

LEMMA ResumeMain ==
  ASSUME Basis, Mirrored, Replayable, MainStep
  PROVE  Mirrored' /\ Simulated
<1>1. CASE CancelUpdate \/ EnterProcess \/ NoCopyJoin \/ NoProcessJoin \/ LeaveProcess
  <2>1. /\ Up /\ Up' /\ (state' = "Idle" => state = "Idle")
        /\ UNCHANGED <<chunks, disk, synced, whichChunk, local, pc>>
    BY <1>1 DEF CancelUpdate, EnterProcess, NoCopyJoin, NoProcessJoin, LeaveProcess, Up, diskVars, jobVars, workerVars
  <2> QED
    BY <2>1, MirrorQuiet
<1>2. \A i \in Ident : ~ProcessChunkPayload(i)
  BY ReplayableMeans DEF ProcessChunkPayload
<1> QED
  BY <1>1, <1>2, ResumeBegin, ResumeMessage, ResumeJoin, ResumeForget, ResumeCleanup DEF MainStep
-----------------------------------------------------------------------------
(* The worker threads *)

\* A sync brings the list onto the medium.
LEMMA ResumePrepared ==
  ASSUME Basis, Mirrored, NEW t \in Thread, InitSuccess(t)
  PROVE  Mirrored' /\ Simulated
<1>1. /\ Up /\ Up' /\ main # "down" /\ main' # "down" /\ ~Cleaning /\ ~Cleaning' /\ main' = main
      /\ UNCHANGED <<state, chunks, disk>> /\ RunSync /\ state # "Idle"
  <2>1. pc[t] \in CopyPc
    BY DEF InitSuccess, CopyPc
  <2>2. Up /\ copyThread = t /\ t # None
    BY <2>1, Alone DEF Basis
  <2>3. UNCHANGED <<state, chunks, disk, main>> /\ RunSync
    BY DEF InitSuccess, mainVars
  <2> QED
    BY <2>2, <2>3 DEF Up, Cleaning, Basis, HandleInv, CopyHandle
<1>2. synced'.manifest = disk.manifest /\ synced'.journal = disk.journal
  BY <1>1 DEF RunSync
<1>3. disk.manifest = <<>> => disk.journal = <<>>
  BY <1>1 DEF Mirrored, OnMedium
<1>4. EntryFound'
  <2>1. \A u \in Thread : pc'[u] \in {"copyFlag", "free"}
    BY Alone DEF InitSuccess, Goto, CopyPc, Basis, TypeOK
  <2> QED
    BY <2>1, EntryNone
<1>5. Muddled' <=> Muddled
  BY <1>1 DEF Muddled
<1>6. Mirrored'
  BY <1>1, <1>2, <1>3, <1>4, <1>5 DEF Mirrored, OnMedium, Mirrors, Forgotten, Up, Cleaning
<1>7. ListKept = chunks /\ ListKept' = chunks /\ ListOnMedium' = Offered(disk.manifest, disk.journal)
  BY <1>1, <1>2 DEF ListKept, ListOnMedium
<1>8. CASE Muddled
  BY <1>6, <1>8, IsMuddled
<1>9. CASE ~Muddled
  BY <1>1, <1>5, <1>6, <1>7, <1>9, IsSave DEF Mirrored, Mirrors
<1> QED
  BY <1>8, <1>9

\* The journal gets a line for the entry that got its outcome, and what was known before is
\* on the medium by then.
LEMMA ResumeRecord ==
  ASSUME Basis, Mirrored, NEW t \in Thread, RecordChunk(t)
  PROVE  Mirrored' /\ Simulated
<1> DEFINE n == local[t].index
           i == whichChunk
           l == [ident |-> i, ok |-> local[t].ok]
           m == disk.manifest
           j == disk.journal
<1>1. pc[t] = "record"
  BY DEF RecordChunk
<1>2. /\ Up /\ Up' /\ main # "down" /\ main' # "down" /\ ~Cleaning /\ ~Cleaning' /\ main' = main
      /\ UNCHANGED state /\ state # "Idle" /\ \A u \in Thread \ {t} : pc[u] = "free"
  BY <1>1, Alone DEF RecordChunk, Basis, ChunkPc, Up, Cleaning, HandleInv, ProcessHandle
<1>3. /\ n \in DOMAIN chunks /\ chunks[n].ident = i /\ i \in Ident /\ JobIdent(t) = i
      /\ n = FindChunk(chunks, i) /\ local[t].ok \in BOOLEAN
  <2>1. n \in DOMAIN chunks /\ chunks[n].ident = i
    BY <1>1 DEF Basis, JobStable
  <2>2. i \in Ident /\ JobIdent(t) = i
    BY <1>1, <2>1, ChunkType DEF JobIdent, Basis
  <2> QED
    BY <1>1, <2>1, <2>2 DEF Mirrored, EntryFound, Basis, TypeOK
<1>4. /\ disk'.manifest = m /\ disk'.journal = Append(j, l)
      /\ synced'.manifest = m /\ synced'.journal = j
      /\ m \in Seq(Ident) /\ j \in Seq(JournalLine) /\ l \in JournalLine
  BY <1>3 DEF RecordChunk, RunSync, Basis, TypeOK, CacheDir, JournalLine
<1>5. chunks' = Marked(chunks, n, local[t].ok) /\ chunks \in Seq(ChunkInfo)
  BY <1>3 DEF RecordChunk, Marked, Basis, TypeOK
<1>6. Len(chunks') = Len(chunks)
  BY <1>3, <1>5 DEF Marked
<1>7. l.ident = i /\ l.ok = local[t].ok
  OBVIOUS
<1> HIDE DEF n, i, l, m, j
<1>8. m # <<>>
  <2>1. chunks # <<>>
    BY <1>3
  <2> QED
    BY <1>2, <2>1 DEF Mirrored, Mirrors, m
<1>9. Muddled' <=> Muddled
  BY <1>2, <1>4, <1>6 DEF Muddled, m
<1>10. ASSUME ~Muddled
       PROVE  chunks = Offered(m, j) /\ chunks' = Offered(m, Append(j, l))
  <2>1. chunks = Offered(m, j)
    BY <1>2, <1>10 DEF Mirrored, Mirrors, m, j
  <2>2. ~ForeignLine(m, j)
    <3>1. chunks # <<>>
      BY <1>3
    <3> QED
      BY <2>1, <3>1 DEF Offered
  <2>3. n \in DOMAIN m /\ m[n] = i /\ n = FindChunk(NewChunks(m), i)
    BY <1>3, <1>4, <2>1, <2>2, OfferedShape
  <2>4. Offered(m, Append(j, l)) = Marked(Offered(m, j), n, l.ok)
    BY <1>4, <1>7, <2>2, <2>3, OfferedAppend
  <2> QED
    BY <1>5, <1>7, <2>1, <2>4
<1>11. EntryFound'
  <2>1. \A u \in Thread : pc'[u] \in {"chunkFlag", "free"}
    BY <1>2 DEF RecordChunk, Goto, Basis, TypeOK
  <2> QED
    BY <2>1, EntryNone
<1>12. Mirrored'
  BY <1>2, <1>4, <1>8, <1>9, <1>10, <1>11 DEF Mirrored, OnMedium, Mirrors, Forgotten, Up, Cleaning
<1>13. ListKept = chunks /\ ListKept' = chunks' /\ ListOnMedium' = Offered(m, j)
  BY <1>2, <1>4 DEF ListKept, ListOnMedium
<1>14. CASE Muddled
  BY <1>12, <1>14, IsMuddled
<1>15. CASE ~Muddled
  <2>1. Promise!Report(n, local[t].ok)
    BY <1>5, <1>10, <1>13, <1>15 DEF Promise!Report, Marked
  <2>2. Promise!Next
    BY <1>3, <1>9, <1>13, <1>15, <2>1 DEF Promise!Next
  <2> QED
    BY <1>12, <2>2 DEF Simulated
<1> QED
  BY <1>14, <1>15

\* The other steps of the threads write to the alternate container only.
LEMMA ResumeWorker ==
  ASSUME Basis, Mirrored, NEW t \in Thread, WorkerStep(t)
  PROVE  Mirrored' /\ Simulated
<1> DEFINE Copies == CopyBootInfo(t) \/ SetAlternateInvalid(t) \/ CopyRoot(t) \/ CopySystem(t)
                     \/ ClearCache(t) \/ EndCopyThread(t)
<1>1. CASE InitSuccess(t)
  BY <1>1, ResumePrepared
<1>2. CASE RecordChunk(t)
  BY <1>2, ResumeRecord
<1>3. ASSUME ~InitSuccess(t), ~RecordChunk(t)
      PROVE  /\ Up /\ Up' /\ UNCHANGED <<state, chunks, disk, whichChunk>>
             /\ synced'.manifest = synced.manifest /\ synced'.journal = synced.journal
  <2>1. pc[t] \in CopyPc \union ChunkPc
    BY DEF WorkerStep, CopyBootInfo, SetAlternateInvalid, CopyRoot, CopySystem, ClearCache, InitSuccess,
           EndCopyThread, FindJob, WriteChunk, RecordChunk, EndProcessThread, CopyPc, ChunkPc
  <2>2. Up
    BY <2>1, Alone DEF Basis
  <2>3. UNCHANGED <<mainVars, disk>>
    BY <1>3 DEF WorkerStep, CopyBootInfo, SetAlternateInvalid, CopyRoot, CopySystem, ClearCache, CopyPartition,
                EndCopyThread, FindJob, WriteChunk, EndProcessThread, diskVars
  <2>4. synced'.manifest = synced.manifest /\ synced'.journal = synced.journal
    <3>1. CASE SetAlternateInvalid(t)
      BY <3>1 DEF SetAlternateInvalid, Basis, TypeOK, Medium
    <3>2. CASE ~SetAlternateInvalid(t)
      BY <1>3, <3>2 DEF WorkerStep, CopyBootInfo, CopyRoot, CopySystem, ClearCache, CopyPartition,
                        EndCopyThread, FindJob, WriteChunk, EndProcessThread, diskVars
    <3> QED
      BY <3>1, <3>2
  <2> QED
    BY <2>2, <2>3, <2>4 DEF mainVars, flagVars, jobVars, Up
<1>4. CASE Copies \/ EndProcessThread(t)
  <2>1. PICK next \in {"setValidity", "copyRoot", "copySystem", "clearCache", "initSuccess", "exited"} : Goto(t, next)
    BY <1>4 DEF CopyBootInfo, SetAlternateInvalid, CopyRoot, CopySystem, ClearCache, CopyPartition,
                EndCopyThread, EndProcessThread
  <2>2. pc[t] \in CopyPc \union ChunkPc
    BY <1>4 DEF CopyBootInfo, SetAlternateInvalid, CopyRoot, CopySystem, ClearCache,
           EndCopyThread, EndProcessThread, CopyPc, ChunkPc
  <2>3. \A u \in Thread \ {t} : pc[u] = "free"
    BY <2>2, Alone DEF Basis
  <2>4. \A u \in Thread : pc'[u] \notin {"write", "record"}
    BY <2>1, <2>3 DEF Goto, Basis, TypeOK
  <2>5. ~InitSuccess(t) /\ ~RecordChunk(t)
    BY <1>4 DEF CopyBootInfo, SetAlternateInvalid, CopyRoot, CopySystem, ClearCache,
           EndCopyThread, EndProcessThread, InitSuccess, RecordChunk
  <2> QED
    BY <1>3, <2>4, <2>5, EntryNone, MirrorFrame
<1>5. CASE FindJob(t) \/ WriteChunk(t)
  <2>1. pc[t] \in {"find", "write"}
    BY <1>5 DEF FindJob, WriteChunk
  <2>2. \A u \in Thread \ {t} : pc[u] = "free" /\ pc'[u] = "free"
    BY <1>5, <2>1, Alone DEF FindJob, WriteChunk, Goto, ChunkPc, Basis, TypeOK
  <2>3. pc'[t] \in {"write", "record"} => local'[t].index = FindChunk(chunks, whichChunk)
    <3>1. CASE FindJob(t)
      BY <3>1 DEF FindJob, Goto, JobEntry, Basis, TypeOK
    <3>2. CASE WriteChunk(t)
      <4>1. pc[t] = "write" /\ local'[t].index = local[t].index
        BY <3>2 DEF WriteChunk, Basis, TypeOK
      <4> QED
        BY <4>1 DEF Mirrored, EntryFound
    <3> QED
      BY <1>5, <3>1, <3>2
  <2>4. ~InitSuccess(t) /\ ~RecordChunk(t)
    BY <2>1 DEF InitSuccess, RecordChunk
  <2>5. EntryFound'
    BY <1>3, <2>2, <2>3, <2>4 DEF EntryFound
  <2> QED
    BY <1>3, <2>4, <2>5, MirrorFrame
<1> QED
  BY <1>1, <1>2, <1>4, <1>5 DEF WorkerStep
-----------------------------------------------------------------------------
(* The end of the process, and its start *)

LEMMA ResumeStop ==
  ASSUME Basis, Mirrored, Replayable, Kill \/ PowerLoss
  PROVE  Mirrored' /\ Simulated
<1>1. /\ Up /\ ~Up' /\ ~Cleaning /\ ~Cleaning' /\ main # "down" /\ main' = "down"
      /\ \A t \in Thread : pc'[t] = "free"
  <2>1. Stop
    BY DEF Kill, PowerLoss
  <2>2. main # "down" /\ ~Cleaning
    BY <2>1, ReplayableMeans DEF Stop, MayStop
  <2> QED
    BY <2>1, <2>2, Alone DEF Stop, Up, Cleaning, Basis
<1>2. EntryFound' /\ Mirrors' /\ Forgotten' /\ ~Muddled'
  BY <1>1, EntryNone DEF Mirrors, Forgotten, Muddled
<1>3. /\ ListKept = chunks /\ ListKept' = Offered(disk'.manifest, disk'.journal)
      /\ ListOnMedium = Offered(synced.manifest, synced.journal)
      /\ ListOnMedium' = Offered(synced'.manifest, synced'.journal)
  BY <1>1 DEF ListKept, ListOnMedium
<1>4. ~Muddled => chunks = Offered(disk.manifest, disk.journal)
  BY <1>1 DEF Mirrored, Mirrors
<1>5. CASE Kill
  <2>1. UNCHANGED <<disk, synced>>
    BY <1>5 DEF Kill, diskVars
  <2>2. Mirrored'
    BY <1>1, <1>2, <2>1 DEF Mirrored, OnMedium
  <2>3. CASE ~Muddled
    <3>1. UNCHANGED <<ListKept, ListOnMedium>> /\ Muddled' = Muddled
      BY <1>2, <1>3, <1>4, <2>1, <2>3 DEF Muddled
    <3> QED
      BY <2>2, <3>1, IsNothing
  <2> QED
    BY <2>2, <2>3, IsMuddled
<1>6. CASE PowerLoss
  <2>1. PICK m \in {disk.manifest, synced.manifest}, j \in {disk.journal, synced.journal} :
          /\ disk' = [manifest |-> m, journal |-> j]
          /\ synced' = [manifest |-> m, journal |-> j, fresh |-> fresh', applied |-> applied']
    BY <1>6, ReplayableMeans DEF PowerLoss
  <2>2. disk'.manifest = m /\ disk'.journal = j /\ synced'.manifest = m /\ synced'.journal = j
    BY <2>1
  <2>3. /\ synced.manifest \in {<<>>, disk.manifest}
        /\ synced.manifest = <<>> => disk.journal = <<>> /\ synced.journal = <<>>
    BY <1>1 DEF Mirrored, OnMedium
  <2>4. Mirrored'
    BY <1>2, <2>2, <2>3 DEF Mirrored, OnMedium
  <2>5. ASSUME ~Muddled PROVE Simulated
    <3>1. CASE m = disk.manifest /\ j = disk.journal
      BY <1>2, <1>3, <1>4, <2>2, <2>5, <3>1, IsSave
    <3>2. CASE m = synced.manifest /\ j = synced.journal
      BY <1>2, <1>3, <2>2, <2>5, <3>2, IsPowerFailure
    <3> QED
      BY <2>3, <3>1, <3>2
  <2> QED
    BY <2>4, <2>5, IsMuddled
<1> QED
  BY <1>5, <1>6

LEMMA ResumeRestart ==
  ASSUME Basis, Mirrored, Replayable, Restart
  PROVE  Mirrored' /\ Simulated
<1> DEFINE m == disk.manifest
           j == disk.journal
<1>1. /\ main = "down" /\ ~Cleaning /\ ~Muddled /\ UNCHANGED <<disk, synced>>
      /\ m \in Seq(Ident) /\ m # <<>> <=> Len(m) # 0
  BY ReplayableMeans DEF Restart, Cleaning, Muddled, Basis, TypeOK, CacheDir
<1>2. EntryFound'
  <2>1. copyThread = None /\ processThread = None /\ UNCHANGED pc
    BY <1>1 DEF Restart, Basis, HandleInv, workerVars
  <2>2. \A t \in Thread : pc'[t] = "free"
    BY <2>1, Alone DEF Basis
  <2> QED
    BY <2>2, EntryNone
<1>3. /\ synced.manifest \in {<<>>, m}
      /\ synced.manifest = <<>> => j = <<>> /\ synced.journal = <<>>
  BY <1>1 DEF Mirrored, OnMedium
<1>4. OnMedium'
  BY <1>1, <1>3 DEF OnMedium
<1>5. ListKept = Offered(m, j) /\ ListOnMedium = Offered(synced.manifest, synced.journal)
  BY <1>1 DEF ListKept, ListOnMedium
<1>6. CASE m # <<>> /\ ForeignLine(m, j)
  <2>1. main' = "rmManifest" /\ chunks' = <<>> /\ Cleaning' /\ ~Up'
    BY <1>6 DEF Restart, Cleaning, Up
  <2>2. Mirrored'
    BY <1>2, <1>4, <2>1 DEF Mirrored, Mirrors, Forgotten
  <2>3. ~Muddled' /\ ListKept' = <<>> /\ ListOnMedium' = <<>>
    BY <2>1 DEF Muddled, ListKept, ListOnMedium
  <2> QED
    BY <2>2, <2>3, IsEnd
<1>7. CASE ~(m # <<>> /\ ForeignLine(m, j))
  <2>1. main' = "loop" /\ Up' /\ ~Cleaning'
    BY <1>7 DEF Restart, Up, Cleaning
  <2>2. chunks' = Offered(m, j) /\ Len(chunks') = Len(m) /\ (chunks' # <<>> => m # <<>>)
    <3>1. CASE m = <<>>
      <4>1. j = <<>> /\ chunks' = <<>>
        BY <1>3, <3>1 DEF Restart
      <4> QED
        BY <3>1, <4>1, OfferedNothing
    <3>2. CASE m # <<>>
      <4>1. ~ForeignLine(m, j) /\ chunks' = Replay(m, j)
        BY <1>7, <3>2 DEF Restart
      <4> QED
        BY <1>1, <3>2, <4>1, OfferedShape
    <3> QED
      BY <3>1, <3>2
  <2>3. state' = "Idle" => synced.manifest = <<>> /\ chunks' = <<>>
    <3>1. state' = "Idle" => m = <<>>
      BY <1>7 DEF Restart
    <3> QED
      BY <1>3, <2>2, <3>1
  <2>4. ~Muddled'
    BY <1>1, <2>1, <2>2 DEF Muddled
  <2>5. Mirrored'
    BY <1>1, <1>2, <1>4, <2>1, <2>2, <2>3, <2>4 DEF Mirrored, Mirrors, Forgotten
  <2>6. ListKept' = ListKept /\ ListOnMedium' = ListOnMedium /\ Muddled' = Muddled
    BY <1>1, <1>5, <2>1, <2>2, <2>4 DEF ListKept, ListOnMedium, Muddled
  <2> QED
    BY <2>5, <2>6, IsNothing
<1> QED
  BY <1>6, <1>7

LEMMA ResumeStep ==
  ASSUME Basis, Mirrored, Replayable, [Next]_vars
  PROVE  Mirrored' /\ Simulated
<1>1. CASE UNCHANGED vars
  <2>1. UNCHANGED <<state, chunks, main, disk, synced, whichChunk, local, pc>>
    BY <1>1 DEF vars, jobVars, workerVars, diskVars
  <2>2. Mirrored' /\ UNCHANGED <<ListKept, ListOnMedium, Muddled>>
    BY <2>1 DEF Mirrored, OnMedium, Mirrors, Forgotten, EntryFound, ListKept, ListOnMedium, Muddled, Up, Cleaning
  <2> QED
    BY <2>2, IsNothing
<1> QED
  BY <1>1, ResumeMain, ResumeWorker, ResumeStop, ResumeRestart DEF Next

LEMMA ResumeInit == Init => Mirrored /\ Promise!Init
<1> SUFFICES ASSUME Init PROVE Mirrored /\ Promise!Init
  OBVIOUS
<1>1. /\ disk.journal = <<>> /\ disk.manifest = <<>> /\ synced.journal = <<>> /\ synced.manifest = <<>>
      /\ chunks = <<>> /\ main = "loop" /\ \A t \in Thread : pc[t] = "free"
  BY DEF Init
<1>2. ~Muddled /\ ListKept = <<>> /\ ListOnMedium = <<>>
  BY <1>1, OfferedNothing DEF Muddled, ListKept, ListOnMedium, Cleaning
<1>3. Mirrored
  BY <1>1, <1>2, OfferedNothing DEF Mirrored, OnMedium, Mirrors, Forgotten, EntryFound, Cleaning
<1> QED
  BY <1>2, <1>3 DEF Promise!Init, Muddled

LEMMA ResumeHolds == Replayable => (Spec => [](Basis /\ Mirrored) /\ KeepsUpdate)
<1> SUFFICES ASSUME Replayable PROVE Spec => [](Basis /\ Mirrored) /\ KeepsUpdate
  OBVIOUS
<1>1. "pipeline" \notin Habits
  BY ReplayableMeans
<1>2. Init => HasJob /\ HandleInv
  BY DEF Init, HasJob, HandleInv, CopyHandle, ProcessHandle, Cleaning
<1>3. TypeOK /\ HasJob /\ HandleInv /\ [Next]_vars => HasJob' /\ HandleInv'
  BY <1>1, HandleStep, HasJobStep
<1>4. Spec => []TypeOK /\ []JobStable
  BY <1>1, TypeCorrect, JobNeverSwapped, PTL
<1>5. Basis /\ Mirrored /\ [Next]_vars => Mirrored' /\ [Promise!Next]_(Promise!vars)
  BY ResumeStep DEF Simulated
<1>6. Init => Mirrored /\ Promise!Init
  BY ResumeInit
<1>7. Basis <=> TypeOK /\ HasJob /\ HandleInv /\ JobStable
  BY DEF Basis
<1> QED
  BY <1>2, <1>3, <1>4, <1>5, <1>6, <1>7, PTL DEF Spec, KeepsUpdate, Promise!Spec

\* The server keeps what a client relies on when it resumes an update, whenever the process died
\* or the power failed and whatever system call failed: what the cache directory says is the list
\* (processManifest, processChunk, the constructor), and what the medium says lags by one outcome.
THEOREM UpdateIsKept == Replayable => (Spec => KeepsUpdate)
BY ResumeHolds, PTL

\* The case that promise leaves out, a list with the chunks of two manifests, takes a copy thread
\* that could not be started: BeginUpdate then leaves its chunks in the list of an idle server.
THEOREM ListsDoNotMix == Replayable /\ ~StartFails => (Spec => []~Muddled)
<1> SUFFICES ASSUME Replayable, ~StartFails PROVE Spec => []~Muddled
  OBVIOUS
<1>1. Basis /\ Mirrored => ~Muddled
  BY Alone DEF Mirrored, Mirrors, Muddled, Basis
<1> QED
  BY <1>1, ResumeHolds, PTL
=============================================================================
