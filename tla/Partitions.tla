---------------------------- MODULE Partitions ----------------------------
(***************************************************************************)
(* What the server does to partitions: the main thread reads and writes    *)
(* boot flags, a worker thread prepares the alternate container and        *)
(* applies chunks, both over one configuration and one mount point, while  *)
(* the client cancels and the process ends and is started again.           *)
(***************************************************************************)
EXTENDS CopyFile

CONSTANTS
  Chunks,        \* chunks that a manifest may have
  Preparations,  \* what prepareForUpdate may decide to copy, and whether to clear the cache
  Habits         \* {"maintain"}: boot messages are sent while a worker runs

ChunkType == {"Image", "Archive", "File"}
ChunkInfo == [type: ChunkType, dest: Parts, hash: HashAlgorithm, file: Files,
              offset: Nat, size: Nat, complete: BOOLEAN]
Preparation == [parts: SUBSET {"BootInfo", "Root", "System"}, clear: BOOLEAN]

ASSUME ChunkAssumption ==
  /\ Chunks \subseteq ChunkInfo /\ Preparations \subseteq Preparation /\ Habits \subseteq {"maintain"}
  /\ \A c \in Chunks : c.size + 1 < Word
  /\ {"BootInfo", "Root", "System", "Cache"} \subseteq Parts
  /\ Users = {"main", "worker"}

VARIABLES
  phase,    \* "config": reading the configuration; "up": serving; "down": ended
  todo,     \* todo[u]: what is left of the calls that u is in the middle of
  job,      \* what the worker works on, or has worked on last
  result,   \* how that ended
  trouble,  \* something failed or was canceled during the job
  overlap   \* boot messages met a working worker since the server started

jobVars == <<phase, todo, job, result, trouble, overlap>>
vars == <<configVars, mountVars, copyVars, jobVars>>

NoJob == [kind |-> "none"]
Job == {NoJob} \union [kind: {"init"}, preparation: Preparations]
               \union [kind: {"chunk"}, chunk: Chunks]

\* A call to be made: CopyFileData, or something done on a partition that is mounted for it.
CopyTo(d, s, o, n) == [do |-> "copy", dest |-> d, src |-> s, offset |-> o, len |-> n]
OnMount(do, d, type, file) == [do |-> do, dev |-> d, type |-> type, file |-> file]

BootFlags(do, c) == OnMount(do, GetDevice(c, "BootInfo"), "ext4", "uEnvAB.txt")

\* Mutated form of CopyPartition: the wrong way round.
CopyPartitionBack(p) ==
  <<CopyTo(GetDevice("Active", p), GetDevice("Alternate", p), 0, 0)>>

CopyPartition(p) ==
  <<CopyTo(GetDevice("Alternate", p), GetDevice("Active", p), 0, 0)>>

When(b, s) == IF b THEN s ELSE <<>>

\* initUpdateFunction.  The cache is mounted as ext4 whatever its type is.
InitTasks(p) ==
  LET cache == GetDevice("Alternate", "Cache") IN
     When("BootInfo" \in p.parts, CopyPartition("BootInfo") \o <<BootFlags("write", "Alternate")>>)
  \o When("Root" \in p.parts, CopyPartition("Root"))
  \o When("System" \in p.parts, CopyPartition("System"))
  \o When(p.clear /\ cache # NoDevice, <<OnMount("clear", cache, "ext4", "")>>)

\* processChunkFile, for a file that is there and has the hash of its chunk.
ChunkTasks(c) ==
  LET d == GetDevice("Alternate", c.dest)
      on(do) == <<OnMount(do, d, GetFilesystemType(d), c.file)>>
  IN CASE c.type = "Image"   -> <<CopyTo(d, c.file, c.offset, c.size)>>
       [] c.type = "Archive" -> on(IF c.complete THEN "clear" ELSE "look") \o on("add")
       [] c.type = "File"    -> on("add")

Idle(u) == todo[u] = <<>>
Task(u) == Head(todo[u])

Init ==
  /\ ConfigInit /\ MountInit /\ CopyInit
  /\ content = [d \in Devices |-> [bytes |-> [k \in 0 .. SizeOf[d] - 1 |-> Byte(d, k)],
                                   files |-> {"old"}]]
  /\ phase = "config" /\ todo = [u \in Users |-> <<>>]
  /\ job = NoJob /\ result = "none" /\ trouble = FALSE /\ overlap = FALSE

Configure ==
  /\ phase = "config"
  /\ (\E l \in ConfLines : ReadLine(l)) \/ (\E a \in HashLines : ReadHash(a))
  /\ UNCHANGED <<mountVars, copyVars, jobVars>>

\* The file has been read; the constructor of UBootManager reads both containers' flags.
Start ==
  /\ phase # "up" /\ phase' = "up"
  /\ todo' = [todo EXCEPT !["main"] = <<BootFlags("read", "Active"), BootFlags("read", "Alternate")>>]
  /\ UNCHANGED <<configVars, mountVars, copyVars, job, result, trouble, overlap>>

Message == phase = "up" /\ Idle("main")

\* BeginUpdate or ContinueUpdate: SetValidity, and then the thread that copies parts.
Prepare(p) ==
  /\ Message /\ Valid /\ Idle("worker") /\ ~cancelUpdate
  /\ todo' = [todo EXCEPT !["main"] = <<BootFlags("write", "Alternate"), [do |-> "spawn"]>>]
  /\ job' = [kind |-> "init", preparation |-> p] /\ result' = "none" /\ trouble' = FALSE
  /\ UNCHANGED <<configVars, mountVars, copyVars, phase, overlap>>

Spawn ==
  /\ ~Idle("main") /\ Task("main").do = "spawn"
  /\ todo' = [main |-> <<>>, worker |-> InitTasks(job.preparation)]
  /\ UNCHANGED <<configVars, mountVars, copyVars, phase, job, result, trouble, overlap>>

\* ProcessChunk.  Without a program for its algorithm the hash is never the right one.
ProcessChunk(c) ==
  /\ Message /\ Valid /\ Idle("worker") /\ ~cancelUpdate
  /\ job' = [kind |-> "chunk", chunk |-> c] /\ trouble' = FALSE
  /\ IF c.hash \in hashAlgorithms
     THEN todo' = [todo EXCEPT !["worker"] = ChunkTasks(c)] /\ result' = "none"
     ELSE result' = "failed" /\ UNCHANGED todo
  /\ UNCHANGED <<configVars, mountVars, copyVars, phase, overlap>>

\* BootManagement, or Finalize: the flags of one container are written.
SetFlags(c) ==
  /\ Message /\ Valid /\ (Idle("worker") \/ "maintain" \in Habits)
  /\ todo' = [todo EXCEPT !["main"] = <<BootFlags("write", c)>>]
  /\ overlap' = (overlap \/ ~Idle("worker"))
  /\ UNCHANGED <<configVars, mountVars, copyVars, phase, job, result, trouble>>

\* CancelUpdate, and the end of it in Process() when the worker has been joined.
Cancel ==
  /\ Message /\ Valid /\ cancelUpdate' = TRUE /\ trouble' = TRUE
  /\ UNCHANGED <<configVars, mountVars, content, copy, phase, todo, job, result, overlap>>

FinishCancel ==
  /\ Message /\ Idle("worker") /\ cancelUpdate /\ cancelUpdate' = FALSE
  /\ job' = NoJob /\ result' = "none"
  /\ UNCHANGED <<configVars, mountVars, content, copy, phase, todo, trouble, overlap>>

\* The process ends and init starts it again: what is mounted stays mounted, and the
\* configuration is read again from the same file.
Terminated ==
  /\ pc' = [u \in Users |-> "idle"] /\ open' = [u \in Users |-> NoFile]
  /\ isMounted' = [u \in Users |-> FALSE] /\ copy' = NoCopy /\ cancelUpdate' = FALSE
  /\ phase' = "down" /\ todo' = [u \in Users |-> <<>>]
  /\ job' = NoJob /\ result' = "none" /\ trouble' = FALSE /\ overlap' = FALSE
  /\ UNCHANGED <<configVars, stack, content>>

Kill == phase = "up" /\ "kill" \in Faults /\ Terminated

\* A message meets a configuration without partitions that exist once: nothing catches
\* what Valid() throws.
Throw == Message /\ ~Valid /\ Terminated

-----------------------------------------------------------------------------
\* The call that u was in has returned; a chunk is given up when one fails.
DropTask(u, ok) ==
  /\ todo' = [todo EXCEPT ![u] = IF ok THEN Tail(@) ELSE <<>>]
  /\ result' = IF u = "main" THEN result
               ELSE IF ~ok THEN "failed"
               ELSE IF Len(todo[u]) = 1 THEN "succeeded" ELSE result

OnMountPoint(u) == ~Idle(u) /\ Task(u).do \in {"read", "write", "clear", "look", "add"}

FilesOn(x) == IF x \in Devices THEN content[x].files ELSE {}

\* What is done between open and close.  The names to be removed come from the directory
\* that is open, but each is removed by its path; tar and cp hold what they write to.
Use(u) ==
  LET t == Task(u)
      d == IF t.do = "clear" THEN Top ELSE open[u]
      new == IF t.do = "clear" THEN FilesOn(d) \ FilesOn(open[u]) ELSE FilesOn(d) \union {t.file}
  IN content' = IF d \notin Devices \/ t.do \in {"read", "look"} THEN content
                ELSE [content EXCEPT ![d] = [bytes |-> [k \in DOMAIN @.bytes |-> FsByte],
                                             files |-> new]]

MountStep(u) ==
  /\ OnMountPoint(u)
  /\ \/ /\ CheckDevice(u, Task(u).dev) \/ CheckPath(u) \/ OpenPath(u)
           \/ MountDevice(u, Task(u).dev, Task(u).type)
           \/ (~CanMount(Task(u).dev, Task(u).type) /\ MountFails(u))
        /\ UNCHANGED <<content, todo, result>>
     \/ ClosePath(u) /\ Use(u) /\ UNCHANGED <<todo, result>>
     \/ /\ CheckUnmount(u) \/ Unmount(u)
        /\ IF pc'[u] = "idle"
           THEN DropTask(u, u = "main" \/ job.kind = "init" \/ isMounted[u])
           ELSE UNCHANGED <<todo, result>>
        /\ UNCHANGED content
  /\ UNCHANGED <<configVars, copy, cancelUpdate, phase, job, trouble, overlap>>

\* Mutated form of WroteAll: less than all is too little.
WroteEnough(t) == copy.total >= t.len

WroteAll(t) == copy.total = t.len

\* initUpdateFunction does not look at what CopyFileData returns.
CopyTask(u) ==
  /\ ~Idle(u) /\ Task(u).do = "copy"
  /\ \/ /\ StartCopy(Task(u)) \/ CopyBlock(Task(u)) \/ LeaveLoop(Task(u))
        /\ UNCHANGED <<todo, result, trouble>>
     \/ /\ GoesOn(Task(u)) /\ WriteShort(Task(u), Room(Task(u)))
        /\ trouble' = TRUE /\ UNCHANGED <<todo, result>>
     \/ /\ copy.state = "returned" /\ copy' = NoCopy
        /\ DropTask(u, job.kind = "init" \/ WroteAll(Task(u)))
        /\ UNCHANGED <<content, cancelUpdate, trouble>>
  /\ UNCHANGED <<configVars, mountVars, phase, job, overlap>>

\* A system call fails.
MountFault(u) ==
  /\ "mount" \in Faults /\ OnMountPoint(u) /\ MountFails(u)
  /\ trouble' = (trouble \/ u = "worker")
  /\ UNCHANGED <<configVars, copyVars, phase, todo, job, result, overlap>>

CopyFault(u) ==
  /\ ~Idle(u) /\ Task(u).do = "copy" /\ GoesOn(Task(u)) /\ trouble' = TRUE
  /\ \/ "read" \in Faults /\ ReadFails(Task(u))
     \/ "write" \in Faults /\ \E n \in 0 .. Room(Task(u)) : WriteShort(Task(u), n)
  /\ UNCHANGED <<configVars, mountVars, phase, todo, job, result, overlap>>

UserStep(u) == MountStep(u) \/ CopyTask(u) \/ (u = "main" /\ Spawn)

Client ==
  \/ \E p \in Preparations : Prepare(p)
  \/ \E c \in Chunks : ProcessChunk(c)
  \/ \E c \in {"Active", "Alternate"} : SetFlags(c)
  \/ Cancel

Next ==
  \/ Configure \/ Start \/ Client \/ FinishCancel \/ Kill \/ Throw
  \/ \E u \in Users : UserStep(u) \/ MountFault(u) \/ CopyFault(u)

\* Both threads run on as long as they have something to do.
Fairness == \A u \in Users : WF_vars(UserStep(u))

Spec == Init /\ [][Next]_vars /\ Fairness
-----------------------------------------------------------------------------
\* Every variable keeps its type; what was copied fits into a uint64_t whatever read() says.
TypeOK ==
  /\ ConfigTypeOK /\ MountTypeOK /\ CopyTypeOK
  /\ phase \in {"config", "up", "down"} /\ DOMAIN todo = Users /\ job \in Job
  /\ result \in {"none", "failed", "succeeded"} /\ trouble \in BOOLEAN /\ overlap \in BOOLEAN

\* No partition of the running container is written, except the boot flags and what exists
\* once, whoever else mounts, whatever fails and whatever was left mounted, as long as no
\* device is configured as two partitions (ConfApart in PartitionsProofs).
OfRunning(d) ==
  \E p \in Parts \ {"BootInfo"} : ~IsSinglePartition(p) /\ GetDevice("Active", p) = d

NeverActive == [][\A d \in Devices : content'[d] # content[d] => ~OfRunning(d)]_vars

\* What a chunk or a preparation promises when it ends well.
ChunkDone(c, d) ==
  CASE c.type = "Image"   -> \A k \in 0 .. c.size - 1 : content[d].bytes[c.offset + k] = Byte(c.file, k)
    [] c.type = "Archive" -> c.file \in content[d].files /\ (c.complete => content[d].files = {c.file})
    [] c.type = "File"    -> c.file \in content[d].files

Copied(p) ==
  LET s == GetDevice("Active", p)
      d == GetDevice("Alternate", p)
  IN s \in Devices /\ d \in Devices => \A k \in 0 .. SizeOf[s] - 1 : content[d].bytes[k] = content[s].bytes[k]

CacheCleared ==
  LET d == GetDevice("Alternate", "Cache")
  IN d \in Devices \ Fstab[active] /\ OnDisk[d] = "ext4" => content[d].files = {}

ChunkInPlace ==
  job.kind = "chunk" /\ job.chunk.dest # "BootInfo" /\ result = "succeeded" =>
    ChunkDone(job.chunk, GetDevice("Alternate", job.chunk.dest))

\* Unless a boot message was handled meanwhile, a chunk that succeeded is where the
\* configuration says, and after a preparation without a failure or a cancel the
\* alternate container is a copy, with an empty cache: as long as no device is configured
\* as two partitions (ConfApart), and but for the partition of the boot flags, where the
\* server goes on writing.
JobInPlace ==
  ~overlap =>
    /\ ChunkInPlace
    /\ job.kind = "init" /\ result = "succeeded" /\ ~trouble =>
         /\ job.preparation.clear => CacheCleared
         /\ \A p \in job.preparation.parts \ {"BootInfo"} : Copied(p)

\* The server starts its work with a free mount point, also after it died with something
\* mounted, and leaves it free.
MountPointFree ==
  phase = "up" /\ ~overlap /\ (\A u \in Users : Idle(u)) => stack = <<>>

\* Every preparation and every chunk ends: no copy goes on for ever.
JobEnds == ~Idle("worker") ~> Idle("worker")
=============================================================================
