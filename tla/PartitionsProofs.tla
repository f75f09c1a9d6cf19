-------------------------- MODULE PartitionsProofs --------------------------
(***************************************************************************)
(* Theorems of Partitions, for all configurations, boards, chunks, faults  *)
(* and widths, and for the configurations that their assumptions allow.    *)
(***************************************************************************)
EXTENDS Partitions, TLAPS, SequenceTheorems

USE ConfAssumption, MountAssumption, PlaceAssumption, CopyAssumption, ChunkAssumption
-----------------------------------------------------------------------------
(* Types: the calls that a thread is in the middle of, and what they allow *)

MountDo == {"read", "write", "clear", "look", "add"}
Place == Devices \union {NoDevice}
ToCopy == [do: {"copy"}, dest: Place, src: Place \union Files, offset: Nat, len: 0 .. Word - 1]
ToMount == [do: MountDo, dev: Place, type: FsType \union {""}, file: Files \union {"uEnvAB.txt", ""}]
MainTasks == {t \in ToMount : t.do \in {"read", "write"}} \union {[do |-> "spawn"]}
WorkerTasks == ToCopy \union {t \in ToMount : t.do # "read"}

Queues ==
  /\ DOMAIN todo = Users
  /\ todo["main"] \in Seq(MainTasks) /\ todo["worker"] \in Seq(WorkerTasks)

\* A copy that goes on is inside its source and its destination.
CopyOk ==
  LET t == Task("worker")
  IN /\ OpensAndSeeks(t) /\ copy.total <= SizeOf[t.src] /\ t.offset + copy.total <= SizeOf[t.dest]
     /\ t.len # 0 => copy.total + copy.remaining = t.len

Calls ==
  /\ \A u \in Users : (pc[u] # "idle" => OnMountPoint(u)) /\ (pc[u] # "inUse" => open[u] = NoFile)
  /\ copy.state # "none" => ~Idle("worker") /\ Task("worker").do = "copy"
  /\ copy.state = "open" => CopyOk
  /\ \A i \in DOMAIN todo["main"] : todo["main"][i].do = "spawn" => job.kind = "init" /\ Idle("worker")

Quiet == (phase # "up" => \A u \in Users : Idle(u)) /\ (phase = "config" => stack = <<>>)

Base == TypeOK /\ Queues /\ Calls /\ Quiet
-----------------------------------------------------------------------------
\* Sequences of the tasks that a predicate allows.
LEMMA SeqOfOne == ASSUME NEW S, NEW a \in S PROVE <<a>> \in Seq(S)
  OBVIOUS

LEMMA SeqOfTwo == ASSUME NEW S, NEW a \in S, NEW b \in S PROVE <<a, b>> \in Seq(S)
  OBVIOUS

LEMMA SeqOfBoth == ASSUME NEW S, NEW a \in Seq(S), NEW b \in Seq(S) PROVE a \o b \in Seq(S)
  BY ConcatProperties

LEMMA DeviceType ==
  ASSUME TypeOK, NEW c \in Containers, NEW p \in Parts
  PROVE  GetDevice(c, p) \in Place
<1>1. partitions \in [Containers -> [Parts \union {"unknown"} -> Place]]
  BY DEF TypeOK, ConfigTypeOK, Place
<1> QED
  BY <1>1 DEF GetDevice

LEMMA BootFlagsType ==
  ASSUME TypeOK, NEW do \in {"read", "write"}, NEW c \in {"Active", "Alternate"}
  PROVE  BootFlags(do, c) \in MainTasks /\ (do = "write" => BootFlags(do, c) \in WorkerTasks)
<1>1. GetDevice(c, "BootInfo") \in Place
  BY DeviceType DEF Containers
<1> QED
  BY <1>1 DEF BootFlags, OnMount, MainTasks, WorkerTasks, ToMount, MountDo, FsType

LEMMA CopyPartitionType ==
  ASSUME TypeOK, NEW p \in Parts
  PROVE  CopyTo(GetDevice("Alternate", p), GetDevice("Active", p), 0, 0) \in WorkerTasks
<1>1. GetDevice("Alternate", p) \in Place /\ GetDevice("Active", p) \in Place
  BY DeviceType DEF Containers
<1> QED
  BY <1>1 DEF CopyTo, WorkerTasks, ToCopy

LEMMA ClearType ==
  ASSUME TypeOK
  PROVE  OnMount("clear", GetDevice("Alternate", "Cache"), "ext4", "") \in WorkerTasks
<1>1. GetDevice("Alternate", "Cache") \in Place
  BY DeviceType DEF Containers
<1> QED
  BY <1>1 DEF OnMount, WorkerTasks, ToMount, MountDo, FsType

\* The tasks of a preparation are tasks of any set that holds each of them.
LEMMA InitTasksIn ==
  ASSUME NEW p \in Preparations, NEW S,
         CopyTo(GetDevice("Alternate", "BootInfo"), GetDevice("Active", "BootInfo"), 0, 0) \in S,
         CopyTo(GetDevice("Alternate", "Root"), GetDevice("Active", "Root"), 0, 0) \in S,
         CopyTo(GetDevice("Alternate", "System"), GetDevice("Active", "System"), 0, 0) \in S,
         BootFlags("write", "Alternate") \in S,
         OnMount("clear", GetDevice("Alternate", "Cache"), "ext4", "") \in S
  PROVE  InitTasks(p) \in Seq(S)
<1> p \in Preparation /\ p.clear \in BOOLEAN
  BY DEF Preparation
<1>1. CopyPartition("BootInfo") \o <<BootFlags("write", "Alternate")>> \in Seq(S)
  BY SeqOfOne, SeqOfBoth DEF CopyPartition
<1>2. CopyPartition("Root") \in Seq(S) /\ CopyPartition("System") \in Seq(S)
  BY SeqOfOne DEF CopyPartition
<1>3. <<OnMount("clear", GetDevice("Alternate", "Cache"), "ext4", "")>> \in Seq(S)
  BY SeqOfOne
<1> <<>> \in Seq(S)
  BY EmptySeq
<1>4. When("BootInfo" \in p.parts, CopyPartition("BootInfo") \o <<BootFlags("write", "Alternate")>>) \in Seq(S)
  BY <1>1 DEF When
<1>5. /\ When("Root" \in p.parts, CopyPartition("Root")) \in Seq(S)
      /\ When("System" \in p.parts, CopyPartition("System")) \in Seq(S)
  BY <1>2 DEF When
<1>6. When(p.clear /\ GetDevice("Alternate", "Cache") # NoDevice,
           <<OnMount("clear", GetDevice("Alternate", "Cache"), "ext4", "")>>) \in Seq(S)
  BY <1>3 DEF When
<1> QED
  BY <1>4, <1>5, <1>6, SeqOfBoth DEF InitTasks

LEMMA InitTasksType ==
  ASSUME TypeOK, NEW p \in Preparations
  PROVE  InitTasks(p) \in Seq(WorkerTasks)
  BY InitTasksIn, BootFlagsType, CopyPartitionType, ClearType

LEMMA ChunkTasksIn ==
  ASSUME NEW c \in Chunks, NEW S,
         CopyTo(GetDevice("Alternate", c.dest), c.file, c.offset, c.size) \in S,
         \A do \in {"clear", "look", "add"} :
            OnMount(do, GetDevice("Alternate", c.dest), GetFilesystemType(GetDevice("Alternate", c.dest)), c.file) \in S
  PROVE  ChunkTasks(c) \in Seq(S)
<1>1. c.type \in ChunkType
  BY DEF ChunkInfo
<1>2. CASE c.type = "Image"
  BY <1>2, SeqOfOne DEF ChunkTasks
<1>3. CASE c.type = "Archive"
  BY <1>3, SeqOfOne, SeqOfBoth DEF ChunkTasks
<1>4. CASE c.type = "File"
  BY <1>4, SeqOfOne DEF ChunkTasks
<1> QED
  BY <1>1, <1>2, <1>3, <1>4 DEF ChunkType

LEMMA ChunkTasksType ==
  ASSUME TypeOK, NEW c \in Chunks
  PROVE  ChunkTasks(c) \in Seq(WorkerTasks)
<1> DEFINE d == GetDevice("Alternate", c.dest)
           on(do) == OnMount(do, d, GetFilesystemType(d), c.file)
<1>1. /\ c \in ChunkInfo /\ c.dest \in Parts /\ c.file \in Files
      /\ c.offset \in Nat /\ c.size \in Nat /\ c.size + 1 < Word
  BY DEF ChunkInfo
<1>2. d \in Place
  BY <1>1, DeviceType DEF Containers
<1>3. GetFilesystemType(d) \in FsType \union {""}
  BY <1>2 DEF TypeOK, ConfigTypeOK, GetFilesystemType, Place
<1>4. CopyTo(d, c.file, c.offset, c.size) \in WorkerTasks
  BY <1>1, <1>2 DEF CopyTo, WorkerTasks, ToCopy
<1>5. \A do \in {"clear", "look", "add"} : on(do) \in WorkerTasks
  BY <1>1, <1>2, <1>3 DEF OnMount, WorkerTasks, ToMount, MountDo
<1> QED
  BY <1>4, <1>5, ChunkTasksIn
-----------------------------------------------------------------------------
LEMMA NoCopyType == NoCopy \in Copy
<1>1. 0 \in 0 .. Word - 1
  OBVIOUS
<1> QED
  BY <1>1 DEF NoCopy, Copy

LEMMA InitBase == Init => Base
<1> SUFFICES ASSUME Init PROVE Base
  OBVIOUS
<1>1. ConfigTypeOK
  BY DEF Init, ConfigInit, ConfigTypeOK, HashAlgorithm
<1>2. MountTypeOK
  BY EmptySeq DEF Init, MountInit, MountTypeOK, MountPc
<1>3. CopyTypeOK
  <2>1. \A d \in Devices : content[d].bytes = [k \in 0 .. SizeOf[d] - 1 |-> Byte(d, k)]
    BY DEF Init
  <2>2. DOMAIN content = Devices
    BY DEF Init
  <2>3. copy \in Copy /\ cancelUpdate \in BOOLEAN
    BY NoCopyType DEF Init, CopyInit
  <2>4. \A d \in Devices : DOMAIN content[d].bytes = 0 .. SizeOf[d] - 1
    BY <2>1, Zenon
  <2> QED
    BY <2>2, <2>3, <2>4, Zenon DEF CopyTypeOK
<1>4. TypeOK
  BY <1>1, <1>2, <1>3 DEF Init, TypeOK, NoJob, Job
<1>5. Queues
  BY EmptySeq DEF Init, Queues
<1>6. Calls
  BY DEF Init, MountInit, CopyInit, NoCopy, Calls
<1> QED
  BY <1>4, <1>5, <1>6 DEF Base, Quiet, Init, MountInit, Idle

LEMMA ConfigureBase == Base /\ Configure => Base'
<1> SUFFICES ASSUME Base, Configure PROVE Base'
  OBVIOUS
<1> USE DEF Base
<1>1. ConfigTypeOK'
  <2>1. CASE \E l \in ConfLines : ReadLine(l)
    <3> PICK l \in ConfLines : ReadLine(l)
      BY <2>1
    <3>1. l \in ConfLine /\ l.dev \in Devices /\ l.ftype \in FsType \union {"other"}
      BY DEF ConfLine
    <3>2. l.part \in Parts \union {"unknown"}
      BY DEF ConfLine
    <3>3. partitions' \in [Containers -> [Parts \union {"unknown"} -> Devices \union {NoDevice}]]
      BY <3>1, <3>2 DEF ReadLine, TypeOK, ConfigTypeOK
    <3>4. deviceTypes' \in [Devices -> FsType \union {""}]
      BY <3>1 DEF ReadLine, TypeOK, ConfigTypeOK, FsType
    <3> QED
      BY <3>3, <3>4 DEF ReadLine, TypeOK, ConfigTypeOK
  <2>2. CASE \E a \in HashLines : ReadHash(a)
    BY <2>2 DEF ReadHash, TypeOK, ConfigTypeOK
  <2> QED
    BY <2>1, <2>2 DEF Configure
<1>2. UNCHANGED <<mountVars, copyVars, jobVars>>
  BY DEF Configure
<1>3. MountTypeOK' /\ CopyTypeOK'
  BY <1>2 DEF TypeOK, MountTypeOK, CopyTypeOK, mountVars, copyVars
<1>4. TypeOK'
  BY <1>1, <1>2, <1>3 DEF TypeOK, jobVars
<1>5. Queues' /\ Quiet'
  BY <1>2 DEF Queues, Quiet, jobVars, mountVars, Idle
<1>6. Calls'
  BY <1>2 DEF Calls, CopyOk, jobVars, mountVars, copyVars, Idle, Task, OnMountPoint, OpensAndSeeks
<1> QED
  BY <1>4, <1>5, <1>6

\* A step of the job alone, for a thread that is not inside a call.
LEMMA JobBase ==
  ASSUME Base, UNCHANGED <<configVars, mountVars, content, copy>>,
         phase' \in {"config", "up", "down"}, job' \in Job, cancelUpdate' \in BOOLEAN,
         result' \in {"none", "failed", "succeeded"}, trouble' \in BOOLEAN, overlap' \in BOOLEAN,
         Queues', Quiet',
         \A u \in Users : todo'[u] = todo[u] \/ pc[u] = "idle",
         todo'["worker"] = todo["worker"] \/ copy.state = "none",
         \A i \in DOMAIN todo'["main"] :
            todo'["main"][i].do = "spawn" => job'.kind = "init" /\ todo'["worker"] = <<>>
  PROVE  Base'
<1> USE DEF Base
<1>1. ConfigTypeOK' /\ MountTypeOK' /\ CopyTypeOK'
  BY DEF TypeOK, ConfigTypeOK, MountTypeOK, CopyTypeOK, configVars, tableVars, mountVars
<1>2. TypeOK'
  BY <1>1 DEF TypeOK, Queues
<1>3. \A u \in Users : (pc'[u] # "idle" => OnMountPoint(u)') /\ (pc'[u] # "inUse" => open'[u] = NoFile)
  BY DEF Calls, OnMountPoint, Idle, Task, mountVars
<1>4. copy.state # "none" => todo'["worker"] = todo["worker"]
  OBVIOUS
<1>5. /\ copy'.state # "none" => ~Idle("worker")' /\ Task("worker")'.do = "copy"
      /\ copy'.state = "open" => CopyOk'
  BY <1>4 DEF Calls, CopyOk, Idle, Task, OpensAndSeeks
<1>6. Calls'
  BY <1>3, <1>5 DEF Calls, Idle
<1> QED
  BY <1>2, <1>6

\* A thread that has nothing to do is not inside a call.
LEMMA IdleQuiet ==
  ASSUME Base
  PROVE  /\ \A u \in Users : Idle(u) => pc[u] = "idle"
         /\ Idle("worker") => copy.state = "none"
         /\ \A u \in Users : ~OnMountPoint(u) => pc[u] = "idle"
  BY DEF Base, Calls, OnMountPoint

LEMMA StartBase == Base /\ Start => Base'
<1> SUFFICES ASSUME Base, Start PROVE Base'
  OBVIOUS
<1>1. \A u \in Users : Idle(u)
  BY DEF Base, Quiet, Start
<1>2. BootFlags("read", "Active") \in MainTasks /\ BootFlags("read", "Alternate") \in MainTasks
  BY BootFlagsType DEF Base
<1>3. Queues'
  BY <1>2, SeqOfTwo DEF Base, Queues, Start
<1>4. todo' = [todo EXCEPT !["main"] = <<BootFlags("read", "Active"), BootFlags("read", "Alternate")>>]
  BY DEF Start
<1>5. \A i \in DOMAIN todo'["main"] : todo'["main"][i].do = "read"
  BY <1>4 DEF Base, Queues, BootFlags, OnMount
<1>6. Quiet'
  BY DEF Start, Base, Quiet
<1> QED
  BY <1>1, <1>3, <1>4, <1>5, <1>6, JobBase, IdleQuiet DEF Start, Base, TypeOK, CopyTypeOK, copyVars, Queues

LEMMA PrepareBase == ASSUME Base, NEW p \in Preparations, Prepare(p) PROVE Base'
<1>1. Idle("main") /\ Idle("worker") /\ phase = "up"
  BY DEF Prepare, Message
<1>2. todo' = [todo EXCEPT !["main"] = <<BootFlags("write", "Alternate"), [do |-> "spawn"]>>]
  BY DEF Prepare
<1>3. BootFlags("write", "Alternate") \in MainTasks /\ [do |-> "spawn"] \in MainTasks
  BY BootFlagsType DEF Base, MainTasks
<1>4. Queues'
  BY <1>2, <1>3, SeqOfTwo DEF Base, Queues
<1>5. job' \in Job /\ job'.kind = "init"
  BY DEF Prepare, Job
<1>6. Quiet' /\ UNCHANGED <<configVars, mountVars, content, copy, cancelUpdate, phase, overlap>>
  BY <1>1 DEF Prepare, Quiet, Base, copyVars, mountVars
<1>7. todo'["worker"] = <<>>
  BY <1>1, <1>2 DEF Idle, Base, Queues
<1> QED
  BY <1>1, <1>2, <1>4, <1>5, <1>6, <1>7, JobBase, IdleQuiet DEF Prepare, Base, TypeOK, CopyTypeOK, Queues, Idle

LEMMA ProcessChunkBase == ASSUME Base, NEW c \in Chunks, ProcessChunk(c) PROVE Base'
<1>1. Idle("main") /\ Idle("worker") /\ phase = "up"
  BY DEF ProcessChunk, Message
<1>2. todo' \in {todo, [todo EXCEPT !["worker"] = ChunkTasks(c)]}
  BY DEF ProcessChunk
<1>3. Queues'
  BY <1>2, ChunkTasksType DEF Base, Queues
<1>4. job' \in Job
  BY DEF ProcessChunk, Job
<1>5. Quiet' /\ UNCHANGED <<configVars, mountVars, content, copy, cancelUpdate, phase, overlap>>
  BY <1>1 DEF ProcessChunk, Quiet, Base, copyVars, mountVars
<1>6. todo'["main"] = <<>>
  BY <1>1, <1>2 DEF Idle, Base, Queues
<1>7. result' \in {"none", "failed", "succeeded"} /\ trouble' \in BOOLEAN
  BY DEF ProcessChunk
<1> QED
  BY <1>1, <1>2, <1>3, <1>4, <1>5, <1>6, <1>7, JobBase, IdleQuiet DEF Base, TypeOK, CopyTypeOK, Queues, Idle

LEMMA SetFlagsBase == ASSUME Base, NEW c \in {"Active", "Alternate"}, SetFlags(c) PROVE Base'
<1>1. Idle("main") /\ phase = "up"
  BY DEF SetFlags, Message
<1>2. todo' = [todo EXCEPT !["main"] = <<BootFlags("write", c)>>]
  BY DEF SetFlags
<1>3. BootFlags("write", c) \in MainTasks /\ BootFlags("write", c).do = "write"
  BY BootFlagsType DEF Base, BootFlags, OnMount
<1>4. Queues'
  BY <1>2, <1>3, SeqOfOne DEF Base, Queues
<1>5. Quiet' /\ UNCHANGED <<configVars, mountVars, content, copy, cancelUpdate, phase, job, result, trouble>>
  BY <1>1 DEF SetFlags, Quiet, Base, copyVars, mountVars
<1>6. todo'["worker"] = todo["worker"] /\ todo'["main"] = <<BootFlags("write", c)>>
  BY <1>2 DEF Base, Queues
<1>7. overlap' \in BOOLEAN
  BY DEF SetFlags
<1> QED
  BY <1>1, <1>3, <1>4, <1>5, <1>6, <1>7, JobBase, IdleQuiet DEF Base, TypeOK, CopyTypeOK

LEMMA CancelBase == Base /\ (Cancel \/ FinishCancel) => Base'
<1> SUFFICES ASSUME Base, Cancel \/ FinishCancel PROVE Base'
  OBVIOUS
<1>1. UNCHANGED <<configVars, mountVars, content, copy, phase, todo, overlap>> /\ Idle("main")
  BY DEF Cancel, FinishCancel, Message
<1>2. job' \in Job /\ result' \in {"none", "failed", "succeeded"} /\ trouble' \in BOOLEAN /\ cancelUpdate' \in BOOLEAN
  BY DEF Cancel, FinishCancel, Base, TypeOK, CopyTypeOK, Job, NoJob
<1>3. Queues' /\ Quiet'
  BY <1>1 DEF Base, Queues, Quiet, Idle, mountVars
<1> QED
  BY <1>1, <1>2, <1>3, JobBase DEF Base, TypeOK, Idle

LEMMA SpawnBase == Base /\ Spawn => Base'
<1> SUFFICES ASSUME Base, Spawn PROVE Base'
  OBVIOUS
<1>1. todo["main"] # <<>> /\ todo["main"][1].do = "spawn" /\ todo["main"] \in Seq(MainTasks)
  BY DEF Spawn, Idle, Task, Base, Queues
<1>2. job.kind = "init" /\ Idle("worker")
  BY <1>1 DEF Base, Calls
<1>3. job.preparation \in Preparations
  BY <1>2 DEF Base, TypeOK, Job, NoJob
<1>4. todo' = [main |-> <<>>, worker |-> InitTasks(job.preparation)]
  BY DEF Spawn
<1>5. Queues'
  BY <1>3, <1>4, EmptySeq, InitTasksType DEF Queues, Base
<1>6. ~OnMountPoint("main")
  BY <1>1 DEF OnMountPoint, Task
<1>7. phase = "up"
  BY <1>1 DEF Base, Quiet, Idle
<1>8. Quiet' /\ UNCHANGED <<configVars, mountVars, content, copy, cancelUpdate, phase, job, result, trouble, overlap>>
  BY <1>7 DEF Spawn, Quiet, copyVars
<1> QED
  BY <1>2, <1>4, <1>5, <1>6, <1>8, JobBase, IdleQuiet DEF Base, TypeOK, CopyTypeOK

LEMMA TerminatedBase == Base /\ Terminated => Base'
<1> SUFFICES ASSUME Base, Terminated PROVE Base'
  OBVIOUS
<1> USE DEF Base
<1>1. ConfigTypeOK' /\ MountTypeOK'
  BY DEF Terminated, TypeOK, ConfigTypeOK, MountTypeOK, configVars, tableVars, MountPc
<1>2. CopyTypeOK'
  BY NoCopyType DEF Terminated, TypeOK, CopyTypeOK
<1>3. TypeOK' /\ Queues'
  BY <1>1, <1>2, EmptySeq DEF Terminated, TypeOK, Queues, Job
<1>4. Calls'
  BY DEF Terminated, Calls, NoCopy
<1> QED
  BY <1>3, <1>4 DEF Terminated, Quiet, Idle
-----------------------------------------------------------------------------
(* Calls: a step inside one, and the return from one *)

LEMMA StackTop ==
  ASSUME TypeOK
  PROVE  /\ Top \in Devices \union {RootFs}
         /\ stack # <<>> => Len(stack) \in Nat \ {0} /\ Top \in Devices /\ Top = stack[Len(stack)]
<1>1. stack \in Seq(Devices)
  BY DEF TypeOK, MountTypeOK
<1> QED
  BY <1>1, EmptySeq, ElementOfSeq DEF Top

LEMMA StackPop ==
  ASSUME NEW S, NEW s \in Seq(S), s # <<>>
  PROVE  /\ SubSeq(s, 1, Len(s) - 1) \in Seq(S)
         /\ Len(SubSeq(s, 1, Len(s) - 1)) = Len(s) - 1
         /\ \A i \in DOMAIN SubSeq(s, 1, Len(s) - 1) : i \in DOMAIN s /\ SubSeq(s, 1, Len(s) - 1)[i] = s[i]
<1>1. Len(s) \in Nat \ {0} /\ DOMAIN s = 1 .. Len(s)
  BY EmptySeq, LenProperties
<1>2. \A i \in 1 .. Len(s) - 1 : s[i] \in S
  BY <1>1, ElementOfSeq
<1> QED
  BY <1>1, <1>2, SubSeqProperties, LenProperties

LEMMA TailIn ==
  ASSUME NEW S, NEW s \in Seq(S), s # <<>>, NEW P, \A i \in DOMAIN s : s[i] \in P
  PROVE  \A i \in DOMAIN Tail(s) : Tail(s)[i] \in P
<1>1. Len(s) \in Nat \ {0} /\ DOMAIN s = 1 .. Len(s)
  BY EmptySeq, LenProperties
<1>2. DOMAIN Tail(s) = 1 .. Len(s) - 1 /\ \A i \in 1 .. Len(s) - 1 : Tail(s)[i] = s[i + 1]
  BY <1>1, HeadTailProperties, LenProperties
<1> QED
  BY <1>1, <1>2

\* The task that a thread is in the middle of.
LEMMA TaskType ==
  ASSUME Base
  PROVE  /\ ~Idle("main") => Task("main") \in MainTasks
         /\ ~Idle("worker") => Task("worker") \in WorkerTasks
  BY HeadTailProperties DEF Base, Queues, Idle, Task

LEMMA OnlyMounts ==
  ASSUME Base, NEW u \in Users, OnMountPoint(u)
  PROVE  /\ Task(u).dev \in Place /\ Task(u).type \in FsType \union {""} /\ Task(u).do \in MountDo
         /\ phase = "up" /\ u = "worker" => copy.state = "none"
         /\ ~Idle(u) /\ phase = "up"
<1>1. ~Idle(u) /\ Task(u).do \in MountDo
  BY DEF OnMountPoint, MountDo
<1>2. Task(u) \in ToMount
  BY <1>1, TaskType DEF MainTasks, WorkerTasks, ToCopy, MountDo
<1>3. phase = "up"
  BY <1>1 DEF Base, Quiet
<1>4. u = "worker" => copy.state = "none"
  BY <1>1 DEF Base, Calls, MountDo
<1> QED
  BY <1>1, <1>2, <1>3, <1>4 DEF ToMount

\* A step of u inside a call on the mount point.
LEMMA InsideBase ==
  ASSUME Base, NEW u \in Users, OnMountPoint(u),
         UNCHANGED <<configVars, copy, cancelUpdate, phase, todo, job, result, overlap>>,
         MountTypeOK', CopyTypeOK', trouble' \in BOOLEAN,
         \A v \in Users \ {u} : pc'[v] = pc[v] /\ open'[v] = open[v],
         pc'[u] # "inUse" => open'[u] = NoFile
  PROVE  Base'
<1> USE DEF Base
<1>1. TypeOK'
  BY DEF TypeOK, ConfigTypeOK, configVars, tableVars
<1>2. Queues'
  BY DEF Queues
<1>3. phase' = "up"
  BY OnlyMounts
<1>4. Calls'
  BY DEF Calls, CopyOk, Idle, Task, OnMountPoint, OpensAndSeeks
<1> QED
  BY <1>1, <1>2, <1>3, <1>4 DEF Quiet

\* u drops its task, or all of them, and is not inside a call any more.
LEMMA DropBase ==
  ASSUME Base, NEW u \in Users, ~Idle(u), NEW ok \in BOOLEAN, DropTask(u, ok),
         Task(u).do # "spawn",
         UNCHANGED <<configVars, cancelUpdate, phase, job, overlap>>,
         MountTypeOK', CopyTypeOK', trouble' \in BOOLEAN,
         \A v \in Users \ {u} : pc'[v] = pc[v] /\ open'[v] = open[v],
         pc'[u] = "idle", open'[u] = NoFile,
         IF u = "worker" THEN copy'.state = "none" ELSE copy' = copy
  PROVE  Base'
<1> USE DEF Base
<1>1. todo' = [todo EXCEPT ![u] = IF ok THEN Tail(@) ELSE <<>>]
  BY DEF DropTask
<1>2. todo'[u] = IF ok THEN Tail(todo[u]) ELSE <<>>
  BY <1>1 DEF Queues
<1>3. \A v \in Users \ {u} : todo'[v] = todo[v]
  BY <1>1 DEF Queues
<1>4. Queues'
  BY <1>1, <1>2, <1>3, EmptySeq, HeadTailProperties DEF Queues, Idle
<1>5. result' \in {"none", "failed", "succeeded"}
  BY DEF DropTask, TypeOK
<1>6. TypeOK'
  BY <1>4, <1>5 DEF TypeOK, ConfigTypeOK, configVars, tableVars, Queues
<1>7. phase' = "up"
  BY DEF Quiet
<1>8. \A v \in Users : (pc'[v] # "idle" => OnMountPoint(v)') /\ (pc'[v] # "inUse" => open'[v] = NoFile)
  BY <1>3 DEF Calls, OnMountPoint, Idle, Task
<1>9. /\ copy'.state # "none" => ~Idle("worker")' /\ Task("worker")'.do = "copy"
      /\ copy'.state = "open" => CopyOk'
  <2>1. CASE u = "worker"
    BY <2>1
  <2>2. CASE u = "main"
    BY <1>3, <2>2 DEF Calls, CopyOk, Idle, Task, OpensAndSeeks
  <2> QED
    BY <2>1, <2>2
<1>10. \A i \in DOMAIN todo'["main"] : todo'["main"][i].do = "spawn" => job'.kind = "init" /\ Idle("worker")'
  <2>1. CASE u = "worker"
    BY <1>3, <2>1 DEF Calls
  <2>2. CASE u = "main" /\ ~ok
    BY <1>2, <2>2, EmptySeq
  <2>3. CASE u = "main" /\ ok
    <3> DEFINE P == {t \in MainTasks : t.do = "spawn" => job.kind = "init" /\ Idle("worker")}
    <3>1. todo["main"] \in Seq(MainTasks) /\ todo["main"] # <<>> /\ todo'["main"] = Tail(todo["main"])
      BY <1>2, <2>3 DEF Queues, Idle
    <3>2. \A i \in DOMAIN todo["main"] : todo["main"][i] \in P
      BY <3>1, ElementOfSeq, LenProperties DEF Calls
    <3> HIDE DEF P
    <3>3. \A i \in DOMAIN Tail(todo["main"]) : Tail(todo["main"])[i] \in P
      BY <3>1, <3>2, TailIn, Zenon
    <3>4. \A i \in DOMAIN todo'["main"] : todo'["main"][i] \in P
      BY <3>1, <3>3, Zenon
    <3> QED
      BY <1>3, <2>3, <3>4 DEF P, Idle
  <2> QED
    BY <2>1, <2>2, <2>3
<1> QED
  BY <1>4, <1>6, <1>7, <1>8, <1>9, <1>10 DEF Quiet, Calls

\* What a thread does on a partition that is mounted keeps the shape of the device.
LEMMA UseType ==
  ASSUME CopyTypeOK, NEW u \in Users, Use(u), UNCHANGED <<copy, cancelUpdate>>
  PROVE  CopyTypeOK'
<1> DEFINE d == IF Task(u).do = "clear" THEN Top ELSE open[u]
           new == IF Task(u).do = "clear" THEN FilesOn(d) \ FilesOn(open[u]) ELSE FilesOn(d) \union {Task(u).file}
<1>1. CASE content' = content
  BY <1>1 DEF CopyTypeOK
<1>2. CASE content' # content
  <2>1. d \in Devices
    BY <1>2 DEF Use
  <2>2. content' = [content EXCEPT ![d] = [bytes |-> [k \in DOMAIN @.bytes |-> FsByte], files |-> new]]
    BY <1>2 DEF Use
  <2> HIDE DEF d, new
  <2>3. DOMAIN content' = Devices
    BY <2>2 DEF CopyTypeOK
  <2>4. ASSUME NEW e \in Devices PROVE DOMAIN content'[e].bytes = DOMAIN content[e].bytes
    <3>1. CASE e = d
      <4>1. content'[e].bytes = [k \in DOMAIN content[e].bytes |-> FsByte]
        BY <2>2, <3>1 DEF CopyTypeOK
      <4> QED
        BY <4>1, Zenon
    <3>2. CASE e # d
      BY <2>2, <3>2 DEF CopyTypeOK
    <3> QED
      BY <3>1, <3>2
  <2> QED
    BY <2>3, <2>4 DEF CopyTypeOK
<1> QED
  BY <1>1, <1>2

LEMMA WriteType ==
  ASSUME CopyTypeOK, NEW t, NEW n, t.dest \in Devices, Write(t, n)
  PROVE  DOMAIN content' = Devices /\ \A d \in Devices : DOMAIN content'[d].bytes = 0 .. SizeOf[d] - 1
<1> DEFINE at == t.offset + copy.total
           byte(k) == IF k \in at .. at + n - 1 THEN Source(t.src, k - t.offset)
                      ELSE content[t.dest].bytes[k]
<1>1. CASE content' = content
  BY <1>1 DEF CopyTypeOK
<1>2. CASE content' # content
  <2>1. content' = [content EXCEPT ![t.dest] = [bytes |-> [k \in DOMAIN @.bytes |-> byte(k)], files |-> {}]]
    BY <1>2 DEF Write
  <2> HIDE DEF byte
  <2>2. DOMAIN content' = Devices
    BY <2>1 DEF CopyTypeOK
  <2>3. ASSUME NEW e \in Devices PROVE DOMAIN content'[e].bytes = DOMAIN content[e].bytes
    <3>1. CASE e = t.dest
      <4>1. content'[e].bytes = [k \in DOMAIN content[e].bytes |-> byte(k)]
        BY <2>1, <3>1 DEF CopyTypeOK
      <4> QED
        BY <4>1, Zenon
    <3>2. CASE e # t.dest
      BY <2>1, <3>2 DEF CopyTypeOK
    <3> QED
      BY <3>1, <3>2
  <2> QED
    BY <2>2, <2>3 DEF CopyTypeOK
<1> QED
  BY <1>1, <1>2
-----------------------------------------------------------------------------
LEMMA MountStepBase == ASSUME Base, NEW u \in Users, MountStep(u) PROVE Base'
<1> DEFINE dev == Task(u).dev
           type == Task(u).type
           frame == UNCHANGED <<configVars, copy, cancelUpdate, phase, job, trouble, overlap>>
<1>1. OnMountPoint(u) /\ frame
  BY DEF MountStep
<1>2. MountTypeOK /\ CopyTypeOK /\ trouble \in BOOLEAN /\ (pc[u] # "inUse" => open[u] = NoFile)
  BY DEF Base, TypeOK, Calls
<1>3. dev \in Place /\ ~Idle(u) /\ Task(u).do # "spawn" /\ (u = "worker" => copy.state = "none")
  BY <1>1, OnlyMounts DEF MountDo
<1>4. CASE (CheckDevice(u, dev) \/ CheckPath(u) \/ (~CanMount(dev, type) /\ MountFails(u))) /\ UNCHANGED <<content, todo, result>>
  <2>1. MountTypeOK'
    BY <1>2, <1>4 DEF CheckDevice, CheckPath, MountFails, MountTypeOK, MountPc
  <2>2. CopyTypeOK'
    BY <1>1, <1>2, <1>4 DEF CopyTypeOK
  <2> QED
    BY <1>1, <1>2, <1>4, <2>1, <2>2, InsideBase DEF CheckDevice, CheckPath, MountFails, MountTypeOK
<1>5. CASE OpenPath(u) /\ UNCHANGED <<content, todo, result>>
  <2>1. MountTypeOK'
    BY <1>2, <1>5, StackTop DEF OpenPath, MountTypeOK, MountPc, Base
  <2>2. CopyTypeOK'
    BY <1>1, <1>2, <1>5 DEF CopyTypeOK
  <2> QED
    BY <1>1, <1>2, <1>5, <2>1, <2>2, InsideBase DEF OpenPath, MountTypeOK
<1>6. CASE MountDevice(u, dev, type) /\ UNCHANGED <<content, todo, result>>
  <2>1. MountTypeOK'
    BY <1>2, <1>6, AppendProperties DEF MountDevice, CanMount, MountTypeOK, MountPc
  <2>2. CopyTypeOK'
    BY <1>1, <1>2, <1>6 DEF CopyTypeOK
  <2> QED
    BY <1>1, <1>2, <1>6, <2>1, <2>2, InsideBase DEF MountDevice, MountTypeOK
<1>7. CASE ClosePath(u) /\ Use(u) /\ UNCHANGED <<todo, result>>
  <2>1. MountTypeOK'
    BY <1>2, <1>7 DEF ClosePath, MountTypeOK, MountPc
  <2>2. CopyTypeOK'
    BY <1>1, <1>2, <1>7, UseType
  <2> QED
    BY <1>1, <1>2, <1>7, <2>1, <2>2, InsideBase DEF ClosePath, MountTypeOK
<1>8. ASSUME CheckUnmount(u) \/ Unmount(u), UNCHANGED content,
             IF pc'[u] = "idle" THEN DropTask(u, u = "main" \/ job.kind = "init" \/ isMounted[u])
             ELSE UNCHANGED <<todo, result>>
      PROVE  Base'
  <2>1. stack' \in Seq(Devices) /\ UNCHANGED <<isMounted, open>>
    <3>1. stack \in Seq(Devices)
      BY <1>2 DEF MountTypeOK
    <3>2. stack # <<>> => SubSeq(stack, 1, Len(stack) - 1) \in Seq(Devices)
      BY <3>1, StackPop, Zenon
    <3> QED
      BY <1>8, <3>1, <3>2 DEF CheckUnmount, Unmount
  <2>3. pc' \in [Users -> MountPc] /\ \A v \in Users \ {u} : pc'[v] = pc[v]
    BY <1>2, <1>8 DEF CheckUnmount, Unmount, MountTypeOK, MountPc
  <2>4. MountTypeOK' /\ CopyTypeOK'
    BY <1>1, <1>2, <1>8, <2>1, <2>3 DEF MountTypeOK, CopyTypeOK
  <2>5. open'[u] = NoFile
    BY <1>2, <1>8, <2>1 DEF CheckUnmount, Unmount
  <2>6. CASE pc'[u] = "idle"
    BY <1>1, <1>2, <1>3, <1>8, <2>1, <2>3, <2>4, <2>5, <2>6, DropBase
  <2>7. CASE pc'[u] # "idle"
    BY <1>1, <1>2, <1>8, <2>1, <2>3, <2>4, <2>5, <2>7, InsideBase
  <2> QED
    BY <2>6, <2>7
<1> QED
  BY <1>4, <1>5, <1>6, <1>7, <1>8 DEF MountStep
-----------------------------------------------------------------------------
(* Copies *)

LEMMA OnlyWorkerCopies ==
  ASSUME Base, NEW u \in Users, ~Idle(u), Task(u).do = "copy"
  PROVE  /\ u = "worker" /\ Task(u) \in ToCopy /\ pc["worker"] = "idle"
         /\ phase = "up" /\ open["worker"] = NoFile
<1>1. u = "worker"
  <2>1. Task(u).do \notin {"read", "write", "spawn"}
    OBVIOUS
  <2> QED
    BY <2>1, TaskType DEF MainTasks
<1>2. Task(u) \in ToCopy
  BY <1>1, TaskType DEF WorkerTasks, ToMount, MountDo
<1>3. pc["worker"] = "idle" /\ open["worker"] = NoFile
  BY <1>1 DEF Base, Calls, OnMountPoint
<1> QED
  BY <1>1, <1>2, <1>3 DEF Base, Quiet

\* A step of the worker inside a copy.
LEMMA InCopyBase ==
  ASSUME Base, ~Idle("worker"), Task("worker").do = "copy",
         UNCHANGED <<configVars, mountVars, phase, todo, job, result, overlap>>,
         CopyTypeOK', trouble' \in BOOLEAN, copy'.state = "open" => CopyOk'
  PROVE  Base'
<1> USE DEF Base
<1>1. TypeOK' /\ Queues'
  BY DEF TypeOK, ConfigTypeOK, MountTypeOK, Queues, configVars, tableVars, mountVars
<1>2. \A u \in Users : (pc'[u] # "idle" => OnMountPoint(u)') /\ (pc'[u] # "inUse" => open'[u] = NoFile)
  BY DEF Calls, OnMountPoint, Idle, Task, mountVars
<1>3. ~Idle("worker")' /\ Task("worker")'.do = "copy"
  BY DEF Idle, Task
<1>4. \A i \in DOMAIN todo'["main"] : todo'["main"][i].do = "spawn" => job'.kind = "init" /\ Idle("worker")'
  BY DEF Calls, Idle
<1> QED
  BY <1>1, <1>2, <1>3, <1>4 DEF Calls, Quiet, Idle, mountVars

LEMMA CopyStepType ==
  ASSUME Base, NEW t \in ToCopy, t = Task("worker"), GoesOn(t)
  PROVE  /\ t.src \in Files \union Devices /\ t.dest \in Devices
         /\ copy.total \in Nat /\ copy.remaining \in Nat /\ t.len \in Nat /\ t.offset \in Nat
         /\ SizeOf[t.src] \in Nat /\ SizeOf[t.dest] \in Nat
         /\ Bread(t) \in Nat /\ Bread(t) <= ToRead(t) /\ copy.total + Bread(t) <= SizeOf[t.src]
         /\ t.len # 0 => Bread(t) <= copy.remaining /\ copy.total + copy.remaining = t.len
         /\ t.len = 0 => ToRead(t) = BlockSize
         /\ Room(t) \in Nat /\ Room(t) = SizeOf[t.dest] - (t.offset + copy.total)
         /\ copy.total <= SizeOf[t.src]
<1>1. CopyOk /\ copy \in Copy
  BY DEF GoesOn, Base, Calls, TypeOK, CopyTypeOK
<1>2. t.src \in Files \union Devices /\ t.dest \in Devices /\ t.len \in Nat /\ t.offset \in Nat
  BY <1>1 DEF CopyOk, OpensAndSeeks, ToCopy
<1>3. copy.total \in Nat /\ copy.remaining \in Nat
  BY <1>1 DEF Copy
<1>4. SizeOf[t.src] \in Nat /\ SizeOf[t.dest] \in Nat
  BY <1>2
<1>5. copy.total <= SizeOf[t.src] /\ t.offset + copy.total <= SizeOf[t.dest]
  BY <1>1 DEF CopyOk
<1>6. Bread(t) \in Nat /\ Bread(t) <= ToRead(t) /\ copy.total + Bread(t) <= SizeOf[t.src]
  BY <1>2, <1>3, <1>4, <1>5 DEF Bread, ToRead, Least
<1>7. t.len # 0 => Bread(t) <= copy.remaining /\ copy.total + copy.remaining = t.len
  BY <1>1, <1>2, <1>3, <1>4, <1>5 DEF CopyOk, Bread, ToRead, Least
<1> QED
  BY <1>2, <1>3, <1>4, <1>5, <1>6, <1>7 DEF Room, ToRead

LEMMA CopyTaskBase == ASSUME Base, NEW u \in Users, CopyTask(u) PROVE Base'
<1> DEFINE t == Task("worker")
<1>1. ~Idle("worker") /\ t.do = "copy" /\ t \in ToCopy /\ u = "worker"
      /\ pc["worker"] = "idle" /\ phase = "up" /\ open["worker"] = NoFile
  BY OnlyWorkerCopies DEF CopyTask
<1>2. UNCHANGED <<configVars, mountVars, phase, job, overlap>>
  BY DEF CopyTask
<1>3. TypeOK /\ CopyTypeOK /\ trouble \in BOOLEAN /\ copy \in Copy /\ cancelUpdate \in BOOLEAN
  BY DEF Base, TypeOK, CopyTypeOK
<1>4. CASE StartCopy(t) /\ UNCHANGED <<todo, result, trouble>>
  <2>1. 0 \in 0 .. Word - 1 /\ t.len \in Nat
    BY <1>1 DEF ToCopy
  <2>2. copy' \in Copy
    BY <1>4, <2>1 DEF StartCopy, NoCopy, Copy
  <2>3. CopyTypeOK'
    BY <1>3, <1>4, <2>2 DEF StartCopy, CopyTypeOK
  <2>4. copy'.state = "open" => CopyOk'
    <3>1. SUFFICES ASSUME OpensAndSeeks(t) PROVE CopyOk'
      BY <1>4 DEF StartCopy, NoCopy
    <3>2. copy'.total = 0 /\ copy'.remaining = t.len /\ Task("worker")' = t
      BY <1>4, <3>1 DEF StartCopy, NoCopy, Task
    <3>3. SizeOf[t.src] \in Nat /\ SizeOf[t.dest] \in Nat /\ t.offset \in Nat
      BY <1>1, <3>1 DEF OpensAndSeeks, ToCopy
    <3> QED
      BY <2>1, <3>1, <3>2, <3>3 DEF CopyOk, OpensAndSeeks
  <2> QED
    BY <1>1, <1>2, <1>3, <1>4, <2>3, <2>4, InCopyBase
<1>5. CASE CopyBlock(t) /\ UNCHANGED <<todo, result, trouble>>
  <2> DEFINE n == Bread(t)
  <2>1. /\ GoesOn(t) /\ n <= Room(t) /\ Write(t, n) /\ UNCHANGED cancelUpdate
        /\ copy' = [state |-> IF Ends(t) THEN "returned" ELSE "open", total |-> copy.total + n,
                    remaining |-> IF t.len = 0 THEN 0 ELSE copy.remaining - n]
    BY <1>5 DEF CopyBlock
  <2>2. /\ t.src \in Files \union Devices /\ t.dest \in Devices
        /\ copy.total \in Nat /\ copy.remaining \in Nat /\ t.len \in Nat /\ t.offset \in Nat
        /\ SizeOf[t.src] \in Nat /\ SizeOf[t.dest] \in Nat
        /\ n \in Nat /\ copy.total + n <= SizeOf[t.src]
        /\ t.len # 0 => n <= copy.remaining /\ copy.total + copy.remaining = t.len
        /\ Room(t) = SizeOf[t.dest] - (t.offset + copy.total)
    BY <1>1, <2>1, CopyStepType
  <2>3. SizeOf[t.src] + 1 < Word
    BY <2>2
  <2> HIDE DEF n, t
  <2>4. copy.total + n \in 0 .. Word - 1
    BY <2>2, <2>3
  <2>5. copy' \in Copy
    BY <2>1, <2>2, <2>4 DEF Copy
  <2>6. CopyTypeOK'
    BY <1>3, <2>1, <2>2, <2>5, WriteType DEF CopyTypeOK
  <2>7. CopyOk
    BY <2>1 DEF GoesOn, Base, Calls
  <2>8. CopyOk'
    <3>1. Task("worker")' = t
      BY <1>5 DEF Task, t
    <3>2. OpensAndSeeks(t)
      BY <2>7 DEF CopyOk, t
    <3>3. copy'.total = copy.total + n /\ copy'.remaining = IF t.len = 0 THEN 0 ELSE copy.remaining - n
      BY <2>1
    <3> QED
      BY <2>1, <2>2, <3>1, <3>2, <3>3 DEF CopyOk, OpensAndSeeks
  <2> QED
    BY <1>1, <1>2, <1>3, <1>5, <2>6, <2>8, InCopyBase DEF t
<1>6. CASE LeaveLoop(t) /\ UNCHANGED <<todo, result, trouble>>
  <2>1. copy' \in Copy /\ copy'.state = "returned"
    BY <1>3, <1>6 DEF LeaveLoop, Copy
  <2>2. CopyTypeOK'
    BY <1>3, <1>6, <2>1 DEF LeaveLoop, CopyTypeOK
  <2> QED
    BY <1>1, <1>2, <1>3, <1>6, <2>1, <2>2, InCopyBase
<1>7. CASE GoesOn(t) /\ WriteShort(t, Room(t)) /\ trouble' = TRUE /\ UNCHANGED <<todo, result>>
  <2>1. copy' \in Copy /\ copy'.state = "returned" /\ cancelUpdate' = cancelUpdate
    BY <1>3, <1>7 DEF WriteShort, Copy
  <2>2. CopyTypeOK'
    BY <1>1, <1>3, <1>7, <2>1, CopyStepType, WriteType DEF WriteShort, CopyTypeOK
  <2> QED
    BY <1>1, <1>2, <1>7, <2>1, <2>2, InCopyBase
<1>8. CASE /\ copy.state = "returned" /\ copy' = NoCopy
           /\ DropTask("worker", job.kind = "init" \/ WroteAll(t))
           /\ UNCHANGED <<content, cancelUpdate, trouble>>
  <2>1. CopyTypeOK' /\ copy'.state = "none"
    BY <1>3, <1>8, NoCopyType DEF CopyTypeOK, NoCopy
  <2>2. MountTypeOK' /\ \A v \in Users : pc'[v] = pc[v] /\ open'[v] = open[v]
    BY <1>2, <1>3 DEF TypeOK, MountTypeOK, mountVars
  <2> QED
    BY <1>1, <1>2, <1>3, <1>8, <2>1, <2>2, DropBase
<1> QED
  BY <1>1, <1>4, <1>5, <1>6, <1>7, <1>8 DEF CopyTask

LEMMA MountFaultBase == ASSUME Base, NEW u \in Users, MountFault(u) PROVE Base'
<1>1. MountTypeOK /\ CopyTypeOK /\ trouble \in BOOLEAN /\ (pc[u] # "inUse" => open[u] = NoFile)
  BY DEF Base, TypeOK, Calls
<1>2. MountTypeOK'
  BY <1>1 DEF MountFault, MountFails, MountTypeOK, MountPc
<1>3. CopyTypeOK' /\ UNCHANGED <<copy, cancelUpdate, content>> /\ trouble' \in BOOLEAN
  BY <1>1 DEF MountFault, CopyTypeOK, copyVars
<1> QED
  BY <1>1, <1>2, <1>3, InsideBase DEF MountFault, MountFails, MountTypeOK

LEMMA CopyFaultBase == ASSUME Base, NEW u \in Users, CopyFault(u) PROVE Base'
<1> DEFINE t == Task("worker")
<1>1. ~Idle("worker") /\ t.do = "copy" /\ t \in ToCopy /\ u = "worker" /\ GoesOn(t)
  BY OnlyWorkerCopies DEF CopyFault
<1>2. UNCHANGED <<configVars, mountVars, phase, todo, job, result, overlap>> /\ trouble' = TRUE
  BY DEF CopyFault
<1>3. CopyTypeOK /\ copy \in Copy /\ cancelUpdate \in BOOLEAN
  BY DEF Base, TypeOK, CopyTypeOK
<1>4. CASE ReadFails(t)
  <2>1. copy.total \in Nat /\ copy.remaining \in Nat /\ Word \in Nat \ {0}
    BY <1>3 DEF Copy
  <2>2. MinusOne(copy.total) \in 0 .. Word - 1
    BY <2>1 DEF MinusOne
  <2>3. copy' \in Copy /\ copy'.state = "returned"
    BY <1>4, <2>1, <2>2 DEF ReadFails, Copy
  <2>4. CopyTypeOK'
    BY <1>3, <1>4, <2>3 DEF ReadFails, CopyTypeOK
  <2> QED
    BY <1>1, <1>2, <2>3, <2>4, InCopyBase
<1>5. CASE \E n \in 0 .. Room(t) : WriteShort(t, n)
  <2> PICK n \in 0 .. Room(t) : WriteShort(t, n)
    BY <1>5
  <2>1. copy' \in Copy /\ copy'.state = "returned" /\ cancelUpdate' = cancelUpdate
    BY <1>3 DEF WriteShort, Copy
  <2>2. CopyTypeOK'
    BY <1>1, <1>3, <2>1, CopyStepType, WriteType DEF WriteShort, CopyTypeOK
  <2> QED
    BY <1>1, <1>2, <2>1, <2>2, InCopyBase
<1> QED
  BY <1>1, <1>4, <1>5 DEF CopyFault

LEMMA StutterBase == Base /\ UNCHANGED vars => Base'
<1> SUFFICES ASSUME Base, UNCHANGED vars PROVE Base'
  OBVIOUS
<1> USE DEF Base, vars, configVars, tableVars, mountVars, copyVars, jobVars
<1>1. TypeOK' /\ Queues' /\ Quiet'
  BY DEF TypeOK, ConfigTypeOK, MountTypeOK, CopyTypeOK, Queues, Quiet, Idle
<1>2. Calls'
  BY DEF Calls, CopyOk, Idle, Task, OnMountPoint, OpensAndSeeks
<1> QED
  BY <1>1, <1>2

LEMMA NextBase == Base /\ [Next]_vars => Base'
<1> SUFFICES ASSUME Base, [Next]_vars PROVE Base'
  OBVIOUS
<1>1. ASSUME NEW u \in Users, UserStep(u) \/ MountFault(u) \/ CopyFault(u) PROVE Base'
  BY <1>1, MountStepBase, CopyTaskBase, SpawnBase, MountFaultBase, CopyFaultBase DEF UserStep
<1>2. CASE Client
  BY <1>2, PrepareBase, ProcessChunkBase, SetFlagsBase, CancelBase DEF Client
<1>3. CASE Configure \/ Start \/ FinishCancel \/ Kill \/ Throw
  BY <1>3, ConfigureBase, StartBase, CancelBase, TerminatedBase DEF Kill, Throw
<1> QED
  BY <1>1, <1>2, <1>3, StutterBase DEF Next

\* Every variable keeps its type, whatever the configuration says, the client sends and
\* fails: what was copied fits into a uint64_t also after a read() that returned -1.
THEOREM TypeCorrect == Spec => []TypeOK
<1>1. Init => Base
  BY InitBase
<1>2. Base /\ [Next]_vars => Base'
  BY NextBase
<1>3. Base => TypeOK
  BY DEF Base
<1> QED
  BY <1>1, <1>2, <1>3, PTL DEF Spec
-----------------------------------------------------------------------------
(* The running container is not written *)

\* No device is configured as two partitions.
ConfApart == \A l, m \in ConfLines : l.dev = m.dev => l.which = m.which /\ l.part = m.part

\* Every entry of the tables comes from a line that goes there.
Told(c, p) ==
  GetDevice(c, p) # NoDevice =>
    \E l \in ConfLines : /\ l.dev = GetDevice(c, p) /\ l.part = p /\ c \in Entries(l)
                         /\ l.which = "single" => IsSinglePartition(p)
Tables == \A c \in Containers, p \in Parts \union {"unknown"} : Told(c, p)

\* What may be mounted, and what may be written: the boot flags of the running container
\* and the partitions of the other one.
Target(d) == d = GetDevice("Active", "BootInfo") \/ \E q \in Parts : d = GetDevice("Alternate", q)
Aims(t) == (t.do = "copy" => Target(t.dest)) /\ (t.do \in MountDo => Target(t.dev))
Targets ==
  /\ \A u \in Users : \A i \in DOMAIN todo[u] : Aims(todo[u][i])
  /\ \A i \in DOMAIN stack : Target(stack[i])
  /\ \A u \in Users : open[u] \in Devices => Target(open[u])

Aimed == Base /\ Tables /\ Targets

LEMMA NotRunning ==
  ASSUME ConfApart, Tables, NEW d \in Devices, Target(d)
  PROVE  ~OfRunning(d)
<1> SUFFICES ASSUME NEW p \in Parts \ {"BootInfo"}, ~IsSinglePartition(p), GetDevice("Active", p) = d
             PROVE  FALSE
  BY DEF OfRunning
<1>1. PICK l \in ConfLines : l.dev = d /\ l.part = p /\ "Active" \in Entries(l) /\ l.which # "single"
  <2>1. Told("Active", p)
    BY DEF Tables, Containers
  <2> QED
    BY <2>1 DEF Told
<1>2. l.which = active
  BY <1>1 DEF Entries
<1>3. CASE d = GetDevice("Active", "BootInfo")
  <2>1. Told("Active", "BootInfo")
    BY DEF Tables, Containers
  <2>2. PICK m \in ConfLines : m.dev = d /\ m.part = "BootInfo"
    BY <1>3, <2>1 DEF Told
  <2> QED
    BY <1>1, <2>2 DEF ConfApart
<1>4. ASSUME NEW q \in Parts, d = GetDevice("Alternate", q) PROVE FALSE
  <2>1. Told("Alternate", q)
    BY DEF Tables, Containers
  <2>2. PICK m \in ConfLines : m.dev = d /\ "Alternate" \in Entries(m)
    BY <1>4, <2>1 DEF Told
  <2>3. m.which = l.which
    BY <1>1, <2>2 DEF ConfApart
  <2>4. Entries(m) = {"Active"}
    BY <1>1, <1>2, <2>3 DEF Entries
  <2> QED
    BY <2>2, <2>4
<1> QED
  BY <1>3, <1>4 DEF Target

LEMMA InitAimed == Init => Aimed
<1> SUFFICES ASSUME Init PROVE Aimed
  OBVIOUS
<1>1. Tables
  BY DEF Init, ConfigInit, Tables, Told, GetDevice
<1>2. Targets
  BY DEF Init, MountInit, Targets
<1> QED
  BY <1>1, <1>2, InitBase DEF Aimed

LEMMA TablesKept == Tables /\ UNCHANGED <<active, alternate, partitions>> => Tables'
  BY DEF Tables, Told, Entries, GetDevice, IsSinglePartition

LEMMA ConfigureAimed == Aimed /\ Configure => Tables' /\ Targets'
<1> SUFFICES ASSUME Aimed, Configure PROVE Tables' /\ Targets'
  OBVIOUS
<1>1. UNCHANGED <<todo, stack, open>> /\ phase = "config"
  BY DEF Configure, mountVars, jobVars
<1>2. \A u \in Users : Idle(u) /\ open[u] = NoFile
  BY <1>1, IdleQuiet DEF Aimed, Base, Quiet, Calls
<1>3. stack = <<>>
  BY <1>1 DEF Aimed, Base, Quiet
<1>4. Targets'
  BY <1>1, <1>2, <1>3 DEF Targets, Idle
<1>5. CASE \E a \in HashLines : ReadHash(a)
  <2>1. UNCHANGED <<active, alternate, partitions>>
    BY <1>5 DEF ReadHash
  <2> QED
    BY <1>4, <2>1, TablesKept DEF Aimed
<1>6. CASE \E m \in ConfLines : ReadLine(m)
  <2> PICK m \in ConfLines : ReadLine(m)
    BY <1>6
  <2>1. m \in ConfLine /\ m.dev \in Devices /\ m.part \in Parts \union {"unknown"}
    BY DEF ConfLine
  <2>2. partitions \in [Containers -> [Parts \union {"unknown"} -> Devices \union {NoDevice}]]
    BY DEF Aimed, Base, TypeOK, ConfigTypeOK
  <2>3. partitions' = [c \in Containers |->
                         IF c \in Entries(m) /\ partitions[c][m.part] = NoDevice
                         THEN [partitions[c] EXCEPT ![m.part] = m.dev] ELSE partitions[c]]
    BY DEF ReadLine
  <2>4. \A l \in ConfLines : Entries(l)' = Entries(l)
    BY DEF ReadLine, Entries
  <2>5. ASSUME NEW c \in Containers, NEW p \in Parts \union {"unknown"}
        PROVE  partitions'[c][p] = IF c \in Entries(m) /\ p = m.part /\ partitions[c][p] = NoDevice
                                   THEN m.dev ELSE partitions[c][p]
    BY <2>1, <2>2, <2>3
  <2>6. ASSUME NEW c \in Containers, NEW p \in Parts \union {"unknown"} PROVE Told(c, p)'
    <3>1. CASE c \in Entries(m) /\ p = m.part /\ partitions[c][p] = NoDevice
      <4>1. partitions'[c][p] = m.dev
        BY <2>5, <3>1
      <4>2. m.which = "single" => "Single" \in Entries(m) /\ "Single" \in Containers
        BY DEF Entries, Containers
      <4>3. m.which = "single" => partitions'["Single"][p] # NoDevice
        BY <2>1, <2>5, <3>1, <4>2
      <4> QED
        BY <2>4, <3>1, <4>1, <4>3 DEF Told, GetDevice, IsSinglePartition
    <3>2. CASE ~(c \in Entries(m) /\ p = m.part /\ partitions[c][p] = NoDevice)
      <4>1. partitions'[c][p] = partitions[c][p]
        BY <2>5, <3>2
      <4>2. Told(c, p)
        BY DEF Aimed, Tables
      <4>3. IsSinglePartition(p) => partitions'["Single"][p] # NoDevice
        BY <2>1, <2>5 DEF IsSinglePartition, Containers
      <4> QED
        BY <2>4, <4>1, <4>2, <4>3 DEF Told, GetDevice, IsSinglePartition
    <3> QED
      BY <3>1, <3>2
  <2> QED
    BY <1>4, <2>6 DEF Tables
<1> QED
  BY <1>4, <1>5, <1>6 DEF Configure

LEMMA AimedTasks ==
  ASSUME Aimed, NEW u \in Users, ~Idle(u)
  PROVE  Aims(Task(u)) /\ \A i \in DOMAIN Tail(todo[u]) : Aims(Tail(todo[u])[i])
<1> DEFINE All == MainTasks \union WorkerTasks
           P == {t \in All : Aims(t)}
<1>1. todo[u] \in Seq(All) /\ todo[u] # <<>>
  BY SeqMonotonic DEF Aimed, Base, Queues, Idle
<1>2. \A i \in DOMAIN todo[u] : todo[u][i] \in P
  BY <1>1, ElementOfSeq, LenProperties DEF Aimed, Targets
<1> HIDE DEF All
<1>3. 1 \in DOMAIN todo[u] /\ Task(u) = todo[u][1]
  BY <1>1, EmptySeq, LenProperties DEF Task
<1>4. Task(u) \in P
  BY <1>2, <1>3
<1> HIDE DEF P
<1>5. \A i \in DOMAIN Tail(todo[u]) : Tail(todo[u])[i] \in P
  BY <1>1, <1>2, TailIn, Zenon
<1> QED
  BY <1>4, <1>5 DEF P

LEMMA TargetsKept ==
  ASSUME UNCHANGED partitions,
         \A u \in Users : \A i \in DOMAIN todo'[u] : Aims(todo'[u][i]),
         \A i \in DOMAIN stack' : Target(stack'[i]),
         \A u \in Users : open'[u] \in Devices => Target(open'[u])
  PROVE  Targets'
<1>1. \A d : Target(d)' <=> Target(d)
  BY DEF Target, GetDevice
<1>2. \A t : Aims(t)' <=> Aims(t)
  BY <1>1 DEF Aims
<1> QED
  BY <1>1, <1>2 DEF Targets

LEMMA FlagsAim ==
  ASSUME NEW do \in {"read", "write"}, NEW c \in {"Active", "Alternate"}
  PROVE  Aims(BootFlags(do, c))
<1>1. Target(GetDevice(c, "BootInfo"))
  BY DEF Target
<1> QED
  BY <1>1 DEF Aims, BootFlags, OnMount, MountDo

\* New tasks for the threads, and nothing else that has a target.
LEMMA TasksKept ==
  ASSUME Aimed, UNCHANGED <<partitions, stack>>, \A u \in Users : open'[u] \in {open[u], NoFile},
         \A u \in Users : \A i \in DOMAIN todo'[u] : Aims(todo'[u][i])
  PROVE  Targets'
  BY TargetsKept DEF Aimed, Targets

LEMMA PreparationAims ==
  ASSUME Aimed, NEW p \in Preparations
  PROVE  \A i \in DOMAIN InitTasks(p) : Aims(InitTasks(p)[i])
<1> DEFINE S == {t \in WorkerTasks : Aims(t)}
<1>1. \A q \in Parts : CopyTo(GetDevice("Alternate", q), GetDevice("Active", q), 0, 0) \in S
  BY CopyPartitionType DEF Aimed, Base, Aims, CopyTo, MountDo, Target
<1>2. BootFlags("write", "Alternate") \in S
  BY BootFlagsType, FlagsAim DEF Aimed, Base
<1>3. OnMount("clear", GetDevice("Alternate", "Cache"), "ext4", "") \in S
  BY ClearType DEF Aimed, Base, Aims, OnMount, Target
<1> HIDE DEF S
<1>4. InitTasks(p) \in Seq(S)
  BY <1>1, <1>2, <1>3, InitTasksIn
<1>5. \A i \in DOMAIN InitTasks(p) : InitTasks(p)[i] \in S
  BY <1>4, ElementOfSeq, LenProperties
<1> QED
  BY <1>5 DEF S

LEMMA ChunkAims ==
  ASSUME Aimed, NEW c \in Chunks
  PROVE  \A i \in DOMAIN ChunkTasks(c) : Aims(ChunkTasks(c)[i])
<1> DEFINE S == {CopyTo(GetDevice("Alternate", c.dest), c.file, c.offset, c.size)}
                \union {OnMount(do, GetDevice("Alternate", c.dest), GetFilesystemType(GetDevice("Alternate", c.dest)), c.file) :
                        do \in {"clear", "look", "add"}}
<1>1. c.dest \in Parts
  BY DEF ChunkInfo
<1>2. \A t \in S : Aims(t)
  BY <1>1 DEF Aims, CopyTo, OnMount, MountDo, Target
<1>3. ChunkTasks(c) \in Seq(S)
  BY ChunkTasksIn
<1> HIDE DEF S
<1>4. \A i \in DOMAIN ChunkTasks(c) : ChunkTasks(c)[i] \in S
  BY <1>3, ElementOfSeq, LenProperties
<1> QED
  BY <1>2, <1>4

LEMMA ClientAimed == Aimed /\ Client => Targets'
<1> SUFFICES ASSUME Aimed, Client PROVE Targets'
  OBVIOUS
<1>1. DOMAIN todo = Users /\ UNCHANGED <<partitions, stack, open>>
  BY DEF Aimed, Base, Queues, Client, Prepare, ProcessChunk, SetFlags, Cancel, configVars, tableVars, mountVars
<1>2. \A u \in Users : \A i \in DOMAIN todo[u] : Aims(todo[u][i])
  BY DEF Aimed, Targets
<1>3. ASSUME NEW p \in Preparations, Prepare(p) PROVE Targets'
  <2>1. todo' = [todo EXCEPT !["main"] = <<BootFlags("write", "Alternate"), [do |-> "spawn"]>>]
    BY <1>3 DEF Prepare
  <2>2. Aims(BootFlags("write", "Alternate")) /\ Aims([do |-> "spawn"])
    BY FlagsAim DEF Aims, MountDo
  <2>3. \A u \in Users : \A i \in DOMAIN todo'[u] : Aims(todo'[u][i])
    BY <1>1, <1>2, <2>1, <2>2
  <2> QED
    BY <1>1, <2>3, TasksKept
<1>4. ASSUME NEW c \in Chunks, ProcessChunk(c) PROVE Targets'
  <2>1. todo' \in {todo, [todo EXCEPT !["worker"] = ChunkTasks(c)]}
    BY <1>4 DEF ProcessChunk
  <2>2. \A u \in Users : \A i \in DOMAIN todo'[u] : Aims(todo'[u][i])
    BY <1>1, <1>2, <2>1, ChunkAims
  <2> QED
    BY <1>1, <2>2, TasksKept
<1>5. ASSUME NEW c \in {"Active", "Alternate"}, SetFlags(c) PROVE Targets'
  <2>1. todo' = [todo EXCEPT !["main"] = <<BootFlags("write", c)>>]
    BY <1>5 DEF SetFlags
  <2>2. Aims(BootFlags("write", c))
    BY FlagsAim
  <2>3. \A u \in Users : \A i \in DOMAIN todo'[u] : Aims(todo'[u][i])
    BY <1>1, <1>2, <2>1, <2>2
  <2> QED
    BY <1>1, <2>3, TasksKept
<1>6. CASE Cancel
  <2>1. todo' = todo
    BY <1>6 DEF Cancel
  <2> QED
    BY <1>1, <1>2, <2>1, TasksKept
<1> QED
  BY <1>3, <1>4, <1>5, <1>6 DEF Client

LEMMA ServerAimed == Aimed /\ (Start \/ FinishCancel \/ Terminated \/ Spawn) => Targets'
<1> SUFFICES ASSUME Aimed, Start \/ FinishCancel \/ Terminated \/ Spawn PROVE Targets'
  OBVIOUS
<1>1. DOMAIN todo = Users /\ UNCHANGED <<partitions, stack>> /\ \A u \in Users : open'[u] \in {open[u], NoFile}
  BY DEF Aimed, Base, Queues, Start, FinishCancel, Terminated, Spawn, configVars, tableVars, mountVars
<1>2. \A u \in Users : \A i \in DOMAIN todo[u] : Aims(todo[u][i])
  BY DEF Aimed, Targets
<1>3. CASE Start
  <2>1. todo' = [todo EXCEPT !["main"] = <<BootFlags("read", "Active"), BootFlags("read", "Alternate")>>]
    BY <1>3 DEF Start
  <2>2. Aims(BootFlags("read", "Active")) /\ Aims(BootFlags("read", "Alternate"))
    BY FlagsAim
  <2>3. \A u \in Users : \A i \in DOMAIN todo'[u] : Aims(todo'[u][i])
    BY <1>1, <1>2, <2>1, <2>2
  <2> QED
    BY <1>1, <2>3, TasksKept
<1>4. CASE FinishCancel
  <2>1. todo' = todo
    BY <1>4 DEF FinishCancel
  <2> QED
    BY <1>1, <1>2, <2>1, TasksKept
<1>5. CASE Terminated
  <2>1. \A u \in Users : todo'[u] = <<>>
    BY <1>5 DEF Terminated
  <2>2. \A u \in Users : \A i \in DOMAIN todo'[u] : Aims(todo'[u][i])
    BY <2>1
  <2> QED
    BY <1>1, <2>2, TasksKept
<1>6. CASE Spawn
  <2>1. todo["main"] # <<>> /\ todo["main"][1].do = "spawn" /\ todo["main"] \in Seq(MainTasks)
    BY <1>6 DEF Spawn, Idle, Task, Aimed, Base, Queues
  <2>2. job.kind = "init"
    BY <2>1 DEF Aimed, Base, Calls
  <2>3. job.preparation \in Preparations
    BY <2>2 DEF Aimed, Base, TypeOK, Job, NoJob
  <2>4. todo' = [main |-> <<>>, worker |-> InitTasks(job.preparation)]
    BY <1>6 DEF Spawn
  <2>5. \A u \in Users : \A i \in DOMAIN todo'[u] : Aims(todo'[u][i])
    BY <2>3, <2>4, PreparationAims
  <2> QED
    BY <1>1, <2>5, TasksKept
<1> QED
  BY <1>3, <1>4, <1>5, <1>6

\* The tasks that are left when one has been dropped.
LEMMA DropAims ==
  ASSUME Aimed, NEW u \in Users, ~Idle(u), NEW ok \in BOOLEAN, DropTask(u, ok)
  PROVE  \A v \in Users : \A i \in DOMAIN todo'[v] : Aims(todo'[v][i])
<1>1. todo' = [todo EXCEPT ![u] = IF ok THEN Tail(@) ELSE <<>>] /\ DOMAIN todo = Users
  BY DEF DropTask, Aimed, Base, Queues
<1>2. \A v \in Users \ {u} : todo'[v] = todo[v]
  BY <1>1
<1>3. todo'[u] = Tail(todo[u]) \/ todo'[u] = <<>>
  BY <1>1
<1>4. \A i \in DOMAIN todo'[u] : Aims(todo'[u][i])
  <2>1. CASE todo'[u] = Tail(todo[u])
    BY <2>1, AimedTasks, Zenon
  <2>2. CASE todo'[u] = <<>>
    BY <2>2
  <2> QED
    BY <1>3, <2>1, <2>2
<1> QED
  BY <1>2, <1>4 DEF Aimed, Targets

LEMMA MountStepAimed == ASSUME Aimed, NEW u \in Users, MountStep(u) \/ MountFault(u) PROVE Targets'
<1>1. ~Idle(u) /\ Task(u).do \in MountDo /\ UNCHANGED partitions /\ Aims(Task(u))
  BY AimedTasks DEF MountStep, MountFault, OnMountPoint, MountDo, configVars, tableVars
<1>2. stack \in Seq(Devices) /\ open \in [Users -> Devices \union {RootFs, NoFile}] /\ DOMAIN stack = 1 .. Len(stack)
  BY LenProperties DEF Aimed, Base, TypeOK, MountTypeOK
<1>3. \A v \in Users : \A i \in DOMAIN todo[v] : Aims(todo[v][i])
  BY DEF Aimed, Targets
<1>4. \A i \in DOMAIN stack : Target(stack[i])
  BY DEF Aimed, Targets
<1>5. \A v \in Users : open[v] \in Devices => Target(open[v])
  BY DEF Aimed, Targets
<1>6. Target(Task(u).dev)
  BY <1>1 DEF Aims
<1>7. Top \in Devices => Target(Top)
  <2>1. CASE stack = <<>>
    BY <2>1 DEF Top
  <2>2. CASE stack # <<>>
    <3>1. Top = stack[Len(stack)] /\ Len(stack) \in Nat \ {0}
      BY <2>2, StackTop DEF Aimed, Base
    <3>2. Len(stack) \in DOMAIN stack
      BY <1>2, <3>1
    <3>3. Target(stack[Len(stack)])
      BY <1>4, <3>2, Zenon
    <3> QED
      BY <3>1, <3>3, Zenon
  <2> QED
    BY <2>1, <2>2
<1>8. \A v \in Users : open'[v] \in Devices => Target(open'[v])
  <2>1. open' \in {open, [open EXCEPT ![u] = Top], [open EXCEPT ![u] = NoFile]}
    BY DEF MountStep, MountFault, CheckDevice, CheckPath, OpenPath, MountDevice, MountFails, ClosePath, CheckUnmount, Unmount
  <2> QED
    BY <1>2, <1>5, <1>7, <2>1
<1>9. \A i \in DOMAIN stack' : Target(stack'[i])
  <2>1. CASE stack' = stack
    BY <1>4, <2>1
  <2>2. CASE stack' = Append(stack, Task(u).dev) /\ Task(u).dev \in Devices
    <3> DEFINE d == Task(u).dev
               s == Append(stack, d)
    <3>1. /\ s \in Seq(Devices) /\ Len(s) = Len(stack) + 1 /\ s[Len(stack) + 1] = d
          /\ \A i \in 1 .. Len(stack) : s[i] = stack[i]
      BY <1>2, <2>2, AppendProperties
    <3>2. DOMAIN s = 1 .. Len(stack) + 1 /\ Len(stack) \in Nat
      BY <1>2, <3>1, LenProperties
    <3> HIDE DEF s, d
    <3>3. \A i \in DOMAIN s : Target(s[i])
      <4>1. TAKE i \in DOMAIN s
      <4>2. CASE i = Len(stack) + 1
        BY <1>6, <3>1, <4>2 DEF d
      <4>3. CASE i # Len(stack) + 1
        <5>1. i \in 1 .. Len(stack) /\ i \in DOMAIN stack
          BY <1>2, <3>2, <4>3
        <5>2. Target(stack[i]) /\ s[i] = stack[i]
          BY <1>4, <3>1, <5>1, Zenon
        <5> QED
          BY <5>2, Zenon
      <4> QED
        BY <4>2, <4>3
    <3> QED
      BY <2>2, <3>3 DEF s, d
  <2>3. CASE stack' = SubSeq(stack, 1, Len(stack) - 1) /\ stack # <<>>
    <3>1. \A i \in DOMAIN SubSeq(stack, 1, Len(stack) - 1) :
             i \in DOMAIN stack /\ SubSeq(stack, 1, Len(stack) - 1)[i] = stack[i]
      BY <1>2, <2>3, StackPop, Zenon
    <3> QED
      BY <1>4, <2>3, <3>1, Zenon
  <2> QED
    BY <2>1, <2>2, <2>3
    DEF MountStep, MountFault, CheckDevice, CheckPath, OpenPath, MountDevice, CanMount, MountFails, ClosePath, CheckUnmount, Unmount
<1>10. \A v \in Users : \A i \in DOMAIN todo'[v] : Aims(todo'[v][i])
  <2>1. CASE UNCHANGED todo
    BY <1>3, <2>1
  <2>2. CASE DropTask(u, u = "main" \/ job.kind = "init" \/ isMounted[u])
    <3>1. isMounted[u] \in BOOLEAN
      BY DEF Aimed, Base, TypeOK, MountTypeOK
    <3> QED
      BY <1>1, <2>2, <3>1, DropAims
  <2> QED
    BY <2>1, <2>2 DEF MountStep, MountFault
<1> QED
  BY <1>1, <1>8, <1>9, <1>10, TargetsKept

LEMMA CopyAimed == ASSUME Aimed, NEW u \in Users, CopyTask(u) \/ CopyFault(u) PROVE Targets'
<1>1. UNCHANGED <<partitions, stack, open>> /\ ~Idle(u)
  BY DEF CopyTask, CopyFault, configVars, tableVars, mountVars
<1>2. CASE UNCHANGED todo
  BY <1>1, <1>2, TasksKept DEF Aimed, Targets
<1>3. CASE DropTask(u, job.kind = "init" \/ WroteAll(Task(u)))
  <2>1. \A v \in Users : \A i \in DOMAIN todo'[v] : Aims(todo'[v][i])
    BY <1>1, <1>3, DropAims DEF WroteAll
  <2> QED
    BY <1>1, <2>1, TasksKept
<1> QED
  BY <1>2, <1>3 DEF CopyTask, CopyFault

LEMMA NextAimed == Aimed /\ [Next]_vars => Aimed'
<1> SUFFICES ASSUME Aimed, [Next]_vars PROVE Aimed'
  OBVIOUS
<1>1. Base'
  BY NextBase DEF Aimed
<1>2. CASE Configure
  BY <1>1, <1>2, ConfigureAimed DEF Aimed
<1>3. CASE ~Configure
  <2>1. UNCHANGED configVars
    <3>1. CASE Client
      BY <3>1 DEF Client, Prepare, ProcessChunk, SetFlags, Cancel
    <3>2. CASE Start \/ FinishCancel \/ Kill \/ Throw
      BY <3>2 DEF Start, FinishCancel, Kill, Throw, Terminated
    <3>3. ASSUME NEW u \in Users, UserStep(u) \/ MountFault(u) \/ CopyFault(u) PROVE UNCHANGED configVars
      BY <3>3 DEF UserStep, MountStep, CopyTask, Spawn, MountFault, CopyFault
    <3> QED
      BY <1>3, <3>1, <3>2, <3>3 DEF Next, vars
  <2>2. Tables'
    BY <2>1, TablesKept DEF Aimed, configVars, tableVars
  <2>3. CASE UNCHANGED vars
    <3>1. UNCHANGED <<partitions, stack, open, todo>>
      BY <2>3 DEF vars, configVars, tableVars, mountVars, jobVars
    <3>2. \A u \in Users : \A i \in DOMAIN todo'[u] : Aims(todo'[u][i])
      BY <3>1 DEF Aimed, Targets
    <3> QED
      BY <1>1, <2>2, <3>1, <3>2, TasksKept DEF Aimed
  <2>4. CASE Next
    <3>1. CASE Client \/ Start \/ FinishCancel \/ Kill \/ Throw
      BY <1>1, <2>2, <3>1, ClientAimed, ServerAimed DEF Aimed, Kill, Throw
    <3>2. ASSUME NEW u \in Users, UserStep(u) \/ MountFault(u) \/ CopyFault(u) PROVE Aimed'
      BY <1>1, <2>2, <3>2, ServerAimed, MountStepAimed, CopyAimed DEF Aimed, UserStep
    <3> QED
      BY <1>3, <2>4, <3>1, <3>2 DEF Next
  <2> QED
    BY <2>3, <2>4
<1> QED
  BY <1>2, <1>3

\* What a step writes is a target.
LEMMA UseAims ==
  ASSUME Aimed, NEW u \in Users, Use(u), NEW e \in Devices, content'[e] # content[e]
  PROVE  Target(e)
<1> DEFINE d == IF Task(u).do = "clear" THEN Top ELSE open[u]
<1>1. d \in Devices /\ \E new : content' = [content EXCEPT ![d] = new]
  BY DEF Use
<1>2. e = d
  BY <1>1 DEF Aimed, Base, TypeOK, CopyTypeOK
<1>3. CASE d = open[u]
  BY <1>1, <1>2, <1>3 DEF Aimed, Targets
<1>4. CASE d = Top
  <2>1. stack # <<>>
    BY <1>1, <1>4 DEF Top
  <2>2. Top = stack[Len(stack)] /\ Len(stack) \in DOMAIN stack
    BY <2>1, StackTop, LenProperties DEF Aimed, Base, TypeOK, MountTypeOK
  <2> QED
    BY <1>2, <1>4, <2>2 DEF Aimed, Targets
<1> QED
  BY <1>3, <1>4

LEMMA WriteAims ==
  ASSUME Aimed, ~Idle("worker"), Task("worker") \in ToCopy, NEW n, Write(Task("worker"), n),
         NEW e \in Devices, content'[e] # content[e]
  PROVE  Target(e)
<1> DEFINE t == Task("worker")
<1>1. \E new : content' = [content EXCEPT ![t.dest] = new]
  BY DEF Write
<1>2. e = t.dest
  BY <1>1 DEF Aimed, Base, TypeOK, CopyTypeOK
<1>3. Aims(t) /\ t.do = "copy"
  BY AimedTasks DEF ToCopy
<1> QED
  BY <1>2, <1>3 DEF Aims

LEMMA StepAims ==
  ASSUME Aimed, [Next]_vars, NEW e \in Devices, content'[e] # content[e]
  PROVE  Target(e)
<1>1. CASE Configure \/ Start \/ Client \/ FinishCancel \/ Kill \/ Throw \/ UNCHANGED vars
  BY <1>1 DEF Configure, Start, Client, Prepare, ProcessChunk, SetFlags, Cancel, FinishCancel, Kill, Throw,
              Terminated, vars, copyVars
<1>2. ASSUME NEW u \in Users, MountStep(u) PROVE Target(e)
  BY <1>2, UseAims DEF MountStep
<1>3. ASSUME NEW u \in Users, CopyTask(u) \/ CopyFault(u) PROVE Target(e)
  <2>1. u = "worker" /\ ~Idle("worker") /\ Task("worker") \in ToCopy
    BY <1>3, OnlyWorkerCopies DEF CopyTask, CopyFault, Aimed
  <2>2. \E n : Write(Task("worker"), n)
    BY <1>3, <2>1 DEF CopyTask, CopyFault, StartCopy, CopyBlock, LeaveLoop, WriteShort, ReadFails
  <2> QED
    BY <2>1, <2>2, WriteAims
<1>4. ASSUME NEW u \in Users, Spawn \/ MountFault(u) PROVE Target(e)
  BY <1>4 DEF Spawn, MountFault, copyVars
<1> QED
  BY <1>1, <1>2, <1>3, <1>4 DEF Next, UserStep

\* No partition of the running container is written but its boot flags and what exists
\* once, whatever fails, is sent meanwhile, or was left mounted, when the lines of the
\* configuration file name different devices.
THEOREM RunningUntouched == ConfApart => (Spec => NeverActive)
<1> SUFFICES ASSUME ConfApart PROVE Spec => NeverActive
  OBVIOUS
<1>1. Init => Aimed
  BY InitAimed
<1>2. Aimed /\ [Next]_vars => Aimed'
  BY NextAimed
<1>3. Aimed /\ [Next]_vars => [\A d \in Devices : content'[d] # content[d] => ~OfRunning(d)]_vars
  <2>1. SUFFICES ASSUME Aimed, [Next]_vars, NEW d \in Devices, content'[d] # content[d] PROVE ~OfRunning(d)
    OBVIOUS
  <2> QED
    BY <2>1, StepAims, NotRunning DEF Aimed
<1> QED
  BY <1>1, <1>2, <1>3, PTL DEF Spec, NeverActive
-----------------------------------------------------------------------------
(* The mount point is free when nothing is done *)

\* Boot flags that the constructor of UBootManager has still to read.
Reads == IF ~Idle("main") /\ Task("main").do = "read" THEN Len(todo["main"]) ELSE 0

\* Without boot messages meanwhile, one thread at a time has something to do.
Turns ==
  /\ ~overlap /\ ~Idle("worker") => Idle("main")
  /\ Len(todo["main"]) <= 2
  /\ \A i, j \in DOMAIN todo["main"] : todo["main"][i].do = "read" => todo["main"][j].do = "read"

\* Two threads mount two devices at most, also when a process has left them mounted.
Layers ==
  /\ Len(stack) <= 2
  /\ Len(stack) = 2 => \A u \in Users : pc[u] # "mount"
  /\ stack # <<>> => \E u \in Users : pc[u] # "mount"

\* What an earlier process left mounted is unmounted by the calls that the constructor has
\* still to make; anything else by the call that is being made.
Freeing ==
  phase = "up" /\ ~overlap =>
    \/ (\A u \in Users : pc[u] \in {"idle", "checkPath"}) /\ Len(stack) <= Reads
    \/ (\E u \in Users : pc[u] = "mount") /\ stack = <<>>
    \/ /\ \E u \in Users : pc[u] \in {"use", "inUse", "release", "unmount"}
       /\ Len(stack) <= 1 \/ Len(stack) <= Reads

Freed == Base /\ Turns /\ Layers /\ Freeing

LEMMA ReadsType ==
  ASSUME Base
  PROVE  Reads \in Nat /\ (Idle("main") => Reads = 0)
<1>1. Len(todo["main"]) \in Nat
  BY LenProperties DEF Base, Queues
<1> QED
  BY <1>1 DEF Reads

LEMMA Alone ==
  ASSUME Base, Turns, ~overlap, NEW u \in Users, ~Idle(u), NEW v \in Users \ {u}
  PROVE  Idle(v) /\ pc[v] = "idle" /\ open[v] = NoFile
<1>1. Idle(v)
  BY DEF Turns
<1>2. pc[v] = "idle"
  BY <1>1, IdleQuiet
<1> QED
  BY <1>1, <1>2 DEF Base, Calls

\* q is what is left of s without one of its elements.
Left(q, s) == Len(q) = Len(s) - 1 /\ \A i \in DOMAIN q : \E j \in DOMAIN s : q[i] = s[j]

LEMMA TailFrom ==
  ASSUME NEW S, NEW s \in Seq(S), s # <<>>, NEW q, q = Tail(s)
  PROVE  Left(q, s)
<1> DEFINE P == {s[j] : j \in DOMAIN s}
<1>1. \A i \in DOMAIN s : s[i] \in P
  OBVIOUS
<1> HIDE DEF P
<1>2. \A i \in DOMAIN q : q[i] \in P
  BY <1>1, TailIn, Zenon
<1> QED
  BY <1>2, HeadTailProperties DEF P, Left

\* The main thread has read the flags of a container.
LEMMA ReadsDrop ==
  ASSUME Base, Base', Turns, ~Idle("main"), Left(todo'["main"], todo["main"])
  PROVE  /\ Reads - 1 <= Reads'
         /\ Len(todo'["main"]) <= 2
         /\ \A i, j \in DOMAIN todo'["main"] : todo'["main"][i].do = "read" => todo'["main"][j].do = "read"
<1> DEFINE s == todo["main"]
           q == todo'["main"]
<1>1. s \in Seq(MainTasks) /\ s # <<>> /\ q \in Seq(MainTasks)
  BY DEF Base, Queues, Idle
<1>2. Len(s) \in Nat \ {0} /\ DOMAIN s = 1 .. Len(s) /\ Len(s) <= 2 /\ Task("main") = s[1]
  BY <1>1, EmptySeq, LenProperties DEF Turns, Task
<1>3. Len(q) \in Nat /\ DOMAIN q = 1 .. Len(q) /\ Len(q) = Len(s) - 1
  BY <1>1, LenProperties DEF Left
<1>4. \A i \in DOMAIN q : \E j \in DOMAIN s : q[i] = s[j]
  BY DEF Left
<1>5. \A i, j \in DOMAIN s : s[i].do = "read" => s[j].do = "read"
  BY DEF Turns
<1>6. \A i, j \in DOMAIN q : q[i].do = "read" => q[j].do = "read"
  <2>1. TAKE i, j \in DOMAIN q
  <2>2. (\E k \in DOMAIN s : q[i] = s[k]) /\ (\E k \in DOMAIN s : q[j] = s[k])
    BY <1>4
  <2> QED
    BY <1>5, <2>2
<1>7. ASSUME Task("main").do = "read", Len(s) = 2 PROVE Reads - 1 <= Reads'
  <2>1. 1 \in DOMAIN q /\ q # <<>>
    <3>1. Len(q) = Len(s) - 1 /\ DOMAIN q = 1 .. Len(q) /\ Len(s) = 2
      BY <1>3, <1>7, Zenon
    <3>2. Len(q) = 1
      BY <3>1
    <3>3. 1 \in DOMAIN q
      BY <3>1, <3>2
    <3> QED
      BY <3>3
  <2>2. q[1].do = "read"
    <3>1. PICK j \in DOMAIN s : q[1] = s[j]
      BY <1>4, <2>1
    <3>2. 1 \in DOMAIN s /\ s[1].do = "read"
      BY <1>2, <1>7
    <3> QED
      BY <1>5, <3>1, <3>2
  <2>3. Task("main")' = q[1] /\ ~Idle("main")'
    BY <1>1, <2>1 DEF Task, Idle
  <2>4. Reads' = Len(q) /\ Reads = Len(s)
    BY <1>7, <2>2, <2>3 DEF Reads
  <2>5. Len(q) = 1
    BY <1>3, <1>7
  <2> QED
    BY <1>7, <2>4, <2>5
<1>8. ASSUME Task("main").do # "read" \/ Len(s) = 1 PROVE Reads - 1 <= Reads'
  <2>1. Reads = 0 \/ Reads = 1
    BY <1>8 DEF Reads
  <2>2. Reads' \in Nat
    BY <1>3 DEF Reads
  <2> QED
    BY <2>1, <2>2
<1> DEFINE n == Len(s)
           m == Len(q)
<1>9. n \in Nat \ {0} /\ n <= 2 /\ m = n - 1
  BY <1>2, <1>3, Zenon
<1> HIDE DEF n, m
<1>10. (n = 1 \/ n = 2) /\ m <= 2
  BY <1>9
<1> QED
  BY <1>6, <1>7, <1>8, <1>10, Zenon DEF n, m

LEMMA InitFreed == Init => Freed
<1> SUFFICES ASSUME Init PROVE Freed
  OBVIOUS
<1>1. todo["main"] = <<>> /\ todo["worker"] = <<>> /\ stack = <<>> /\ phase = "config"
  BY DEF Init, MountInit
<1> QED
  BY <1>1, InitBase, EmptySeq DEF Freed, Turns, Layers, Freeing, Idle

LEMMA ReadsLater == ASSUME Base' PROVE Reads' \in Nat
<1>1. Len(todo'["main"]) \in Nat
  BY LenProperties DEF Base, Queues
<1> QED
  BY <1>1 DEF Reads

\* A step that changes neither what is mounted nor what the main thread has to do.
LEMMA FreedSame ==
  ASSUME Freed, Base', UNCHANGED <<stack, pc, phase, overlap>>, todo'["main"] = todo["main"],
         Idle("worker") => todo'["worker"] = <<>>
  PROVE  Freed'
<1>1. Reads' = Reads
  BY DEF Reads, Idle, Task
<1>2. Turns' /\ Layers'
  BY DEF Freed, Turns, Layers, Idle
<1>3. Freeing'
  BY <1>1 DEF Freed, Freeing
<1> QED
  BY <1>2, <1>3 DEF Freed

LEMMA NothingMounted ==
  ASSUME Freed, phase = "up", ~overlap, \A u \in Users : ~OnMountPoint(u), Reads = 0
  PROVE  stack = <<>> /\ \A u \in Users : pc[u] = "idle"
<1>1. \A u \in Users : pc[u] = "idle"
  BY IdleQuiet DEF Freed
<1>2. Len(stack) <= 0
  BY <1>1 DEF Freed, Freeing
<1>3. stack \in Seq(Devices)
  BY DEF Freed, Base, TypeOK, MountTypeOK
<1>4. stack # <<>> => Len(stack) \in Nat \ {0}
  BY <1>3, EmptySeq
<1>5. stack = <<>>
  BY <1>2, <1>4
<1> QED
  BY <1>1, <1>5

\* A step between the calls.
LEMMA FreedBetween ==
  ASSUME Freed, Base', UNCHANGED <<stack, pc>>, Turns',
         phase' = "up" /\ ~overlap' => stack = <<>> /\ \A u \in Users : pc[u] = "idle"
  PROVE  Freed'
<1>1. Layers'
  BY DEF Freed, Layers
<1>2. stack = <<>> => Len(stack') = 0
  BY EmptySeq
<1>3. Freeing'
  BY <1>2, ReadsLater DEF Freeing
<1> QED
  BY <1>1, <1>3 DEF Freed

LEMMA IdleMount ==
  ASSUME Base, NEW u \in Users, Idle(u)
  PROVE  ~OnMountPoint(u)
  BY DEF OnMountPoint

LEMMA PrepareFreed == ASSUME Freed, Base', NEW p \in Preparations, Prepare(p) PROVE Freed'
<1> DEFINE q == <<BootFlags("write", "Alternate"), [do |-> "spawn"]>>
<1>1. phase = "up" /\ Idle("main") /\ Idle("worker") /\ UNCHANGED <<stack, pc, phase, overlap>>
  BY DEF Prepare, Message, mountVars
<1>2. todo'["main"] = q /\ todo'["worker"] = todo["worker"]
  BY DEF Prepare, Freed, Base, Queues
<1>3. ~overlap => stack = <<>> /\ \A u \in Users : pc[u] = "idle"
  BY <1>1, NothingMounted, IdleMount, ReadsType DEF Freed
<1>4. Len(q) = 2 /\ \A i \in DOMAIN q : q[i].do # "read"
  BY DEF BootFlags, OnMount
<1>5. Turns'
  BY <1>1, <1>2, <1>4 DEF Turns, Idle
<1> QED
  BY <1>1, <1>3, <1>5, FreedBetween

LEMMA SetFlagsFreed == ASSUME Freed, Base', NEW c \in {"Active", "Alternate"}, SetFlags(c) PROVE Freed'
<1> DEFINE q == <<BootFlags("write", c)>>
<1>1. phase = "up" /\ Idle("main") /\ UNCHANGED <<stack, pc, phase>> /\ overlap' = (overlap \/ ~Idle("worker"))
  BY DEF SetFlags, Message, mountVars
<1>2. todo'["main"] = q /\ todo'["worker"] = todo["worker"]
  BY DEF SetFlags, Freed, Base, Queues
<1>3. ~overlap' => ~overlap /\ Idle("worker")
  BY <1>1 DEF Freed, Base, TypeOK
<1>4. ~overlap' => stack = <<>> /\ \A u \in Users : pc[u] = "idle"
  BY <1>1, <1>3, NothingMounted, IdleMount, ReadsType DEF Freed
<1>5. Len(q) = 1 /\ \A i \in DOMAIN q : q[i].do # "read"
  BY DEF BootFlags, OnMount
<1>6. Turns'
  BY <1>2, <1>3, <1>5 DEF Turns, Idle
<1> QED
  BY <1>1, <1>4, <1>6, FreedBetween

LEMMA ProcessChunkFreed == ASSUME Freed, Base', NEW c \in Chunks, ProcessChunk(c) PROVE Freed'
<1>1. phase = "up" /\ Idle("main") /\ Idle("worker") /\ UNCHANGED <<stack, pc, phase, overlap>>
  BY DEF ProcessChunk, Message, mountVars
<1>2. todo'["main"] = todo["main"]
  BY DEF ProcessChunk, Freed, Base, Queues
<1>3. ~overlap => stack = <<>> /\ \A u \in Users : pc[u] = "idle"
  BY <1>1, NothingMounted, IdleMount, ReadsType DEF Freed
<1>4. Turns'
  BY <1>1, <1>2 DEF Freed, Turns, Idle
<1> QED
  BY <1>1, <1>3, <1>4, FreedBetween

LEMMA SpawnFreed == ASSUME Freed, Base', Spawn PROVE Freed'
<1>1. todo["main"] # <<>> /\ todo["main"][1].do = "spawn" /\ todo["main"] \in Seq(MainTasks)
  BY DEF Spawn, Idle, Task, Freed, Base, Queues
<1>2. Idle("worker")
  BY <1>1 DEF Freed, Base, Calls
<1>3. phase = "up" /\ UNCHANGED <<stack, pc, phase, overlap>>
  BY <1>1 DEF Spawn, Idle, Freed, Base, Quiet, mountVars
<1>4. ~OnMountPoint("main") /\ Reads = 0
  BY <1>1 DEF OnMountPoint, Task, Reads
<1>5. ~overlap => stack = <<>> /\ \A u \in Users : pc[u] = "idle"
  BY <1>2, <1>3, <1>4, NothingMounted, IdleMount DEF Freed
<1>6. todo'["main"] = <<>>
  BY DEF Spawn
<1>7. Turns'
  BY <1>6, EmptySeq DEF Turns, Idle
<1> QED
  BY <1>3, <1>5, <1>7, FreedBetween

LEMMA StartFreed == ASSUME Freed, Base', Start PROVE Freed'
<1> DEFINE q == <<BootFlags("read", "Active"), BootFlags("read", "Alternate")>>
<1>1. (\A u \in Users : Idle(u) /\ pc[u] = "idle") /\ UNCHANGED <<stack, pc, overlap>>
  BY IdleQuiet DEF Start, Freed, Base, Quiet, mountVars
<1>2. todo'["main"] = q /\ todo'["worker"] = todo["worker"]
  BY DEF Start, Freed, Base, Queues
<1>3. Len(q) = 2 /\ q # <<>> /\ Head(q).do = "read" /\ \A i \in DOMAIN q : q[i].do = "read"
  BY DEF BootFlags, OnMount
<1>4. Reads' = 2
  BY <1>2, <1>3 DEF Reads, Idle, Task
<1>5. Turns' /\ Layers'
  BY <1>1, <1>2, <1>3 DEF Freed, Turns, Layers, Idle
<1>6. Freeing'
  BY <1>1, <1>4, <1>5 DEF Freeing, Layers
<1> QED
  BY <1>5, <1>6 DEF Freed

LEMMA TerminatedFreed == ASSUME Freed, Base', Terminated PROVE Freed'
<1>1. /\ \A u \in Users : pc'[u] = "idle" /\ todo'[u] = <<>>
      /\ stack' = stack /\ phase' = "down"
  BY DEF Terminated
<1>2. Turns'
  BY <1>1, EmptySeq DEF Turns, Idle
<1>3. Layers'
  BY <1>1 DEF Freed, Layers
<1> QED
  BY <1>1, <1>2, <1>3 DEF Freed, Freeing

LEMMA MountTurns == ASSUME Freed, Base', NEW u \in Users, MountStep(u) \/ MountFault(u) PROVE Turns'
<1>1. OnMountPoint(u) /\ ~Idle(u) /\ overlap' = overlap /\ Turns
  BY DEF MountStep, MountFault, OnMountPoint, Freed
<1>2. CASE UNCHANGED todo
  BY <1>1, <1>2 DEF Turns, Idle
<1>3. CASE DropTask(u, u = "main" \/ job.kind = "init" \/ isMounted[u])
  <2>1. \A v \in Users \ {u} : todo'[v] = todo[v]
    BY <1>3 DEF DropTask, Freed, Base, Queues
  <2>2. CASE u = "worker"
    BY <1>1, <2>1, <2>2 DEF Turns, Idle
  <2>3. CASE u = "main"
    <3>1. todo["main"] \in Seq(MainTasks) /\ todo["main"] # <<>>
      BY <1>1, <2>3 DEF Freed, Base, Queues, Idle
    <3>2. todo'["main"] = Tail(todo["main"])
      BY <1>3, <2>3 DEF DropTask, Freed, Base, Queues
    <3>3. Left(todo'["main"], todo["main"])
      BY <3>1, <3>2, TailFrom, Zenon
    <3>4. /\ Len(todo'["main"]) <= 2
          /\ \A i, j \in DOMAIN todo'["main"] : todo'["main"][i].do = "read" => todo'["main"][j].do = "read"
      BY <1>1, <2>3, <3>3, ReadsDrop DEF Freed
    <3>5. ~overlap' => Idle("worker")'
      BY <1>1, <2>1, <2>3 DEF Turns, Idle
    <3> QED
      BY <3>4, <3>5 DEF Turns
  <2> QED
    BY <2>2, <2>3
<1> QED
  BY <1>2, <1>3 DEF MountStep, MountFault

LEMMA MountLayers == ASSUME Freed, Base', NEW u \in Users, MountStep(u) \/ MountFault(u) PROVE Layers'
<1>1. stack \in Seq(Devices) /\ Len(stack) \in Nat /\ pc \in [Users -> MountPc] /\ Layers
  BY LenProperties DEF Freed, Base, TypeOK, MountTypeOK
<1>2. Len(<<>>) = 0 /\ (stack # <<>> => Len(stack) # 0)
  BY <1>1, EmptySeq
<1>3. CASE CheckDevice(u, Task(u).dev) \/ MountFails(u) \/ OpenPath(u) \/ ClosePath(u) \/ CheckUnmount(u)
  BY <1>1, <1>3 DEF CheckDevice, MountFails, OpenPath, ClosePath, CheckUnmount, Layers
<1>4. CASE CheckPath(u)
  <2>1. stack' = stack /\ pc' \in {[pc EXCEPT ![u] = "release"], [pc EXCEPT ![u] = "mount"]}
    BY <1>4 DEF CheckPath
  <2>2. CASE stack = <<>>
    <3>1. Len(stack') = 0
      BY <1>2, <2>1, <2>2
    <3> QED
      BY <2>1, <2>2, <3>1 DEF Layers
  <2>3. CASE stack # <<>>
    <3>1. pc' = [pc EXCEPT ![u] = "release"]
      BY <1>4, <2>3 DEF CheckPath
    <3> QED
      BY <1>1, <2>1, <3>1 DEF Layers
  <2> QED
    BY <2>2, <2>3
<1>5. CASE MountDevice(u, Task(u).dev, Task(u).type)
  <2>1. pc[u] = "mount" /\ Task(u).dev \in Devices /\ stack' = Append(stack, Task(u).dev) /\ pc' = [pc EXCEPT ![u] = "use"]
    BY <1>5 DEF MountDevice, CanMount
  <2>2. Len(stack') = Len(stack) + 1
    BY <1>1, <2>1, AppendProperties
  <2>3. pc'[u] = "use" /\ \A v \in Users \ {u} : pc'[v] = pc[v]
    BY <1>1, <2>1
  <2> DEFINE n == Len(stack)
             m == Len(stack')
  <2>4. n = 0 \/ n = 1
    <3>1. n \in Nat /\ n <= 2 /\ n # 2
      BY <1>1, <2>1 DEF Layers
    <3> HIDE DEF n
    <3> QED
      BY <3>1
  <2>5. Len(stack) = 1 => \A v \in Users : pc'[v] # "mount"
    <3>1. SUFFICES ASSUME Len(stack) = 1 PROVE \A v \in Users : pc'[v] # "mount"
      OBVIOUS
    <3>2. \E v \in Users \ {u} : pc[v] # "mount"
      <4>1. stack # <<>>
        <5>1. Len(stack) # 0
          BY <3>1
        <5> QED
          BY <1>2, <5>1, Zenon
      <4> QED
        BY <1>1, <2>1, <4>1 DEF Layers
    <3> QED
      BY <2>3, <3>2
  <2>6. (n = 0 \/ n = 1) /\ m = n + 1 /\ (n = 1 => \A v \in Users : pc'[v] # "mount")
    BY <2>2, <2>4, <2>5, Zenon
  <2> HIDE DEF n, m
  <2>7. m <= 2 /\ (m = 2 => \A v \in Users : pc'[v] # "mount")
    BY <2>6
  <2> QED
    BY <2>3, <2>7 DEF m, Layers
<1>6. CASE Unmount(u)
  <2>1. pc[u] = "unmount" /\ pc'[u] = "idle" /\ \A v \in Users \ {u} : pc'[v] = pc[v]
    BY <1>1, <1>6 DEF Unmount
  <2>2. CASE stack' = stack
    BY <1>1, <2>1, <2>2 DEF Layers
  <2>3. CASE stack # <<>> /\ stack' = SubSeq(stack, 1, Len(stack) - 1)
    <3>1. Len(stack') = Len(stack) - 1
      BY <1>1, <2>3, StackPop
    <3> DEFINE n == Len(stack)
               m == Len(stack')
    <3>2. n \in Nat /\ n <= 2 /\ m = n - 1
      BY <1>1, <3>1 DEF Layers
    <3> HIDE DEF n, m
    <3>3. m <= 1
      BY <3>2
    <3> QED
      BY <2>1, <3>3 DEF m, Layers
  <2> QED
    BY <1>6, <2>2, <2>3 DEF Unmount
<1> QED
  BY <1>3, <1>4, <1>5, <1>6 DEF MountStep, MountFault

LEMMA MountFreeing == ASSUME Freed, Base', NEW u \in Users, MountStep(u) \/ MountFault(u) PROVE Freeing'
<1>1. OnMountPoint(u) /\ ~Idle(u) /\ overlap' = overlap /\ phase' = phase
  BY DEF MountStep, MountFault, OnMountPoint
<1> SUFFICES ASSUME phase = "up", ~overlap PROVE Freeing'
  BY <1>1 DEF Freeing
<1>2. /\ stack \in Seq(Devices) /\ Len(stack) \in Nat /\ pc \in [Users -> MountPc]
      /\ open \in [Users -> Devices \union {RootFs, NoFile}]
  BY LenProperties DEF Freed, Base, TypeOK, MountTypeOK
<1>3. \A v \in Users \ {u} : pc[v] = "idle" /\ open[v] = NoFile
  BY <1>1, Alone DEF Freed
<1>4. Len(<<>>) = 0 /\ Reads \in Nat /\ Reads' \in Nat
  BY EmptySeq, ReadsType, ReadsLater DEF Freed
<1>5. /\ pc[u] \in {"idle", "checkPath"} => Len(stack) <= Reads
      /\ pc[u] = "mount" => stack = <<>>
      /\ pc[u] \in {"use", "inUse", "release", "unmount"} => Len(stack) <= 1 \/ Len(stack) <= Reads
  BY <1>3 DEF Freed, Freeing
<1>6. ASSUME UNCHANGED <<todo, stack>>, NEW x \in MountPc, pc' = [pc EXCEPT ![u] = x],
             \/ x \in {"idle", "checkPath"} /\ Len(stack) <= Reads
             \/ x = "mount" /\ stack = <<>>
             \/ x \in {"use", "inUse", "release", "unmount"} /\ (Len(stack) <= 1 \/ Len(stack) <= Reads)
      PROVE  Freeing'
  <2>1. pc'[u] = x /\ \A v \in Users \ {u} : pc'[v] = "idle"
    BY <1>2, <1>3, <1>6
  <2>2. Reads' = Reads
    BY <1>6 DEF Reads, Idle, Task
  <2> QED
    BY <1>6, <2>1, <2>2 DEF Freeing
<1>7. CASE CheckDevice(u, Task(u).dev) /\ UNCHANGED todo
  BY <1>5, <1>6, <1>7 DEF CheckDevice, MountPc
<1>8. CASE CheckPath(u) /\ UNCHANGED todo
  BY <1>5, <1>6, <1>8 DEF CheckPath, MountPc
<1>9. CASE MountFails(u) /\ UNCHANGED todo
  BY <1>4, <1>5, <1>6, <1>9 DEF MountFails, MountPc
<1>10. CASE (OpenPath(u) \/ ClosePath(u)) /\ UNCHANGED todo
  BY <1>5, <1>6, <1>10 DEF OpenPath, ClosePath, MountPc
<1>11. CASE MountDevice(u, Task(u).dev, Task(u).type) /\ UNCHANGED todo
  <2>1. stack = <<>> /\ Task(u).dev \in Devices /\ stack' = Append(stack, Task(u).dev) /\ pc' = [pc EXCEPT ![u] = "use"]
    BY <1>5, <1>11 DEF MountDevice, CanMount
  <2>2. Len(stack') = Len(stack) + 1 /\ Len(stack) = 0
    BY <1>2, <1>4, <2>1, AppendProperties
  <2>3. Len(stack') <= 1
    BY <2>2
  <2>4. pc'[u] = "use"
    BY <1>2, <2>1
  <2> QED
    BY <2>3, <2>4 DEF Freeing
<1>12. ASSUME DropTask(u, u = "main" \/ job.kind = "init" \/ isMounted[u]), pc' = [pc EXCEPT ![u] = "idle"],
              \/ Len(stack') = 0
              \/ Len(stack) <= Reads /\ Len(stack') = Len(stack) - 1
       PROVE  Freeing'
  <2>1. \A v \in Users : pc'[v] = "idle"
    BY <1>2, <1>3, <1>12
  <2>2. Reads - 1 <= Reads'
    <3>1. CASE u = "worker"
      <4>1. todo'["main"] = todo["main"]
        BY <1>12, <3>1 DEF DropTask, Freed, Base, Queues
      <4>2. Reads' = Reads
        BY <4>1 DEF Reads, Idle, Task
      <4> QED
        BY <1>4, <4>2
    <3>2. CASE u = "main"
      <4>1. todo["main"] \in Seq(MainTasks) /\ todo["main"] # <<>>
        BY <1>1, <3>2 DEF Freed, Base, Queues, Idle
      <4>2. todo'["main"] = Tail(todo["main"])
        BY <1>12, <3>2 DEF DropTask, Freed, Base, Queues
      <4>3. Left(todo'["main"], todo["main"])
        BY <4>1, <4>2, TailFrom, Zenon
      <4> QED
        BY <1>1, <3>2, <4>3, ReadsDrop DEF Freed
    <3> QED
      BY <3>1, <3>2
  <2> DEFINE n == Len(stack)
             m == Len(stack')
             r == Reads
             k == Reads'
  <2>3. n \in Nat /\ r \in Nat /\ k \in Nat /\ r - 1 <= k /\ (m = 0 \/ (n <= r /\ m = n - 1))
    BY <1>2, <1>4, <1>12, <2>2
  <2> HIDE DEF n, m, r, k
  <2>4. m <= k
    BY <2>3
  <2> QED
    BY <2>1, <2>4 DEF m, k, Freeing
<1>13. CASE CheckUnmount(u)
  <2>1. pc[u] = "release" /\ stack' = stack /\ pc' = [pc EXCEPT ![u] = IF stack = <<>> THEN "idle" ELSE "unmount"]
    BY <1>13 DEF CheckUnmount
  <2>2. CASE stack = <<>>
    <3>1. DropTask(u, u = "main" \/ job.kind = "init" \/ isMounted[u])
      BY <1>2, <1>13, <2>1, <2>2 DEF MountStep, MountFault, MountFails, CheckDevice, CheckPath, OpenPath, MountDevice, ClosePath
    <3> QED
      BY <1>4, <1>12, <2>1, <2>2, <3>1
  <2>3. CASE stack # <<>>
    <3>1. pc'[u] = "unmount"
      BY <1>2, <2>1, <2>3
    <3>2. UNCHANGED todo
      BY <1>13, <2>1, <3>1 DEF MountStep, MountFault
    <3> QED
      BY <1>5, <1>6, <2>1, <2>3, <3>2 DEF MountPc
  <2> QED
    BY <2>2, <2>3
<1>14. CASE Unmount(u)
  <2>1. pc[u] = "unmount" /\ pc' = [pc EXCEPT ![u] = "idle"]
    BY <1>14 DEF Unmount
  <2>2. DropTask(u, u = "main" \/ job.kind = "init" \/ isMounted[u])
    BY <1>2, <1>14, <2>1 DEF MountStep, MountFault, MountFails, CheckDevice, CheckPath, OpenPath, MountDevice, ClosePath
  <2>3. CASE stack = <<>>
    BY <1>4, <1>12, <1>14, <2>1, <2>2, <2>3 DEF Unmount
  <2>4. CASE stack # <<>>
    <3>1. open[u] = NoFile
      BY <2>1 DEF Freed, Base, Calls
    <3>2. Top \in Devices
      BY <2>4, StackTop DEF Freed, Base
    <3>3. \A v \in Users : open[v] # Top
      BY <1>3, <3>1, <3>2
    <3>4. stack' = SubSeq(stack, 1, Len(stack) - 1)
      BY <1>14, <2>4, <3>3 DEF Unmount
    <3>5. Len(stack') = Len(stack) - 1
      BY <1>2, <2>4, <3>4, StackPop
    <3> DEFINE n == Len(stack)
    <3>6. n \in Nat \ {0} /\ (n <= 1 \/ n <= Reads)
      BY <1>2, <1>5, <2>1, <2>4, EmptySeq
    <3> HIDE DEF n
    <3>7. n = 1 \/ n <= Reads
      BY <3>6
    <3>8. Len(stack') = 0 \/ (Len(stack) <= Reads /\ Len(stack') = Len(stack) - 1)
      BY <3>5, <3>7 DEF n
    <3> QED
      BY <1>12, <2>1, <2>2, <3>8
  <2> QED
    BY <2>3, <2>4
<1> QED
  BY <1>7, <1>8, <1>9, <1>10, <1>11, <1>13, <1>14 DEF MountStep, MountFault

LEMMA CopyFreed == ASSUME Freed, Base', NEW u \in Users, CopyTask(u) \/ CopyFault(u) PROVE Freed'
<1>1. UNCHANGED <<stack, pc, phase, overlap>>
  BY DEF CopyTask, CopyFault, mountVars
<1>2. u = "worker" /\ ~Idle("worker")
  BY OnlyWorkerCopies DEF CopyTask, CopyFault, Freed
<1>3. todo'["main"] = todo["main"]
  BY <1>2 DEF CopyTask, CopyFault, DropTask, Freed, Base, Queues
<1> QED
  BY <1>1, <1>2, <1>3, FreedSame

LEMMA NextFreed == Freed /\ [Next]_vars => Freed'
<1> SUFFICES ASSUME Freed, [Next]_vars PROVE Freed'
  OBVIOUS
<1>1. Base'
  BY NextBase DEF Freed
<1>2. CASE UNCHANGED vars \/ Configure \/ Cancel \/ FinishCancel
  <2>1. UNCHANGED <<stack, pc, phase, overlap, todo>>
    BY <1>2 DEF vars, mountVars, jobVars, Configure, Cancel, FinishCancel
  <2> QED
    BY <1>1, <2>1, FreedSame DEF Idle
<1>3. CASE \E p \in Preparations : Prepare(p)
  BY <1>1, <1>3, PrepareFreed
<1>4. CASE \E c \in Chunks : ProcessChunk(c)
  BY <1>1, <1>4, ProcessChunkFreed
<1>5. CASE \E c \in {"Active", "Alternate"} : SetFlags(c)
  BY <1>1, <1>5, SetFlagsFreed
<1>6. CASE Start
  BY <1>1, <1>6, StartFreed
<1>7. CASE Kill \/ Throw
  BY <1>1, <1>7, TerminatedFreed DEF Kill, Throw
<1>8. ASSUME NEW u \in Users, UserStep(u) \/ MountFault(u) \/ CopyFault(u) PROVE Freed'
  <2>1. CASE MountStep(u) \/ MountFault(u)
    BY <1>1, <2>1, MountTurns, MountLayers, MountFreeing DEF Freed
  <2>2. CASE CopyTask(u) \/ CopyFault(u)
    BY <1>1, <2>2, CopyFreed
  <2>3. CASE Spawn
    BY <1>1, <2>3, SpawnFreed
  <2> QED
    BY <1>8, <2>1, <2>2, <2>3 DEF UserStep
<1> QED
  BY <1>2, <1>3, <1>4, <1>5, <1>6, <1>7, <1>8 DEF Next, Client

\* Unless a boot message met a working worker, the server has nothing mounted when neither
\* thread has something to do, whatever the configuration, what fails, and how often the
\* process has ended with something mounted.
THEOREM MountPointFreed == Spec => []MountPointFree
<1>1. Init => Freed
  BY InitFreed
<1>2. Freed /\ [Next]_vars => Freed'
  BY NextFreed
<1>3. Freed => MountPointFree
  <2>1. SUFFICES ASSUME Freed, phase = "up", ~overlap, \A u \in Users : Idle(u) PROVE stack = <<>>
    BY DEF MountPointFree
  <2>2. Reads = 0
    BY <2>1 DEF Reads
  <2> QED
    BY <2>1, <2>2, NothingMounted, IdleMount DEF Freed
<1> QED
  BY <1>1, <1>2, <1>3, PTL DEF Spec
=============================================================================
