------------------------ MODULE PartitionsJobProofs ------------------------
(***************************************************************************)
(* What a job of the worker leaves behind when it ends well: theorem       *)
(* JobsInPlace, on the invariants of PartitionsProofs.                     *)
(***************************************************************************)
EXTENDS PartitionsProofs

USE ConfAssumption, MountAssumption, PlaceAssumption, CopyAssumption, ChunkAssumption
-----------------------------------------------------------------------------
(* The inductive invariant *)

\* The calls of a preparation, and the calls of a chunk.
CopyOf(p) == CopyTo(GetDevice("Alternate", p), GetDevice("Active", p), 0, 0)
Clearing == OnMount("clear", GetDevice("Alternate", "Cache"), "ext4", "")
InitSteps == {CopyOf("BootInfo"), CopyOf("Root"), CopyOf("System"), BootFlags("write", "Alternate"), Clearing}

DeviceOf(c) == GetDevice("Alternate", c.dest)
ImageOf(c) == CopyTo(DeviceOf(c), c.file, c.offset, c.size)
StepOf(c, do) == OnMount(do, DeviceOf(c), GetFilesystemType(DeviceOf(c)), c.file)
FirstOf(c) == StepOf(c, IF c.complete THEN "clear" ELSE "look")

\* What may be left of the calls of a chunk.
ChunkQueue(c, s) ==
  \/ s = <<>>
  \/ c.type = "Image" /\ s = <<ImageOf(c)>>
  \/ c.type = "Archive" /\ s = <<FirstOf(c), StepOf(c, "add")>>
  \/ c.type \in {"Archive", "File"} /\ s = <<StepOf(c, "add")>>

\* The calls that the worker has to make are those of the job.
Assigned ==
  /\ ~Idle("worker") => job.kind # "none"
  /\ job.kind = "init" => \A i \in DOMAIN todo["worker"] : todo["worker"][i] \in InitSteps
  /\ job.kind = "chunk" => ChunkQueue(job.chunk, todo["worker"])

FlagDevices == {GetDevice("Active", "BootInfo"), GetDevice("Alternate", "BootInfo")}

Ordered ==
  /\ phase # "up" => job = NoJob
  /\ cancelUpdate => trouble
  /\ result = "succeeded" => Idle("worker")
  /\ \A i \in DOMAIN todo["main"] :
        IF todo["main"][i].do = "spawn" THEN result # "succeeded" ELSE todo["main"][i].dev \in FlagDevices

\* What a thread has on the mount point is what it has mounted there itself.
Owned ==
  /\ \A u \in Users : pc[u] \in {"checkPath", "mount"} => ~isMounted[u]
  /\ ~overlap => \A u \in Users : pc[u] \in {"use", "inUse"} =>
       isMounted[u] /\ stack = <<Task(u).dev>> /\ (pc[u] = "inUse" => open[u] = Task(u).dev)

\* The worker has done on the mount point what it mounted it for, or will not do it.
Past == pc["worker"] \in {"release", "unmount"}

Effects ==
  ~overlap /\ Past =>
    LET t == Task("worker")
    IN /\ isMounted["worker"] => /\ t.dev \in Devices
                                 /\ t.do = "clear" => content[t.dev].files = {}
                                 /\ t.do = "add" => t.file \in content[t.dev].files
       /\ job.kind = "init" /\ ~trouble /\ t.dev \in Devices \ Fstab[active] /\ OnDisk[t.dev] = t.type
            => isMounted["worker"]

\* A complete archive meets an empty filesystem.
Emptied ==
  ~overlap /\ job.kind = "chunk" /\ ~Idle("worker") =>
    LET c == job.chunk
    IN c.type = "Archive" /\ c.complete /\ Task("worker").do = "add" =>
         content[DeviceOf(c)].files = IF Past /\ isMounted["worker"] THEN {c.file} ELSE {}

\* A copy has put n bytes where they belong.
Placed(t, n) == \A k \in 0 .. n - 1 : content[t.dest].bytes[t.offset + k] = Source(t.src, k)

Progress ==
  ~overlap =>
    LET t == Task("worker")
    IN /\ copy.state = "open" => Placed(t, copy.total)
       /\ copy.state = "returned" /\ t.len # 0 /\ copy.total = t.len =>
            t.dest \in Devices /\ Placed(t, t.len)
       /\ copy.state = "returned" /\ ~trouble /\ t.len = 0 /\ t.src \in Devices /\ t.dest \in Devices =>
            Placed(t, SizeOf[t.src])

\* What a preparation promises is there, or the call for it is still to be made.
Has(s, x) == \E i \in DOMAIN s : s[i] = x

Prepared ==
  ~overlap /\ job.kind = "init" /\ ~trouble /\ (~Idle("worker") \/ result = "succeeded") =>
    /\ job.preparation.clear => CacheCleared \/ Has(todo["worker"], Clearing)
    /\ \A p \in job.preparation.parts \ {"BootInfo"} : Copied(p) \/ Has(todo["worker"], CopyOf(p))

\* A chunk that succeeded is on a device, or has no bytes.
Delivered ==
  ~overlap /\ job.kind = "chunk" /\ job.chunk.dest # "BootInfo" /\ result = "succeeded" =>
    LET c == job.chunk
    IN /\ DeviceOf(c) \in Devices \/ (c.type = "Image" /\ c.size = 0)
       /\ ChunkDone(c, DeviceOf(c))

Worked == Assigned /\ Effects /\ Emptied /\ Progress /\ Prepared /\ Delivered
InPlace == Freed /\ Aimed /\ Ordered /\ Owned /\ Worked
-----------------------------------------------------------------------------
(* Steps that leave the worker alone *)

LEMMA JobType ==
  ASSUME TypeOK
  PROVE  /\ job.kind \in {"none", "init", "chunk"} /\ (job.kind = "none" <=> job = NoJob)
         /\ job.kind = "init" => job.preparation \in Preparations
         /\ job.kind = "chunk" => job.chunk \in Chunks
  BY DEF TypeOK, Job, NoJob

\* Without a job nothing is promised.
LEMMA NoJobWorked ==
  ASSUME Base', job'.kind = "none", Idle("worker")'
  PROVE  Worked'
<1>1. pc'["worker"] = "idle" /\ copy'.state = "none"
  BY DEF Base, Calls, OnMountPoint
<1> QED
  BY <1>1 DEF Worked, Assigned, Effects, Emptied, Progress, Prepared, Delivered, Past

\* A step that changes nothing that the worker's promises are about.
LEMMA SameWorked ==
  ASSUME InPlace, UNCHANGED <<configVars, content, copy, job, result>>, todo'["worker"] = todo["worker"],
         pc'["worker"] = pc["worker"], isMounted'["worker"] = isMounted["worker"],
         ~overlap' => ~overlap, ~trouble' => ~trouble
  PROVE  Worked'
<1>1. Worked /\ UNCHANGED <<active, partitions, deviceTypes>> /\ Task("worker")' = Task("worker")
      /\ (Idle("worker")' <=> Idle("worker")) /\ (Past' <=> Past)
  BY DEF InPlace, configVars, tableVars, Task, Idle, Past
<1>2. Assigned'
  BY <1>1 DEF Worked, Assigned, InitSteps, ChunkQueue, ImageOf, StepOf, FirstOf, DeviceOf, CopyOf, Clearing,
              BootFlags, GetDevice, GetFilesystemType
<1>3. Effects' /\ Emptied'
  BY <1>1 DEF Worked, Effects, Emptied, DeviceOf, GetDevice
<1>4. Progress'
  BY <1>1 DEF Worked, Progress, Placed, Source
<1>5. Prepared'
  BY <1>1 DEF Worked, Prepared, CacheCleared, Copied, Clearing, CopyOf, GetDevice
<1>6. Delivered'
  BY <1>1 DEF Worked, Delivered, DeviceOf, GetDevice, ChunkDone
<1> QED
  BY <1>2, <1>3, <1>4, <1>5, <1>6 DEF Worked

LEMMA QuietWorked ==
  ASSUME InPlace, Base', Configure \/ Start \/ FinishCancel \/ Terminated
  PROVE  Worked'
<1>1. CASE FinishCancel \/ Terminated
  <2>1. job'.kind = "none" /\ Idle("worker")'
    BY <1>1 DEF FinishCancel, Terminated, NoJob, Idle
  <2> QED
    BY <2>1, NoJobWorked
<1>2. CASE Configure \/ Start
  <2>1. phase # "up" /\ job = NoJob /\ Idle("worker")
    BY <1>2 DEF Configure, Start, InPlace, Ordered, Aimed, Base, Quiet
  <2>2. job' = job /\ todo'["worker"] = todo["worker"]
    BY <1>2 DEF Configure, Start, jobVars, InPlace, Aimed, Base, Queues
  <2> QED
    BY <2>1, <2>2, NoJobWorked DEF NoJob, Idle
<1> QED
  BY <1>1, <1>2

LEMMA MessageWorked ==
  ASSUME InPlace, Base', Cancel \/ (\E c \in {"Active", "Alternate"} : SetFlags(c)) \/ UNCHANGED vars
  PROVE  Worked'
<1>1. UNCHANGED <<configVars, content, copy, job, result, pc, isMounted>> /\ todo'["worker"] = todo["worker"]
  BY DEF Cancel, SetFlags, vars, mountVars, copyVars, jobVars, InPlace, Aimed, Base, Queues
<1>2. (~overlap' => ~overlap) /\ (~trouble' => ~trouble)
  BY DEF Cancel, SetFlags, vars, jobVars, InPlace, Aimed, Base, TypeOK
<1> QED
  BY <1>1, <1>2, SameWorked

LEMMA PrepareWorked ==
  ASSUME InPlace, Base', NEW p \in Preparations, Prepare(p)
  PROVE  Worked'
<1>1. Idle("worker") /\ todo'["worker"] = todo["worker"] /\ job'.kind = "init" /\ result' = "none"
  BY DEF Prepare, InPlace, Aimed, Base, Queues
<1>2. todo'["worker"] = <<>> /\ Idle("worker")'
  BY <1>1 DEF Idle
<1>3. pc'["worker"] = "idle" /\ copy'.state = "none"
  BY <1>2 DEF Base, Calls, OnMountPoint
<1> QED
  BY <1>1, <1>2, <1>3 DEF Worked, Assigned, Effects, Emptied, Progress, Prepared, Delivered, Past

LEMMA OneAndOne == ASSUME NEW a, NEW b PROVE <<a>> \o <<b>> = <<a, b>>
<1> DEFINE S == {a, b}
           s == <<a>> \o <<b>>
           r == <<a, b>>
<1>1. <<a>> \in Seq(S) /\ <<b>> \in Seq(S) /\ r \in Seq(S)
  OBVIOUS
<1>2. Len(<<a>>) = 1 /\ Len(<<b>>) = 1 /\ Len(r) = 2 /\ r[1] = a /\ r[2] = b /\ <<a>>[1] = a /\ <<b>>[1] = b
  OBVIOUS
<1>3. s \in Seq(S) /\ Len(s) = 2 /\ s[1] = a /\ s[2] = b
  BY <1>1, <1>2, ConcatProperties
<1> HIDE DEF s, r, S
<1>4. \A i \in 1 .. Len(s) : s[i] = r[i]
  BY <1>2, <1>3
<1> QED
  BY <1>1, <1>2, <1>3, <1>4, SeqEqual DEF s, r

LEMMA ProcessChunkWorked ==
  ASSUME InPlace, Base', NEW c \in Chunks, ProcessChunk(c)
  PROVE  Worked'
<1>1. /\ Idle("worker") /\ job'.kind = "chunk" /\ job'.chunk = c /\ result' \in {"none", "failed"}
      /\ UNCHANGED <<configVars, pc, copy>> /\ todo'["worker"] \in {<<>>, ChunkTasks(c)}
  BY DEF ProcessChunk, InPlace, Aimed, Base, Queues, Idle, mountVars, copyVars
<1>2. pc'["worker"] = "idle" /\ copy'.state = "none"
  BY <1>1, IdleQuiet DEF InPlace, Aimed
<1>3. c.type \in ChunkType
  BY DEF ChunkInfo
<1>4. ChunkQueue(c, ChunkTasks(c)) /\ (c.type = "Archive" => Head(ChunkTasks(c)) = FirstOf(c))
  <2>1. CASE c.type = "Image"
    BY <2>1 DEF ChunkTasks, ChunkQueue, ImageOf, DeviceOf
  <2>2. CASE c.type = "Archive"
    <3>1. ChunkTasks(c) = <<FirstOf(c)>> \o <<StepOf(c, "add")>>
      BY <2>2 DEF ChunkTasks, FirstOf, StepOf, DeviceOf
    <3>2. ChunkTasks(c) = <<FirstOf(c), StepOf(c, "add")>>
      BY <3>1, OneAndOne, Zenon
    <3> QED
      BY <2>2, <3>2 DEF ChunkQueue
  <2>3. CASE c.type = "File"
    BY <2>3 DEF ChunkTasks, ChunkQueue, StepOf, DeviceOf
  <2> QED
    BY <1>3, <2>1, <2>2, <2>3 DEF ChunkType
<1>5. ChunkQueue(c, todo'["worker"])
  BY <1>1, <1>4 DEF ChunkQueue
<1>6. Assigned'
  <2>1. UNCHANGED <<partitions, deviceTypes>>
    BY <1>1 DEF configVars, tableVars
  <2> QED
    BY <1>1, <1>5, <2>1 DEF Assigned, ChunkQueue, ImageOf, StepOf, FirstOf, DeviceOf, GetDevice, GetFilesystemType
<1>7. Emptied'
  BY <1>1, <1>4 DEF Emptied, Idle, Task, FirstOf, StepOf, OnMount
<1> QED
  BY <1>1, <1>2, <1>6, <1>7 DEF Worked, Effects, Progress, Prepared, Delivered, Past
-----------------------------------------------------------------------------
(* The thread that prepares the alternate container starts *)

LEMMA HasConcat ==
  ASSUME NEW S, NEW s \in Seq(S), NEW r \in Seq(S), NEW x, Has(s, x) \/ Has(r, x)
  PROVE  Has(s \o r, x)
<1>1. /\ Len(s) \in Nat /\ Len(r) \in Nat /\ DOMAIN s = 1 .. Len(s) /\ DOMAIN r = 1 .. Len(r)
      /\ DOMAIN (s \o r) = 1 .. Len(s) + Len(r)
      /\ \A i \in 1 .. Len(s) + Len(r) : (s \o r)[i] = IF i <= Len(s) THEN s[i] ELSE r[i - Len(s)]
  BY ConcatProperties, LenProperties
<1> DEFINE q == s \o r
           m == Len(s)
           n == Len(r)
<1> HIDE DEF q, m, n
<1>2. CASE Has(s, x)
  <2>1. PICK i \in DOMAIN s : s[i] = x
    BY <1>2 DEF Has
  <2>2. i \in 1 .. m + n /\ i <= m
    BY <1>1, <2>1 DEF m, n
  <2> QED
    BY <1>1, <2>1, <2>2 DEF Has, q, m, n
<1>3. CASE Has(r, x)
  <2>1. PICK i \in DOMAIN r : r[i] = x
    BY <1>3 DEF Has
  <2>2. m + i \in 1 .. m + n /\ ~(m + i <= m) /\ (m + i) - m = i
    BY <1>1, <2>1 DEF m, n
  <2>3. q[m + i] = x /\ m + i \in DOMAIN q
    BY <1>1, <2>1, <2>2 DEF q, m, n
  <2> QED
    BY <2>3 DEF Has, q
<1> QED
  BY <1>2, <1>3

LEMMA HasOne == ASSUME NEW x PROVE Has(<<x>>, x)
  BY DEF Has

\* The calls of a preparation, and among them those that were asked for.
LEMMA InitTasksHave ==
  ASSUME TypeOK, NEW p \in Preparations
  PROVE  /\ InitTasks(p) \in Seq(InitSteps)
         /\ \A q \in p.parts \ {"BootInfo"} : Has(InitTasks(p), CopyOf(q))
         /\ p.clear /\ GetDevice("Alternate", "Cache") # NoDevice => Has(InitTasks(p), Clearing)
<1> DEFINE S == InitSteps
           boot == When("BootInfo" \in p.parts, CopyPartition("BootInfo") \o <<BootFlags("write", "Alternate")>>)
           root == When("Root" \in p.parts, CopyPartition("Root"))
           system == When("System" \in p.parts, CopyPartition("System"))
           cache == When(p.clear /\ GetDevice("Alternate", "Cache") # NoDevice, <<Clearing>>)
<1>1. p \in Preparation
  OBVIOUS
<1>2. /\ CopyOf("BootInfo") \in S /\ CopyOf("Root") \in S /\ CopyOf("System") \in S
      /\ BootFlags("write", "Alternate") \in S /\ Clearing \in S
  BY DEF InitSteps
<1> HIDE DEF S
<1>3. \A q \in Parts : CopyPartition(q) = <<CopyOf(q)>>
  BY DEF CopyPartition, CopyOf
<1>4. <<>> \in Seq(S)
  BY EmptySeq
<1>5. CopyPartition("BootInfo") \o <<BootFlags("write", "Alternate")>> \in Seq(S)
  BY <1>2, <1>3, SeqOfOne, SeqOfBoth
<1>6. boot \in Seq(S)
  BY <1>4, <1>5 DEF When
<1>7. root \in Seq(S) /\ system \in Seq(S) /\ cache \in Seq(S)
  <2>1. <<CopyOf("Root")>> \in Seq(S) /\ <<CopyOf("System")>> \in Seq(S) /\ <<Clearing>> \in Seq(S)
    BY <1>2, SeqOfOne
  <2> QED
    BY <1>3, <1>4, <2>1 DEF When
<1>8. InitTasks(p) = ((boot \o root) \o system) \o cache
  BY DEF InitTasks, Clearing
<1>9. "Root" \in p.parts => Has(root, CopyOf("Root"))
  BY <1>3, HasOne DEF When
<1>10. "System" \in p.parts => Has(system, CopyOf("System"))
  BY <1>3, HasOne DEF When
<1>11. p.clear /\ GetDevice("Alternate", "Cache") # NoDevice => Has(cache, Clearing)
  BY <1>1, HasOne DEF When, Preparation
<1> HIDE DEF boot, root, system, cache
<1>12. boot \o root \in Seq(S) /\ (boot \o root) \o system \in Seq(S) /\ ((boot \o root) \o system) \o cache \in Seq(S)
  BY <1>6, <1>7, SeqOfBoth
<1>13. ASSUME "Root" \in p.parts PROVE Has(InitTasks(p), CopyOf("Root"))
  <2>1. Has(boot \o root, CopyOf("Root"))
    BY <1>6, <1>7, <1>9, <1>13, HasConcat, Zenon
  <2>2. Has((boot \o root) \o system, CopyOf("Root"))
    BY <1>7, <1>12, <2>1, HasConcat, Zenon
  <2>3. Has(((boot \o root) \o system) \o cache, CopyOf("Root"))
    BY <1>7, <1>12, <2>2, HasConcat, Zenon
  <2> QED
    BY <1>8, <2>3
<1>14. ASSUME "System" \in p.parts PROVE Has(InitTasks(p), CopyOf("System"))
  <2>1. Has((boot \o root) \o system, CopyOf("System"))
    BY <1>7, <1>10, <1>12, <1>14, HasConcat, Zenon
  <2>2. Has(((boot \o root) \o system) \o cache, CopyOf("System"))
    BY <1>7, <1>12, <2>1, HasConcat, Zenon
  <2> QED
    BY <1>8, <2>2
<1>15. ASSUME p.clear /\ GetDevice("Alternate", "Cache") # NoDevice PROVE Has(InitTasks(p), Clearing)
  <2>1. Has(((boot \o root) \o system) \o cache, Clearing)
    BY <1>7, <1>11, <1>12, <1>15, HasConcat, Zenon
  <2> QED
    BY <1>8, <2>1
<1>16. \A q \in p.parts \ {"BootInfo"} : q = "Root" \/ q = "System"
  BY <1>1 DEF Preparation
<1> QED
  BY <1>8, <1>12, <1>13, <1>14, <1>15, <1>16 DEF S

LEMMA SpawnWorked ==
  ASSUME InPlace, Base', Spawn
  PROVE  Worked'
<1>1. todo["main"] # <<>> /\ todo["main"][1].do = "spawn" /\ todo["main"] \in Seq(MainTasks)
  BY DEF Spawn, Idle, Task, InPlace, Aimed, Base, Queues
<1>2. job.kind = "init" /\ Idle("worker") /\ TypeOK
  BY <1>1 DEF InPlace, Aimed, Base, Calls
<1>3. job.preparation \in Preparations
  BY <1>2, JobType
<1>4. todo'["worker"] = InitTasks(job.preparation) /\ UNCHANGED <<configVars, content, copy, job, result, pc>>
  BY DEF Spawn, mountVars, copyVars
<1>5. pc'["worker"] = "idle" /\ copy'.state = "none"
  BY <1>2, <1>4, IdleQuiet DEF InPlace, Aimed
<1>6. /\ todo'["worker"] \in Seq(InitSteps)
      /\ \A q \in job.preparation.parts \ {"BootInfo"} : Has(todo'["worker"], CopyOf(q))
      /\ job.preparation.clear /\ GetDevice("Alternate", "Cache") # NoDevice => Has(todo'["worker"], Clearing)
  BY <1>2, <1>3, <1>4, InitTasksHave
<1>7. UNCHANGED partitions
  BY <1>4 DEF configVars, tableVars
<1>8. InitSteps' = InitSteps /\ Clearing' = Clearing /\ \A q : CopyOf(q)' = CopyOf(q)
  BY <1>7 DEF InitSteps, CopyOf, Clearing, BootFlags, GetDevice
<1>9. \A i \in DOMAIN todo'["worker"] : todo'["worker"][i] \in InitSteps
  BY <1>6, ElementOfSeq, LenProperties
<1>10. Assigned'
  BY <1>2, <1>4, <1>8, <1>9 DEF Assigned
<1>11. Prepared'
  <2>1. GetDevice("Alternate", "Cache") = NoDevice => CacheCleared'
    BY <1>7 DEF CacheCleared, GetDevice
  <2> QED
    BY <1>4, <1>6, <1>8, <2>1 DEF Prepared
<1>12. result' # "succeeded"
  <2>1. 1 \in DOMAIN todo["main"]
    BY <1>1, EmptySeq, LenProperties
  <2> QED
    BY <1>1, <1>4, <2>1 DEF InPlace, Ordered
<1> QED
  BY <1>2, <1>4, <1>5, <1>10, <1>11 DEF Worked, Effects, Emptied, Progress, Delivered, Past
-----------------------------------------------------------------------------
(* What is written elsewhere does not break a promise *)

LEMMA DevicesApart ==
  ASSUME ConfApart, Tables, NEW c \in Containers, NEW e \in Containers, NEW p \in Parts, NEW q \in Parts,
         GetDevice(c, p) = GetDevice(e, q), GetDevice(c, p) # NoDevice
  PROVE  p = q
<1>1. Told(c, p) /\ Told(e, q)
  BY DEF Tables
<1>2. PICK l \in ConfLines : l.dev = GetDevice(c, p) /\ l.part = p
  BY <1>1 DEF Told
<1>3. PICK m \in ConfLines : m.dev = GetDevice(e, q) /\ m.part = q
  BY <1>1 DEF Told
<1> QED
  BY <1>2, <1>3 DEF ConfApart

\* A step writes nothing but a device of partition q.
LEMMA PromisesKept ==
  ASSUME ConfApart, Tables, UNCHANGED <<active, partitions>>, NEW c \in Containers, NEW q \in Parts,
         \A d \in Devices : d # GetDevice(c, q) => content'[d] = content[d]
  PROVE  /\ \A p \in Parts \ {q} : Copied(p) => Copied(p)'
         /\ q # "Cache" /\ CacheCleared => CacheCleared'
         /\ \A k \in Chunks : k.dest # q /\ DeviceOf(k) \in Devices /\ ChunkDone(k, DeviceOf(k)) =>
               ChunkDone(k, DeviceOf(k))'
<1>1. ASSUME NEW p \in Parts \ {q}, NEW e \in {"Active", "Alternate"}, GetDevice(e, p) \in Devices
      PROVE  content'[GetDevice(e, p)] = content[GetDevice(e, p)]
  BY <1>1, DevicesApart DEF Containers
<1>2. ASSUME NEW p \in Parts \ {q}, Copied(p) PROVE Copied(p)'
  BY <1>1, <1>2 DEF Copied, GetDevice
<1>3. ASSUME q # "Cache", CacheCleared PROVE CacheCleared'
  BY <1>1, <1>3 DEF CacheCleared, GetDevice
<1>4. ASSUME NEW k \in Chunks, k.dest # q, DeviceOf(k) \in Devices, ChunkDone(k, DeviceOf(k))
      PROVE  ChunkDone(k, DeviceOf(k))'
  <2>1. k.dest \in Parts
    BY DEF ChunkInfo
  <2>2. content'[DeviceOf(k)] = content[DeviceOf(k)] /\ DeviceOf(k)' = DeviceOf(k)
    BY <1>1, <1>4, <2>1 DEF DeviceOf, GetDevice
  <2> QED
    BY <1>4, <2>2 DEF ChunkDone
<1> QED
  BY <1>2, <1>3, <1>4

\* What a thread does on a partition that is mounted, it does to one device.
LEMMA UseWrites ==
  ASSUME Base, NEW u \in Users, Use(u), NEW d, d = IF Task(u).do = "clear" THEN Top ELSE open[u]
  PROVE  \A e \in Devices : e # d => content'[e] = content[e]
<1>1. content' = content \/ \E new : content' = [content EXCEPT ![d] = new]
  BY DEF Use
<1> QED
  BY <1>1 DEF Base, TypeOK, CopyTypeOK

LEMMA SameAssigned ==
  ASSUME Assigned, UNCHANGED <<partitions, deviceTypes, job>>, todo'["worker"] = todo["worker"]
  PROVE  Assigned'
  BY DEF Assigned, Idle, InitSteps, ChunkQueue, ImageOf, StepOf, FirstOf, DeviceOf, CopyOf, Clearing,
         BootFlags, GetDevice, GetFilesystemType

\* The main thread on the mount point: it writes boot flags.
LEMMA FlagsWorked ==
  ASSUME ConfApart, InPlace, Base', MountStep("main") \/ MountFault("main")
  PROVE  Worked'
<1>1. /\ UNCHANGED <<configVars, copy, job, overlap>> /\ OnMountPoint("main")
      /\ UNCHANGED trouble
  BY DEF MountStep, MountFault, copyVars, InPlace, Aimed, Base, TypeOK
<1>2. UNCHANGED result /\ todo'["worker"] = todo["worker"]
  BY DEF MountStep, MountFault, DropTask, InPlace, Aimed, Base, Queues
<1>3. UNCHANGED <<active, partitions, deviceTypes>>
  BY <1>1 DEF configVars, tableVars
<1>4. Assigned'
  BY <1>1, <1>2, <1>3, SameAssigned DEF InPlace, Worked
<1>5. CASE overlap
  BY <1>1, <1>4, <1>5 DEF Worked, Effects, Emptied, Progress, Prepared, Delivered
<1>6. CASE ~overlap
  <2>1. ~Idle("main") /\ Idle("worker")
    BY <1>1, <1>6, Alone DEF OnMountPoint, InPlace, Freed
  <2>2. Idle("worker")' /\ pc'["worker"] = "idle" /\ copy'.state = "none"
    <3>1. Idle("worker")'
      BY <1>2, <2>1 DEF Idle
    <3> QED
      BY <3>1 DEF Base, Calls, OnMountPoint
  <2>3. PICK c \in Containers : \A d \in Devices : d # GetDevice(c, "BootInfo") => content'[d] = content[d]
    <3>1. CASE ClosePath("main") /\ Use("main")
      <4>1. Task("main").do \in {"read", "write"} /\ Task("main").dev \in FlagDevices
        <5>1. todo["main"] \in Seq(MainTasks) /\ todo["main"] # <<>>
          BY <2>1 DEF InPlace, Aimed, Base, Queues, Idle
        <5>2. 1 \in DOMAIN todo["main"] /\ Task("main") = todo["main"][1] /\ Task("main") \in MainTasks
          BY <5>1, EmptySeq, LenProperties, ElementOfSeq DEF Task
        <5>3. Task("main").do # "spawn"
          BY <1>1 DEF OnMountPoint
        <5> QED
          BY <5>2, <5>3 DEF MainTasks, InPlace, Ordered
      <4>2. open["main"] = Task("main").dev
        BY <1>6, <3>1 DEF ClosePath, InPlace, Owned
      <4>3. \A d \in Devices : d # Task("main").dev => content'[d] = content[d]
        BY <3>1, <4>1, <4>2, UseWrites DEF InPlace, Aimed
      <4> QED
        BY <4>1, <4>3 DEF FlagDevices, Containers
    <3>2. CASE UNCHANGED content
      BY <3>2 DEF Containers
    <3> QED
      BY <3>1, <3>2 DEF MountStep, MountFault, copyVars
  <2>4. Tables
    BY DEF InPlace, Aimed
  <2>5. /\ \A p \in Parts \ {"BootInfo"} : Copied(p) => Copied(p)'
        /\ CacheCleared => CacheCleared'
        /\ \A k \in Chunks : k.dest # "BootInfo" /\ DeviceOf(k) \in Devices /\ ChunkDone(k, DeviceOf(k)) =>
               ChunkDone(k, DeviceOf(k))'
    BY <1>3, <2>3, <2>4, PromisesKept
  <2>6. Effects' /\ Emptied' /\ Progress'
    BY <2>2 DEF Effects, Emptied, Progress, Past
  <2>7. Prepared'
    <3> SUFFICES ASSUME job.kind = "init", ~trouble, result = "succeeded"
                 PROVE  /\ job.preparation.clear => CacheCleared' \/ Has(todo["worker"], Clearing')
                        /\ \A p \in job.preparation.parts \ {"BootInfo"} : Copied(p)' \/ Has(todo["worker"], CopyOf(p)')
      BY <1>1, <1>2, <2>2 DEF Prepared
    <3>1. job.preparation \in Preparation
      BY JobType DEF InPlace, Aimed, Base
    <3>2. job.preparation.parts \subseteq Parts
      BY <3>1 DEF Preparation
    <3>3. Clearing' = Clearing /\ \A p : CopyOf(p)' = CopyOf(p)
      BY <1>3 DEF Clearing, CopyOf, GetDevice
    <3> QED
      BY <1>6, <2>5, <3>2, <3>3 DEF InPlace, Worked, Prepared
  <2>8. Delivered'
    <3> SUFFICES ASSUME job.kind = "chunk", job.chunk.dest # "BootInfo", result = "succeeded"
                 PROVE  /\ DeviceOf(job.chunk)' \in Devices \/ (job.chunk.type = "Image" /\ job.chunk.size = 0)
                        /\ ChunkDone(job.chunk, DeviceOf(job.chunk))'
      BY <1>1, <1>2 DEF Delivered
    <3>1. job.chunk \in Chunks
      BY JobType DEF InPlace, Aimed, Base
    <3>2. DeviceOf(job.chunk)' = DeviceOf(job.chunk)
      BY <1>1, <1>3 DEF DeviceOf, GetDevice
    <3>3. /\ DeviceOf(job.chunk) \in Devices \/ (job.chunk.type = "Image" /\ job.chunk.size = 0)
          /\ ChunkDone(job.chunk, DeviceOf(job.chunk))
      BY <1>6 DEF InPlace, Worked, Delivered
    <3>4. CASE DeviceOf(job.chunk) \in Devices
      BY <1>1, <2>5, <3>1, <3>2, <3>3, <3>4
    <3>5. CASE job.chunk.type = "Image" /\ job.chunk.size = 0
      BY <1>1, <3>2, <3>3, <3>5 DEF ChunkDone
    <3> QED
      BY <3>3, <3>4, <3>5
  <2> QED
    BY <1>4, <2>6, <2>7, <2>8 DEF Worked
<1> QED
  BY <1>5, <1>6
-----------------------------------------------------------------------------
(* The order of the calls, and what a thread has on the mount point *)

LEMMA InPlaceBase == InPlace => Base /\ TypeOK /\ Turns
  BY DEF InPlace, Freed, Base

\* A call is dropped: what is left of the main thread's, and how the job ends.
LEMMA DropOrdered ==
  ASSUME InPlace, NEW u \in Users, ~Idle(u), NEW ok \in BOOLEAN, DropTask(u, ok),
         UNCHANGED <<phase, job, cancelUpdate, partitions>>, ~trouble' => ~trouble
  PROVE  Ordered'
<1>1. Base /\ Ordered /\ todo' = [todo EXCEPT ![u] = IF ok THEN Tail(@) ELSE <<>>]
  BY DEF InPlace, Aimed, DropTask
<1>2. FlagDevices' = FlagDevices
  BY DEF FlagDevices, GetDevice
<1>3. CASE u = "worker"
  <2>1. todo["worker"] \in Seq(WorkerTasks) /\ todo["worker"] # <<>> /\ result # "succeeded"
    BY <1>1, <1>3 DEF Base, Queues, Idle, Ordered
  <2>2. todo'["main"] = todo["main"] /\ todo'["worker"] = IF ok THEN Tail(todo["worker"]) ELSE <<>>
    BY <1>1, <1>3 DEF Base, Queues
  <2>3. result' = "succeeded" => ok /\ Len(todo["worker"]) = 1
    BY <1>3, <2>1 DEF DropTask
  <2>4. Len(todo["worker"]) = 1 => Tail(todo["worker"]) = <<>>
    <3>1. Tail(todo["worker"]) \in Seq(WorkerTasks) /\ Len(Tail(todo["worker"])) = Len(todo["worker"]) - 1
      BY <2>1, HeadTailProperties
    <3>2. Len(todo["worker"]) = 1 => Len(Tail(todo["worker"])) = 0
      BY <3>1
    <3> QED
      BY <3>1, <3>2, EmptySeq
  <2>5. result' = "succeeded" => Idle("worker")'
    BY <2>2, <2>3, <2>4 DEF Idle
  <2>6. ~Idle("worker")
    BY <2>1 DEF Idle
  <2>7. \A i \in DOMAIN todo["main"] : todo["main"][i].do # "spawn"
    BY <1>1, <2>6 DEF Base, Calls
  <2>8. \A i \in DOMAIN todo'["main"] : todo'["main"][i].do # "spawn" /\ todo'["main"][i].dev \in FlagDevices'
    <3>1. \A i \in DOMAIN todo["main"] : todo["main"][i].dev \in FlagDevices
      BY <1>1, <2>7 DEF Ordered
    <3> QED
      BY <1>2, <2>2, <2>7, <3>1, Zenon
  <2>9. (phase' # "up" => job' = NoJob) /\ (cancelUpdate' => trouble')
    BY <1>1 DEF Ordered
  <2> QED
    BY <2>5, <2>8, <2>9 DEF Ordered
<1>4. CASE u = "main"
  <2> DEFINE P == {t \in MainTasks : IF t.do = "spawn" THEN result # "succeeded" ELSE t.dev \in FlagDevices}
  <2>1. todo["main"] \in Seq(MainTasks) /\ todo["main"] # <<>> /\ result' = result
    BY <1>1, <1>4 DEF Base, Queues, Idle, DropTask
  <2>2. todo'["worker"] = todo["worker"] /\ todo'["main"] = IF ok THEN Tail(todo["main"]) ELSE <<>>
    BY <1>1, <1>4 DEF Base, Queues
  <2>3. \A i \in DOMAIN todo["main"] : todo["main"][i] \in P
    BY <1>1, <2>1, ElementOfSeq, LenProperties DEF Ordered
  <2> HIDE DEF P
  <2>4. \A i \in DOMAIN todo'["main"] : todo'["main"][i] \in P
    <3>1. \A i \in DOMAIN Tail(todo["main"]) : Tail(todo["main"])[i] \in P
      BY <2>1, <2>3, TailIn, Zenon
    <3> QED
      BY <2>2, <3>1
  <2> QED
    BY <1>1, <1>2, <2>1, <2>2, <2>4 DEF P, Ordered, Idle
<1> QED
  BY <1>3, <1>4

LEMMA ClientOrdered ==
  ASSUME InPlace, Client
  PROVE  Ordered'
<1>1. Base /\ Ordered /\ DOMAIN todo = Users /\ trouble \in BOOLEAN /\ cancelUpdate \in BOOLEAN
  BY DEF InPlace, Aimed, Base, Queues, TypeOK, CopyTypeOK
<1>2. phase = "up" /\ phase' = "up" /\ Idle("main") /\ UNCHANGED configVars
  BY DEF Client, Prepare, ProcessChunk, SetFlags, Cancel, Message
<1>3. FlagDevices' = FlagDevices
  BY <1>2 DEF FlagDevices, GetDevice, configVars, tableVars
<1>4. \A do, c : c \in {"Active", "Alternate"} /\ do # "spawn" =>
         BootFlags(do, c).dev \in FlagDevices /\ BootFlags(do, c).do # "spawn"
  BY DEF BootFlags, OnMount, FlagDevices
<1>5. ASSUME NEW p \in Preparations, Prepare(p) PROVE Ordered'
  <2>1. todo'["main"] = <<BootFlags("write", "Alternate"), [do |-> "spawn"]>> /\ result' = "none" /\ ~cancelUpdate'
    BY <1>1, <1>5 DEF Prepare, copyVars
  <2> QED
    BY <1>2, <1>3, <1>4, <2>1 DEF Ordered
<1>6. ASSUME NEW c \in Chunks, ProcessChunk(c) PROVE Ordered'
  <2>1. todo'["main"] = <<>> /\ result' # "succeeded" /\ ~cancelUpdate'
    BY <1>1, <1>2, <1>6 DEF ProcessChunk, copyVars, Idle
  <2> QED
    BY <1>2, <2>1 DEF Ordered
<1>7. ASSUME NEW c \in {"Active", "Alternate"}, SetFlags(c) PROVE Ordered'
  <2>1. /\ todo'["main"] = <<BootFlags("write", c)>> /\ todo'["worker"] = todo["worker"]
        /\ UNCHANGED <<cancelUpdate, trouble, result>>
    BY <1>1, <1>7 DEF SetFlags, copyVars
  <2> QED
    BY <1>1, <1>2, <1>3, <1>4, <2>1 DEF Ordered, Idle
<1>8. CASE Cancel
  BY <1>1, <1>2, <1>3, <1>8 DEF Cancel, Ordered, Idle
<1> QED
  BY <1>5, <1>6, <1>7, <1>8 DEF Client

LEMMA ServerOrdered ==
  ASSUME InPlace, Configure \/ Start \/ FinishCancel \/ Terminated \/ Spawn \/ UNCHANGED vars
  PROVE  Ordered'
<1>1. Base /\ Ordered /\ DOMAIN todo = Users /\ trouble \in BOOLEAN /\ cancelUpdate \in BOOLEAN
  BY DEF InPlace, Aimed, Base, Queues, TypeOK, CopyTypeOK
<1>2. CASE Configure
  <2>1. todo["main"] = <<>> /\ UNCHANGED <<phase, todo, job, result, trouble, cancelUpdate>>
    BY <1>1, <1>2 DEF Configure, Base, Quiet, Idle, jobVars, copyVars
  <2> QED
    BY <1>1, <2>1 DEF Ordered, Idle
<1>3. CASE Start
  <2>1. /\ todo'["main"] = <<BootFlags("read", "Active"), BootFlags("read", "Alternate")>>
        /\ todo'["worker"] = todo["worker"] /\ phase' = "up"
        /\ UNCHANGED <<configVars, job, result, trouble, cancelUpdate>>
    BY <1>1, <1>3 DEF Start, copyVars
  <2>2. FlagDevices' = FlagDevices
    BY <2>1 DEF FlagDevices, GetDevice, configVars, tableVars
  <2>3. \A i \in DOMAIN todo'["main"] : todo'["main"][i].do = "read" /\ todo'["main"][i].dev \in FlagDevices'
    BY <2>1, <2>2 DEF BootFlags, OnMount, FlagDevices
  <2>4. (cancelUpdate' => trouble') /\ (result' = "succeeded" => Idle("worker")')
    BY <1>1, <2>1 DEF Ordered, Idle
  <2> QED
    BY <2>1, <2>3, <2>4 DEF Ordered
<1>4. CASE FinishCancel
  <2>1. todo["main"] = <<>> /\ todo' = todo /\ phase = "up" /\ phase' = phase /\ ~cancelUpdate' /\ result' = "none"
    BY <1>4 DEF FinishCancel, Message, Idle
  <2> QED
    BY <2>1 DEF Ordered
<1>5. CASE Terminated
  <2>1. todo'["main"] = <<>> /\ ~cancelUpdate' /\ result' = "none" /\ job' = NoJob
    BY <1>5 DEF Terminated
  <2> QED
    BY <2>1 DEF Ordered
<1>6. CASE Spawn
  <2>1. todo["main"] # <<>> /\ todo["main"][1].do = "spawn" /\ todo["main"] \in Seq(MainTasks)
    BY <1>1, <1>6 DEF Spawn, Idle, Task, Base, Queues
  <2>2. 1 \in DOMAIN todo["main"]
    BY <2>1, EmptySeq, LenProperties
  <2>3. result # "succeeded"
    BY <1>1, <2>1, <2>2 DEF Ordered
  <2>4. todo'["main"] = <<>> /\ UNCHANGED <<phase, job, result, trouble, cancelUpdate>>
    BY <1>6 DEF Spawn, copyVars
  <2> QED
    BY <1>1, <2>3, <2>4 DEF Ordered
<1>7. CASE UNCHANGED vars
  <2>1. UNCHANGED <<phase, todo, job, result, trouble, cancelUpdate, partitions>>
    BY <1>7 DEF vars, configVars, tableVars, copyVars, jobVars
  <2> QED
    BY <1>1, <2>1 DEF Ordered, Idle, FlagDevices, GetDevice
<1> QED
  BY <1>2, <1>3, <1>4, <1>5, <1>6, <1>7

LEMMA UserOrdered ==
  ASSUME InPlace, NEW u \in Users, MountStep(u) \/ MountFault(u) \/ CopyTask(u) \/ CopyFault(u)
  PROVE  Ordered'
<1>1. Base /\ Ordered /\ TypeOK /\ MountTypeOK
  BY DEF InPlace, Aimed, Base, TypeOK
<1>2. /\ UNCHANGED <<phase, job, partitions>> /\ ~Idle(u) /\ (~trouble' => ~trouble)
      /\ UNCHANGED cancelUpdate
  BY <1>1 DEF MountStep, MountFault, CopyTask, CopyFault, OnMountPoint, configVars, tableVars, copyVars, TypeOK,
              StartCopy, CopyBlock, LeaveLoop, WriteShort, ReadFails
<1>3. CASE UNCHANGED <<todo, result>>
  BY <1>1, <1>2, <1>3 DEF Ordered, Idle, FlagDevices, GetDevice
<1>4. CASE DropTask(u, u = "main" \/ job.kind = "init" \/ isMounted[u])
  BY <1>1, <1>2, <1>4, DropOrdered DEF MountTypeOK
<1>5. CASE DropTask(u, job.kind = "init" \/ WroteAll(Task(u)))
  BY <1>2, <1>5, DropOrdered DEF WroteAll
<1> QED
  BY <1>3, <1>4, <1>5 DEF MountStep, MountFault, CopyTask, CopyFault

LEMMA NextOrdered == InPlace /\ [Next]_vars => Ordered'
<1> SUFFICES ASSUME InPlace, [Next]_vars PROVE Ordered'
  OBVIOUS
<1>1. ASSUME NEW u \in Users, UserStep(u) \/ MountFault(u) \/ CopyFault(u) PROVE Ordered'
  BY <1>1, UserOrdered, ServerOrdered DEF UserStep
<1>2. CASE Client
  BY <1>2, ClientOrdered
<1>3. CASE Configure \/ Start \/ FinishCancel \/ Kill \/ Throw \/ UNCHANGED vars
  BY <1>3, ServerOrdered DEF Kill, Throw
<1> QED
  BY <1>1, <1>2, <1>3 DEF Next

LEMMA FreePlace ==
  ASSUME InPlace, ~overlap, NEW u \in Users, OnMountPoint(u),
         pc[u] = "mount" \/ (u = "worker" /\ pc[u] \in {"idle", "checkPath"})
  PROVE  stack = <<>>
<1>1. Base /\ Turns /\ Freeing /\ phase = "up" /\ ~Idle(u)
  BY OnlyMounts DEF InPlace, Freed
<1>2. \A v \in Users \ {u} : pc[v] = "idle" /\ Idle(v)
  BY <1>1, Alone
<1>3. u = "worker" => Reads = 0
  BY <1>1, <1>2 DEF Reads
<1>4. stack = <<>> \/ Len(stack) <= 0
  BY <1>1, <1>2, <1>3 DEF Freeing
<1>5. stack \in Seq(Devices)
  BY <1>1 DEF Base, TypeOK, MountTypeOK
<1>6. stack # <<>> => Len(stack) \in Nat \ {0}
  BY <1>5, EmptySeq
<1> QED
  BY <1>4, <1>6

LEMMA AppendFirst == ASSUME NEW a PROVE Append(<<>>, a) = <<a>>
  OBVIOUS

LEMMA MountOwned ==
  ASSUME InPlace, NEW u \in Users, MountStep(u) \/ MountFault(u)
  PROVE  Owned'
<1>1. /\ OnMountPoint(u) /\ overlap' = overlap /\ ~Idle(u)
      /\ pc \in [Users -> MountPc] /\ isMounted \in [Users -> BOOLEAN]
      /\ open \in [Users -> Devices \union {RootFs, NoFile}]
  BY DEF MountStep, MountFault, OnMountPoint, InPlace, Aimed, Base, TypeOK, MountTypeOK
<1>2. Owned /\ Base /\ Turns
  BY DEF InPlace, Freed
<1>3. ~overlap => \A v \in Users \ {u} : pc[v] = "idle"
  BY <1>1, <1>2, Alone
<1>4. CASE CheckDevice(u, Task(u).dev)
  BY <1>1, <1>2, <1>3, <1>4 DEF CheckDevice, Owned
<1>5. CASE CheckPath(u)
  BY <1>1, <1>2, <1>3, <1>5 DEF CheckPath, Owned
<1>6. CASE MountFails(u)
  BY <1>1, <1>2, <1>3, <1>6 DEF MountFails, Owned
<1>7. CASE MountDevice(u, Task(u).dev, Task(u).type) /\ UNCHANGED todo
  <2>1. ~overlap => stack' = <<Task(u).dev>>
    BY <1>1, <1>7, FreePlace, AppendFirst DEF MountDevice
  <2>2. pc'[u] = "use" /\ isMounted'[u] /\ Task(u)' = Task(u) /\ \A v \in Users \ {u} : pc'[v] = pc[v] /\ isMounted'[v] = isMounted[v]
    BY <1>1, <1>7 DEF MountDevice, Task
  <2> QED
    BY <1>1, <1>2, <1>3, <2>1, <2>2 DEF Owned
<1>8. CASE OpenPath(u) /\ UNCHANGED todo
  <2>1. ~overlap => stack = <<Task(u).dev>> /\ isMounted[u]
    BY <1>2, <1>8 DEF OpenPath, Owned
  <2>2. stack = <<Task(u).dev>> => Top = Task(u).dev
    BY DEF Top
  <2>3. /\ pc'[u] = "inUse" /\ open'[u] = Top /\ Task(u)' = Task(u) /\ UNCHANGED <<stack, isMounted>>
        /\ \A v \in Users \ {u} : pc'[v] = pc[v]
    BY <1>1, <1>8 DEF OpenPath, Task
  <2> QED
    BY <1>1, <1>2, <1>3, <2>1, <2>2, <2>3 DEF Owned
<1>9. CASE ClosePath(u)
  BY <1>1, <1>2, <1>3, <1>9 DEF ClosePath, Owned
<1>10. CASE CheckUnmount(u) \/ Unmount(u)
  BY <1>1, <1>2, <1>3, <1>10 DEF CheckUnmount, Unmount, Owned
<1> QED
  BY <1>4, <1>5, <1>6, <1>7, <1>8, <1>9, <1>10 DEF MountStep, MountFault

LEMMA NextOwned == InPlace /\ [Next]_vars => Owned'
<1> SUFFICES ASSUME InPlace, [Next]_vars PROVE Owned'
  OBVIOUS
<1>1. Owned /\ Base /\ DOMAIN todo = Users
  BY DEF InPlace, Aimed, Base, Queues
<1>2. ASSUME UNCHANGED <<pc, isMounted, stack, open>>, ~overlap' => ~overlap,
             \A u \in Users : pc[u] # "idle" => todo'[u] = todo[u]
      PROVE  Owned'
  BY <1>1, <1>2 DEF Owned, Task
<1>3. \A u \in Users : Idle(u) => pc[u] = "idle"
  BY <1>1, IdleQuiet
<1>4. overlap \in BOOLEAN
  BY <1>1 DEF Base, TypeOK
<1>5. ASSUME NEW u \in Users, MountStep(u) \/ MountFault(u) PROVE Owned'
  BY <1>5, MountOwned
<1>6. ASSUME NEW u \in Users, CopyTask(u) \/ CopyFault(u) PROVE Owned'
  <2>1. u = "worker" /\ pc["worker"] = "idle"
    BY <1>1, <1>6, OnlyWorkerCopies DEF CopyTask, CopyFault
  <2>2. todo'["main"] = todo["main"]
    BY <1>1, <1>6, <2>1 DEF CopyTask, CopyFault, DropTask
  <2>3. UNCHANGED <<pc, isMounted, stack, open, overlap>>
    BY <1>6 DEF CopyTask, CopyFault, mountVars
  <2> QED
    BY <1>2, <2>1, <2>2, <2>3
<1>7. CASE Client
  <2>1. UNCHANGED <<pc, isMounted, stack, open>> /\ (~overlap' => ~overlap)
    BY <1>4, <1>7 DEF Client, Prepare, ProcessChunk, SetFlags, Cancel, mountVars
  <2>2. \A u \in Users : todo'[u] = todo[u] \/ Idle(u)
    BY <1>1, <1>7 DEF Client, Prepare, ProcessChunk, SetFlags, Cancel, Message
  <2> QED
    BY <1>2, <1>3, <2>1, <2>2
<1>8. CASE Spawn
  <2>1. todo["main"] # <<>> /\ todo["main"][1].do = "spawn" /\ todo["main"] \in Seq(MainTasks)
    BY <1>1, <1>8 DEF Spawn, Idle, Task, Base, Queues
  <2>2. Idle("worker") /\ pc["main"] = "idle"
    BY <1>1, <1>8, <2>1, IdleQuiet DEF Base, Calls, Spawn, OnMountPoint
  <2>3. UNCHANGED <<pc, isMounted, stack, open, overlap>>
    BY <1>8 DEF Spawn, mountVars
  <2> QED
    BY <1>2, <1>3, <2>2, <2>3
<1>9. CASE Configure \/ Start \/ FinishCancel \/ UNCHANGED vars
  <2>1. UNCHANGED <<pc, isMounted, stack, open, overlap>>
    BY <1>9 DEF Configure, Start, FinishCancel, vars, mountVars, jobVars
  <2>2. \A u \in Users : todo'[u] = todo[u] \/ Idle(u)
    BY <1>1, <1>9 DEF Configure, Start, FinishCancel, vars, jobVars, Base, Quiet
  <2> QED
    BY <1>2, <1>3, <2>1, <2>2
<1>10. CASE Kill \/ Throw
  BY <1>10 DEF Kill, Throw, Terminated, Owned
<1> QED
  BY <1>5, <1>6, <1>7, <1>8, <1>9, <1>10 DEF Next, UserStep
-----------------------------------------------------------------------------
(* The worker's calls: whose they are, what they write, and how they end *)

LEMMA TailOfOne == ASSUME NEW a PROVE Tail(<<a>>) = <<>> /\ Head(<<a>>) = a /\ Len(<<a>>) = 1
  OBVIOUS

LEMMA TailOfTwo == ASSUME NEW a, NEW b PROVE Tail(<<a, b>>) = <<b>> /\ Head(<<a, b>>) = a /\ Len(<<a, b>>) = 2
  OBVIOUS

\* The worker's call belongs to its job.
LEMMA WorkerTask ==
  ASSUME InPlace, ~Idle("worker")
  PROVE  LET t == Task("worker")
             c == job.chunk
         IN \/ job.kind = "init" /\ job.preparation \in Preparation /\ t \in InitSteps /\ Has(todo["worker"], t)
            \/ /\ job.kind = "chunk" /\ c \in Chunks
               /\ \/ c.type = "Image" /\ todo["worker"] = <<t>> /\ t = ImageOf(c)
                  \/ c.type = "Archive" /\ todo["worker"] = <<t, StepOf(c, "add")>> /\ t = FirstOf(c)
                  \/ c.type \in {"Archive", "File"} /\ todo["worker"] = <<t>> /\ t = StepOf(c, "add")
<1> DEFINE s == todo["worker"]
           t == Task("worker")
           c == job.chunk
<1>1. s \in Seq(WorkerTasks) /\ s # <<>> /\ t = Head(s)
  BY DEF InPlace, Aimed, Base, Queues, Idle, Task
<1>2. Assigned /\ job.kind \in {"init", "chunk"}
  BY JobType DEF InPlace, Worked, Assigned, Aimed, Base
<1>3. CASE job.kind = "init"
  <2>1. 1 \in DOMAIN s /\ t = s[1]
    BY <1>1, EmptySeq, LenProperties
  <2>2. job.preparation \in Preparation
    BY <1>3, JobType DEF InPlace, Aimed, Base
  <2> QED
    BY <1>2, <1>3, <2>1, <2>2 DEF Assigned, Has
<1>4. CASE job.kind = "chunk"
  <2>1. ChunkQueue(c, s) /\ c \in Chunks
    BY <1>2, <1>4, JobType DEF Assigned, InPlace, Aimed, Base
  <2>2. CASE c.type = "Image" /\ s = <<ImageOf(c)>>
    <3>1. t = ImageOf(c)
      BY <1>1, <2>2, TailOfOne
    <3> QED
      BY <1>4, <2>1, <2>2, <3>1
  <2>3. CASE c.type = "Archive" /\ s = <<FirstOf(c), StepOf(c, "add")>>
    <3>1. t = FirstOf(c)
      BY <1>1, <2>3, TailOfTwo
    <3> QED
      BY <1>4, <2>1, <2>3, <3>1
  <2>4. CASE c.type \in {"Archive", "File"} /\ s = <<StepOf(c, "add")>>
    <3>1. t = StepOf(c, "add")
      BY <1>1, <2>4, TailOfOne
    <3> QED
      BY <1>4, <2>1, <2>4, <3>1
  <2> QED
    BY <1>1, <2>1, <2>2, <2>3, <2>4 DEF ChunkQueue
<1> QED
  BY <1>2, <1>3, <1>4

\* What the worker writes breaks no promise of what it has done before.
LEMMA WorkerWrites ==
  ASSUME ConfApart, InPlace, ~Idle("worker"), UNCHANGED <<configVars, job, result, overlap>>,
         todo'["worker"] = todo["worker"], ~trouble' => ~trouble,
         \A d \in Devices : d # (IF Task("worker").do = "copy" THEN Task("worker").dest ELSE Task("worker").dev)
            => content'[d] = content[d]
  PROVE  Prepared' /\ Delivered'
<1>1. Tables /\ Ordered /\ Prepared
  BY DEF InPlace, Aimed, Worked
<1>2. result # "succeeded" /\ UNCHANGED <<active, partitions>>
  BY <1>1 DEF Ordered, configVars, tableVars
<1>3. Delivered'
  BY <1>2 DEF Delivered
<1>4. Prepared'
  <2>1. SUFFICES ASSUME ~overlap, job.kind = "init", ~trouble
                 PROVE  /\ job.preparation.clear => CacheCleared' \/ Has(todo["worker"], Clearing)
                        /\ \A p \in job.preparation.parts \ {"BootInfo"} : Copied(p)' \/ Has(todo["worker"], CopyOf(p))
    <3>1. Clearing' = Clearing /\ \A p : CopyOf(p)' = CopyOf(p)
      BY <1>2 DEF Clearing, CopyOf, GetDevice
    <3> QED
      BY <3>1 DEF Prepared
  <2>2. /\ job.preparation.clear => CacheCleared \/ Has(todo["worker"], Clearing)
        /\ \A p \in job.preparation.parts \ {"BootInfo"} : Copied(p) \/ Has(todo["worker"], CopyOf(p))
    BY <1>1, <2>1 DEF Prepared
  <2>3. job.preparation \in Preparation /\ Task("worker") \in InitSteps /\ Has(todo["worker"], Task("worker"))
    BY <2>1, WorkerTask
  <2>4. job.preparation.parts \subseteq {"BootInfo", "Root", "System"}
    BY <2>3 DEF Preparation
  <2>5. PICK q \in {"BootInfo", "Root", "System", "Cache"} :
           /\ \A d \in Devices : d # GetDevice("Alternate", q) => content'[d] = content[d]
           /\ q \in {"Root", "System"} => Task("worker") = CopyOf(q)
           /\ q = "Cache" => Task("worker") = Clearing
    <3>1. ASSUME NEW q \in {"BootInfo", "Root", "System"}, Task("worker") = CopyOf(q)
          PROVE  \A d \in Devices : d # GetDevice("Alternate", q) => content'[d] = content[d]
      BY <3>1 DEF CopyOf, CopyTo
    <3>2. CASE Task("worker") = BootFlags("write", "Alternate")
      BY <3>2 DEF BootFlags, OnMount
    <3>3. CASE Task("worker") = Clearing
      <4>1. Task("worker").do # "copy" /\ Task("worker").dev = GetDevice("Alternate", "Cache")
        <5>1. Clearing.do = "clear" /\ Clearing.dev = GetDevice("Alternate", "Cache")
          BY DEF Clearing, OnMount
        <5>2. "clear" # "copy"
          OBVIOUS
        <5> QED
          BY <3>3, <5>1, <5>2, Zenon
      <4>2. \A d \in Devices : d # GetDevice("Alternate", "Cache") => content'[d] = content[d]
        BY <4>1
      <4> QED
        BY <3>3, <4>2
    <3> QED
      BY <2>3, <3>1, <3>2, <3>3 DEF InitSteps
  <2>6. q \in Parts /\ "Alternate" \in Containers
    BY DEF Containers
  <2>7. /\ \A p \in Parts \ {q} : Copied(p) => Copied(p)'
        /\ q # "Cache" /\ CacheCleared => CacheCleared'
    BY <1>1, <1>2, <2>5, <2>6, PromisesKept
  <2>8. \A p \in job.preparation.parts \ {"BootInfo"} : p \in Parts /\ p \in {"Root", "System"}
    BY <2>4
  <2>9. ASSUME NEW p \in job.preparation.parts \ {"BootInfo"} PROVE Copied(p)' \/ Has(todo["worker"], CopyOf(p))
    <3>1. CASE p = q
      BY <2>3, <2>5, <2>8, <3>1
    <3>2. CASE p # q
      BY <2>2, <2>7, <2>8, <3>2
    <3> QED
      BY <3>1, <3>2
  <2>10. job.preparation.clear => CacheCleared' \/ Has(todo["worker"], Clearing)
    BY <2>2, <2>3, <2>5, <2>7
  <2> QED
    BY <2>9, <2>10
<1> QED
  BY <1>3, <1>4

LEMMA DropAssigned ==
  ASSUME InPlace, ~Idle("worker"), NEW ok \in BOOLEAN, DropTask("worker", ok), UNCHANGED <<configVars, job>>
  PROVE  Assigned'
<1> DEFINE t == Task("worker")
           c == job.chunk
<1>1. todo'["worker"] = IF ok THEN Tail(todo["worker"]) ELSE <<>>
  BY DEF DropTask, InPlace, Aimed, Base, Queues
<1>2. Assigned /\ job.kind # "none" /\ UNCHANGED <<partitions, deviceTypes>>
  BY DEF InPlace, Worked, Assigned, configVars, tableVars
<1>3. CASE job.kind = "init"
  <2>1. todo["worker"] \in Seq(WorkerTasks) /\ todo["worker"] # <<>>
    BY DEF InPlace, Aimed, Base, Queues, Idle
  <2>2. \A i \in DOMAIN todo["worker"] : todo["worker"][i] \in InitSteps
    BY <1>2, <1>3 DEF Assigned
  <2>3. \A i \in DOMAIN Tail(todo["worker"]) : Tail(todo["worker"])[i] \in InitSteps
    BY <2>1, <2>2, TailIn, Zenon
  <2>4. \A i \in DOMAIN todo'["worker"] : todo'["worker"][i] \in InitSteps
    BY <1>1, <2>3
  <2>5. InitSteps' = InitSteps
    BY <1>2 DEF InitSteps, CopyOf, Clearing, BootFlags, GetDevice
  <2> QED
    BY <1>3, <2>4, <2>5 DEF Assigned
<1>4. CASE job.kind = "chunk"
  <2>1. ChunkQueue(c, todo'["worker"])
    <3>1. CASE todo["worker"] = <<t>>
      BY <1>1, <3>1, TailOfOne DEF ChunkQueue
    <3>2. CASE c.type = "Archive" /\ todo["worker"] = <<t, StepOf(c, "add")>>
      BY <1>1, <3>2, TailOfTwo DEF ChunkQueue
    <3> QED
      BY <1>4, <3>1, <3>2, WorkerTask
  <2> QED
    BY <1>2, <1>4, <2>1 DEF Assigned, ChunkQueue, ImageOf, StepOf, FirstOf, DeviceOf, GetDevice, GetFilesystemType
<1> QED
  BY <1>2, <1>3, <1>4, JobType DEF InPlace, Aimed, Base

\* A call of the worker has ended, and did what it was made for.
LEMMA DropWorked ==
  ASSUME InPlace, Base', ~overlap, ~Idle("worker"), NEW ok \in BOOLEAN, DropTask("worker", ok),
         UNCHANGED <<configVars, content, job, overlap>>, ~trouble' => ~trouble,
         pc'["worker"] = "idle", copy'.state = "none",
         job.kind = "init" => ok,
         job.kind = "init" /\ ~trouble =>
            /\ Task("worker") = Clearing => CacheCleared
            /\ \A p \in {"Root", "System"} : Task("worker") = CopyOf(p) => Copied(p),
         job.kind = "chunk" /\ ok /\ Task("worker").do = "clear" => content[DeviceOf(job.chunk)].files = {},
         job.kind = "chunk" /\ ok /\ Task("worker").do \in {"copy", "add"} =>
            /\ DeviceOf(job.chunk) \in Devices \/ (job.chunk.type = "Image" /\ job.chunk.size = 0)
            /\ ChunkDone(job.chunk, DeviceOf(job.chunk))
  PROVE  Worked'
<1> DEFINE s == todo["worker"]
           t == Task("worker")
           c == job.chunk
<1>1. todo'["worker"] = IF ok THEN Tail(s) ELSE <<>>
  BY DEF DropTask, InPlace, Aimed, Base, Queues
<1>2. Assigned'
  BY DropAssigned
<1>3. UNCHANGED <<active, partitions, deviceTypes>> /\ result # "succeeded"
  BY DEF InPlace, Ordered, configVars, tableVars
<1>4. s \in Seq(WorkerTasks) /\ s # <<>>
  BY DEF InPlace, Aimed, Base, Queues, Idle
<1>5. Effects' /\ Progress'
  BY DEF Effects, Progress, Past
<1>6. Emptied'
  <2> SUFFICES ASSUME job.kind = "chunk", ~Idle("worker")', c.type = "Archive", c.complete, Task("worker")'.do = "add"
               PROVE  content'[DeviceOf(c)'].files = {}
    BY DEF Emptied, Past
  <2>1. ok /\ Tail(s) # <<>>
    BY <1>1 DEF Idle
  <2>2. t = FirstOf(c)
    BY <2>1, WorkerTask, TailOfOne
  <2>3. t.do = "clear"
    BY <2>2 DEF FirstOf, StepOf, OnMount
  <2> QED
    BY <1>3, <2>1, <2>3 DEF DeviceOf, GetDevice
<1>7. Prepared'
  <2> SUFFICES ASSUME job.kind = "init", ~trouble
               PROVE  /\ job.preparation.clear => CacheCleared \/ Has(todo'["worker"], Clearing)
                      /\ \A p \in job.preparation.parts \ {"BootInfo"} : Copied(p) \/ Has(todo'["worker"], CopyOf(p))
    <3>1. Clearing' = Clearing /\ \A p : CopyOf(p)' = CopyOf(p)
      BY <1>3 DEF Clearing, CopyOf, GetDevice
    <3>2. (CacheCleared => CacheCleared') /\ \A p : Copied(p) => Copied(p)'
      BY <1>3 DEF CacheCleared, Copied, GetDevice
    <3> QED
      BY <3>1, <3>2 DEF Prepared
  <2>1. \A x : Has(s, x) => x = t \/ Has(todo'["worker"], x)
    <3>1. ASSUME NEW x, NEW i \in DOMAIN s, s[i] = x PROVE x = t \/ Has(todo'["worker"], x)
      <4>1. /\ todo'["worker"] = Tail(s) /\ t = s[1] /\ Len(s) \in Nat \ {0} /\ DOMAIN s = 1 .. Len(s)
            /\ DOMAIN Tail(s) = 1 .. Len(s) - 1 /\ \A j \in 1 .. Len(s) - 1 : Tail(s)[j] = s[j + 1]
        BY <1>1, <1>4, EmptySeq, LenProperties, HeadTailProperties DEF Task
      <4>2. CASE i = 1
        BY <3>1, <4>1, <4>2
      <4>3. CASE i # 1
        <5> DEFINE n == Len(s)
        <5>1. n \in Nat \ {0} /\ i \in 1 .. n
          BY <4>1
        <5> HIDE DEF n
        <5>2. i - 1 \in 1 .. n - 1 /\ (i - 1) + 1 = i
          BY <4>3, <5>1
        <5>3. i - 1 \in DOMAIN Tail(s) /\ Tail(s)[i - 1] = x
          BY <3>1, <4>1, <5>2 DEF n
        <5> QED
          BY <4>1, <5>3 DEF Has
      <4> QED
        BY <4>2, <4>3
    <3> QED
      BY <3>1 DEF Has
  <2>2. /\ job.preparation.clear => CacheCleared \/ Has(s, Clearing)
        /\ \A p \in job.preparation.parts \ {"BootInfo"} : Copied(p) \/ Has(s, CopyOf(p))
    BY DEF InPlace, Worked, Prepared
  <2>3. job.preparation \in Preparation
    BY WorkerTask
  <2>4. \A p \in job.preparation.parts \ {"BootInfo"} : p \in {"Root", "System"}
    BY <2>3 DEF Preparation
  <2> QED
    BY <2>1, <2>2, <2>4
<1>8. Delivered'
  <2> SUFFICES ASSUME job.kind = "chunk", result' = "succeeded"
               PROVE  /\ DeviceOf(c)' \in Devices \/ (c.type = "Image" /\ c.size = 0)
                      /\ ChunkDone(c, DeviceOf(c))'
    BY DEF Delivered
  <2>1. ok /\ Len(s) = 1
    BY <1>3 DEF DropTask
  <2>2. t.do \in {"copy", "add"}
    <3>1. t = ImageOf(c) \/ t = StepOf(c, "add")
      BY <2>1, WorkerTask, TailOfTwo
    <3> QED
      BY <3>1 DEF ImageOf, CopyTo, StepOf, OnMount
  <2>3. DeviceOf(c)' = DeviceOf(c)
    BY <1>3 DEF DeviceOf, GetDevice
  <2> QED
    BY <2>1, <2>2, <2>3 DEF ChunkDone
<1> QED
  BY <1>2, <1>5, <1>6, <1>7, <1>8 DEF Worked
-----------------------------------------------------------------------------
(* Copies *)

LEMMA CopyJob ==
  ASSUME InPlace, ~Idle("worker"), Task("worker").do = "copy"
  PROVE  LET t == Task("worker")
             c == job.chunk
         IN \/ job.kind = "init" /\ t.offset = 0 /\ t.len = 0 /\ \A p : t = CopyOf(p) => t.dest = GetDevice("Alternate", p) /\ t.src = GetDevice("Active", p)
            \/ /\ job.kind = "chunk" /\ c \in Chunks /\ c.type = "Image" /\ t = ImageOf(c)
               /\ t.src = c.file /\ t.dest = DeviceOf(c) /\ t.offset = c.offset /\ t.len = c.size
               /\ c.file \in Files /\ c.file \notin Devices /\ c.size \in Nat /\ c.size + 1 < Word
<1> DEFINE t == Task("worker")
           c == job.chunk
<1>1. CASE job.kind = "init" /\ t \in InitSteps
  <2>1. t # Clearing /\ t # BootFlags("write", "Alternate")
    <3>1. Clearing.do = "clear" /\ BootFlags("write", "Alternate").do = "write"
      BY DEF Clearing, BootFlags, OnMount
    <3>2. "clear" # "copy" /\ "write" # "copy"
      OBVIOUS
    <3> QED
      BY <3>1, <3>2, Zenon
  <2>2. t \in {CopyOf("BootInfo"), CopyOf("Root"), CopyOf("System")}
    BY <1>1, <2>1 DEF InitSteps
  <2>3. \A p : CopyOf(p).offset = 0 /\ CopyOf(p).len = 0 /\ CopyOf(p).dest = GetDevice("Alternate", p)
               /\ CopyOf(p).src = GetDevice("Active", p)
    BY DEF CopyOf, CopyTo
  <2> QED
    BY <1>1, <2>2, <2>3
<1>2. CASE job.kind = "chunk" /\ c \in Chunks
  <2>1. \A do \in {"clear", "look", "add"} : StepOf(c, do).do = do
    BY DEF StepOf, OnMount
  <2>2. FirstOf(c).do # "copy" /\ StepOf(c, "add").do # "copy"
    BY <2>1 DEF FirstOf
  <2>3. c.type = "Image" /\ t = ImageOf(c)
    BY <1>2, <2>2, WorkerTask
  <2>4. c.file \in Files /\ c.file \notin Devices /\ c.size \in Nat /\ c.size + 1 < Word
    BY <1>2 DEF ChunkInfo
  <2>5. ImageOf(c).src = c.file /\ ImageOf(c).dest = DeviceOf(c) /\ ImageOf(c).offset = c.offset /\ ImageOf(c).len = c.size
    BY DEF ImageOf, CopyTo
  <2> QED
    BY <1>2, <2>3, <2>4, <2>5
<1> QED
  BY <1>1, <1>2, WorkerTask

\* What write() changes.
LEMMA WriteBytes ==
  ASSUME CopyTypeOK, NEW t \in ToCopy, t.dest \in Devices, NEW n \in Nat, Write(t, n), SizeOf[t.dest] \in Nat
  PROVE  /\ \A d \in Devices : d # t.dest => content'[d] = content[d]
         /\ \A k \in 0 .. SizeOf[t.dest] - 1 :
               content'[t.dest].bytes[k] = IF k \in t.offset + copy.total .. t.offset + copy.total + n - 1
                                           THEN Source(t.src, k - t.offset) ELSE content[t.dest].bytes[k]
<1> DEFINE at == t.offset + copy.total
           byte(k) == IF k \in at .. at + n - 1 THEN Source(t.src, k - t.offset)
                      ELSE content[t.dest].bytes[k]
<1>1. DOMAIN content = Devices /\ DOMAIN content[t.dest].bytes = 0 .. SizeOf[t.dest] - 1
      /\ at \in Nat
  BY DEF CopyTypeOK, Copy, ToCopy
<1>2. CASE n = 0
  <2>1. content' = content
    BY <1>2 DEF Write
  <2>2. \A k : k \notin at .. at + n - 1
    BY <1>1, <1>2
  <2> HIDE DEF at
  <2> QED
    BY <2>1, <2>2 DEF at
<1>3. CASE n # 0
  <2>1. content' = [content EXCEPT ![t.dest] = [bytes |-> [k \in DOMAIN @.bytes |-> byte(k)], files |-> {}]]
    BY <1>3 DEF Write
  <2> HIDE DEF byte
  <2>2. content'[t.dest].bytes = [k \in 0 .. SizeOf[t.dest] - 1 |-> byte(k)]
    BY <1>1, <2>1
  <2>3. \A k \in 0 .. SizeOf[t.dest] - 1 : content'[t.dest].bytes[k] = byte(k)
    BY <2>2, Zenon
  <2>4. \A d \in Devices : d # t.dest => content'[d] = content[d]
    BY <1>1, <2>1
  <2> QED
    BY <2>3, <2>4 DEF byte
<1> QED
  BY <1>2, <1>3

\* A block more is where it belongs.
LEMMA PlacedMore ==
  ASSUME CopyTypeOK, NEW t \in ToCopy, t.dest \in Devices, SizeOf[t.dest] \in Nat, NEW n \in Nat, Write(t, n),
         copy.total \in Nat, t.offset + copy.total + n <= SizeOf[t.dest],
         t.src \notin Devices \/ t.offset = 0,
         Placed(t, copy.total), NEW m, m = copy.total + n
  PROVE  Placed(t, m)'
<1> DEFINE total == copy.total
           at == t.offset + total
<1>1. t.offset \in Nat
  BY DEF ToCopy
<1>2. \A k \in 0 .. SizeOf[t.dest] - 1 :
         content'[t.dest].bytes[k] = IF k \in at .. at + n - 1 THEN Source(t.src, k - t.offset)
                                     ELSE content[t.dest].bytes[k]
  BY WriteBytes
<1>3. \A d \in Devices : d # t.dest => content'[d] = content[d]
  BY WriteBytes
<1> SUFFICES ASSUME NEW k \in 0 .. total + n - 1
             PROVE  content'[t.dest].bytes[t.offset + k] = Source(t.src, k)'
  BY <1>1 DEF Placed
<1>4. CASE t.src = t.dest
  <2>1. t.offset + k = k
    BY <1>4
  <2> QED
    BY <1>4, <2>1 DEF Source
<1>5. CASE t.src # t.dest
  <2>1. Source(t.src, k)' = Source(t.src, k)
    BY <1>3, <1>5 DEF Source, Byte
  <2> DEFINE i == t.offset + k
  <2>2. i \in 0 .. SizeOf[t.dest] - 1 /\ i - t.offset = k
    BY <1>1
  <2>3. CASE k < total
    <3>1. i \notin at .. at + n - 1
      BY <1>1, <2>3
    <3>2. content'[t.dest].bytes[i] = content[t.dest].bytes[i]
      BY <1>2, <2>2, <3>1
    <3>3. content[t.dest].bytes[i] = Source(t.src, k)
      BY <2>3 DEF Placed
    <3> QED
      BY <2>1, <3>2, <3>3
  <2>4. CASE k >= total
    <3>1. i \in at .. at + n - 1
      BY <1>1, <2>4
    <3>2. content'[t.dest].bytes[i] = Source(t.src, i - t.offset)
      BY <1>2, <2>2, <3>1
    <3> QED
      BY <2>1, <2>2, <3>2
  <2> QED
    BY <2>3, <2>4
<1> QED
  BY <1>4, <1>5

\* After a boot message met the worker, only its calls matter.
LEMMA OverlapWorked ==
  ASSUME Assigned', overlap'
  PROVE  Worked'
  BY DEF Worked, Effects, Emptied, Progress, Prepared, Delivered

\* A step inside a copy.
LEMMA InCopyWorked ==
  ASSUME ConfApart, InPlace, Base', ~Idle("worker"), Task("worker").do = "copy",
         UNCHANGED <<configVars, mountVars, phase, todo, job, result, overlap>>, ~trouble' => ~trouble,
         \A d \in Devices : d # Task("worker").dest => content'[d] = content[d],
         Progress'
  PROVE  Worked'
<1>1. UNCHANGED <<active, partitions, deviceTypes>> /\ Task("worker")' = Task("worker") /\ Assigned
  BY DEF configVars, tableVars, Task, InPlace, Worked
<1>2. Assigned'
  BY <1>1, SameAssigned
<1>3. pc'["worker"] = "idle"
  BY <1>1, OnlyWorkerCopies DEF InPlace, Aimed, mountVars
<1>4. Effects' /\ Emptied'
  <2>1. Task("worker")'.do # "add" /\ ~Past'
    BY <1>1, <1>3 DEF Past
  <2> QED
    BY <2>1 DEF Effects, Emptied
<1>5. Prepared' /\ Delivered'
  BY WorkerWrites
<1> QED
  BY <1>2, <1>4, <1>5 DEF Worked

LEMMA AsIntZero == AsInt(0) >= 0
<1>1. 0 % (2 * IntLimit) = 0
  <2> DEFINE w == 2 * IntLimit
  <2>1. w \in Nat \ {0}
    OBVIOUS
  <2> HIDE DEF w
  <2>2. 0 % w = 0
    BY <2>1
  <2> QED
    BY <2>2 DEF w
<1> QED
  BY <1>1 DEF AsInt

\* A read that fails is never taken for the last one.
LEMMA MinusOneMisses ==
  ASSUME NEW total \in 0 .. Word - 1, NEW remaining \in Nat, remaining > 0, NEW len \in Nat,
         total + remaining = len, len + 1 < Word
  PROVE  MinusOne(total) # len
<1>1. CASE total = 0
  <2>1. (total + Word - 1) % Word = Word - 1
    BY <1>1
  <2> QED
    BY <2>1 DEF MinusOne
<1>2. CASE total # 0
  <2>1. (total + Word - 1) % Word = total - 1
    BY <1>2
  <2> QED
    BY <2>1 DEF MinusOne
<1> QED
  BY <1>1, <1>2

\* What a step of a copy says of the bytes that were copied.
LEMMA CopyProgress ==
  ASSUME InPlace, ~overlap, ~Idle("worker"), NEW t, t = Task("worker"), t.do = "copy", UNCHANGED <<job, todo, trouble>>,
         StartCopy(t) \/ CopyBlock(t) \/ LeaveLoop(t)
  PROVE  Progress'
<1>1. /\ t \in ToCopy /\ t.len \in Nat /\ t.offset \in Nat /\ Task("worker")' = t
      /\ Base /\ CopyTypeOK /\ copy.total \in Nat
  BY OnlyWorkerCopies DEF InPlace, Aimed, Base, TypeOK, CopyTypeOK, Copy, ToCopy, Task
<1>2. t.src \notin Devices \/ t.offset = 0
  BY CopyJob
<1>3. Progress /\ Ordered
  BY DEF InPlace, Worked
<1>4. CASE StartCopy(t)
  <2>1. copy'.total = 0
    BY <1>4 DEF StartCopy, NoCopy
  <2>2. \A m : m = 0 => Placed(t, m)'
    BY DEF Placed
  <2>3. copy'.state = "open" => t.dest \in Devices /\ OpensAndSeeks(t)
    BY <1>4 DEF StartCopy, NoCopy, OpensAndSeeks
  <2>4. copy'.state = "returned" => ~OpensAndSeeks(t)
    BY <1>4 DEF StartCopy, NoCopy
  <2>5. t.src \in Devices /\ t.dest \in Devices => OpensAndSeeks(t)
    BY <1>1, <1>2, AsIntZero DEF OpensAndSeeks
  <2> QED
    BY <1>1, <2>1, <2>2, <2>4, <2>5 DEF Progress
<1>5. CASE CopyBlock(t)
  <2> PICK n : n = Bread(t)
    OBVIOUS
  <2> PICK m : m = copy.total + n
    OBVIOUS
  <2>1. /\ GoesOn(t) /\ n <= Room(t) /\ Write(t, n) /\ copy'.total = m
        /\ copy'.state = IF Ends(t) THEN "returned" ELSE "open"
    BY <1>5 DEF CopyBlock
  <2>2. /\ t.dest \in Devices /\ n \in Nat /\ SizeOf[t.src] \in Nat /\ SizeOf[t.dest] \in Nat
        /\ Room(t) = SizeOf[t.dest] - (t.offset + copy.total) /\ copy.total <= SizeOf[t.src]
        /\ t.len = 0 => ToRead(t) = BlockSize
    BY <1>1, <2>1, CopyStepType
  <2>3. Placed(t, copy.total)
    BY <1>3, <2>1 DEF Progress, GoesOn
  <2>4. t.len = 0 /\ Ends(t) => m = SizeOf[t.src]
    BY <1>1, <2>2 DEF Ends, Bread, Least
  <2>5. t.offset + copy.total + n <= SizeOf[t.dest]
    BY <1>1, <2>1, <2>2
  <2>6. Placed(t, m)'
    BY <1>1, <1>2, <2>1, <2>2, <2>3, <2>5, PlacedMore
  <2> QED
    BY <1>1, <2>1, <2>2, <2>4, <2>6 DEF Progress
<1>6. CASE LeaveLoop(t)
  <2>1. copy.state = "open" /\ ~GoesOn(t) /\ copy'.state = "returned" /\ copy'.total = copy.total /\ UNCHANGED content
    BY <1>1, <1>6 DEF LeaveLoop, CopyTypeOK, Copy
  <2>2. Placed(t, copy.total) /\ t.dest \in Devices
    BY <1>1, <1>3, <2>1 DEF Progress, Base, Calls, CopyOk, OpensAndSeeks
  <2>3. t.len = 0 => trouble
    BY <1>3, <2>1 DEF GoesOn, Ordered
  <2>4. Placed(t, copy.total)'
    BY <2>1, <2>2 DEF Placed, Source
  <2> QED
    BY <1>1, <2>1, <2>2, <2>3, <2>4 DEF Progress
<1> QED
  BY <1>4, <1>5, <1>6

\* A copy that is given up is not taken for a whole one.
LEMMA FailProgress ==
  ASSUME InPlace, ~overlap, ~Idle("worker"), NEW t, t = Task("worker"), t.do = "copy", UNCHANGED <<job, todo>>,
         trouble', ReadFails(t) \/ (\E n \in Nat : WriteShort(t, n)), GoesOn(t)
  PROVE  Progress'
<1>1. t \in ToCopy /\ Task("worker")' = t /\ Base /\ copy \in Copy
  BY OnlyWorkerCopies DEF InPlace, Aimed, Base, TypeOK, CopyTypeOK, Task
<1>2. /\ copy.total \in 0 .. Word - 1 /\ copy.remaining \in Nat /\ t.len \in Nat
      /\ t.len # 0 => copy.total + copy.remaining = t.len /\ copy.remaining > 0
  BY <1>1, CopyStepType DEF Copy, GoesOn
<1>3. t.len = 0 \/ t.len + 1 < Word
  BY CopyJob
<1>4. copy'.state = "returned" /\ copy'.total \in {copy.total, MinusOne(copy.total)}
  BY <1>1 DEF ReadFails, WriteShort, Copy
<1>5. t.len # 0 => copy'.total # t.len
  BY <1>2, <1>3, <1>4, MinusOneMisses
<1> QED
  BY <1>1, <1>4, <1>5 DEF Progress

\* The copy has returned.
LEMMA ReturnWorked ==
  ASSUME InPlace, Base', ~overlap, CopyTask("worker"), copy.state = "returned", copy' = NoCopy,
         DropTask("worker", job.kind = "init" \/ WroteAll(Task("worker"))), UNCHANGED <<content, trouble>>
  PROVE  Worked'
<1> DEFINE t == Task("worker")
           c == job.chunk
           ok == job.kind = "init" \/ WroteAll(t)
<1>1. /\ ~Idle("worker") /\ t.do = "copy" /\ UNCHANGED <<configVars, mountVars, phase, job, overlap>>
      /\ copy'.state = "none" /\ ok \in BOOLEAN
  BY DEF CopyTask, NoCopy, WroteAll
<1>2. t \in ToCopy /\ pc'["worker"] = "idle" /\ t.len \in Nat
  BY <1>1, OnlyWorkerCopies DEF InPlace, Aimed, mountVars, ToCopy
<1>3. Progress
  BY DEF InPlace, Worked
<1>4. t # Clearing
  <2>1. Clearing.do = "clear" /\ "clear" # "copy"
    BY DEF Clearing, OnMount
  <2> QED
    BY <1>1, <2>1, Zenon
<1>5. ASSUME job.kind = "init", ~trouble, NEW p, t = CopyOf(p) PROVE Copied(p)
  <2>1. t.dest = GetDevice("Alternate", p) /\ t.src = GetDevice("Active", p) /\ t.offset = 0 /\ t.len = 0
    BY <1>5 DEF CopyOf, CopyTo
  <2> SUFFICES ASSUME t.src \in Devices, t.dest \in Devices
               PROVE  \A k \in 0 .. SizeOf[t.src] - 1 : content[t.dest].bytes[k] = content[t.src].bytes[k]
    BY <2>1 DEF Copied
  <2>2. Placed(t, SizeOf[t.src])
    BY <1>3, <1>5, <2>1 DEF Progress
  <2> QED
    BY <2>1, <2>2 DEF Placed, Source
<1>6. ASSUME job.kind = "chunk", ok
      PROVE  /\ DeviceOf(c) \in Devices \/ (c.type = "Image" /\ c.size = 0)
             /\ ChunkDone(c, DeviceOf(c))
  <2>1. /\ c.type = "Image" /\ t.src = c.file /\ t.dest = DeviceOf(c) /\ t.offset = c.offset /\ t.len = c.size
        /\ c.file \notin Devices /\ c.size \in Nat
    BY <1>1, <1>6, CopyJob
  <2>2. copy.total = t.len
    BY <1>6 DEF WroteAll
  <2>3. CASE c.size = 0
    BY <2>1, <2>3 DEF ChunkDone
  <2>4. CASE c.size # 0
    <3>1. t.dest \in Devices /\ Placed(t, t.len)
      BY <1>3, <2>1, <2>2, <2>4 DEF Progress
    <3> QED
      BY <2>1, <3>1 DEF Placed, Source, ChunkDone
  <2> QED
    BY <2>3, <2>4
<1>7. t.do # "clear"
  BY <1>1
<1> HIDE DEF ok
<1>8. DropTask("worker", ok)
  BY DEF ok
<1>9. job.kind = "init" => ok
  BY DEF ok
<1> QED
  BY <1>1, <1>2, <1>4, <1>5, <1>6, <1>7, <1>8, <1>9, DropWorked

LEMMA CopyWorked ==
  ASSUME ConfApart, InPlace, Base', CopyTask("worker") \/ CopyFault("worker")
  PROVE  Worked'
<1>1. ~Idle("worker") /\ Task("worker").do = "copy" /\ UNCHANGED <<configVars, mountVars, phase, job, overlap>>
  BY DEF CopyTask, CopyFault
<1> PICK t : t = Task("worker")
  OBVIOUS
<1>2. t \in ToCopy /\ Assigned /\ UNCHANGED <<partitions, deviceTypes>> /\ trouble \in BOOLEAN
  BY <1>1, OnlyWorkerCopies DEF InPlace, Aimed, Worked, configVars, tableVars, Base, TypeOK
<1>3. ASSUME copy.state = "returned", copy' = NoCopy, UNCHANGED <<content, trouble>>,
             DropTask("worker", job.kind = "init" \/ WroteAll(t))
      PROVE  Worked'
  <2>1. CASE ~overlap
    <3>1. CopyTask("worker")
      BY <1>3 DEF CopyTask, CopyFault, GoesOn
    <3> QED
      BY <1>3, <2>1, <3>1, ReturnWorked
  <2>2. CASE overlap
    <3>1. (job.kind = "init" \/ WroteAll(t)) \in BOOLEAN
      BY DEF WroteAll
    <3>2. Assigned'
      BY <1>1, <1>3, <3>1, DropAssigned
    <3> QED
      BY <1>1, <2>2, <3>2, OverlapWorked
  <2> QED
    BY <2>1, <2>2
<1>4. ASSUME UNCHANGED <<todo, result>>, ~trouble' => ~trouble,
             \A d \in Devices : d # t.dest => content'[d] = content[d],
             ~overlap => Progress'
      PROVE  Worked'
  <2>1. CASE overlap
    BY <1>1, <1>2, <1>4, <2>1, SameAssigned, OverlapWorked
  <2>2. CASE ~overlap
    BY <1>1, <1>4, <2>2, InCopyWorked
  <2> QED
    BY <2>1, <2>2
<1>5. ASSUME NEW n, Write(t, n) PROVE \A d \in Devices : d # t.dest => content'[d] = content[d]
  <2>1. content' = content \/ \E new : content' = [content EXCEPT ![t.dest] = new]
    BY <1>5 DEF Write
  <2> QED
    BY <2>1 DEF InPlace, Aimed, Base, TypeOK, CopyTypeOK
<1>6. CASE (StartCopy(t) \/ CopyBlock(t) \/ LeaveLoop(t)) /\ UNCHANGED <<todo, result, trouble>>
  <2>1. \A d \in Devices : d # t.dest => content'[d] = content[d]
    BY <1>5, <1>6 DEF StartCopy, CopyBlock, LeaveLoop
  <2>2. ~overlap => Progress'
    BY <1>1, <1>6, CopyProgress
  <2> QED
    BY <1>4, <1>6, <2>1, <2>2
<1>7. ASSUME GoesOn(t), trouble' = TRUE, UNCHANGED <<todo, result>>, ReadFails(t) \/ (\E n \in Nat : WriteShort(t, n))
      PROVE  Worked'
  <2>1. \A d \in Devices : d # t.dest => content'[d] = content[d]
    BY <1>5, <1>7 DEF ReadFails, WriteShort
  <2>2. ~overlap => Progress'
    BY <1>1, <1>7, FailProgress
  <2> QED
    BY <1>4, <1>7, <2>1, <2>2
<1>8. GoesOn(t) => Room(t) \in Nat
  BY <1>2, CopyStepType DEF InPlace, Aimed
<1>9. CASE CopyTask("worker")
  BY <1>3, <1>6, <1>7, <1>8, <1>9 DEF CopyTask
<1>10. CASE CopyFault("worker")
  BY <1>7, <1>8, <1>10 DEF CopyFault
<1> QED
  BY <1>9, <1>10
-----------------------------------------------------------------------------
(* What the worker does on the mount point *)

LEMMA MountJob ==
  ASSUME InPlace, OnMountPoint("worker")
  PROVE  LET t == Task("worker")
             c == job.chunk
         IN /\ ~Idle("worker") /\ t.do # "copy" /\ t.do \in MountDo /\ copy.state = "none"
            /\ job.kind = "init" => t = Clearing \/ t.do = "write"
            /\ job.kind = "chunk" => /\ c \in Chunks /\ c.type \in {"Archive", "File"} /\ t.dev = DeviceOf(c)
                                     /\ t.file = c.file /\ t.do # "write"
                                     /\ t.do = "add" => t = StepOf(c, "add")
            /\ job.kind \in {"init", "chunk"}
<1> DEFINE t == Task("worker")
           c == job.chunk
<1>1. ~Idle("worker") /\ t.do # "copy" /\ t.do \in MountDo /\ copy.state = "none"
  BY OnlyMounts DEF OnMountPoint, InPlace, Aimed, MountDo
<1>2. \A do : StepOf(c, do).do = do /\ StepOf(c, do).dev = DeviceOf(c) /\ StepOf(c, do).file = c.file
  BY DEF StepOf, OnMount
<1>3. FirstOf(c) = StepOf(c, "clear") \/ FirstOf(c) = StepOf(c, "look")
  BY DEF FirstOf
<1>4. CASE job.kind = "init" /\ t \in InitSteps
  <2>1. \A p : CopyOf(p).do = "copy"
    BY DEF CopyOf, CopyTo
  <2>2. BootFlags("write", "Alternate").do = "write"
    BY DEF BootFlags, OnMount
  <2>3. t = Clearing \/ t = BootFlags("write", "Alternate")
    BY <1>1, <1>4, <2>1 DEF InitSteps
  <2> QED
    BY <1>1, <1>4, <2>2, <2>3
<1>5. CASE job.kind = "chunk" /\ c \in Chunks
  <2>1. ImageOf(c).do = "copy"
    BY DEF ImageOf, CopyTo
  <2>2. c.type \in {"Archive", "File"} /\ (t = FirstOf(c) \/ t = StepOf(c, "add"))
    BY <1>1, <1>5, <2>1, WorkerTask
  <2>3. PICK do \in {"clear", "look", "add"} : t = StepOf(c, do)
    BY <1>3, <2>2
  <2>4. t.do = do /\ t.dev = DeviceOf(c) /\ t.file = c.file
    BY <1>2, <2>3
  <2>5. t.do # "write" /\ (t.do = "add" => t = StepOf(c, "add"))
    BY <2>3, <2>4
  <2> QED
    BY <1>1, <1>5, <2>2, <2>4, <2>5
<1>6. (job.kind = "init" /\ t \in InitSteps) \/ (job.kind = "chunk" /\ c \in Chunks)
  BY <1>1, WorkerTask
<1> QED
  BY <1>4, <1>5, <1>6

\* A step of the worker inside a call on the mount point.
LEMMA InMountWorked ==
  ASSUME ConfApart, InPlace, Base', OnMountPoint("worker"),
         UNCHANGED <<configVars, copy, phase, todo, job, result, overlap>>, ~trouble' => ~trouble,
         \A d \in Devices : d # Task("worker").dev => content'[d] = content[d],
         Effects', Emptied'
  PROVE  Worked'
<1>1. UNCHANGED <<active, partitions, deviceTypes>> /\ Assigned
  BY DEF configVars, tableVars, InPlace, Worked
<1>2. ~Idle("worker") /\ Task("worker").do # "copy" /\ copy.state = "none"
  BY MountJob
<1>3. Assigned'
  BY <1>1, SameAssigned
<1>4. Progress'
  BY <1>2 DEF Progress
<1>5. Prepared' /\ Delivered'
  BY <1>2, WorkerWrites
<1> QED
  BY <1>3, <1>4, <1>5 DEF Worked

\* Nothing that the worker has done is lost when it looks no more at the mount point.
LEMMA LeaveWorked ==
  ASSUME InPlace, Base', ~overlap, OnMountPoint("worker"), Past,
         DropTask("worker", job.kind = "init" \/ isMounted["worker"]),
         UNCHANGED <<configVars, content, copy, job, overlap, trouble>>, pc'["worker"] = "idle"
  PROVE  Worked'
<1> DEFINE t == Task("worker")
           c == job.chunk
           ok == job.kind = "init" \/ isMounted["worker"]
<1>1. ~Idle("worker") /\ t.do # "copy" /\ copy'.state = "none"
  BY MountJob
<1>2. ok \in BOOLEAN
  BY DEF InPlace, Aimed, Base, TypeOK, MountTypeOK
<1>3. Effects /\ Emptied
  BY DEF InPlace, Worked
<1>4. ASSUME job.kind = "init", ~trouble, t = Clearing PROVE CacheCleared
  <2> DEFINE d == GetDevice("Alternate", "Cache")
  <2>1. Clearing.do = "clear" /\ Clearing.dev = d /\ Clearing.type = "ext4"
    BY DEF Clearing, OnMount
  <2>2. t.do = "clear" /\ t.dev = d /\ t.type = "ext4"
    BY <1>4, <2>1, Zenon
  <2> SUFFICES ASSUME d \in Devices \ Fstab[active], OnDisk[d] = "ext4" PROVE content[d].files = {}
    BY DEF CacheCleared
  <2>3. isMounted["worker"]
    BY <1>3, <1>4, <2>2 DEF Effects
  <2> QED
    BY <1>3, <2>2, <2>3 DEF Effects
<1>5. \A p : t # CopyOf(p)
  BY <1>1 DEF CopyOf, CopyTo
<1>6. ASSUME job.kind = "chunk", ok, t.do = "clear" PROVE content[DeviceOf(c)].files = {}
  BY <1>3, <1>6, MountJob DEF Effects
<1>7. ASSUME job.kind = "chunk", ok, t.do = "add" PROVE DeviceOf(c) \in Devices /\ ChunkDone(c, DeviceOf(c))
  <2>1. c.type \in {"Archive", "File"} /\ t.dev = DeviceOf(c) /\ t.file = c.file /\ isMounted["worker"]
    BY <1>7, MountJob
  <2>2. DeviceOf(c) \in Devices /\ c.file \in content[DeviceOf(c)].files
    BY <1>3, <1>7, <2>1 DEF Effects
  <2>3. c.type = "Archive" /\ c.complete => content[DeviceOf(c)].files = {c.file}
    BY <1>1, <1>3, <1>7, <2>1 DEF Emptied
  <2> QED
    BY <2>1, <2>2, <2>3 DEF ChunkDone
<1> HIDE DEF ok
<1>8. DropTask("worker", ok) /\ (job.kind = "init" => ok)
  BY DEF ok
<1> QED
  BY <1>1, <1>2, <1>4, <1>5, <1>6, <1>7, <1>8, DropWorked

LEMMA MountEffects ==
  ASSUME InPlace, ~overlap, MountStep("worker") \/ MountFault("worker"), UNCHANGED todo,
         ~DropTask("worker", job.kind = "init" \/ isMounted["worker"])
  PROVE  Effects' /\ Emptied' /\ \A d \in Devices : d # Task("worker").dev => content'[d] = content[d]
<1> DEFINE t == Task("worker")
           c == job.chunk
<1>1. /\ OnMountPoint("worker") /\ UNCHANGED <<active, partitions, job, overlap>> /\ Task("worker")' = t
      /\ Effects /\ Emptied /\ Owned /\ (~trouble' => ~trouble) /\ (Idle("worker")' <=> Idle("worker"))
  BY DEF MountStep, MountFault, configVars, tableVars, Task, Idle, InPlace, Worked, Aimed, Base, TypeOK
<1>2. /\ pc \in [Users -> MountPc] /\ isMounted \in [Users -> BOOLEAN] /\ stack \in Seq(Devices)
      /\ CopyTypeOK
  BY DEF InPlace, Aimed, Base, TypeOK, MountTypeOK
<1>3. ASSUME UNCHANGED content, ~(Past /\ isMounted["worker"]), ~(Past /\ isMounted["worker"])',
             Past' /\ ~trouble' /\ t.dev \in Devices \ Fstab[active] => OnDisk[t.dev] # t.type
      PROVE  Effects' /\ Emptied'
  <2>1. Effects'
    BY <1>1, <1>3 DEF Effects
  <2>2. Emptied'
    BY <1>1, <1>3 DEF Emptied, DeviceOf, GetDevice
  <2> QED
    BY <2>1, <2>2
<1>4. CASE CheckDevice("worker", t.dev) /\ UNCHANGED content
  <2>1. pc["worker"] = "idle" /\ ~isMounted'["worker"] /\ (pc'["worker"] = "release" => t.dev \in Mounted)
        /\ pc'["worker"] \in {"release", "checkPath"}
    BY <1>2, <1>4 DEF CheckDevice
  <2>2. stack = <<>>
    BY <1>1, <2>1, FreePlace
  <2>3. Mounted = Fstab[active]
    BY <2>2 DEF Mounted
  <2> QED
    BY <1>3, <1>4, <2>1, <2>3 DEF Past
<1>5. CASE CheckPath("worker") /\ UNCHANGED content
  <2>1. pc["worker"] = "checkPath"
    BY <1>5 DEF CheckPath
  <2>2. stack = <<>>
    BY <1>1, <2>1, FreePlace
  <2>3. pc'["worker"] = "mount"
    BY <1>2, <1>5, <2>2 DEF CheckPath
  <2> QED
    BY <1>3, <1>5, <2>1, <2>3 DEF Past
<1>6. CASE MountDevice("worker", t.dev, t.type) /\ UNCHANGED content
  <2>1. pc["worker"] = "mount" /\ pc'["worker"] = "use"
    BY <1>2, <1>6 DEF MountDevice
  <2> QED
    BY <1>3, <1>6, <2>1 DEF Past
<1>7. CASE MountFails("worker") /\ UNCHANGED content /\ (trouble' \/ ~CanMount(t.dev, t.type))
  <2>1. pc["worker"] = "mount" /\ ~isMounted["worker"] /\ UNCHANGED isMounted
    BY <1>1, <1>7 DEF MountFails, Owned
  <2>2. stack = <<>>
    BY <1>1, <2>1, FreePlace
  <2>3. t.dev \in Devices => Top # t.dev
    BY <2>2 DEF Top
  <2>4. trouble' \/ ~(t.dev \in Devices /\ OnDisk[t.dev] = t.type)
    BY <1>7, <2>3 DEF CanMount
  <2> QED
    BY <1>3, <1>7, <2>1, <2>4 DEF Past
<1>8. CASE OpenPath("worker") /\ UNCHANGED content
  <2>1. pc["worker"] = "use" /\ pc'["worker"] = "inUse"
    BY <1>2, <1>8 DEF OpenPath
  <2> QED
    BY <1>3, <1>8, <2>1 DEF Past
<1>9. CASE CheckUnmount("worker") /\ UNCHANGED <<content, trouble>> /\ pc'["worker"] # "idle"
  <2>1. pc["worker"] = "release" /\ pc'["worker"] = "unmount" /\ UNCHANGED isMounted
    BY <1>2, <1>9 DEF CheckUnmount
  <2>2. Past /\ Past'
    BY <2>1 DEF Past
  <2>3. Effects'
    BY <1>1, <1>9, <2>1, <2>2 DEF Effects
  <2>4. Emptied'
    BY <1>1, <1>9, <2>1, <2>2 DEF Emptied, DeviceOf, GetDevice
  <2> QED
    BY <1>9, <2>3, <2>4
<1>10. CASE ClosePath("worker") /\ Use("worker")
  <2> DEFINE d == t.dev
  <2>1. /\ pc["worker"] = "inUse" /\ pc'["worker"] = "release" /\ UNCHANGED isMounted
        /\ isMounted["worker"] /\ stack = <<d>> /\ open["worker"] = d
    BY <1>1, <1>2, <1>10 DEF ClosePath, Owned
  <2>2. d \in Devices /\ Top = d
    <3>1. Len(<<d>>) = 1 /\ <<d>>[1] = d
      OBVIOUS
    <3>2. stack[1] \in Devices
      BY <1>2, <2>1, <3>1, ElementOfSeq
    <3> QED
      BY <2>1, <3>1, <3>2 DEF Top
  <2>3. \A e \in Devices : e # d => content'[e] = content[e]
    BY <1>10, <2>1, <2>2, UseWrites DEF InPlace, Aimed
  <2>4. ASSUME t.do = "clear" PROVE content'[d].files = {}
    <3>1. content' = [content EXCEPT ![d] = [bytes |-> [k \in DOMAIN @.bytes |-> FsByte],
                                             files |-> FilesOn(d) \ FilesOn(d)]]
      BY <1>10, <2>1, <2>2, <2>4 DEF Use
    <3> QED
      BY <1>2, <2>2, <3>1 DEF CopyTypeOK
  <2>5. ASSUME t.do = "add" PROVE content'[d].files = content[d].files \union {t.file}
    <3>1. content' = [content EXCEPT ![d] = [bytes |-> [k \in DOMAIN @.bytes |-> FsByte],
                                             files |-> FilesOn(d) \union {t.file}]]
      BY <1>10, <2>1, <2>2, <2>5 DEF Use
    <3> QED
      BY <1>2, <2>2, <3>1 DEF CopyTypeOK, FilesOn
  <2>6. Effects'
    BY <1>1, <2>1, <2>2, <2>4, <2>5 DEF Effects
  <2>7. ~Past /\ Past'
    BY <2>1 DEF Past
  <2>8. Emptied'
    <3> SUFFICES ASSUME job.kind = "chunk", c.type = "Archive", c.complete, t.do = "add"
                 PROVE  content'[DeviceOf(c)'].files = {c.file}
      BY <1>1, <2>1, <2>7 DEF Emptied
    <3>1. DeviceOf(c)' = DeviceOf(c) /\ t.dev = DeviceOf(c) /\ t.file = c.file /\ ~Idle("worker")
      BY <1>1, MountJob DEF DeviceOf, GetDevice
    <3>2. content[DeviceOf(c)].files = {}
      BY <1>1, <2>7, <3>1 DEF Emptied
    <3> QED
      BY <2>5, <3>1, <3>2
  <2> QED
    BY <2>3, <2>6, <2>8
<1>11. CASE MountFault("worker")
  BY <1>7, <1>11 DEF MountFault, copyVars
<1>12. CASE MountStep("worker")
  <2>1. ~(Unmount("worker") /\ pc'["worker"] # "idle")
    BY <1>2 DEF Unmount
  <2> QED
    BY <1>4, <1>5, <1>6, <1>7, <1>8, <1>9, <1>10, <1>12, <2>1 DEF MountStep
<1> QED
  BY <1>11, <1>12

LEMMA MountWorked ==
  ASSUME ConfApart, InPlace, Base', MountStep("worker") \/ MountFault("worker")
  PROVE  Worked'
<1> DEFINE ok == job.kind = "init" \/ isMounted["worker"]
<1>1. /\ OnMountPoint("worker") /\ UNCHANGED <<configVars, copy, phase, job, overlap>> /\ (~trouble' => ~trouble)
      /\ ~Idle("worker")
  BY DEF MountStep, MountFault, OnMountPoint, copyVars, InPlace, Aimed, Base, TypeOK
<1>2. Assigned /\ UNCHANGED <<partitions, deviceTypes>> /\ ok \in BOOLEAN /\ pc \in [Users -> MountPc]
  BY <1>1 DEF InPlace, Worked, configVars, tableVars, Aimed, Base, TypeOK, MountTypeOK
<1>3. CASE DropTask("worker", ok)
  <2>1. CASE overlap
    BY <1>1, <1>2, <1>3, <2>1, DropAssigned, OverlapWorked
  <2>2. CASE ~overlap
    <3>1. todo'["worker"] # todo["worker"]
      <4>1. todo["worker"] \in Seq(WorkerTasks) /\ todo["worker"] # <<>>
        BY <1>1 DEF InPlace, Aimed, Base, Queues, Idle
      <4>2. Len(Tail(todo["worker"])) = Len(todo["worker"]) - 1 /\ Len(todo["worker"]) \in Nat
        BY <4>1, HeadTailProperties, LenProperties
      <4>3. Tail(todo["worker"]) # todo["worker"]
        <5> DEFINE n == Len(todo["worker"])
        <5>1. n \in Nat
          BY <4>2
        <5> HIDE DEF n
        <5>2. n - 1 # n
          BY <5>1
        <5> QED
          BY <4>2, <5>2, Zenon DEF n
      <4>4. todo'["worker"] = IF ok THEN Tail(todo["worker"]) ELSE <<>>
        BY <1>3 DEF DropTask, InPlace, Aimed, Base, Queues
      <4> QED
        BY <4>1, <4>3, <4>4
    <3>2. (CheckUnmount("worker") \/ Unmount("worker")) /\ pc'["worker"] = "idle" /\ UNCHANGED <<content, trouble>>
      BY <3>1 DEF MountStep, MountFault
    <3>3. Past
      BY <3>2 DEF CheckUnmount, Unmount, Past
    <3> QED
      BY <1>1, <1>3, <2>2, <3>2, <3>3, LeaveWorked
  <2> QED
    BY <2>1, <2>2
<1>4. CASE ~DropTask("worker", ok)
  <2>1. UNCHANGED <<todo, result>>
    BY <1>4 DEF MountStep, MountFault
  <2>2. CASE overlap
    BY <1>1, <1>2, <2>1, <2>2, SameAssigned, OverlapWorked
  <2>3. CASE ~overlap
    BY <1>1, <1>4, <2>1, <2>3, MountEffects, InMountWorked
  <2> QED
    BY <2>2, <2>3
<1> QED
  BY <1>3, <1>4
-----------------------------------------------------------------------------
(* The theorem *)

LEMMA InitInPlace == Init => InPlace
<1> SUFFICES ASSUME Init PROVE InPlace
  OBVIOUS
<1>1. Freed /\ Aimed
  BY InitFreed, InitAimed
<1>2. /\ job = NoJob /\ result = "none" /\ ~cancelUpdate /\ todo["main"] = <<>> /\ todo["worker"] = <<>>
      /\ \A u \in Users : pc[u] = "idle"
      /\ copy.state = "none"
  BY DEF Init, MountInit, CopyInit, NoCopy
<1>3. Ordered /\ Owned
  BY <1>2 DEF Ordered, Owned
<1>4. Worked
  BY <1>2 DEF Worked, Assigned, Effects, Emptied, Progress, Prepared, Delivered, Idle, Past, NoJob
<1> QED
  BY <1>1, <1>3, <1>4 DEF InPlace

LEMMA NextWorked == ConfApart /\ InPlace /\ [Next]_vars => Worked'
<1> SUFFICES ASSUME ConfApart, InPlace, [Next]_vars PROVE Worked'
  OBVIOUS
<1>1. Base'
  BY NextBase DEF InPlace, Aimed
<1>2. CASE Configure \/ Start \/ FinishCancel \/ Kill \/ Throw
  BY <1>1, <1>2, QuietWorked DEF Kill, Throw
<1>3. CASE Client
  BY <1>1, <1>3, PrepareWorked, ProcessChunkWorked, MessageWorked DEF Client
<1>4. ASSUME NEW u \in Users, UserStep(u) \/ MountFault(u) \/ CopyFault(u) PROVE Worked'
  <2>1. CASE Spawn
    BY <1>1, <2>1, SpawnWorked
  <2>2. CASE MountStep(u) \/ MountFault(u)
    BY <1>1, <2>2, FlagsWorked, MountWorked
  <2>3. CASE CopyTask(u) \/ CopyFault(u)
    <3>1. u = "worker"
      BY <2>3, OnlyWorkerCopies DEF CopyTask, CopyFault, InPlace, Aimed
    <3> QED
      BY <1>1, <2>3, <3>1, CopyWorked
  <2> QED
    BY <1>4, <2>1, <2>2, <2>3 DEF UserStep
<1>5. CASE UNCHANGED vars
  BY <1>1, <1>5, MessageWorked
<1> QED
  BY <1>2, <1>3, <1>4, <1>5 DEF Next

LEMMA NextInPlace == ConfApart /\ InPlace /\ [Next]_vars => InPlace'
<1> SUFFICES ASSUME ConfApart, InPlace, [Next]_vars PROVE InPlace'
  OBVIOUS
<1>1. Freed' /\ Aimed'
  BY NextFreed, NextAimed DEF InPlace
<1> QED
  BY <1>1, NextOrdered, NextOwned, NextWorked DEF InPlace

\* When no device is configured as two partitions and no boot message meets a working
\* worker, a chunk that succeeded is on the device that the configuration names, a
\* complete archive alone there, and a preparation that met neither failure nor cancel
\* has copied every partition it was to copy and emptied the cache, whatever the
\* configuration, the board, the sizes, the widths, and what failed or ended before.
THEOREM JobsInPlace == ConfApart => (Spec => []JobInPlace)
<1> SUFFICES ASSUME ConfApart PROVE Spec => []JobInPlace
  OBVIOUS
<1>1. Init => InPlace
  BY InitInPlace
<1>2. InPlace /\ [Next]_vars => InPlace'
  BY NextInPlace
<1>3. InPlace => JobInPlace
  <2> SUFFICES ASSUME InPlace, ~overlap, result = "succeeded" PROVE JobInPlace
    BY DEF JobInPlace, ChunkInPlace
  <2>1. Idle("worker") /\ Prepared /\ Delivered
    BY DEF InPlace, Ordered, Worked
  <2>2. \A x : ~Has(todo["worker"], x)
    BY <2>1 DEF Idle, Has
  <2>3. ChunkInPlace
    BY <2>1 DEF ChunkInPlace, Delivered, DeviceOf
  <2> QED
    BY <2>1, <2>2, <2>3 DEF JobInPlace, Prepared
<1> QED
  BY <1>1, <1>2, <1>3, PTL DEF Spec
=============================================================================
