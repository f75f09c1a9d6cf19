---------------------------- MODULE MountPoint ----------------------------
(***************************************************************************)
(* class Mount of support.cc: the threads of the server mount partitions   *)
(* on one mount point, one system call at a time and without a lock.  The  *)
(* destructor unmounts what is there, whoever mounted it.                  *)
(***************************************************************************)
EXTENDS GlobalConfig, Sequences

CONSTANTS
  Users,    \* the threads that mount
  OnDisk,   \* OnDisk[d]: the filesystem that device d has
  Fstab,    \* Fstab[n]: devices that Android mounts elsewhere when container n runs
  Faults    \* what may go wrong: system calls that fail, and the end of the process

FaultKind == {"mount", "read", "write", "kill"}

ASSUME MountAssumption ==
  /\ OnDisk \in [Devices -> FsType] /\ Fstab \in [Names \union {NoName} -> SUBSET Devices]
  /\ Faults \subseteq FaultKind

VARIABLES
  stack,      \* devices on the mount point, the topmost last
  pc,         \* pc[u]: where u is between the constructor and the destructor
  isMounted,  \* isMounted[u]: what the constructor found
  open        \* open[u]: where the file or directory lies that u has open

mountVars == <<stack, pc, isMounted, open>>

\* The directory under the mount point belongs to the root filesystem that runs.
RootFs == "rootfs"
NoFile == "none"

ASSUME PlaceAssumption == {RootFs, NoFile, NoDevice} \intersect Devices = {}

MountPc == {"idle", "checkPath", "mount", "use", "inUse", "release", "unmount"}

MountTypeOK ==
  /\ stack \in Seq(Devices) /\ pc \in [Users -> MountPc] /\ isMounted \in [Users -> BOOLEAN]
  /\ open \in [Users -> Devices \union {RootFs, NoFile}]

Mounted == {stack[i] : i \in DOMAIN stack} \union Fstab[active]
Top == IF stack = <<>> THEN RootFs ELSE stack[Len(stack)]

MountInit ==
  /\ stack = <<>> /\ pc = [u \in Users |-> "idle"]
  /\ isMounted = [u \in Users |-> FALSE] /\ open = [u \in Users |-> NoFile]

\* The constructor refuses a device that is mounted anywhere...
CheckDevice(u, d) ==
  /\ pc[u] = "idle"
  /\ pc' = [pc EXCEPT ![u] = IF d \in Mounted THEN "release" ELSE "checkPath"]
  /\ isMounted' = [isMounted EXCEPT ![u] = FALSE]
  /\ UNCHANGED <<stack, open>>

\* ...and a mount point that is taken.
CheckPath(u) ==
  /\ pc[u] = "checkPath"
  /\ pc' = [pc EXCEPT ![u] = IF stack = <<>> THEN "mount" ELSE "release"]
  /\ UNCHANGED <<stack, isMounted, open>>

\* mount() refuses what does not exist, another filesystem, and what is there already.
CanMount(d, type) == d \in Devices /\ OnDisk[d] = type /\ Top # d

MountDevice(u, d, type) ==
  /\ pc[u] = "mount" /\ CanMount(d, type)
  /\ stack' = Append(stack, d)
  /\ isMounted' = [isMounted EXCEPT ![u] = TRUE]
  /\ pc' = [pc EXCEPT ![u] = "use"]
  /\ UNCHANGED open

MountFails(u) ==
  /\ pc[u] = "mount"
  /\ pc' = [pc EXCEPT ![u] = "release"]
  /\ UNCHANGED <<stack, isMounted, open>>

\* The path is resolved when something under it is opened.
OpenPath(u) ==
  /\ pc[u] = "use"
  /\ open' = [open EXCEPT ![u] = Top]
  /\ pc' = [pc EXCEPT ![u] = "inUse"]
  /\ UNCHANGED <<stack, isMounted>>

ClosePath(u) ==
  /\ pc[u] = "inUse"
  /\ open' = [open EXCEPT ![u] = NoFile]
  /\ pc' = [pc EXCEPT ![u] = "release"]
  /\ UNCHANGED <<stack, isMounted>>

\* Mutated form of CheckUnmount: it leaves alone what its constructor did not mount.
CheckUnmountOwn(u) ==
  /\ pc[u] = "release"
  /\ pc' = [pc EXCEPT ![u] = IF stack = <<>> \/ ~isMounted[u] THEN "idle" ELSE "unmount"]
  /\ UNCHANGED <<stack, isMounted, open>>

\* The destructor, also that of a Mount that mounted nothing.
CheckUnmount(u) ==
  /\ pc[u] = "release"
  /\ pc' = [pc EXCEPT ![u] = IF stack = <<>> THEN "idle" ELSE "unmount"]
  /\ UNCHANGED <<stack, isMounted, open>>

\* umount() takes off the topmost device, unless something on it is open.
Unmount(u) ==
  /\ pc[u] = "unmount"
  /\ stack' = IF stack = <<>> \/ \E v \in Users : open[v] = Top THEN stack
              ELSE SubSeq(stack, 1, Len(stack) - 1)
  /\ pc' = [pc EXCEPT ![u] = "idle"]
  /\ UNCHANGED <<isMounted, open>>
=============================================================================
