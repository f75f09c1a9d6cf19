---------------------------- MODULE UBootManager ----------------------------
(***************************************************************************)
(* The server's boot manager, src/uboot.cc: a cache of uEnvAB.txt of the   *)
(* active and the alternate container, written back as a whole whenever a  *)
(* field is set.                                                           *)
(***************************************************************************)
EXTENDS ABBoot

CONSTANT Faults   \* what may go wrong (see FaultKind)

\* kill:   the server process dies; init starts it again
\* left:   it leaves mounted what it had on the mount point when it died
\* mount:  mounting BootInfo to write uEnvAB.txt fails
\* window: it stops while the alternate BootInfo partition can be read and does not hold
\*         its own flags: from the first block of the copy of the active container's
\*         BootInfo to the SetValidity behind it (ota_manager.cc:537-548)
FaultKind == {"kill", "left", "mount", "window"}

ASSUME FaultAssumption == Faults \subseteq FaultKind

VARIABLES
  bootInfo,       \* bootInfo[c]: the BootInfo partition of container c
  containerInfo,  \* the cache, by role
  active,         \* iveia.boot.active on the kernel command line
  leftMounted     \* something is mounted on the mount point from an earlier process

Role == {"Active", "Alternate"}
Alternate == Other(active)
Device(role) == IF role = "Active" THEN active ELSE Alternate

ContainerInfo == [tries: Nat, rev: Nat, valid: BOOLEAN, updated: BOOLEAN]

\* What containerInfo[..] inserts for a container that could not be read: the
\* constructor prints both entries (lines 17-28).
NoEntry == [tries |-> 0, rev |-> 0, valid |-> FALSE, updated |-> FALSE]

\* A ContainerInfo that no line of a file was read into is uninitialized memory.
Uninitialized == [tries: {0, CountLimit}, rev: {0, 1}, valid: BOOLEAN, updated: BOOLEAN]

\* readContainerInfo of a container whose BootInfo partition is p.
Read(p) ==
  CASE p.file = "damaged" -> {NoEntry}
    [] p.file = "none"    -> Uninitialized
    [] p.file = "written" -> {[tries |-> Decimal(p.count), rev |-> p.rev,
                               valid |-> p.valid, updated |-> p.updated]}

\* Mutated form of ReadContainers: the alternate container is not read.
ReadActiveOnly ==
  /\ \E a \in (IF leftMounted THEN {NoEntry} ELSE Read(bootInfo[active])) :
       containerInfo' = [r \in {"Active"} |-> a]
  /\ leftMounted' = FALSE

\* The constructor.  What is left mounted makes the first mount fail, whose
\* destructor unmounts it.
ReadContainers ==
  /\ \E a \in (IF leftMounted THEN {NoEntry} ELSE Read(bootInfo[active])),
        b \in Read(bootInfo[Alternate]) :
       containerInfo' = [Active |-> a, Alternate |-> b]
  /\ leftMounted' = FALSE

File(info) == [file |-> "written", updated |-> info.updated, valid |-> info.valid,
               count |-> Hexadecimal(info.tries), rev |-> info.rev]

\* A field of the cache is set, and writeContainerInfo writes all of them; the cache
\* keeps the new value when the mount fails.
WriteContainerInfo(role, info) ==
  /\ containerInfo' = [containerInfo EXCEPT ![role] = info]
  /\ \/ /\ bootInfo[Device(role)].file # "damaged"
        /\ bootInfo' = [bootInfo EXCEPT ![Device(role)] = File(info)]
     \/ /\ bootInfo[Device(role)].file = "damaged" \/ "mount" \in Faults
        /\ UNCHANGED bootInfo
  /\ UNCHANGED <<active, leftMounted>>

\* Mutated form of SetValidity: only the cache is changed.
SetValidityCached(role, v) ==
  /\ containerInfo' = [containerInfo EXCEPT ![role].valid = v]
  /\ UNCHANGED <<bootInfo, active, leftMounted>>

SetValidity(role, v) ==
  WriteContainerInfo(role, [containerInfo[role] EXCEPT !.valid = v])

MarkUpdateSuccess(role, u) ==
  WriteContainerInfo(role, [containerInfo[role] EXCEPT !.updated = u])

ResetBootCount(role) ==
  WriteContainerInfo(role, [containerInfo[role] EXCEPT !.tries = 0])

SwitchContainer ==
  WriteContainerInfo("Alternate",
    [containerInfo["Alternate"] EXCEPT !.rev = containerInfo["Active"].rev + 1])

SetAll(role, v, u, t, r) ==
  WriteContainerInfo(role, [valid |-> v, updated |-> u, tries |-> t, rev |-> r])

GetRev(role) == containerInfo[role].rev
=============================================================================
