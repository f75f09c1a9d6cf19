-------------------------- MODULE BootSystemProofs --------------------------
(***************************************************************************)
(* Theorems of BootSystem, for every limit, bound, fault and habit that    *)
(* their assumptions allow.                                                *)
(***************************************************************************)
EXTENDS BootSystem, TLAPS

USE CountAssumption
-----------------------------------------------------------------------------
(* The script *)

\* A count of zero is below every limit, whatever text it stands for.
LEMMA ZeroCount == Decimal(0) = 0 /\ Decimal(0) < CountLimit
BY DEF Decimal

\* Both readings of a count are numbers.
LEMMA CountTypes ==
  ASSUME NEW n \in Nat
  PROVE  Decimal(n) \in Nat /\ Hexadecimal(n) \in Nat
BY DEF Decimal, Hexadecimal

\* With its count forgiven, a container can be booted exactly when it claims to be valid.
LEMMA ForgivenBootable ==
  ASSUME NEW p \in BootInfo
  PROVE  /\ Bootable(Forgiven(p)) <=> Claims(p)
         /\ Forgiven(p).rev = p.rev
<1>1. Forgiven(p).count = 0 /\ Forgiven(p).rev = p.rev
      /\ Forgiven(p).file = p.file /\ Forgiven(p).valid = p.valid
  BY DEF Forgiven, BootInfo
<1> QED BY <1>1, ZeroCount DEF Bootable, Claims, CountOk

\* What Select answers when no container is forced.
LEMMA SelectCases ==
  ASSUME NEW a \in BootInfo, NEW b \in BootInfo
  PROVE  /\ Select("none", a, b) = "a" <=> Bootable(a) /\ (Bootable(b) => a.rev >= b.rev)
         /\ Select("none", a, b) = "b" <=> Bootable(b) /\ (Bootable(a) => a.rev < b.rev)
<1>1. a.rev \in Nat /\ b.rev \in Nat
  BY DEF BootInfo
<1> HIDE DEF Bootable
<1> QED BY <1>1 DEF Select, Container

\* FALLBACK_BOOT is set exactly when the script would have picked the other container if
\* no count were too high (AB.sh:195-213).
THEOREM FallbackExact ==
  ASSUME NEW a \in BootInfo, NEW b \in BootInfo, NEW c \in Container,
         Select("none", a, b) = c
  PROVE  Fallback(c, a, b) <=> Select("none", Forgiven(a), Forgiven(b)) # c
<1>1. Forgiven(a) \in BootInfo /\ Forgiven(b) \in BootInfo
  BY DEF Forgiven, BootInfo
<1>2. \A p \in BootInfo : /\ Bootable(p) <=> Claims(p) /\ CountOk(p)
                          /\ TooMany(p) <=> Claims(p) /\ ~CountOk(p)
                          /\ p.rev \in Nat
  BY DEF Bootable, TooMany, BootInfo
<1>3. CASE c = "a"
  <2>1. Claims(a) /\ (Bootable(b) => a.rev >= b.rev)
    BY <1>2, <1>3, SelectCases
  <2>2. Select("none", Forgiven(a), Forgiven(b)) # "a" <=> Claims(b) /\ a.rev < b.rev
    BY <1>1, <1>2, <2>1, SelectCases, ForgivenBootable
  <2> QED BY <1>2, <1>3, <2>1, <2>2 DEF Fallback
<1>4. CASE c = "b"
  <2>1. Claims(b) /\ (Bootable(a) => a.rev < b.rev)
    BY <1>2, <1>4, SelectCases
  <2>2. Select("none", Forgiven(a), Forgiven(b)) # "b" <=> Claims(a) /\ a.rev >= b.rev
    BY <1>1, <1>2, <2>1, SelectCases, ForgivenBootable
  <2> QED BY <1>2, <1>4, <2>1, <2>2 DEF Fallback
<1> QED BY <1>3, <1>4 DEF Container
-----------------------------------------------------------------------------
(* Type correctness *)

LEMMA FileType ==
  ASSUME NEW info \in ContainerInfo
  PROVE  File(info) \in BootInfo
BY CountTypes DEF File, ContainerInfo, BootInfo

LEMMA ReadType ==
  ASSUME NEW p \in BootInfo
  PROVE  Read(p) \subseteq ContainerInfo
<1>1. NoEntry \in ContainerInfo /\ Uninitialized \subseteq ContainerInfo
  BY DEF NoEntry, Uninitialized, ContainerInfo
<1>2. p.file \in {"damaged", "none", "written"}
      /\ p.count \in Nat /\ p.rev \in Nat /\ p.valid \in BOOLEAN /\ p.updated \in BOOLEAN
  BY DEF BootInfo
<1>3. [tries |-> Decimal(p.count), rev |-> p.rev, valid |-> p.valid, updated |-> p.updated]
        \in ContainerInfo
  BY <1>2, CountTypes DEF ContainerInfo
<1> QED BY <1>1, <1>2, <1>3 DEF Read

LEMMA CountedType ==
  ASSUME NEW p \in BootInfo
  PROVE  /\ Counted(p) \in BootInfo
         /\ p.file = "written" => (Claims(Counted(p)) <=> Claims(p))
<1> DEFINE n == IF p.count < MaxCount THEN p.count + 1 ELSE p.count
<1>1. n \in Nat
  BY DEF BootInfo
<1>2. Counted(p) = [p EXCEPT !.file = "written", !.count = n]
  BY DEF Counted
<1> HIDE DEF n
<1>3. Counted(p) \in BootInfo
  BY <1>1, <1>2 DEF BootInfo
<1>4. Counted(p).file = "written" /\ Counted(p).valid = p.valid
  BY <1>2 DEF BootInfo
<1> QED BY <1>3, <1>4 DEF Claims

LEMMA Roles ==
  ASSUME active \in Container
  PROVE  /\ Alternate \in Container /\ Alternate # active
         /\ \A role \in Role : Device(role) \in Container
         /\ Device("Active") = active /\ Device("Alternate") = Alternate
BY DEF Alternate, Other, Container, Role, Device

\* What a write does to the cache and to the partitions.
LEMMA WriteType ==
  ASSUME TypeOK, NEW role \in Role, NEW info \in ContainerInfo,
         WriteContainerInfo(role, info)
  PROVE  /\ bootInfo' \in [Container -> BootInfo]
         /\ containerInfo' \in [Role -> ContainerInfo]
         /\ active' \in Container /\ leftMounted' \in BOOLEAN
BY FileType, Roles DEF TypeOK, WriteContainerInfo

\* The same for the setters.
LEMMA SetterType ==
  ASSUME TypeOK, NEW role \in Role, NEW v \in BOOLEAN,
         \/ SetValidity(role, v) \/ MarkUpdateSuccess(role, v) \/ ResetBootCount(role)
         \/ SwitchContainer \/ WriteContainerInfo(role, containerInfo[role])
         \/ SetAll("Alternate", TRUE, TRUE, 0, GetRev("Active") + 1)
  PROVE  /\ bootInfo' \in [Container -> BootInfo]
         /\ containerInfo' \in [Role -> ContainerInfo]
         /\ active' \in Container /\ leftMounted' \in BOOLEAN
<1>1. \A r \in Role : containerInfo[r] \in ContainerInfo
  BY DEF TypeOK
<1>2. "Active" \in Role /\ "Alternate" \in Role
  BY DEF Role
<1>3. CASE SetValidity(role, v)
  <2>1. [containerInfo[role] EXCEPT !.valid = v] \in ContainerInfo
    BY <1>1 DEF ContainerInfo
  <2> QED BY <1>3, <2>1, WriteType DEF SetValidity
<1>4. CASE MarkUpdateSuccess(role, v)
  <2>1. [containerInfo[role] EXCEPT !.updated = v] \in ContainerInfo
    BY <1>1 DEF ContainerInfo
  <2> QED BY <1>4, <2>1, WriteType DEF MarkUpdateSuccess
<1>5. CASE ResetBootCount(role)
  <2>1. [containerInfo[role] EXCEPT !.tries = 0] \in ContainerInfo
    BY <1>1 DEF ContainerInfo
  <2> QED BY <1>5, <2>1, WriteType DEF ResetBootCount
<1>6. CASE SwitchContainer
  <2>1. [containerInfo["Alternate"] EXCEPT !.rev = containerInfo["Active"].rev + 1]
          \in ContainerInfo
    BY <1>1, <1>2 DEF ContainerInfo
  <2> QED BY <1>2, <1>6, <2>1, WriteType DEF SwitchContainer
<1>7. CASE WriteContainerInfo(role, containerInfo[role])
  BY <1>1, <1>7, WriteType
<1>8. CASE SetAll("Alternate", TRUE, TRUE, 0, GetRev("Active") + 1)
  <2>1. [valid |-> TRUE, updated |-> TRUE, tries |-> 0, rev |-> GetRev("Active") + 1]
          \in ContainerInfo
    BY <1>1, <1>2 DEF ContainerInfo, GetRev
  <2> QED BY <1>2, <1>8, <2>1, WriteType DEF SetAll
<1> QED BY <1>3, <1>4, <1>5, <1>6, <1>7, <1>8

LEMMA TypeInit == Init => TypeOK
<1>1. SetUp \in BootInfo /\ Damaged \in BootInfo /\ NoEntry \in ContainerInfo
  BY DEF SetUp, Damaged, NotFound, NoEntry, BootInfo, ContainerInfo
<1>2. \A p, q \in BootInfo : [a |-> p, b |-> q] \in [Container -> BootInfo]
  BY DEF Container
<1>3. \A x, y \in BOOLEAN : [a |-> x, b |-> y] \in [Container -> BOOLEAN]
  BY DEF Container
<1>4. [r \in Role |-> NoEntry] \in [Role -> ContainerInfo]
  BY <1>1
<1>5. SUFFICES ASSUME Init PROVE TypeOK
  OBVIOUS
<1>6. bootInfo \in [Container -> BootInfo] /\ complete \in [Container -> BOOLEAN]
  <2>1. PICK b \in {SetUp, Damaged} : /\ bootInfo = [a |-> SetUp, b |-> b]
                                      /\ complete = [a |-> TRUE, b |-> (b = SetUp)]
    BY <1>5 DEF Init
  <2>2. [a |-> SetUp, b |-> b] \in [Container -> BootInfo]
    BY <1>1, <1>2
  <2>3. [a |-> TRUE, b |-> (b = SetUp)] \in [Container -> BOOLEAN]
    BY <1>3
  <2> QED BY <2>1, <2>2, <2>3
<1>7. "a" \in Container
  BY DEF Container
<1> QED BY <1>4, <1>5, <1>6, <1>7 DEF Init, TypeOK, Phase

LEMMA InterruptedType ==
  ASSUME TypeOK
  PROVE  Torn \subseteq BootInfo /\ Interrupted \subseteq BootInfo
<1>1. Damaged \in BootInfo /\ NoFile \in BootInfo
  BY DEF Damaged, NoFile, NotFound, BootInfo
<1>2. bootInfo[Alternate] \in BootInfo /\ bootInfo[active] \in BootInfo
  BY Roles DEF TypeOK
<1> QED BY <1>1, <1>2 DEF Torn, Interrupted

LEMMA ForgetType == Forget => containerInfo' \in [Role -> ContainerInfo] /\ single' \in BOOLEAN
<1>1. NoEntry \in ContainerInfo
  BY DEF NoEntry, ContainerInfo
<1> QED BY <1>1 DEF Forget

LEMMA TypeStep == TypeOK /\ [Next]_vars => TypeOK'
<1> SUFFICES ASSUME TypeOK, [Next]_vars PROVE TypeOK'
  OBVIOUS
<1> USE DEF TypeOK, Phase
<1>1. CASE Boot
  BY <1>1, CountedType DEF Boot, Start, updateVars
<1>2. CASE ForcedBoot
  BY <1>2, CountedType DEF ForcedBoot, Start, managerVars, updateVars, systemVars, Container
<1>3. CASE StartServer
  <2>1. bootInfo[active] \in BootInfo /\ bootInfo[Alternate] \in BootInfo
    BY Roles
  <2>2. NoEntry \in ContainerInfo
    BY DEF NoEntry, ContainerInfo
  <2>3. \A p, q \in ContainerInfo :
          [Active |-> p, Alternate |-> q] \in [Role -> ContainerInfo]
    BY DEF Role
  <2>4. /\ Read(bootInfo[active]) \subseteq ContainerInfo
        /\ Read(bootInfo[Alternate]) \subseteq ContainerInfo
    BY <2>1, ReadType
  <2>5. containerInfo' \in [Role -> ContainerInfo] /\ leftMounted' \in BOOLEAN
    <3>1. PICK a \in (IF leftMounted THEN {NoEntry} ELSE Read(bootInfo[active])),
               b \in Read(bootInfo[Alternate]) :
                 containerInfo' = [Active |-> a, Alternate |-> b]
      BY <1>3 DEF StartServer, ReadContainers
    <3>2. a \in ContainerInfo /\ b \in ContainerInfo
      BY <2>2, <2>4
    <3>3. containerInfo' \in [Role -> ContainerInfo]
      BY <2>3, <3>1, <3>2
    <3> QED BY <1>3, <3>3 DEF StartServer, ReadContainers
  <2> QED BY <1>3, <2>5 DEF StartServer
<1>4. CASE Kill
  BY <1>4, InterruptedType, ForgetType, Roles DEF Kill, systemVars
<1>5. CASE Reset
  BY <1>5, InterruptedType, ForgetType, Roles DEF Reset, systemVars
<1>6. CASE Prepare
  <2>1. /\ bootInfo' \in [Container -> BootInfo]
        /\ containerInfo' \in [Role -> ContainerInfo]
        /\ active' \in Container /\ leftMounted' \in BOOLEAN
    BY <1>6, SetterType DEF Prepare, Role
  <2> QED BY <1>6, <2>1, Roles DEF Prepare
<1>7. CASE CopyBootInfo \/ CutCopy
  <2>1. PICK p \in BootInfo : bootInfo' = [bootInfo EXCEPT ![Alternate] = p]
    BY <1>7, Roles, InterruptedType DEF CopyBootInfo, CutCopy
  <2>2. bootInfo' \in [Container -> BootInfo]
    BY <2>1
  <2>3. /\ UNCHANGED <<containerInfo, active, leftMounted, power, single, systemVars>>
        /\ phase = "copying" /\ phase' \in {"copied", "cut"}
    BY <1>7 DEF CopyBootInfo, CutCopy
  <2> QED BY <2>2, <2>3 DEF systemVars
<1>8. CASE SetAlternateInvalid
  BY <1>8, SetterType DEF SetAlternateInvalid, systemVars, Role, Window
<1>9. CASE SkipBootInfo
  BY <1>9 DEF SkipBootInfo, managerVars, systemVars
<1>10. CASE ReplaceBootInfo
  BY <1>10, UpdateAssumption, Roles DEF ReplaceBootInfo, updateVars, systemVars
<1>11. CASE Apply
  BY <1>11, Roles DEF Apply, managerVars
<1>12. CASE Finalize
  <2>1. /\ bootInfo' \in [Container -> BootInfo]
        /\ containerInfo' \in [Role -> ContainerInfo]
        /\ active' \in Container /\ leftMounted' \in BOOLEAN
    BY <1>12, SetterType DEF Finalize, managerVars, Role
  <2> QED BY <1>12, <2>1, Roles DEF Finalize
<1>13. CASE Cancel
  BY <1>13 DEF Cancel, managerVars, systemVars
<1>14. CASE Switch
  BY <1>14, SetterType DEF Switch, updateVars, systemVars, Role
<1>15. ASSUME NEW role \in Role, Maintain(role) PROVE TypeOK'
  BY <1>15, SetterType DEF Maintain, updateVars, systemVars
<1>16. ASSUME NEW role \in Role, NEW v \in BOOLEAN, Declare(role, v) PROVE TypeOK'
  <2>1. /\ bootInfo' \in [Container -> BootInfo]
        /\ containerInfo' \in [Role -> ContainerInfo]
        /\ active' \in Container /\ leftMounted' \in BOOLEAN
    BY <1>16, SetterType DEF Declare
  <2> QED BY <1>16, <2>1 DEF Declare, updateVars
<1>17. CASE UNCHANGED vars
  BY <1>17 DEF vars, managerVars, updateVars, systemVars
<1> QED
  BY <1>1, <1>2, <1>3, <1>4, <1>5, <1>6, <1>7, <1>8, <1>9, <1>10, <1>11, <1>12, <1>13,
     <1>14, <1>15, <1>16, <1>17 DEF Next

\* Every variable keeps its type, whatever fails and whatever the client does.
THEOREM BootTypeCorrect == Spec => []TypeOK
BY TypeInit, TypeStep, PTL DEF Spec

\* FALLBACK_BOOT is exact at every boot (AB.sh:195).
THEOREM FallbackAlwaysTold == Spec => []FallbackTold
<1>1. TypeOK => FallbackTold
  BY FallbackExact DEF TypeOK, FallbackTold, Chosen, Container
<1> QED BY <1>1, BootTypeCorrect, PTL
-----------------------------------------------------------------------------
(* What the flags promise *)

\* The environment of the theorem below: BOOT_VALID can be written; nothing stops the
\* server while the alternate BootInfo partition holds what a copy has put there, in the
\* copy or between it and SetValidity, unless the partition cannot be mounted; and no
\* update brings a BootInfo partition that is valid already or has no uEnvAB.txt.
Careful ==
  /\ "mount" \notin Faults /\ "window" \notin Faults
  /\ \A p \in NewBootInfo : p.file # "none" /\ ~p.valid

\* A container that claims to be valid is complete, on disk and in the cache, whose
\* entries are written back whole; an update is only finalized when it is.
DiskSound ==
  \A c \in Container :
    \/ phase \in Window /\ c = Alternate
    \/ bootInfo[c].file # "none" /\ (Claims(bootInfo[c]) => complete[c])
CacheSound ==
  phase # "down" => \A r \in Role : containerInfo[r].valid => complete[Device(r)]
UpdateSound == phase = "allDone" /\ ~single => complete[Alternate]
FlagsSound == DiskSound /\ CacheSound /\ UpdateSound

\* What a write leaves behind when the mount cannot fail.
LEMMA WriteEffect ==
  ASSUME TypeOK, Careful, DiskSound, NEW role \in Role, NEW info \in ContainerInfo,
         WriteContainerInfo(role, info)
  PROVE  /\ bootInfo'[Device(role)].file # "none"
         /\ Claims(bootInfo'[Device(role)]) => info.valid
         /\ \A c \in Container : c # Device(role) => bootInfo'[c] = bootInfo[c]
         /\ containerInfo'[role] = info
         /\ \A r \in Role : r # role => containerInfo'[r] = containerInfo[r]
         /\ active' = active
<1>1. Device(role) \in Container
  BY Roles DEF TypeOK
<1>2. File(info).file = "written" /\ (File(info).valid <=> info.valid)
  BY DEF File
<1>3. CASE bootInfo' = [bootInfo EXCEPT ![Device(role)] = File(info)]
  BY <1>1, <1>2, <1>3 DEF WriteContainerInfo, TypeOK, DiskSound, Claims
<1>4. CASE bootInfo[Device(role)].file = "damaged" /\ UNCHANGED bootInfo
  BY <1>1, <1>4 DEF WriteContainerInfo, TypeOK, DiskSound, Claims
<1> QED BY <1>3, <1>4 DEF WriteContainerInfo, Careful

\* A message that writes no validity a complete container does not have keeps the flags
\* sound.
LEMMA MessageSound ==
  ASSUME TypeOK, Careful, FlagsSound, phase # "down",
         NEW role \in Role, NEW info \in ContainerInfo,
         info.valid => complete[Device(role)], WriteContainerInfo(role, info),
         UNCHANGED <<updateVars, complete>>
  PROVE  FlagsSound'
<1>1. Alternate' = Alternate /\ \A r \in Role : Device(r)' = Device(r)
  BY WriteEffect DEF Alternate, Device, FlagsSound
<1>2. DiskSound'
  BY <1>1, WriteEffect, Roles DEF FlagsSound, DiskSound, TypeOK, updateVars
<1>3. CacheSound'
  BY <1>1, WriteEffect DEF FlagsSound, CacheSound, updateVars
<1>4. UpdateSound'
  BY <1>1 DEF FlagsSound, UpdateSound, updateVars
<1> QED BY <1>2, <1>3, <1>4 DEF FlagsSound

LEMMA FlagsInit == Init => FlagsSound
<1>1. SUFFICES ASSUME Init PROVE FlagsSound
  OBVIOUS
<1>2. PICK b \in {SetUp, Damaged} : /\ bootInfo = [a |-> SetUp, b |-> b]
                                    /\ complete = [a |-> TRUE, b |-> (b = SetUp)]
  BY <1>1 DEF Init
<1>3. /\ bootInfo["a"] = SetUp /\ complete["a"] = TRUE
      /\ bootInfo["b"] = b /\ complete["b"] = (b = SetUp)
  BY <1>2
<1>4. SetUp.file = "written" /\ Damaged.file = "damaged"
  BY DEF SetUp, Damaged, NotFound
<1>5. DiskSound
  BY <1>3, <1>4 DEF DiskSound, Container, Claims
<1> QED BY <1>1, <1>5 DEF Init, FlagsSound, CacheSound, UpdateSound

\* The script picks a container that it found, valid and below the limit.
LEMMA ChosenBootable ==
  ASSUME TypeOK, Chosen \in Container
  PROVE  Bootable(bootInfo[Chosen])
<1>1. "a" \in Container /\ "b" \in Container
  BY DEF Container
<1>2. bootInfo["a"] \in BootInfo /\ bootInfo["b"] \in BootInfo
  BY <1>1 DEF TypeOK
<1>3. CASE Chosen = "a"
  <2>1. Bootable(bootInfo["a"])
    BY <1>2, <1>3, SelectCases DEF Chosen
  <2> QED BY <1>3, <2>1
<1>4. CASE Chosen = "b"
  <2>1. Bootable(bootInfo["b"])
    BY <1>2, <1>4, SelectCases DEF Chosen
  <2> QED BY <1>4, <2>1
<1> QED BY <1>3, <1>4 DEF Container

\* Nothing is stopped in the window, so what is left of the alternate BootInfo partition
\* claims no more than before.
LEMMA InterruptedSound ==
  ASSUME TypeOK, Careful, FlagsSound, phase \notin Window, NEW p \in Interrupted,
         bootInfo' = [bootInfo EXCEPT ![Alternate] = p]
  PROVE  \A c \in Container : /\ bootInfo'[c].file # "none"
                              /\ Claims(bootInfo'[c]) => complete[c]
<1>1. Alternate \in Container
  BY Roles DEF TypeOK
<1>2. p = bootInfo[Alternate] \/ p = Damaged
  BY DEF Interrupted, Careful
<1>3. Damaged.file = "damaged"
  BY DEF Damaged, NotFound
<1> QED BY <1>1, <1>2, <1>3 DEF FlagsSound, DiskSound, TypeOK, Claims

LEMMA FlagsStep ==
  ASSUME Careful, TypeOK, FlagsSound, [Next]_vars
  PROVE  FlagsSound'
<1> USE DEF FlagsSound
<1>0. Alternate \in Container /\ active \in Container /\ Alternate # active
      /\ Device("Active") = active /\ Device("Alternate") = Alternate
  BY Roles DEF TypeOK
<1>a. "Active" \in Role /\ "Alternate" \in Role
  BY DEF Role
<1>b. \A r \in Role : containerInfo[r] \in ContainerInfo
  BY DEF TypeOK
<1>c. \A c \in Container : bootInfo[c] \in BootInfo
  BY DEF TypeOK
<1>1. ASSUME NEW c \in Container, power = "off", Start(c), bootInfo[c].file = "written"
      PROVE  FlagsSound'
  <2>1. phase = "down" /\ phase' = "down" /\ complete' = complete
    BY <1>1 DEF TypeOK, Start, updateVars
  <2>2. \A d \in Container : /\ bootInfo'[d].file = bootInfo[d].file
                             /\ Claims(bootInfo'[d]) <=> Claims(bootInfo[d])
    <3>1. Counted(bootInfo[c]).file = "written"
      BY <1>c DEF Counted, BootInfo
    <3> QED BY <1>1, <1>c, <3>1, CountedType DEF Start, TypeOK
  <2>3. DiskSound'
    BY <2>1, <2>2 DEF DiskSound, Window
  <2>4. CacheSound' /\ UpdateSound'
    BY <2>1 DEF CacheSound, UpdateSound
  <2> QED BY <2>3, <2>4
<1>2. CASE Boot
  BY <1>1, <1>2, ChosenBootable DEF Boot, Bootable, Claims
<1>3. CASE ForcedBoot
  <2>1. CASE bootInfo["a"].file # "damaged" /\ Start("a")
    <3>1. "a" \in Container
      BY DEF Container
    <3>2. bootInfo["a"].file = "written"
      BY <1>3, <1>c, <2>1, <3>1 DEF DiskSound, BootInfo, ForcedBoot, TypeOK, Window
    <3> QED BY <1>1, <1>3, <2>1, <3>1, <3>2 DEF ForcedBoot
  <2>2. CASE UNCHANGED <<managerVars, updateVars, systemVars>>
    BY <2>2 DEF managerVars, updateVars, systemVars, DiskSound, CacheSound, UpdateSound,
                Alternate, Device
  <2> QED BY <1>3, <2>1, <2>2 DEF ForcedBoot
<1>4. CASE StartServer
  <2>1. PICK a \in (IF leftMounted THEN {NoEntry} ELSE Read(bootInfo[active])),
             b \in Read(bootInfo[Alternate]) :
               containerInfo' = [Active |-> a, Alternate |-> b]
    BY <1>4 DEF StartServer, ReadContainers
  <2>2. \A c \in Container : \A e \in Read(bootInfo[c]) : e.valid => complete[c]
    BY <1>4, <1>c DEF StartServer, Read, NoEntry, DiskSound, Claims, BootInfo, Window
  <2>3. (a.valid => complete[active]) /\ (b.valid => complete[Alternate])
    BY <1>0, <2>1, <2>2 DEF NoEntry
  <2>4. CacheSound'
    BY <1>0, <1>4, <2>1, <2>3 DEF StartServer, CacheSound, Role, Device, Alternate
  <2> QED BY <1>4, <2>4 DEF StartServer, DiskSound, UpdateSound, Alternate, Window
<1>5. CASE Kill \/ Reset
  <2>1. phase \notin Window /\ phase' = "down" /\ complete' = complete
    BY <1>5 DEF Kill, Reset, MayStop, Careful, systemVars
  <2>2. PICK p \in Interrupted : bootInfo' = [bootInfo EXCEPT ![Alternate] = p]
    BY <1>5 DEF Kill, Reset
  <2>3. \A c \in Container : /\ bootInfo'[c].file # "none"
                             /\ Claims(bootInfo'[c]) => complete[c]
    BY <2>1, <2>2, InterruptedSound
  <2>4. DiskSound'
    BY <2>1, <2>3 DEF DiskSound
  <2>5. CacheSound' /\ UpdateSound'
    BY <2>1 DEF CacheSound, UpdateSound
  <2> QED BY <2>4, <2>5
<1>6. CASE Prepare
  <2> DEFINE info == [containerInfo["Alternate"] EXCEPT !.valid = FALSE]
  <2>1. info \in ContainerInfo /\ info.valid = FALSE
    BY <1>a, <1>b DEF ContainerInfo
  <2>2. WriteContainerInfo("Alternate", info)
    BY <1>6 DEF Prepare, SetValidity
  <2> HIDE DEF info
  <2>3. /\ bootInfo'[Alternate].file # "none" /\ ~Claims(bootInfo'[Alternate])
        /\ \A c \in Container : c # Alternate => bootInfo'[c] = bootInfo[c]
        /\ containerInfo'["Alternate"] = info
        /\ containerInfo'["Active"] = containerInfo["Active"]
        /\ active' = active
    BY <1>0, <1>a, <2>1, <2>2, WriteEffect
  <2>4. phase = "idle" /\ phase' = "copying"
        /\ \A c \in Container : c # Alternate => complete'[c] = complete[c]
    BY <1>6, <1>0 DEF Prepare, TypeOK
  <2>5. Alternate' = Alternate /\ Device("Active")' = active /\ Device("Alternate")' = Alternate
    BY <2>3 DEF Alternate, Device
  <2>6. DiskSound'
    BY <2>3, <2>4 DEF DiskSound
  <2>7. CacheSound'
    BY <1>0, <1>a, <2>1, <2>3, <2>4, <2>5 DEF CacheSound, Role
  <2> QED BY <2>4, <2>6, <2>7 DEF UpdateSound
<1>7. CASE CopyBootInfo \/ CutCopy
  <2>1. PICK p \in BootInfo : bootInfo' = [bootInfo EXCEPT ![Alternate] = p]
    BY <1>0, <1>7, <1>c, InterruptedType DEF CopyBootInfo, CutCopy
  <2>2. /\ phase = "copying" /\ phase' \in Window
        /\ UNCHANGED <<containerInfo, active, complete>>
    BY <1>7 DEF CopyBootInfo, CutCopy, systemVars, Window
  <2>3. DiskSound'
    BY <1>0, <2>1, <2>2 DEF DiskSound, TypeOK, Alternate, Window
  <2>4. CacheSound' /\ UpdateSound'
    BY <2>2 DEF CacheSound, UpdateSound, Alternate, Device, Window
  <2> QED BY <2>3, <2>4
<1>8. CASE SetAlternateInvalid
  <2> DEFINE info == [containerInfo["Alternate"] EXCEPT !.valid = FALSE]
  <2>1. info \in ContainerInfo /\ info.valid = FALSE
    BY <1>a, <1>b DEF ContainerInfo
  <2>2. WriteContainerInfo("Alternate", info)
    BY <1>8 DEF SetAlternateInvalid, SetValidity
  <2> HIDE DEF info
  <2>3. /\ bootInfo'[Alternate].file # "none" /\ ~Claims(bootInfo'[Alternate])
        /\ \A c \in Container : c # Alternate => bootInfo'[c] = bootInfo[c]
        /\ containerInfo'["Alternate"] = info
        /\ containerInfo'["Active"] = containerInfo["Active"]
        /\ active' = active
    BY <1>0, <1>a, <2>1, <2>2, WriteEffect
  <2>4. phase # "down" /\ phase' \in {"ready", "idle"} /\ complete' = complete
    BY <1>8 DEF SetAlternateInvalid, systemVars, Window
  <2>5. Device("Active")' = active /\ Device("Alternate")' = Alternate
    BY <2>3 DEF Alternate, Device
  <2>6. DiskSound'
    BY <2>3, <2>4 DEF DiskSound
  <2>7. CacheSound'
    BY <1>0, <1>a, <2>1, <2>3, <2>4, <2>5 DEF CacheSound, Role
  <2> QED BY <2>4, <2>6, <2>7 DEF UpdateSound
<1>9. CASE SkipBootInfo
  BY <1>9 DEF SkipBootInfo, managerVars, systemVars, DiskSound, CacheSound, UpdateSound,
              Alternate, Device, Window
<1>10. CASE ReplaceBootInfo
  <2>1. PICK p \in NewBootInfo : bootInfo' = [bootInfo EXCEPT ![Alternate] = p]
    BY <1>10 DEF ReplaceBootInfo
  <2>2. p.file # "none" /\ ~p.valid
    BY DEF Careful
  <2>3. DiskSound'
    BY <1>0, <1>10, <2>1, <2>2 DEF ReplaceBootInfo, updateVars, systemVars, DiskSound,
                                   TypeOK, Claims, Alternate, Window
  <2> QED BY <1>10, <2>3 DEF ReplaceBootInfo, updateVars, systemVars, CacheSound,
                             UpdateSound, Alternate, Device
<1>11. CASE Apply
  <2>1. /\ \A c \in Container : complete[c] => complete'[c]
        /\ single \/ complete'[Alternate]
    BY <1>0, <1>11 DEF Apply, TypeOK
  <2>2. phase = "ready" /\ phase' = "allDone" /\ UNCHANGED <<managerVars, single>>
    BY <1>11 DEF Apply
  <2>3. \A r \in Role : Device(r) \in Container
    BY Roles DEF TypeOK
  <2> QED BY <2>1, <2>2, <2>3 DEF managerVars, DiskSound, CacheSound, UpdateSound,
                                  Alternate, Device, Window
<1>12. CASE Finalize
  <2>1. CASE single
    BY <1>12, <2>1 DEF Finalize, managerVars, DiskSound, CacheSound, UpdateSound,
                       Alternate, Device, Window
  <2>2. CASE ~single
    <3> DEFINE info == [valid |-> TRUE, updated |-> TRUE, tries |-> 0,
                        rev |-> GetRev("Active") + 1]
    <3>1. info \in ContainerInfo /\ WriteContainerInfo("Alternate", info)
      BY <1>12, <1>a, <1>b, <2>2 DEF Finalize, SetAll, ContainerInfo, GetRev
    <3> HIDE DEF info
    <3>2. /\ bootInfo'[Alternate].file # "none"
          /\ \A c \in Container : c # Alternate => bootInfo'[c] = bootInfo[c]
          /\ containerInfo'["Active"] = containerInfo["Active"]
          /\ active' = active
      BY <1>0, <1>a, <3>1, WriteEffect
    <3>3. phase = "allDone" /\ phase' = "idle" /\ complete' = complete /\ complete[Alternate]
      BY <1>12, <2>2 DEF Finalize, UpdateSound
    <3>4. Device("Active")' = active /\ Device("Alternate")' = Alternate
      BY <3>2 DEF Alternate, Device
    <3>5. DiskSound'
      BY <3>2, <3>3 DEF DiskSound
    <3>6. CacheSound'
      BY <1>0, <1>a, <3>2, <3>3, <3>4 DEF CacheSound, Role
    <3> QED BY <3>3, <3>5, <3>6 DEF UpdateSound
  <2> QED BY <2>1, <2>2
<1>13. CASE Cancel
  BY <1>13 DEF Cancel, managerVars, systemVars, DiskSound, CacheSound, UpdateSound,
               Alternate, Device, Window
<1>14. CASE Switch
  <2> DEFINE info == [containerInfo["Alternate"] EXCEPT !.rev = containerInfo["Active"].rev + 1]
  <2>1. info \in ContainerInfo /\ (info.valid <=> containerInfo["Alternate"].valid)
    BY <1>a, <1>b DEF ContainerInfo
  <2>2. WriteContainerInfo("Alternate", info) /\ phase # "down"
        /\ UNCHANGED <<updateVars, complete>>
    BY <1>14 DEF Switch, SwitchContainer, systemVars
  <2> HIDE DEF info
  <2>3. info.valid => complete[Device("Alternate")]
    BY <1>a, <2>1, <2>2 DEF CacheSound
  <2> QED BY <1>a, <2>1, <2>2, <2>3, MessageSound
<1>15. ASSUME NEW role \in Role, Maintain(role) PROVE FlagsSound'
  <2>1. phase # "down" /\ UNCHANGED <<updateVars, complete>>
    BY <1>15 DEF Maintain, systemVars
  <2>2. containerInfo[role].valid => complete[Device(role)]
    BY <2>1 DEF CacheSound
  <2>3. \E info \in ContainerInfo :
          (info.valid <=> containerInfo[role].valid) /\ WriteContainerInfo(role, info)
    <3>1. CASE ResetBootCount(role)
      <4>1. [containerInfo[role] EXCEPT !.tries = 0] \in ContainerInfo
            /\ [containerInfo[role] EXCEPT !.tries = 0].valid = containerInfo[role].valid
        BY <1>b DEF ContainerInfo
      <4> QED BY <3>1, <4>1 DEF ResetBootCount
    <3>2. ASSUME NEW u \in BOOLEAN, MarkUpdateSuccess(role, u)
          PROVE  \E info \in ContainerInfo :
                   (info.valid <=> containerInfo[role].valid) /\ WriteContainerInfo(role, info)
      <4>1. [containerInfo[role] EXCEPT !.updated = u] \in ContainerInfo
            /\ [containerInfo[role] EXCEPT !.updated = u].valid = containerInfo[role].valid
        BY <1>b DEF ContainerInfo
      <4> QED BY <3>2, <4>1 DEF MarkUpdateSuccess
    <3>3. CASE WriteContainerInfo(role, containerInfo[role])
      BY <1>b, <3>3
    <3> QED BY <1>15, <3>1, <3>2, <3>3 DEF Maintain
  <2> QED BY <2>1, <2>2, <2>3, MessageSound
<1>16. ASSUME NEW role \in Role, NEW v \in BOOLEAN, Declare(role, v) PROVE FlagsSound'
  <2> DEFINE info == [containerInfo[role] EXCEPT !.valid = v]
  <2>1. info \in ContainerInfo /\ info.valid = v
    BY <1>b DEF ContainerInfo
  <2>2. WriteContainerInfo(role, info) /\ phase # "down" /\ (v => complete[Device(role)])
        /\ UNCHANGED <<updateVars, complete>>
    BY <1>16 DEF Declare, SetValidity
  <2> HIDE DEF info
  <2> QED BY <2>1, <2>2, MessageSound
<1>17. CASE UNCHANGED vars
  BY <1>17 DEF vars, managerVars, updateVars, systemVars, DiskSound, CacheSound, UpdateSound,
               Alternate, Device
<1> QED
  BY <1>2, <1>3, <1>4, <1>5, <1>6, <1>7, <1>8, <1>9, <1>10, <1>11, <1>12, <1>13,
     <1>14, <1>15, <1>16, <1>17 DEF Next

\* In a careful environment a reset at any moment finds no container that the script
\* would boot and whose content is not complete, whatever the server, the client and the
\* operator did before, and wherever crashes and resets cut them short.
THEOREM NeverPicksIncomplete ==
  ASSUME Careful
  PROVE  Spec => []NeverBootsIncomplete
<1>1. TypeOK /\ FlagsSound => NeverBootsIncomplete
  <2>1. SUFFICES ASSUME TypeOK, FlagsSound, phase \notin Window, Chosen \in Container
                 PROVE  complete[Chosen]
    BY DEF NeverBootsIncomplete
  <2>2. Claims(bootInfo[Chosen])
    BY <2>1, ChosenBootable DEF Bootable
  <2> QED BY <2>1, <2>2 DEF FlagsSound, DiskSound
<1>2. Init => TypeOK /\ FlagsSound
  BY TypeInit, FlagsInit
<1>3. TypeOK /\ FlagsSound /\ [Next]_vars => (TypeOK /\ FlagsSound)'
  BY TypeStep, FlagsStep
<1> QED BY <1>1, <1>2, <1>3, PTL DEF Spec
-----------------------------------------------------------------------------
(* A finalized update is booted *)

\* The environment of the theorem below: mounting BootInfo succeeds, single partitions are
\* not updated while a finalized update awaits its boot, and no update brings a BootInfo
\* partition without uEnvAB.txt.
Orderly ==
  /\ "mount" \notin Faults /\ "left" \notin Faults /\ "stack" \notin Habits
  /\ \A p \in NewBootInfo : p.file # "none"

\* Only a copy of BootInfo that was cut short leaves a container without its file, and the
\* next update writes one before anything else.
MayLackFile(c) == c = Alternate /\ phase \in {"down", "idle"} \union Window

\* The booted container has its file, and the server knows its revision.
ActiveKnown ==
  /\ \A c \in Container : bootInfo[c].file = "none" => MayLackFile(c)
  /\ power = "on" => bootInfo[active].file = "written"
  /\ phase # "down" => containerInfo["Active"].rev = bootInfo[active].rev
  /\ ~leftMounted

\* Finalize will find a BootInfo partition it can write.
AlternateWritable ==
  phase = "allDone" /\ ~single => bootInfo[Alternate].file = "written"

\* The finalized container is ahead of the active one, and stays so if the cache is
\* written back.
FinalizedAhead ==
  expected # "none" =>
    /\ expected = Alternate /\ phase \in {"down", "idle"}
    /\ Bootable(bootInfo[Alternate]) /\ bootInfo[Alternate].rev > bootInfo[active].rev
    /\ phase = "idle" => /\ containerInfo["Alternate"].valid
                         /\ containerInfo["Alternate"].tries < CountLimit
                         /\ containerInfo["Alternate"].rev = bootInfo[Alternate].rev
Expectation == ActiveKnown /\ AlternateWritable /\ FinalizedAhead

\* What the server writes for a count below the limit reads as that count.
LEMMA CountWritten ==
  ASSUME NEW t \in Nat, t < CountLimit
  PROVE  Decimal(Hexadecimal(t)) = t
<1>1. t < 99
  OBVIOUS
<1>2. Hexadecimal(t) \in Nat /\ Hexadecimal(t) \div 16 = t \div 10
      /\ Hexadecimal(t) % 16 = t % 10
  BY <1>1 DEF Hexadecimal
<1> QED BY <1>1, <1>2 DEF Decimal

\* A container written from good values can be booted.
LEMMA FileBootable ==
  ASSUME NEW info \in ContainerInfo, info.valid, info.tries < CountLimit
  PROVE  Bootable(File(info))
<1>1. File(info).file = "written" /\ File(info).valid = info.valid
      /\ File(info).count = Hexadecimal(info.tries)
  BY DEF File
<1>2. info.tries \in Nat
  BY DEF ContainerInfo
<1> QED BY <1>1, <1>2, CountWritten DEF Bootable, Claims, CountOk

\* A write keeps what is expected of the next boot, if the active container keeps its
\* revision and the alternate one, when it is expected, gets good values.
LEMMA WriteExpected ==
  ASSUME TypeOK, Orderly, Expectation,
         NEW role \in Role, NEW info \in ContainerInfo, WriteContainerInfo(role, info),
         phase # "down", phase' # "down", power' = power,
         phase' = "allDone" /\ ~single' => phase = "allDone" /\ ~single,
         role = "Active" => info.rev = containerInfo["Active"].rev /\ phase' = phase,
         expected' # "none" =>
           /\ expected' = Alternate /\ phase' = "idle"
           /\ role = "Active" => expected # "none" /\ phase = "idle"
           /\ role = "Alternate" =>
                /\ bootInfo[Alternate].file = "written"
                /\ info.valid /\ info.tries < CountLimit
                /\ info.rev > containerInfo["Active"].rev
  PROVE  Expectation'
<1> USE DEF Expectation
<1>1. /\ Alternate \in Container /\ active \in Container /\ Alternate # active
      /\ Device("Active") = active /\ Device("Alternate") = Alternate
  BY Roles DEF TypeOK
<1>2. "Active" \in Role /\ "Alternate" \in Role /\ (role = "Active" \/ role = "Alternate")
  BY DEF Role
<1>3. /\ active' = active /\ Alternate' = Alternate /\ leftMounted' = leftMounted
      /\ containerInfo' = [containerInfo EXCEPT ![role] = info]
      /\ bootInfo' = IF bootInfo[Device(role)].file # "damaged"
                     THEN [bootInfo EXCEPT ![Device(role)] = File(info)]
                     ELSE bootInfo
  BY DEF WriteContainerInfo, Orderly, Alternate
<1>4. File(info).file = "written" /\ File(info).rev = info.rev
  BY DEF File
<1>5. bootInfo[active].file = "written"
  BY DEF ActiveKnown, TypeOK
<1>6. CASE role = "Active"
  <2>1. /\ bootInfo' = [bootInfo EXCEPT ![active] = File(info)]
        /\ containerInfo' = [containerInfo EXCEPT !["Active"] = info]
    BY <1>1, <1>3, <1>5, <1>6
  <2>2. /\ bootInfo'[active] = File(info) /\ containerInfo'["Active"] = info
        /\ bootInfo'[Alternate] = bootInfo[Alternate]
        /\ containerInfo'["Alternate"] = containerInfo["Alternate"]
        /\ \A c \in Container : bootInfo'[c].file = "none" => bootInfo[c].file = "none"
    BY <1>1, <1>2, <1>4, <2>1 DEF TypeOK, ActiveKnown
  <2>3. info.rev = bootInfo[active].rev
    BY <1>6 DEF ActiveKnown
  <2>4. ActiveKnown'
    BY <1>3, <1>4, <1>6, <2>2, <2>3 DEF ActiveKnown, MayLackFile
  <2>5. AlternateWritable'
    BY <1>3, <2>2 DEF AlternateWritable
  <2>6. FinalizedAhead'
    BY <1>3, <1>4, <1>6, <2>2, <2>3 DEF FinalizedAhead
  <2> QED BY <2>4, <2>5, <2>6
<1>7. CASE role = "Alternate"
  <2>1. containerInfo' = [containerInfo EXCEPT !["Alternate"] = info]
    BY <1>3, <1>7
  <2>2. /\ containerInfo'["Alternate"] = info
        /\ containerInfo'["Active"] = containerInfo["Active"]
    BY <1>2, <2>1 DEF TypeOK
  <2>3. /\ bootInfo'[active] = bootInfo[active]
        /\ bootInfo[Alternate].file = "written" => bootInfo'[Alternate] = File(info)
        /\ \A c \in Container : bootInfo'[c].file # "none"
    BY <1>1, <1>3, <1>4, <1>7 DEF TypeOK, ActiveKnown, MayLackFile
  <2>4. ActiveKnown'
    BY <1>3, <2>2, <2>3 DEF ActiveKnown
  <2>5. AlternateWritable'
    BY <1>3, <1>4, <2>3 DEF AlternateWritable
  <2>6. FinalizedAhead'
    <3>1. SUFFICES ASSUME expected' # "none" PROVE FinalizedAhead'
      BY DEF FinalizedAhead
    <3>2. /\ expected' = Alternate /\ phase' = "idle" /\ bootInfo'[Alternate] = File(info)
          /\ info.valid /\ info.tries < CountLimit /\ info.rev > bootInfo[active].rev
      BY <1>7, <2>3, <3>1 DEF ActiveKnown
    <3>3. Bootable(File(info))
      BY <3>2, FileBootable
    <3> QED BY <1>3, <1>4, <2>2, <2>3, <3>2, <3>3 DEF FinalizedAhead
  <2> QED BY <2>4, <2>5, <2>6
<1> QED BY <1>2, <1>6, <1>7

LEMMA ExpectedInit == Init => Expectation
<1>1. SUFFICES ASSUME Init PROVE Expectation
  OBVIOUS
<1>2. PICK b \in {SetUp, Damaged} : bootInfo = [a |-> SetUp, b |-> b]
  BY <1>1 DEF Init
<1>3. bootInfo["a"] = SetUp /\ bootInfo["b"] = b
  BY <1>2
<1>4. SetUp.file = "written" /\ Damaged.file = "damaged"
  BY DEF SetUp, Damaged, NotFound
<1>5. ActiveKnown
  BY <1>1, <1>3, <1>4 DEF ActiveKnown, Container, Init
<1> QED BY <1>1, <1>5 DEF Init, Expectation, AlternateWritable, FinalizedAhead

\* A stopped server leaves a finalized container alone.
LEMMA InterruptedExpected ==
  ASSUME TypeOK, Expectation, NEW p \in Interrupted, phase # "down",
         bootInfo' = [bootInfo EXCEPT ![Alternate] = p]
  PROVE  /\ \A c \in Container : bootInfo'[c].file = "none" => c = Alternate
         /\ bootInfo'[active] = bootInfo[active]
         /\ expected # "none" => bootInfo' = bootInfo
<1>1. Alternate \in Container /\ active \in Container /\ Alternate # active
  BY Roles DEF TypeOK
<1>2. p = bootInfo[Alternate] \/ phase = "copying"
  BY DEF Interrupted
<1>4. expected # "none" => p = bootInfo[Alternate]
  BY <1>2 DEF Expectation, FinalizedAhead
<1>5. bootInfo = [bootInfo EXCEPT ![Alternate] = bootInfo[Alternate]]
  BY <1>1 DEF TypeOK
<1> QED BY <1>1, <1>2, <1>4, <1>5 DEF Expectation, ActiveKnown, MayLackFile, TypeOK

LEMMA ExpectedStep ==
  ASSUME Orderly, TypeOK, Expectation, [Next]_vars
  PROVE  Expectation'
<1> USE DEF Expectation
<1>0. Alternate \in Container /\ active \in Container /\ Alternate # active
      /\ Device("Active") = active /\ Device("Alternate") = Alternate
  BY Roles DEF TypeOK
<1>a. "Active" \in Role /\ "Alternate" \in Role /\ (\A r \in Role : r = "Active" \/ r = "Alternate")
  BY DEF Role
<1>b. /\ \A r \in Role : containerInfo[r] \in ContainerInfo
      /\ \A c \in Container : bootInfo[c] \in BootInfo
  BY DEF TypeOK
<1>c. /\ containerInfo["Active"].rev \in Nat /\ containerInfo["Alternate"].rev \in Nat
      /\ \A c \in Container : bootInfo[c].file \in {"damaged", "none", "written"}
  BY <1>a, <1>b DEF ContainerInfo, BootInfo
<1>d. bootInfo[Alternate].rev > bootInfo[active].rev
      => bootInfo[Alternate].rev > containerInfo["Active"].rev \/ phase = "down"
  BY DEF ActiveKnown
<1>e. Bootable(bootInfo[Alternate]) => bootInfo[Alternate].file = "written"
  BY DEF Bootable, Claims
<1>f. CountLimit \in Nat /\ 0 < CountLimit
  OBVIOUS
<1>1. ASSUME NEW c \in Container, power = "off", Start(c)
      PROVE  Expectation'
  <2>1. phase = "down" /\ phase' = "down" /\ expected' = "none" /\ active' = c
        /\ leftMounted' = leftMounted
        /\ bootInfo' = [bootInfo EXCEPT ![c] = Counted(bootInfo[c])]
    BY <1>1 DEF TypeOK, Start, updateVars
  <2>2. Counted(bootInfo[c]).file = "written"
    BY <1>b DEF Counted, BootInfo
  <2>3. /\ bootInfo'[c].file = "written"
        /\ \A d \in Container : bootInfo'[d].file = "none" => d # c
    BY <1>1, <2>1, <2>2 DEF TypeOK
  <2>4. ActiveKnown'
    BY <2>1, <2>3 DEF ActiveKnown, MayLackFile, Alternate, Other, Container
  <2> QED BY <2>1, <2>4 DEF AlternateWritable, FinalizedAhead
<1>2. CASE Boot
  BY <1>1, <1>2 DEF Boot
<1>3. CASE ForcedBoot
  <2>1. CASE Start("a")
    BY <1>1, <1>3, <2>1 DEF ForcedBoot, Container
  <2>2. CASE power' = "stuck" /\ UNCHANGED <<managerVars, updateVars, systemVars>>
    BY <2>2 DEF managerVars, updateVars, systemVars, ActiveKnown, MayLackFile,
                AlternateWritable, FinalizedAhead, Alternate
  <2> QED BY <1>3, <2>1, <2>2 DEF ForcedBoot
<1>4. CASE StartServer
  <2>1. /\ power = "on" /\ phase = "down" /\ phase' = "idle"
        /\ UNCHANGED <<bootInfo, active, power, single, expected>> /\ leftMounted' = FALSE
        /\ ~leftMounted /\ bootInfo[active].file = "written"
    BY <1>4 DEF StartServer, ReadContainers, ActiveKnown
  <2>2. PICK a \in Read(bootInfo[active]), b \in Read(bootInfo[Alternate]) :
               containerInfo' = [Active |-> a, Alternate |-> b]
    BY <1>4, <2>1 DEF StartServer, ReadContainers
  <2>3. containerInfo'["Active"] = a /\ containerInfo'["Alternate"] = b
    BY <2>2
  <2>4. \A p \in BootInfo : p.file = "written" =>
          \A e \in Read(p) : e.rev = p.rev /\ e.valid = p.valid /\ e.tries = Decimal(p.count)
    BY DEF Read
  <2>5. ActiveKnown'
    BY <1>0, <1>b, <2>1, <2>3, <2>4 DEF ActiveKnown, MayLackFile, Alternate
  <2>6. FinalizedAhead'
    <3>1. SUFFICES ASSUME expected # "none" PROVE FinalizedAhead'
      BY <2>1 DEF FinalizedAhead
    <3>2. /\ expected = Alternate /\ Bootable(bootInfo[Alternate])
          /\ bootInfo[Alternate].rev > bootInfo[active].rev
      BY <3>1 DEF FinalizedAhead
    <3>3. b.valid /\ b.tries < CountLimit /\ b.rev = bootInfo[Alternate].rev
      BY <1>0, <1>b, <2>4, <3>2 DEF Bootable, Claims, CountOk
    <3>4. Alternate' = Alternate
      BY <2>1 DEF Alternate
    <3> QED BY <2>1, <2>3, <3>2, <3>3, <3>4 DEF FinalizedAhead
  <2> QED BY <2>1, <2>5, <2>6 DEF AlternateWritable
<1>5. CASE Kill \/ Reset
  <2>1. /\ phase' = "down" /\ active' = active /\ expected' = expected
        /\ leftMounted' = FALSE /\ (power' = "on" => power = "on")
    BY <1>5 DEF Kill, Reset, Orderly, systemVars
  <2>2. PICK p \in Interrupted : bootInfo' = [bootInfo EXCEPT ![Alternate] = p]
    BY <1>5 DEF Kill, Reset
  <2>3. Alternate' = Alternate
    BY <2>1 DEF Alternate
  <2>4. CASE phase # "down"
    <3>1. /\ \A c \in Container : bootInfo'[c].file = "none" => c = Alternate
          /\ bootInfo'[active] = bootInfo[active]
          /\ expected # "none" => bootInfo' = bootInfo
      BY <2>2, <2>4, InterruptedExpected
    <3> QED BY <2>1, <2>3, <3>1 DEF ActiveKnown, MayLackFile, AlternateWritable,
                                    FinalizedAhead
  <2>5. CASE phase = "down"
    <3>1. bootInfo' = bootInfo
      BY <1>0, <2>2, <2>5 DEF Interrupted, TypeOK
    <3> QED BY <2>1, <2>3, <2>5, <3>1 DEF ActiveKnown, MayLackFile, AlternateWritable,
                                          FinalizedAhead
  <2> QED BY <2>4, <2>5
<1>6. CASE Prepare
  <2> DEFINE info == [containerInfo["Alternate"] EXCEPT !.valid = FALSE]
  <2>1. info \in ContainerInfo
    BY <1>a, <1>b DEF ContainerInfo
  <2>2. /\ WriteContainerInfo("Alternate", info) /\ phase = "idle" /\ phase' = "copying"
        /\ power' = power
    BY <1>6 DEF Prepare, SetValidity
  <2>3. expected' = "none"
    BY <1>6 DEF Prepare, Orderly
  <2> HIDE DEF info
  <2> QED BY <1>a, <2>1, <2>2, <2>3, WriteExpected
<1>7. CASE CopyBootInfo \/ CutCopy
  <2>1. /\ phase = "copying" /\ phase' \in Window /\ ~leftMounted'
        /\ UNCHANGED <<containerInfo, active, power, expected>>
    BY <1>7 DEF CopyBootInfo, CutCopy, systemVars, ActiveKnown, Window
  <2>2. expected' = "none"
    BY <2>1 DEF FinalizedAhead
  <2>3. \A c \in Container : c # Alternate => bootInfo'[c] = bootInfo[c]
    BY <1>0, <1>7 DEF CopyBootInfo, CutCopy, TypeOK
  <2>4. ActiveKnown'
    BY <1>0, <2>1, <2>3 DEF ActiveKnown, MayLackFile, Alternate, Window
  <2> QED BY <2>1, <2>2, <2>4 DEF AlternateWritable, FinalizedAhead, Window
<1>8. CASE SetAlternateInvalid
  <2> DEFINE info == [containerInfo["Alternate"] EXCEPT !.valid = FALSE]
  <2>1. info \in ContainerInfo
    BY <1>a, <1>b DEF ContainerInfo
  <2>2. /\ WriteContainerInfo("Alternate", info)
        /\ phase \in Window /\ phase' \in {"ready", "idle"}
        /\ power' = power /\ expected' = expected
    BY <1>8 DEF SetAlternateInvalid, SetValidity, systemVars
  <2>3. expected' = "none" /\ phase # "down"
    BY <2>2 DEF FinalizedAhead, Window
  <2> HIDE DEF info
  <2> QED BY <1>a, <2>1, <2>2, <2>3, WriteExpected
<1>9. CASE SkipBootInfo
  <2>1. phase = "copying" /\ phase' = "ready" /\ UNCHANGED <<managerVars, power, expected>>
    BY <1>9 DEF SkipBootInfo, systemVars
  <2>2. expected' = "none"
    BY <2>1 DEF FinalizedAhead
  <2> QED BY <2>1, <2>2 DEF managerVars, ActiveKnown, MayLackFile, AlternateWritable,
                            FinalizedAhead, Window
<1>10. CASE ReplaceBootInfo
  <2>1. PICK p \in NewBootInfo : bootInfo' = [bootInfo EXCEPT ![Alternate] = p]
    BY <1>10 DEF ReplaceBootInfo
  <2>2. /\ phase = "ready" /\ phase' = "ready" /\ p.file # "none"
        /\ UNCHANGED <<containerInfo, active, leftMounted, power, expected>>
    BY <1>10 DEF ReplaceBootInfo, updateVars, systemVars, Orderly
  <2>3. expected' = "none"
    BY <2>2 DEF FinalizedAhead
  <2>4. ActiveKnown'
    BY <1>0, <2>1, <2>2 DEF ActiveKnown, MayLackFile, TypeOK, Window
  <2> QED BY <2>2, <2>3, <2>4 DEF AlternateWritable, FinalizedAhead
<1>11. CASE Apply
  <2>1. /\ phase = "ready" /\ phase' = "allDone" /\ single' = single
        /\ UNCHANGED <<managerVars, power, expected>>
        /\ single \/ bootInfo[Alternate].file # "damaged"
    BY <1>11 DEF Apply
  <2>2. expected' = "none"
    BY <2>1 DEF FinalizedAhead
  <2>3. ~single => bootInfo[Alternate].file = "written"
    BY <1>0, <1>c, <2>1 DEF ActiveKnown, MayLackFile, Window
  <2>4. Alternate' = Alternate /\ bootInfo' = bootInfo
    BY <2>1 DEF managerVars, Alternate
  <2>5. ActiveKnown'
    BY <2>1, <2>4 DEF ActiveKnown, MayLackFile, managerVars, Window
  <2> QED BY <2>1, <2>2, <2>3, <2>4, <2>5 DEF AlternateWritable, FinalizedAhead
<1>12. CASE Finalize
  <2>1. CASE single
    <3>1. phase = "allDone" /\ phase' = "idle" /\ UNCHANGED <<managerVars, power, expected>>
      BY <1>12, <2>1 DEF Finalize
    <3>2. expected' = "none"
      BY <3>1 DEF FinalizedAhead
    <3> QED BY <3>1, <3>2 DEF managerVars, ActiveKnown, MayLackFile, AlternateWritable,
                              FinalizedAhead, Alternate, Window
  <2>2. CASE ~single
    <3> DEFINE info == [valid |-> TRUE, updated |-> TRUE, tries |-> 0,
                        rev |-> GetRev("Active") + 1]
    <3>1. /\ WriteContainerInfo("Alternate", info) /\ power' = power
          /\ phase = "allDone" /\ phase' = "idle" /\ expected' = Alternate
      BY <1>12, <2>2 DEF Finalize, SetAll
    <3>2. /\ info \in ContainerInfo /\ info.valid /\ info.tries = 0
          /\ info.rev > containerInfo["Active"].rev
      BY <1>c DEF ContainerInfo, GetRev
    <3>3. bootInfo[Alternate].file = "written"
      BY <2>2, <3>1 DEF AlternateWritable
    <3> HIDE DEF info
    <3> QED BY <1>a, <1>f, <3>1, <3>2, <3>3, WriteExpected
  <2> QED BY <2>1, <2>2
<1>13. CASE Cancel
  <2>1. /\ phase \notin {"down", "idle"} /\ phase' = "idle"
        /\ UNCHANGED <<bootInfo, containerInfo, active, leftMounted, power, expected>>
    BY <1>13 DEF Cancel, managerVars, systemVars
  <2>2. expected' = "none"
    BY <2>1 DEF FinalizedAhead
  <2>3. ActiveKnown'
    BY <2>1 DEF ActiveKnown, MayLackFile, Alternate
  <2> QED BY <2>1, <2>2, <2>3 DEF AlternateWritable, FinalizedAhead
<1>14. CASE Switch
  <2> DEFINE info == [containerInfo["Alternate"] EXCEPT !.rev = containerInfo["Active"].rev + 1]
  <2>1. /\ info \in ContainerInfo /\ info.valid = containerInfo["Alternate"].valid
        /\ info.tries = containerInfo["Alternate"].tries
        /\ info.rev > containerInfo["Active"].rev
    BY <1>a, <1>b, <1>c DEF ContainerInfo
  <2>2. /\ WriteContainerInfo("Alternate", info) /\ phase # "down"
        /\ phase' = phase /\ single' = single /\ power' = power /\ expected' = expected
    BY <1>14 DEF Switch, SwitchContainer, updateVars, systemVars
  <2>3. expected' # "none" =>
          /\ expected' = Alternate /\ phase' = "idle"
          /\ bootInfo[Alternate].file = "written"
          /\ info.valid /\ info.tries < CountLimit
    BY <1>e, <2>1, <2>2 DEF FinalizedAhead
  <2> HIDE DEF info
  <2> QED BY <1>a, <2>1, <2>2, <2>3, WriteExpected
<1>15. ASSUME NEW role \in Role, Maintain(role) PROVE Expectation'
  <2>1. /\ phase # "down" /\ phase' = phase /\ single' = single
        /\ power' = power /\ expected' = expected
    BY <1>15 DEF Maintain, updateVars, systemVars
  <2>2. PICK info \in ContainerInfo :
          /\ WriteContainerInfo(role, info) /\ info.valid = containerInfo[role].valid
          /\ info.rev = containerInfo[role].rev
          /\ info.tries = containerInfo[role].tries \/ info.tries = 0
    <3>1. CASE ResetBootCount(role)
      <4> DEFINE info == [containerInfo[role] EXCEPT !.tries = 0]
      <4>1. /\ info \in ContainerInfo /\ info.valid = containerInfo[role].valid
            /\ info.rev = containerInfo[role].rev /\ info.tries = 0
        BY <1>b DEF ContainerInfo
      <4>2. WriteContainerInfo(role, info)
        BY <3>1 DEF ResetBootCount
      <4> QED BY <4>1, <4>2
    <3>2. CASE \E u \in BOOLEAN : MarkUpdateSuccess(role, u)
      <4>1. PICK u \in BOOLEAN : MarkUpdateSuccess(role, u)
        BY <3>2
      <4> DEFINE info == [containerInfo[role] EXCEPT !.updated = u]
      <4>2. /\ info \in ContainerInfo /\ info.valid = containerInfo[role].valid
            /\ info.rev = containerInfo[role].rev /\ info.tries = containerInfo[role].tries
        BY <1>b DEF ContainerInfo
      <4>3. WriteContainerInfo(role, info)
        BY <4>1 DEF MarkUpdateSuccess
      <4> QED BY <4>2, <4>3
    <3>3. CASE WriteContainerInfo(role, containerInfo[role])
      BY <1>b, <3>3
    <3> QED BY <1>15, <3>1, <3>2, <3>3 DEF Maintain
  <2>3. expected # "none" =>
          /\ expected = Alternate /\ phase = "idle"
          /\ bootInfo[Alternate].file = "written"
          /\ containerInfo["Alternate"].valid
          /\ containerInfo["Alternate"].tries < CountLimit
          /\ containerInfo["Alternate"].rev > containerInfo["Active"].rev
    BY <1>e, <2>1 DEF FinalizedAhead, ActiveKnown
  <2>4. CASE role = "Active"
    BY <1>a, <2>1, <2>2, <2>3, <2>4, WriteExpected
  <2>5. CASE role = "Alternate"
    BY <1>a, <1>f, <2>1, <2>2, <2>3, <2>5, WriteExpected
  <2> QED BY <1>a, <2>4, <2>5
<1>16. ASSUME NEW role \in Role, NEW v \in BOOLEAN, Declare(role, v) PROVE Expectation'
  <2> DEFINE info == [containerInfo[role] EXCEPT !.valid = v]
  <2>1. /\ info \in ContainerInfo /\ info.valid = v
        /\ info.rev = containerInfo[role].rev /\ info.tries = containerInfo[role].tries
    BY <1>b DEF ContainerInfo
  <2>2. /\ WriteContainerInfo(role, info) /\ phase # "down" /\ phase' = phase
        /\ single' = single /\ power' = power
        /\ expected' = IF expected = Device(role) /\ ~v THEN "none" ELSE expected
    BY <1>16 DEF Declare, SetValidity, updateVars
  <2> HIDE DEF info
  <2>3. expected # "none" =>
          /\ expected = Alternate /\ phase = "idle"
          /\ bootInfo[Alternate].file = "written"
          /\ containerInfo["Alternate"].tries < CountLimit
          /\ containerInfo["Alternate"].rev > containerInfo["Active"].rev
    BY <1>e, <2>2 DEF FinalizedAhead, ActiveKnown
  <2>4. CASE role = "Active"
    BY <1>a, <2>1, <2>2, <2>3, <2>4, WriteExpected
  <2>5. CASE role = "Alternate"
    <3>1. expected' # "none" => expected # "none" /\ expected' = Alternate /\ v
      BY <1>0, <2>2, <2>3, <2>5
    <3> QED BY <1>a, <2>1, <2>2, <2>3, <2>5, <3>1, WriteExpected
  <2> QED BY <1>a, <2>4, <2>5
<1>17. CASE UNCHANGED vars
  BY <1>17 DEF vars, managerVars, updateVars, systemVars, ActiveKnown, MayLackFile,
               AlternateWritable, FinalizedAhead, Alternate
<1> QED
  BY <1>2, <1>3, <1>4, <1>5, <1>6, <1>7, <1>8, <1>9, <1>10, <1>11, <1>12, <1>13,
     <1>14, <1>15, <1>16, <1>17 DEF Next

\* After Finalize a reset boots the updated container, until another update of it is
\* begun or the operator declares it invalid: when BootInfo can be mounted and nothing
\* of the update is stacked on top of it.  Crashes and resets, at any step, are allowed.
THEOREM FinalizedIsBooted ==
  ASSUME Orderly
  PROVE  Spec => []BootsUpdated
<1>1. TypeOK /\ Expectation => BootsUpdated
  <2>1. SUFFICES ASSUME TypeOK, Expectation, expected # "none" PROVE Chosen = expected
    BY DEF BootsUpdated
  <2>2. /\ expected = Alternate /\ Bootable(bootInfo[Alternate])
        /\ bootInfo[Alternate].rev > bootInfo[active].rev
    BY <2>1 DEF Expectation, FinalizedAhead
  <2>3. /\ bootInfo["a"] \in BootInfo /\ bootInfo["b"] \in BootInfo
        /\ bootInfo["a"].rev \in Nat /\ bootInfo["b"].rev \in Nat
    <3>1. "a" \in Container /\ "b" \in Container
      BY DEF Container
    <3> QED BY <2>1, <3>1 DEF TypeOK, BootInfo
  <2>4. CASE active = "a"
    <3>1. Alternate = "b"
      BY <2>4 DEF Alternate, Other
    <3> QED BY <2>2, <2>3, <2>4, <3>1, SelectCases DEF Chosen
  <2>5. CASE active = "b"
    <3>1. Alternate = "a"
      BY <2>5 DEF Alternate, Other
    <3> QED BY <2>2, <2>3, <2>5, <3>1, SelectCases DEF Chosen
  <2> QED BY <2>1, <2>4, <2>5 DEF TypeOK, Container
<1>2. Init => TypeOK /\ Expectation
  BY TypeInit, ExpectedInit
<1>3. TypeOK /\ Expectation /\ [Next]_vars => (TypeOK /\ Expectation)'
  BY TypeStep, ExpectedStep
<1> QED BY <1>1, <1>2, <1>3, PTL DEF Spec
=============================================================================
