----------------------------- MODULE BootSystem -----------------------------
(***************************************************************************)
(* The life of a board with two containers: u-boot picks one (ABBoot), its *)
(* system starts the server, a client updates the other container and      *)
(* finalizes the update (UBootManager), and the board is reset.  The       *)
(* update itself, which OTAManager models step by step, is here what it    *)
(* does to the boot flags and whether the container's content is complete. *)
(***************************************************************************)
EXTENDS UBootManager

CONSTANTS
  NewBootInfo,  \* what a chunk that replaces the BootInfo partition may bring
  Habits,       \* what the client does beyond one update at a time (see HabitKind)
  MaxRev        \* bound: no update is begun from a container of this revision

\* stack: an update of single partitions is begun while a finalized update awaits its
\*        first boot
HabitKind == {"stack"}

ASSUME HabitAssumption == Habits \subseteq HabitKind
ASSUME UpdateAssumption == NewBootInfo \subseteq BootInfo /\ MaxRev \in Nat

VARIABLES
  power,      \* off; on, with the active container booted; or stuck in u-boot
  phase,      \* what the server does: down, idle, copying, copied, cut, ready, allDone
  single,     \* singleContainerOnly
  complete,   \* complete[c]: the partitions of c are those of one finished system
  sound,      \* sound[c]: the system in c comes up as far as the server
  expected    \* the container of a finalized update that awaits its first boot

managerVars == <<bootInfo, containerInfo, active, leftMounted>>
updateVars  == <<phase, single>>
systemVars  == <<complete, sound, expected>>
vars == <<managerVars, power, updateVars, systemVars>>

Phase == {"down", "idle", "copying", "copied", "cut", "ready", "allDone"}

\* BootInfo has been copied, wholly or in part, and SetValidity is still to come.
Window == {"copied", "cut"}

TypeOK ==
  /\ bootInfo \in [Container -> BootInfo]
  /\ containerInfo \in [Role -> ContainerInfo]
  /\ active \in Container /\ leftMounted \in BOOLEAN
  /\ power \in {"off", "on", "stuck"}
  /\ phase \in Phase /\ (phase # "down" => power = "on") /\ single \in BOOLEAN
  /\ complete \in [Container -> BOOLEAN] /\ sound \in [Container -> BOOLEAN]
  /\ expected \in Container \union {"none"}

Chosen == Select("none", bootInfo["a"], bootInfo["b"])
-----------------------------------------------------------------------------
(* u-boot *)

\* Container c is booted; the other one keeps its file.
Start(c) ==
  /\ power' = "on" /\ active' = c
  /\ bootInfo' = [bootInfo EXCEPT ![c] = Counted(bootInfo[c])]
  /\ expected' = "none"
  /\ UNCHANGED <<containerInfo, leftMounted, updateVars, complete, sound>>

\* The script picks a container.
Boot == power = "off" /\ Chosen \in Container /\ Start(Chosen)

\* The script returned, and uEnv.txt sources it again with force_boot_container = a;
\* without a kernel nothing boots.
ForcedBoot ==
  /\ power = "off" /\ Chosen = "none"
  /\ IF bootInfo["a"].file = "damaged"
     THEN power' = "stuck" /\ UNCHANGED <<managerVars, updateVars, systemVars>>
     ELSE Start("a")
-----------------------------------------------------------------------------
(* The server starts and stops *)

StartServer ==
  /\ power = "on" /\ phase = "down" /\ sound[active]
  /\ ReadContainers
  /\ phase' = "idle"
  /\ UNCHANGED <<bootInfo, active, power, single, complete, sound, expected>>

\* What CopyFileData, which copies the raw partition in blocks of 1 MiB, may have made of
\* the alternate BootInfo partition when it stops: what was there, nothing that can be
\* mounted, a filesystem without the file, or the active container's flags.
Torn == {bootInfo[Alternate], Damaged, NoFile, bootInfo[active]}

\* What interrupting the server leaves of the alternate BootInfo partition.
Interrupted ==
  CASE phase # "copying" \/ single -> {bootInfo[Alternate]}
    [] phase = "copying" /\ ~single /\ "window" \notin Faults -> {bootInfo[Alternate], Damaged}
    [] phase = "copying" /\ ~single /\ "window" \in Faults -> Torn
MayStop == phase \in Window => "window" \in Faults

\* The memory of the process is gone.
Forget == containerInfo' = [r \in Role |-> NoEntry] /\ single' = FALSE

\* The server process dies; a chunk's partition or the cache may be mounted.
Kill ==
  /\ "kill" \in Faults /\ phase # "down" /\ MayStop
  /\ phase' = "down"
  /\ \E p \in Interrupted : bootInfo' = [bootInfo EXCEPT ![Alternate] = p]
  /\ leftMounted' \in IF "left" \in Faults /\ phase = "ready" THEN BOOLEAN ELSE {FALSE}
  /\ Forget
  /\ UNCHANGED <<active, power, systemVars>>

\* The board is reset or loses power.
Reset ==
  /\ power = "on" /\ MayStop
  /\ power' = "off" /\ phase' = "down" /\ leftMounted' = FALSE
  /\ \E p \in Interrupted : bootInfo' = [bootInfo EXCEPT ![Alternate] = p]
  /\ Forget
  /\ UNCHANGED <<active, systemVars>>
-----------------------------------------------------------------------------
(* An update of the alternate container, or of single partitions only *)

\* BeginUpdate and ContinueUpdate: prepareForUpdate.  From here on the alternate
\* container's content is changed.
Prepare ==
  /\ phase = "idle" /\ bootInfo[active].rev < MaxRev
  /\ single' \in BOOLEAN
  /\ single' /\ expected # "none" => "stack" \in Habits
  /\ SetValidity("Alternate", FALSE)
  /\ phase' = "copying"
  /\ complete' = IF single' THEN complete ELSE [complete EXCEPT ![Alternate] = FALSE]
  /\ expected' = IF single' THEN expected ELSE "none"
  /\ UNCHANGED <<power, sound>>

\* initUpdateFunction with copyBI.
CopyBootInfo ==
  /\ phase = "copying" /\ ~single
  /\ bootInfo' = [bootInfo EXCEPT ![Alternate] = bootInfo[active]]
  /\ phase' = "copied"
  /\ UNCHANGED <<containerInfo, active, leftMounted, power, single, systemVars>>

\* CancelUpdate cuts the copy short.
CutCopy ==
  /\ phase = "copying" /\ ~single
  /\ \E p \in Torn : bootInfo' = [bootInfo EXCEPT ![Alternate] = p]
  /\ phase' = "cut"
  /\ UNCHANGED <<containerInfo, active, leftMounted, power, single, systemVars>>

\* SetValidity comes next whether or not the copy was cut short; a cancelled update is
\* over then.
SetAlternateInvalid ==
  /\ phase \in Window
  /\ SetValidity("Alternate", FALSE)
  /\ phase' = IF phase = "copied" THEN "ready" ELSE "idle"
  /\ UNCHANGED <<power, single, systemVars>>

\* Without copyBI: only single partitions, a chunk that replaces BootInfo, or a
\* continued update.
SkipBootInfo ==
  /\ phase = "copying"
  /\ phase' = "ready"
  /\ UNCHANGED <<managerVars, power, single, systemVars>>

\* A chunk replaces the BootInfo partition.
ReplaceBootInfo ==
  /\ phase = "ready" /\ ~single
  /\ \E p \in NewBootInfo : bootInfo' = [bootInfo EXCEPT ![Alternate] = p]
  /\ UNCHANGED <<containerInfo, active, leftMounted, power, updateVars, systemVars>>

\* The last chunk has been processed.  What the update brings may not come up.
Apply ==
  /\ phase = "ready" /\ (single \/ bootInfo[Alternate].file # "damaged")
  /\ phase' = "allDone"
  /\ IF single THEN UNCHANGED <<complete, sound>>
     ELSE /\ complete' = [complete EXCEPT ![Alternate] = TRUE]
          /\ \E s \in BOOLEAN : sound' = [sound EXCEPT ![Alternate] = s]
  /\ UNCHANGED <<managerVars, power, single, expected>>

\* Mutated form of Finalize: the alternate container gets the active one's revision.
FinalizeSameRev ==
  /\ phase = "allDone" /\ phase' = "idle"
  /\ IF single THEN UNCHANGED <<managerVars, expected>>
     ELSE /\ SetAll("Alternate", TRUE, TRUE, 0, GetRev("Active"))
          /\ expected' = Alternate
  /\ UNCHANGED <<power, single, complete, sound>>

\* Acknowledged whatever became of the write.
Finalize ==
  /\ phase = "allDone" /\ phase' = "idle"
  /\ IF single THEN UNCHANGED <<managerVars, expected>>
     ELSE /\ SetAll("Alternate", TRUE, TRUE, 0, GetRev("Active") + 1)
          /\ expected' = Alternate
  /\ UNCHANGED <<power, single, complete, sound>>

\* CancelUpdate outside the copy of BootInfo, up to the state being Idle again.
Cancel ==
  /\ phase \in {"copying", "ready", "allDone"} /\ phase' = "idle"
  /\ UNCHANGED <<managerVars, power, single, systemVars>>
-----------------------------------------------------------------------------
(* BootManagement messages *)

\* The boot count is reset, the updated flag set or dropped, or the cache written as it is.
Maintain(role) ==
  /\ phase # "down"
  /\ \/ ResetBootCount(role)
     \/ \E u \in BOOLEAN : MarkUpdateSuccess(role, u)
     \/ WriteContainerInfo(role, containerInfo[role])
  /\ UNCHANGED <<power, updateVars, systemVars>>

\* The operator switches containers, which only the revision decides.
Switch ==
  /\ phase # "down" /\ GetRev("Active") < MaxRev
  /\ SwitchContainer
  /\ UNCHANGED <<power, updateVars, systemVars>>

\* The operator declares a container invalid, or a complete one valid.
Declare(role, v) ==
  /\ phase # "down" /\ (v => complete[Device(role)])
  /\ SetValidity(role, v)
  /\ expected' = IF expected = Device(role) /\ ~v THEN "none" ELSE expected
  /\ UNCHANGED <<power, updateVars, complete, sound>>
-----------------------------------------------------------------------------
\* Container a is set up with config/uEnvAB.txt; container b is too, or it was never
\* set up.
SetUp == [file |-> "written", updated |-> TRUE, valid |-> TRUE, count |-> 0, rev |-> 1]

Init ==
  /\ \E b \in {SetUp, Damaged} :
       /\ bootInfo = [a |-> SetUp, b |-> b]
       /\ complete = [a |-> TRUE, b |-> b = SetUp]
  /\ containerInfo = [r \in Role |-> NoEntry]
  /\ active = "a" /\ leftMounted = FALSE
  /\ power = "off"
  /\ phase = "down" /\ single = FALSE
  /\ sound = [c \in Container |-> TRUE]
  /\ expected = "none"

Next ==
  \/ Boot \/ ForcedBoot \/ StartServer \/ Kill \/ Reset
  \/ Prepare \/ CopyBootInfo \/ CutCopy \/ SetAlternateInvalid \/ SkipBootInfo
  \/ ReplaceBootInfo \/ Apply \/ Finalize \/ Cancel
  \/ Switch \/ \E role \in Role : Maintain(role) \/ \E v \in BOOLEAN : Declare(role, v)

Spec == Init /\ [][Next]_vars

\* u-boot runs when the power is on, and a board whose system does not come up is reset
\* in the end, by a watchdog or by hand: what the boot count is there for.
Fairness == WF_vars(Boot) /\ WF_vars(Reset /\ ~sound[active])

FairSpec == Spec /\ Fairness
-----------------------------------------------------------------------------
(* Properties *)

\* "Finalize an update.  After this is called a reboot will booth into the updated
\* container" (message.hh:84), until another update of that container is begun.
BootsUpdated == expected # "none" => Chosen = expected

\* Whenever the board is reset the script picks a container whose content is complete, or
\* none; the exception is the time from the first block of the copy of BootInfo that can
\* be read to SetValidity (ota_manager.cc:537): Window here, fault window in Interrupted.
NeverBootsIncomplete ==
  phase \notin Window /\ Chosen \in Container => complete[Chosen]

\* "A fallback boot happens when we would have booted a container, but we don't because
\* its boot count is too high" (AB.sh:195): the script would have picked the other
\* container if all counts were zero.
Forgiven(p) == [p EXCEPT !.count = 0]
FallbackTold ==
  Chosen \in Container =>
    (Fallback(Chosen, bootInfo["a"], bootInfo["b"])
       <=> Select("none", Forgiven(bootInfo["a"]), Forgiven(bootInfo["b"])) # Chosen)

\* "How many times to boot a container before giving up" (AB.sh:16): booting does not
\* make a container that was given up one to be tried again.
StaysGivenUp ==
  [][\A c \in Container :
       power = "off" /\ TooMany(bootInfo[c]) => TooMany(bootInfo'[c])]_vars

\* A container that does not come up is given up for the other one, if that can be booted.
GivesUp ==
  \A c \in Container :
    (power = "off" /\ Chosen = c /\ ~sound[c] /\ Bootable(bootInfo[Other(c)]))
      ~> (power = "on" /\ active = Other(c))
=============================================================================
