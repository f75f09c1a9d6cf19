--------------------------- MODULE GrallocModule ---------------------------
(***************************************************************************)
(* gralloc_module.cpp as one process runs it: buffers that came from       *)
(* another process are registered, and every buffer is locked, unlocked    *)
(* and unregistered by several threads.  The sections under s_map_lock are *)
(* one step each; gralloc_lock reads hnd->base after its section.          *)
(*                                                                         *)
(* A handle is named by the memory it occupies, so that freed memory may   *)
(* become another handle while somebody still points to it.                *)
(***************************************************************************)
EXTENDS PrivateHandle

CONSTANTS
  Cells,       \* memory for private_handle_t objects
  Threads,     \* threads of the process
  Shapes,      \* shapes of the buffers it uses
  PeerLocked,  \* whether another process may send a handle that it has locked
  Habits,      \* what the callers do beyond what they should (see HabitKind)
  Faults       \* what may fail (see FaultKind)

\* overlap:     a framebuffer buffer is freed while another is allocated or freed
\* sharing:     a buffer is locked while another thread has it locked
\* freePosted:  the buffer on the screen is freed
\* wrongFormat: lock_ycbcr of a buffer without planes
\* again:       a buffer is registered that was allocated here, is registered already, or
\*              is locked although it was unregistered
\* close:       an alloc device is closed
HabitKind == {"overlap", "sharing", "freePosted", "wrongFormat", "again", "close"}
\* ion:   ion_open fails
\* map:   mmap of a buffer fails
\* flip:  FBIOPAN_DISPLAY fails
\* vsync: switching the vsync interrupt on or off or waiting for it fails
FaultKind == {"ion", "map", "flip", "vsync"}

ASSUME CellAssumption == "none" \notin Cells
ASSUME ThreadAssumption == "none" \notin Threads
ASSUME ShapeAssumption == Shapes \subseteq Shape
ASSUME HabitAssumption == Habits \subseteq HabitKind /\ Faults \subseteq FaultKind /\ PeerLocked \in BOOLEAN

VARIABLES
  handle,     \* the private_handle_t in each cell
  use,        \* what the callers did with it (see Use)
  mem,        \* the buffer that is mapped at each page
  ionClient,  \* private_module_t::ion_client
  pc,         \* what each thread is about to do
  cell,       \* the handle it does it to
  held,       \* the handle it has locked
  addr        \* vaddr: what the lock gave it

handleVars == <<handle, use, mem>>
threadVars == <<pc, cell, held, addr>>

\* free; received from another process, then registered, then unregistered; or
\* allocated here, and perhaps unregistered before it is freed.  What was unregistered may
\* be registered again.
Use == {"free", "received", "registered", "unregistered", "allocated", "retired"}
Usable == {"registered", "allocated"}
Dropped == {"unregistered", "retired"}

IonClient == {"unset", "open", "failed", "closed"}

\* A thread is in the middle of an operation on c; c is in somebody's hands.
Busy(c)  == \E t \in Threads : pc[t] # "idle" /\ cell[t] = c
InUse(c) == Busy(c) \/ \E t \in Threads : held[t] = c
Posting(c) == \E t \in Threads : pc[t] \in {"lockFlip", "flip", "lockCopy", "readCopy", "copy"} /\ cell[t] = c

At(t, where, c) == pc' = [pc EXCEPT ![t] = where] /\ cell' = [cell EXCEPT ![t] = c]
Return(t) == At(t, "idle", "none")

FreePages == {p \in Pages : mem[p] = "none"}
Without(h) == IF h.base \in Pages THEN [mem EXCEPT ![h.base] = "none"] ELSE mem
-----------------------------------------------------------------------------
\* unmap_buffer.
Unmapped(h) == [h EXCEPT !.base = "null", !.lockState = {}]

\* Another process's handle arrives with what its fields were there.
Receive(c) ==
  /\ use[c] = "free" /\ ~InUse(c)
  /\ \E s \in Shapes, w \in (IF PeerLocked THEN {{}, {"WRITE"}} ELSE {{}}) :
       handle' = [handle EXCEPT ![c] =
                    [IonHandle("foreign", s, s, BufferSize(s)) EXCEPT
                       !.lockState = {"MAPPED"} \union w, !.pid = "peer"]]
  /\ use' = [use EXCEPT ![c] = "received"]
  /\ UNCHANGED <<mem, ionClient, threadVars>>

\* native_handle_delete of a handle that was received.
Delete(c) ==
  /\ use[c] \in {"received", "unregistered"} /\ ~InUse(c)
  /\ use' = [use EXCEPT ![c] = "free"] /\ handle' = [handle EXCEPT ![c] = Freed]
  /\ UNCHANGED <<mem, ionClient, threadVars>>

\* The callers register what was received or unregistered; the code does not look at
\* what the handle was before.
MayRegister(c) ==
  /\ use[c] # "free" /\ handle[c].kind = "ION" /\ ~Posting(c)
  /\ (use[c] \in {"received"} \union Dropped /\ ~InUse(c)) \/ "again" \in Habits

\* gralloc_register_buffer: the memory is mapped, perhaps once more, and base is where it
\* was mapped last.  For a framebuffer buffer it does nothing.
Register(c) ==
  /\ MayRegister(c)
  /\ \E p \in FreePages :
       /\ handle' = [handle EXCEPT ![c].pid = "own", ![c].base = p,
                                   ![c].lockState = @ \ {"UNREGISTERED"}]
       /\ mem' = [mem EXCEPT ![p] = c]
  /\ ionClient' = IF ionClient \in {"unset", "failed"} THEN "open" ELSE ionClient
  /\ use' = [use EXCEPT ![c] = IF @ \in {"allocated", "retired"} THEN "allocated" ELSE "registered"]
  /\ UNCHANGED threadVars

\* Its returns when ion_open or mmap fails.
RegisterFails(c) ==
  /\ MayRegister(c)
  /\ \/ "ion" \in Faults /\ ionClient \in {"unset", "failed"} /\ ionClient' = "failed"
     \/ /\ "map" \in Faults
        /\ ionClient' = IF ionClient \in {"unset", "failed"} THEN "open" ELSE ionClient
  /\ handle' = [handle EXCEPT ![c].pid = "own"]
  /\ UNCHANGED <<use, mem, threadVars>>

\* Mutated form of Unregister: the lock is not looked at.
UnregisterAtOnce(c) ==
  /\ use[c] \in Usable /\ ~Posting(c)
  /\ handle[c].kind = "ION" /\ handle[c].pid = "own"
  /\ handle' = [handle EXCEPT ![c] = [Unmapped(@) EXCEPT !.lockState = {"UNREGISTERED"}]]
  /\ mem' = Without(handle[c])
  /\ use' = [use EXCEPT ![c] = IF @ = "allocated" THEN "retired" ELSE "unregistered"]
  /\ UNCHANGED <<ionClient, threadVars>>

\* gralloc_unregister_buffer, which leaves a locked buffer mapped until it is unlocked.
\* A framebuffer buffer, or one that this process did not register, is left as it is.
Unregister(c) ==
  /\ use[c] \in Usable /\ ~Posting(c)
  /\ handle[c].kind = "ION" /\ handle[c].pid = "own"
  /\ IF "WRITE" \in handle[c].lockState
     THEN /\ handle' = [handle EXCEPT ![c].lockState = (@ \ {"MAPPED"}) \union {"UNREGISTERED"}]
          /\ UNCHANGED mem
     ELSE /\ handle' = [handle EXCEPT ![c] = [Unmapped(@) EXCEPT !.lockState = {"UNREGISTERED"}]]
          /\ mem' = Without(handle[c])
  /\ use' = [use EXCEPT ![c] = IF @ = "allocated" THEN "retired" ELSE "unregistered"]
  /\ UNCHANGED <<ionClient, threadVars>>
-----------------------------------------------------------------------------
\* The section of gralloc_lock and gralloc_lock_ycbcr.
SetWrite(c) == handle' = [handle EXCEPT ![c].lockState = @ \union {"WRITE"}]

\* A thread with no lock asks for one, perhaps after the buffer was unregistered.
Asks(t, c) ==
  /\ pc[t] = "idle" /\ held[t] = "none"
  /\ use[c] \in Usable \union Dropped
  /\ InUse(c) => "sharing" \in Habits /\ ~Busy(c)

\* gralloc_lock; a lock for the hardware alone does not read the base.
Lock(t, c) ==
  /\ Asks(t, c) /\ "UNREGISTERED" \notin handle[c].lockState
  /\ SetWrite(c) /\ held' = [held EXCEPT ![t] = c]
  /\ At(t, "read", c) \/ Return(t)
  /\ UNCHANGED <<use, mem, ionClient, addr>>

\* gralloc_lock_ycbcr, which does not ask whether the buffer is registered, and which
\* fails with the lock set when it is to find planes in a format that has none.
LockYcbcr(t, c) ==
  /\ Asks(t, c)
  /\ SetWrite(c)
  /\ IF handle[c].shape.format \in Planar
     THEN held' = [held EXCEPT ![t] = c] /\ (At(t, "read", c) \/ Return(t))
     ELSE "wrongFormat" \in Habits /\ UNCHANGED <<pc, cell, held>>
  /\ UNCHANGED <<use, mem, ionClient, addr>>

Address(h) == IF h.kind = "FRAMEBUFFER" THEN "screen" ELSE h.base

\* *vaddr = hnd->base.
ReadBase(t) ==
  /\ pc[t] = "read"
  /\ addr' = [addr EXCEPT ![t] = Address(handle[cell[t]])]
  /\ Return(t)
  /\ UNCHANGED <<handleVars, ionClient, held>>

\* Mutated form of UnlockHandle: the unmapping that was put off is forgotten.
UnlockHandleForgets(c) ==
  /\ handle' = [handle EXCEPT ![c].lockState = @ \ {"WRITE"}]
  /\ UNCHANGED mem

\* The section of gralloc_unlock: the unmapping that was put off.
UnlockHandle(c) ==
  IF "UNREGISTERED" \in handle[c].lockState
  THEN handle' = [handle EXCEPT ![c] = Unmapped(@)] /\ mem' = Without(handle[c])
  ELSE handle' = [handle EXCEPT ![c].lockState = @ \ {"WRITE"}] /\ UNCHANGED mem

LetGo(t) == held' = [held EXCEPT ![t] = "none"] /\ addr' = [addr EXCEPT ![t] = "none"]

\* gralloc_unlock.
Unlock(t) ==
  /\ pc[t] = "idle" /\ held[t] # "none"
  /\ UnlockHandle(held[t]) /\ LetGo(t)
  /\ UNCHANGED <<use, ionClient, pc, cell>>
=============================================================================
