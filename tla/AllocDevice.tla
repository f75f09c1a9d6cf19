---------------------------- MODULE AllocDevice ----------------------------
(***************************************************************************)
(* alloc_device.cpp: buffers of their own memory, and framebuffer buffers  *)
(* that take a slot of the screen memory.  The slot mask is read, changed  *)
(* and written back as machine code does it: allocation does so under the  *)
(* module's lock, alloc_device_free without it.                            *)
(***************************************************************************)
EXTENDS FramebufferDevice

CONSTANTS
  ScreenShapes,  \* shapes that are asked for with GRALLOC_USAGE_HW_FB
  MaxDevices     \* bound: alloc devices that are open at a time

ASSUME DeviceAssumption == ScreenShapes \subseteq Shape /\ MaxDevices \in Nat

VARIABLES
  opened,  \* alloc devices that are open
  slot,    \* the slot that an allocation has found
  seen     \* the mask that a thread is about to change

deviceVars == <<opened, slot, seen>>

\* Somebody allocates a framebuffer buffer, with m->lock; or takes part in changing the mask.
Locked   == \E t \in Threads : pc[t] \in {"orLoad", "orStore"}
Changing == \E t \in Threads : pc[t] \in {"orLoad", "orStore", "andLoad", "andStore"}
Alone == Changing => "overlap" \in Habits
-----------------------------------------------------------------------------
\* alloc_device_open: every device opens a client of its own and stores it in the one
\* field of the module; when that or the search for the heaps fails, the field is lost.
OpenDevice ==
  /\ opened < MaxDevices
  /\ \/ ionClient' = "open" /\ opened' = opened + 1
     \/ "ion" \in Faults /\ ionClient' = "failed" /\ UNCHANGED opened
  /\ UNCHANGED <<handleVars, threadVars, screenVars, slot, seen>>

\* alloc_device_close takes the device for the module and closes the descriptor that it
\* finds behind it, which may be that of the client.
CloseDevice ==
  /\ "close" \in Habits /\ opened > 0
  /\ opened' = opened - 1
  /\ ionClient' \in {ionClient} \union (IF ionClient = "open" THEN {"closed"} ELSE {})
  /\ UNCHANGED <<handleVars, threadVars, screenVars, slot, seen>>

CanAllocate == opened > 0 /\ ionClient = "open"

\* gralloc_alloc_buffer for a buffer of n bytes.  When a step of it fails, what was done
\* before is undone.
AllocIon(c, s, a, n) ==
  /\ CanAllocate /\ use[c] = "free" /\ ~InUse(c)
  /\ \E p \in FreePages : /\ handle' = [handle EXCEPT ![c] = IonHandle(p, s, a, n)]
                          /\ mem' = [mem EXCEPT ![p] = c]
  /\ use' = [use EXCEPT ![c] = "allocated"]

\* alloc_device_alloc without GRALLOC_USAGE_HW_FB.
AllocBuffer(c, s) ==
  /\ AllocIon(c, s, s, BufferSize(s))
  /\ UNCHANGED <<ionClient, threadVars, screenVars, deviceVars>>

\* With GRALLOC_USAGE_HW_FB and room for one screen only: a buffer to be copied, of the
\* screen's size whatever was asked for.
AllocSingle(c, s) ==
  /\ ~Locked /\ 1 \in NumBuffers
  /\ AllocIon(c, OnScreen(s), s, ScreenSize)
  /\ IF numBuffers = 0 THEN MapScreen(1) ELSE UNCHANGED <<numBuffers, bufferMask>>
  /\ UNCHANGED <<ionClient, threadVars, currentBuffer, deviceVars>>

\* The first slot that is not in the mask; one past the last when all are.
FirstFree(mask, n) ==
  CHOOSE i \in 0 .. n : i \notin mask /\ (0 .. (i - 1)) \subseteq mask

\* Mutated form of OutOfBuffers: it is only noticed behind the last slot.
OutOfBuffersLate(mask, n) == (0 .. n) \subseteq mask

\* bufferMask >= (1 << numBuffers) - 1.
OutOfBuffers(mask, n) == (0 .. (n - 1)) \subseteq mask

\* gralloc_alloc_framebuffer_locked up to the slot it finds; the handle will be made at c.
BeginAlloc(t, c) ==
  /\ pc[t] = "idle" /\ opened > 0 /\ ~Locked /\ Alone
  /\ use[c] = "free" /\ ~InUse(c)
  /\ \E n \in NumBuffers \ {1} :
       LET mask == IF numBuffers = 0 THEN {} ELSE bufferMask
       IN /\ ~OutOfBuffers(mask, n)
          /\ slot' = [slot EXCEPT ![t] = FirstFree(mask, n)]
          /\ IF numBuffers = 0 THEN MapScreen(n) ELSE UNCHANGED <<numBuffers, bufferMask>>
  /\ At(t, "orLoad", c)
  /\ UNCHANGED <<handleVars, ionClient, held, addr, currentBuffer, opened, seen>>

\* m->bufferMask |= (1LU << i) or m->bufferMask &= ~(1 << index): the load.
LoadMask(t, from, to) ==
  /\ pc[t] = from
  /\ seen' = [seen EXCEPT ![t] = bufferMask]
  /\ At(t, to, cell[t])
  /\ UNCHANGED <<handleVars, ionClient, held, addr, screenVars, opened, slot>>

OrLoad(t) == LoadMask(t, "orLoad", "orStore")

\* Mutated form of Marked: the slot is not marked.
MarkedNot(mask, i) == mask

\* The mask with slot i handed out.
Marked(mask, i) == mask \union {i}

\* The store, the handle and the return.  Nothing before depends on what was asked for:
\* a slot is one screen.
OrStore(t) ==
  /\ pc[t] = "orStore"
  /\ bufferMask' = Marked(seen[t], slot[t])
  /\ \E s \in ScreenShapes : handle' = [handle EXCEPT ![cell[t]] = FramebufferHandle(slot[t], s)]
  /\ use' = [use EXCEPT ![cell[t]] = "allocated"]
  /\ seen' = [seen EXCEPT ![t] = {}] /\ slot' = [slot EXCEPT ![t] = 0]
  /\ Return(t)
  /\ UNCHANGED <<mem, ionClient, held, addr, numBuffers, currentBuffer, opened>>
-----------------------------------------------------------------------------
\* alloc_device_free of a buffer that nobody has in hand.
MayFree(c) ==
  /\ opened > 0 /\ use[c] \in {"allocated", "retired"} /\ ~InUse(c)
  /\ c = currentBuffer => "freePosted" \in Habits

FreeIon(c) ==
  /\ MayFree(c) /\ handle[c].kind = "ION"
  /\ mem' = Without(handle[c])
  /\ handle' = [handle EXCEPT ![c] = Freed] /\ use' = [use EXCEPT ![c] = "free"]
  /\ UNCHANGED <<ionClient, threadVars, screenVars, deviceVars>>

BeginFree(t, c) ==
  /\ pc[t] = "idle" /\ Alone
  /\ MayFree(c) /\ handle[c].kind = "FRAMEBUFFER"
  /\ At(t, "andLoad", c)
  /\ UNCHANGED <<handleVars, ionClient, held, addr, screenVars, deviceVars>>

AndLoad(t) == LoadMask(t, "andLoad", "andStore")

\* Mutated form of Cleared: the next slot is cleared.
ClearedNext(mask, i) == mask \ {i + 1}

\* The mask with slot i given back.
Cleared(mask, i) == mask \ {i}

\* The store and the delete.
AndStore(t) ==
  /\ pc[t] = "andStore"
  /\ bufferMask' = Cleared(seen[t], handle[cell[t]].slot)
  /\ handle' = [handle EXCEPT ![cell[t]] = Freed] /\ use' = [use EXCEPT ![cell[t]] = "free"]
  /\ seen' = [seen EXCEPT ![t] = {}]
  /\ Return(t)
  /\ UNCHANGED <<mem, ionClient, held, addr, numBuffers, currentBuffer, opened, slot>>

DeviceStep ==
  \/ OpenDevice \/ CloseDevice
  \/ \E c \in Cells : FreeIon(c) \/ \E s \in Shapes : AllocBuffer(c, s)
  \/ \E c \in Cells, s \in ScreenShapes : AllocSingle(c, s)
  \/ \E t \in Threads : OrLoad(t) \/ OrStore(t) \/ AndLoad(t) \/ AndStore(t)
  \/ \E t \in Threads, c \in Cells : BeginAlloc(t, c) \/ BeginFree(t, c)
=============================================================================
