----------------------------- MODULE Graphics -----------------------------
(***************************************************************************)
(* The gralloc HAL in the process that composes the screen: GrallocModule, *)
(* FramebufferDevice and AllocDevice over the same handles.                *)
(***************************************************************************)
EXTENDS AllocDevice

vars == <<handleVars, ionClient, threadVars, screenVars, deviceVars>>

ThreadPc == {"idle", "read", "lockFlip", "flip", "lockCopy", "readCopy", "copy",
             "orLoad", "orStore", "andLoad", "andStore"}

TypeOK ==
  /\ handle \in [Cells -> Handle] /\ use \in [Cells -> Use]
  /\ mem \in [Pages -> Cells \union {"none"}] /\ ionClient \in IonClient
  /\ pc \in [Threads -> ThreadPc] /\ cell \in [Threads -> Cells \union {"none"}]
  /\ held \in [Threads -> Cells \union {"none"}]
  /\ addr \in [Threads -> Pages \union {"null", "foreign", "screen", "none"}]
  /\ numBuffers \in 0 .. NumSlots /\ bufferMask \subseteq Slots
  /\ currentBuffer \in Cells \union {"none"}
  /\ opened \in 0 .. MaxDevices
  /\ slot \in [Threads -> Slots] /\ seen \in [Threads -> SUBSET Slots]

Init ==
  /\ handle = [c \in Cells |-> Freed] /\ use = [c \in Cells |-> "free"]
  /\ mem = [p \in Pages |-> "none"] /\ ionClient = "unset"
  /\ pc = [t \in Threads |-> "idle"] /\ cell = [t \in Threads |-> "none"]
  /\ held = [t \in Threads |-> "none"] /\ addr = [t \in Threads |-> "none"]
  /\ numBuffers = 0 /\ bufferMask = {} /\ currentBuffer = "none"
  /\ opened = 0 /\ slot = [t \in Threads |-> 0] /\ seen = [t \in Threads |-> {}]

\* framebuffer_device_open: it opens an alloc device of its own, which nobody closes
\* later, and maps the screen.
OpenFramebuffer ==
  /\ numBuffers = 0 /\ ~Locked /\ opened < MaxDevices
  /\ ionClient' = "open" /\ opened' = opened + 1
  /\ \E n \in NumBuffers : MapScreen(n)
  /\ UNCHANGED <<handleVars, threadVars, currentBuffer, slot, seen>>

ModuleStep ==
  /\ \/ \E c \in Cells : Receive(c) \/ Delete(c) \/ Register(c) \/ RegisterFails(c) \/ Unregister(c)
     \/ \E t \in Threads, c \in Cells : Lock(t, c) \/ LockYcbcr(t, c)
     \/ \E t \in Threads : ReadBase(t) \/ Unlock(t)
  /\ UNCHANGED <<screenVars, deviceVars>>

Next == ModuleStep \/ (PostStep /\ UNCHANGED deviceVars) \/ DeviceStep \/ OpenFramebuffer

Spec == Init /\ [][Next]_vars
-----------------------------------------------------------------------------
\* A thread never works through an address whose buffer is gone: what it was given is the
\* screen, nothing at all, or memory of the very buffer it has locked.
NeverStale ==
  \A t \in Threads :
    held[t] # "none" =>
      addr[t] \in {"none", "null", "screen"} \/ (addr[t] \in Pages /\ mem[addr[t]] = held[t])

\* Every mapping belongs to one buffer that knows its address, and a buffer that was
\* unregistered is unmapped once nobody has it locked.
MappingsTracked ==
  /\ \A p \in Pages : mem[p] # "none" => use[mem[p]] # "free" /\ handle[mem[p]].base = p
  /\ \A c \in Cells : use[c] \in Dropped /\ ~InUse(c) => handle[c].base = "null"

Live(c) == use[c] # "free" /\ handle[c].kind = "FRAMEBUFFER"
OwnersOf(i) == {c \in Cells : Live(c) /\ handle[c].slot = i}

\* No two framebuffer buffers share a slot.
OneOwner == \A i \in Slots : \A c, d \in OwnersOf(i) : c = d

Pool == INSTANCE SlotPool WITH owners <- [i \in Slots |-> OwnersOf(i)]
KeepsSlots == Pool!Spec

\* When no allocation or free is under way, the mask names exactly the slots in use: none
\* is lost.
NoSlotLost == ~Changing => bufferMask = {i \in Slots : OwnersOf(i) # {}}

\* Where what is read or written through a handle ends: its planes, or its rows, which are
\* byte_stride bytes or stride pixels apart.
LastBytes(h) ==
  IF h.shape.format \in Planar
  THEN LET p == Ycbcr(h.shape)
           last == IF h.shape.format = "YV12" THEN p.cb ELSE p.cr
       IN {last + p.cstride * ((h.shape.height + 1) \div 2)}
  ELSE {row * h.shape.height :
          row \in {ByteStride(h.asked), Stride(h.asked) * BytesPerPixel(h.shape.format)}}
Room(h) == IF h.kind = "ION" THEN h.size ELSE ScreenSize

\* Everything that is touched through a handle is in its memory, or in its slot of the
\* screen; and so is what fb_post copies of a buffer, line_length * yres bytes.
InBounds ==
  \A c \in Cells :
    use[c] # "free" =>
      /\ \A last \in LastBytes(handle[c]) : last <= Room(handle[c])
      /\ handle[c].kind = "ION" /\ Posting(c) => ScreenSize <= handle[c].size

\* What InBounds asks of the world, for nothing in the code sees to it: buffers for the
\* screen are asked for with its pixels and no larger than it, and the driver's pitch is
\* the one that alloc_device_alloc computes.
Fitting ==
  /\ \A s \in ScreenShapes : s.format = "RGB_565" /\ s.width <= XRes /\ s.height <= YRes
  /\ LineLength = ByteStride(ScreenShape)
=============================================================================
