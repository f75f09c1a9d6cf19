--------------------------- MODULE GraphicsProofs ---------------------------
(***************************************************************************)
(* Theorems of Graphics, for all cells, pages, threads, shapes, screens    *)
(* and faults, and for the habits that their assumptions allow.            *)
(***************************************************************************)
EXTENDS Graphics, TLAPS, WellFoundedInduction

USE PageAssumption, CellAssumption, ThreadAssumption, PosterAssumption
-----------------------------------------------------------------------------
(* The inductive invariants *)

\* A thread that is in the middle of an operation does it to a handle.
HasCell == \A t \in Threads : pc[t] # "idle" => cell[t] \in Cells

\* No two operations are under way on one handle.
CellsApart ==
  \A t, u \in Threads : pc[t] # "idle" /\ pc[u] # "idle" /\ cell[t] = cell[u] => t = u

\* What the callers did with a handle tells what is in it.
Handles ==
  \A c \in Cells :
    /\ use[c] = "free" => handle[c] = Freed
    /\ handle[c].kind = "FRAMEBUFFER" => use[c] = "allocated" /\ handle[c].base = "null"
    /\ handle[c].base = "foreign" <=> use[c] = "received"
    /\ use[c] = "received" => "UNREGISTERED" \notin handle[c].lockState

\* Where a thread is tells what it has in hand.
WorkOf(t) ==
  /\ pc[t] \in {"orLoad", "orStore"} => use[cell[t]] = "free"
  /\ pc[t] \in {"andLoad", "andStore", "lockFlip", "flip"} => handle[cell[t]].kind = "FRAMEBUFFER"
  /\ pc[t] \in {"lockCopy", "readCopy", "copy"} => handle[cell[t]].kind = "ION" /\ use[cell[t]] \in Usable
  /\ pc[t] \in {"read", "readCopy", "copy"} => held[t] = cell[t]
  /\ pc[t] \in {"lockFlip", "flip", "lockCopy"} => held[t] = "none"
  /\ pc[t] \in {"lockFlip", "flip", "lockCopy", "readCopy", "copy"} => t = Poster
  /\ held[t] # "none" => use[held[t]] \in Usable \union Dropped
  /\ held[t] = "none" => addr[t] = "none"
Work == \A t \in Threads : WorkOf(t)

\* Unless a thread works with its own lock, nobody has locked the handle it works on.
Apart ==
  \A t, u \in Threads : pc[t] \notin {"idle", "read", "readCopy", "copy"} => held[u] # cell[t]

Base == TypeOK /\ HasCell /\ CellsApart /\ Handles /\ Work /\ Apart

\* With callers that lock a buffer once at a time, do not free the one on the screen, ask
\* for planes only where there are some and register no buffer that they have mapped, and
\* with handles that arrive unlocked:

Careful ==
  {"sharing", "freePosted", "wrongFormat", "again"} \intersect Habits = {} /\ ~PeerLocked

\* a buffer is locked by one thread at a time, and the posted one is not freed,
OneLock ==
  /\ \A t, u \in Threads : held[t] # "none" /\ held[t] = held[u] => t = u
  /\ currentBuffer # "none" => handle[currentBuffer].kind = "FRAMEBUFFER"
  /\ \A t \in Threads : pc[t] \in {"andLoad", "andStore"} => cell[t] # currentBuffer

\* the lock state says whether somebody has the buffer locked, and that an unmapping waits,
Locks ==
  \A c \in Cells :
    /\ handle[c].kind = "ION" => ("WRITE" \in handle[c].lockState <=> \E t \in Threads : held[t] = c)
    /\ use[c] \in Dropped /\ handle[c].base # "null" => {"WRITE", "UNREGISTERED"} \subseteq handle[c].lockState

\* and handles and pages agree.
Mapped ==
  /\ \A p \in Pages : mem[p] # "none" => handle[mem[p]].base = p
  /\ \A c \in Cells : handle[c].base \in Pages => mem[handle[c].base] = c

Memory == OneLock /\ Locks /\ Mapped /\ NeverStale

\* With callers that do not free a framebuffer buffer while another call allocates or frees
\* one, one thread at a time changes the mask, which names exactly the slots in use.
MaskPc == {"orLoad", "orStore", "andLoad", "andStore"}
Mask ==
  /\ \A t, u \in Threads : pc[t] \in MaskPc /\ pc[u] \in MaskPc => t = u
  /\ \A t \in Threads :
       /\ pc[t] \in {"orStore", "andStore"} => seen[t] = bufferMask
       /\ pc[t] \in {"orLoad", "orStore"} => slot[t] \notin bufferMask
  /\ \A c \in Cells : handle[c].kind = "FRAMEBUFFER" => handle[c].slot \in bufferMask
  /\ \A i \in bufferMask : \E c \in Cells : handle[c].kind = "FRAMEBUFFER" /\ handle[c].slot = i
  /\ \A c, d \in Cells :
       handle[c].kind = "FRAMEBUFFER" /\ handle[d].kind = "FRAMEBUFFER" /\ handle[c].slot = handle[d].slot
         => c = d
  /\ numBuffers = 0 => bufferMask = {} /\ ~Changing

\* A handle of a buffer that was asked for in its shape; one that was asked for the screen.
Plain(h)     == h.kind = "ION" /\ h.asked = h.shape /\ h.size = BufferSize(h.shape)
ForScreen(h) == /\ h.asked \in ScreenShapes /\ h.shape = OnScreen(h.asked)
                /\ h.kind = "ION" => h.size = ScreenSize

\* Sizes follow from what was asked for, and only buffers for the whole screen are posted.
Sized ==
  /\ \A c \in Cells : use[c] # "free" => Plain(handle[c]) \/ ForScreen(handle[c])
  /\ \A c \in Cells : Posting(c) => handle[c].shape = ScreenShape
-----------------------------------------------------------------------------
(* Sizes *)

LEMMA AlignType ==
  ASSUME NEW v \in Nat, NEW b \in {2, 16, 64}
  PROVE  /\ Align(v, b) \in Nat
         /\ v <= Align(v, b) /\ Align(v, b) < v + b
         /\ Align(v, b) % 2 = 0
<1>1. CASE b = 2  BY <1>1 DEF Align
<1>2. CASE b = 16  BY <1>2 DEF Align
<1>3. CASE b = 64  BY <1>3 DEF Align
<1> QED BY <1>1, <1>2, <1>3

LEMMA AlignMonotone ==
  ASSUME NEW v \in Nat, NEW w \in Nat, v <= w
  PROVE  Align(v, 16) <= Align(w, 16)
BY DEF Align

LEMMA ProductType ==
  ASSUME NEW m \in Nat, NEW n \in Nat
  PROVE  m * n \in Nat
OBVIOUS

LEMMA ProductMonotone ==
  ASSUME NEW m \in Nat, NEW n \in Nat, NEW k \in Nat, m <= n
  PROVE  m * k <= n * k /\ k * m <= k * n
OBVIOUS

\* What is computed from a shape.
LEMMA ShapeTypes ==
  ASSUME NEW s \in Shape
  PROVE  /\ s.width \in Nat \ {0} /\ s.height \in Nat \ {0} /\ s.format \in Format
         /\ ByteStride(s) \in Nat /\ Rows(s) \in Nat /\ Stride(s) \in Nat
         /\ BufferSize(s) \in Nat
<1>1. s.width \in Nat \ {0} /\ s.height \in Nat \ {0} /\ s.format \in Format
  BY DEF Shape
<1>2. BytesPerPixel(s.format) \in 1 .. 4
  BY DEF BytesPerPixel
<1>3. s.width * BytesPerPixel(s.format) \in Nat
  BY <1>1, <1>2, ProductType
<1>4. ByteStride(s) \in Nat
  BY <1>3, AlignType DEF ByteStride
<1>5. Align(s.width, 16) \in Nat /\ Align(s.height, 16) \in Nat /\ Align(s.height, 2) \in Nat
  BY <1>1, AlignType
<1>6. Rows(s) \in Nat
  BY <1>1, <1>5 DEF Rows
<1>7. Stride(s) \in Nat
  BY <1>2, <1>4, <1>5 DEF Stride
<1>8. Align(Stride(s) \div 2, 16) \in Nat
  <2>1. Stride(s) \div 2 \in Nat
    BY <1>7
  <2> QED BY <2>1, AlignType
<1>9. Rows(s) * (Stride(s) + Align(Stride(s) \div 2, 16)) \in Nat /\ ByteStride(s) * s.height \in Nat
  BY <1>1, <1>4, <1>6, <1>7, <1>8, ProductType
<1> QED BY <1>1, <1>4, <1>6, <1>7, <1>9 DEF BufferSize

LEMMA ScreenTypes ==
  /\ ScreenShape \in Shape /\ ScreenSize \in Nat
  /\ \A s \in Shape : OnScreen(s) \in Shape
<1>1. XRes \in Nat \ {0} /\ YRes \in Nat \ {0} /\ LineLength \in Nat
  BY ScreenAssumption
<1>2. ScreenShape \in Shape
  BY <1>1 DEF ScreenShape, Shape, Format
<1>3. \A s \in Shape : OnScreen(s) \in Shape
  BY DEF OnScreen, Shape, Format
<1>4. ScreenSize \in Nat
  BY <1>1, ProductType DEF ScreenSize
<1> QED BY <1>2, <1>3, <1>4

\* The pixels of a row end where the row does, or before.
LEMMA PixelRow ==
  ASSUME NEW s \in Shape, s.format \notin Planar
  PROVE  /\ Stride(s) * BytesPerPixel(s.format) \in Nat
         /\ Stride(s) * BytesPerPixel(s.format) <= ByteStride(s)
<1> DEFINE b == ByteStride(s)
<1>1. b \in Nat
  BY ShapeTypes
<1>2. Stride(s) = b \div BytesPerPixel(s.format) /\ BytesPerPixel(s.format) \in {2, 3, 4}
  BY ShapeTypes DEF Stride, BytesPerPixel, Planar, Format
<1> HIDE DEF b
<1>3. CASE BytesPerPixel(s.format) = 2  BY <1>1, <1>2, <1>3 DEF b
<1>4. CASE BytesPerPixel(s.format) = 3  BY <1>1, <1>2, <1>4 DEF b
<1>5. CASE BytesPerPixel(s.format) = 4  BY <1>1, <1>2, <1>5 DEF b
<1> QED BY <1>2, <1>3, <1>4, <1>5

\* The planes and rows of a buffer end inside it, whatever its width and height.
LEMMA PlanesFit ==
  ASSUME NEW h, h.shape \in Shape, h.asked = h.shape
  PROVE  \A last \in LastBytes(h) : last <= BufferSize(h.shape)
<1> DEFINE s == h.shape
           wd == s.width
           ht == s.height
           st == Align(wd, 16)
           half == Align(st \div 2, 16)
           row == Align(wd \div 2, 16)
<1> HIDE DEF s
<1>1. /\ wd \in Nat \ {0} /\ ht \in Nat \ {0} /\ s.format \in Format
      /\ ByteStride(s) \in Nat /\ Rows(s) \in Nat
  BY ShapeTypes DEF s
<1> HIDE DEF wd, ht
<1>2. CASE s.format \notin Planar
  <2>1. BufferSize(s) = ByteStride(s) * ht
    BY <1>2 DEF BufferSize, ht
  <2>2. Stride(s) * BytesPerPixel(s.format) \in Nat /\ Stride(s) * BytesPerPixel(s.format) <= ByteStride(s)
    BY <1>1, <1>2, PixelRow DEF s
  <2>3. LastBytes(h) = {n * ht : n \in {ByteStride(s), Stride(s) * BytesPerPixel(s.format)}}
    BY <1>2 DEF LastBytes, s, ht
  <2>4. \A n \in {ByteStride(s), Stride(s) * BytesPerPixel(s.format)} : n * ht <= ByteStride(s) * ht
    BY <1>1, <2>2, ProductMonotone
  <2> QED BY <2>1, <2>3, <2>4 DEF s
<1>3. CASE s.format \in Planar
  <2>1. st \in Nat /\ wd <= st /\ st % 2 = 0
    BY <1>1, AlignType
  <2> HIDE DEF st
  <2>2. st \div 2 \in Nat /\ wd \div 2 \in Nat /\ wd \div 2 <= st \div 2 /\ st = 2 * (st \div 2)
    BY <1>1, <2>1
  <2>3. row \in Nat /\ half \in Nat /\ row <= half /\ st \div 2 <= half /\ row % 2 = 0
    BY <2>2, AlignType, AlignMonotone
  <2> HIDE DEF row, half
  <2> DEFINE n == (ht + 1) \div 2
  <2>4. n \in Nat /\ 2 * n <= ht + 1 /\ (ht % 2 = 0 => 2 * n = ht)
    BY <1>1
  <2> HIDE DEF n
  <2>5. Stride(s) = st
    BY <1>3 DEF Stride, st, wd
  <2>6. BufferSize(s) = Rows(s) * (st + half)
    BY <1>3, <2>5 DEF BufferSize, half
  <2>7. Rows(s) >= ht /\ Rows(s) >= 2 * n
    <3>1. Rows(s) = Align(ht, 16) \/ Rows(s) = Align(ht, 2)
      BY <1>3 DEF Rows, Planar, ht
    <3>2. Rows(s) >= ht /\ Rows(s) % 2 = 0
      BY <1>1, <3>1, AlignType
    <3> QED BY <1>1, <2>4, <3>2
  <2>8. ht * st <= Rows(s) * st /\ n * (2 * half) <= Rows(s) * half
    <3>1. n * (2 * half) = (2 * n) * half
      BY <2>3, <2>4
    <3>2. 2 * n \in Nat
      BY <2>4
    <3> QED BY <1>1, <2>1, <2>3, <2>7, <3>1, <3>2, ProductMonotone
  <2>9. Rows(s) * (st + half) = Rows(s) * st + Rows(s) * half
    BY <1>1, <2>1, <2>3
  <2>10. CASE s.format = "YCrCb_420_SP"
    <3>1. LastBytes(h) = {st * ht + st * n}
      BY <1>3, <2>5, <2>10 DEF LastBytes, Ycbcr, s, ht, n, st, wd
    <3>2. st <= 2 * half
      BY <2>1, <2>2, <2>3
    <3>3. 2 * half \in Nat
      BY <2>3
    <3>4. st * n <= n * (2 * half)
      BY <2>1, <2>4, <3>2, <3>3, ProductMonotone
    <3>5. st * ht = ht * st /\ st * ht \in Nat /\ st * n \in Nat
          /\ Rows(s) * st \in Nat /\ Rows(s) * half \in Nat /\ n * (2 * half) \in Nat
      BY <1>1, <2>1, <2>3, <2>4, <3>3, ProductType
    <3> QED BY <2>6, <2>8, <2>9, <3>1, <3>4, <3>5 DEF s
  <2>11. CASE s.format = "YV12"
    <3>1. LastBytes(h) = {st * ht + (row * ht) \div 2 + row * n}
      BY <1>3, <2>5, <2>11 DEF LastBytes, Ycbcr, s, ht, n, st, wd, row
    <3> DEFINE k == row \div 2
    <3>2. k \in Nat /\ row = 2 * k
      BY <2>3
    <3> HIDE DEF k
    <3>3. (row * ht) \div 2 = k * ht
      <4>1. row * ht = 2 * (k * ht) /\ k * ht \in Nat
        BY <1>1, <3>2, ProductType
      <4> QED BY <4>1
    <3>4. ht + 2 * n <= 2 * Rows(s)
      BY <1>1, <2>4, <2>7
    <3>5. k * ht + row * n = k * (ht + 2 * n)
      BY <1>1, <2>4, <3>2
    <3>6. k * (ht + 2 * n) <= k * (2 * Rows(s))
      BY <1>1, <2>4, <3>2, <3>4, ProductMonotone
    <3>7. k * (2 * Rows(s)) = row * Rows(s) /\ row * Rows(s) <= Rows(s) * half
      BY <1>1, <2>3, <3>2, ProductMonotone
    <3>8. st * ht = ht * st /\ st * ht \in Nat /\ row * n \in Nat /\ k * ht \in Nat
          /\ Rows(s) * st \in Nat /\ Rows(s) * half \in Nat
          /\ k * (ht + 2 * n) \in Nat /\ k * (2 * Rows(s)) \in Nat /\ row * Rows(s) \in Nat
      BY <1>1, <2>1, <2>3, <2>4, <3>2, ProductType
    <3> QED BY <2>6, <2>8, <2>9, <3>1, <3>3, <3>5, <3>6, <3>7, <3>8 DEF s
  <2> QED BY <1>3, <2>10, <2>11 DEF Planar
<1> QED BY <1>2, <1>3 DEF s

\* The rows of a buffer for the screen end inside one screen, when what was asked for fits.
LEMMA ScreenFits ==
  ASSUME Fitting, NEW h, h.asked \in ScreenShapes, h.shape = OnScreen(h.asked)
  PROVE  \A last \in LastBytes(h) : last <= ScreenSize
<1> DEFINE s == h.asked
<1>1. s \in Shape /\ s.format = "RGB_565" /\ s.width <= XRes /\ s.height <= YRes
      /\ LineLength = ByteStride(ScreenShape)
  BY DeviceAssumption DEF Fitting
<1>2. h.shape.format = "RGB_565" /\ h.shape.height = s.height
  BY <1>1 DEF OnScreen, Shape
<1> HIDE DEF s
<1>3. s.width \in Nat /\ s.height \in Nat /\ XRes \in Nat /\ YRes \in Nat /\ LineLength \in Nat
  BY <1>1, ShapeTypes, ScreenAssumption
<1>4. ByteStride(s) = Align(s.width * 2, 64) /\ LineLength = Align(XRes * 2, 64)
  BY <1>1 DEF ByteStride, BytesPerPixel, ScreenShape
<1>5. ByteStride(s) \in Nat /\ ByteStride(s) <= LineLength
  BY <1>1, <1>3, <1>4 DEF Align
<1>6. Stride(s) * BytesPerPixel(s.format) \in Nat /\ Stride(s) * BytesPerPixel(s.format) <= ByteStride(s)
  BY <1>1, PixelRow DEF Planar
<1>7. LastBytes(h) = {row * s.height : row \in {ByteStride(s), Stride(s) * BytesPerPixel(s.format)}}
  BY <1>1, <1>2 DEF LastBytes, Planar, s
<1>8. \A row \in {ByteStride(s), Stride(s) * BytesPerPixel(s.format)} :
        row * s.height <= LineLength * YRes
  <2> SUFFICES ASSUME NEW row \in Nat, row <= LineLength
               PROVE  row * s.height <= LineLength * YRes
    BY <1>3, <1>5, <1>6
  <2>1. row * s.height <= LineLength * s.height /\ LineLength * s.height <= LineLength * YRes
    BY <1>1, <1>3, ProductMonotone
  <2>2. row * s.height \in Nat /\ LineLength * s.height \in Nat /\ LineLength * YRes \in Nat
    BY <1>3, ProductType
  <2> QED BY <2>1, <2>2
<1> QED BY <1>7, <1>8 DEF ScreenSize

\* A buffer of the screen's shape has room for one screen.
LEMMA ScreenCopied ==
  ASSUME Fitting
  PROVE  BufferSize(ScreenShape) = ScreenSize
BY DEF Fitting, BufferSize, ScreenSize, ScreenShape, Planar
-----------------------------------------------------------------------------
(* Slots *)

\* The search of gralloc_alloc_framebuffer_locked ends at a slot that nobody has.
LEMMA FirstFreeSlot ==
  ASSUME NEW n \in Nat, NEW mask, ~OutOfBuffers(mask, n)
  PROVE  FirstFree(mask, n) \in 0 .. (n - 1) /\ FirstFree(mask, n) \notin mask
<1> DEFINE R == OpToRel(<, Nat)
           T == {i \in 0 .. (n - 1) : i \notin mask}
<1>1. T \subseteq Nat /\ T # {}
  BY DEF OutOfBuffers
<1>2. \A x, y \in Nat : y < x => <<y, x>> \in R
  BY DEF OpToRel
<1> HIDE DEF R, T
<1>3. IsWellFoundedOn(R, Nat)
  BY NatLessThanWellFounded DEF R
<1>4. PICK i \in T : \A j \in T : ~(<<j, i>> \in R)
  BY <1>1, <1>3, WFMin
<1>5. i \in 0 .. (n - 1) /\ i \notin mask
  BY <1>4 DEF T
<1>6. (0 .. (i - 1)) \subseteq mask
  <2> SUFFICES ASSUME NEW k \in 0 .. (i - 1), k \notin mask
               PROVE  FALSE
    OBVIOUS
  <2>1. k \in T /\ k \in Nat /\ i \in Nat /\ k < i
    BY <1>5 DEF T
  <2> QED BY <1>2, <1>4, <2>1
<1>7. /\ FirstFree(mask, n) \in 0 .. n /\ FirstFree(mask, n) \notin mask
      /\ (0 .. (FirstFree(mask, n) - 1)) \subseteq mask
  BY <1>5, <1>6 DEF FirstFree
<1>8. FirstFree(mask, n) # n
  BY <1>7 DEF OutOfBuffers
<1> QED BY <1>7, <1>8
-----------------------------------------------------------------------------
(* Handles *)

LEMMA IonType ==
  ASSUME NEW b \in Pages \union {"null", "foreign"}, NEW s \in Shape, NEW a \in Shape, NEW n \in Nat
  PROVE  /\ IonHandle(b, s, a, n) \in Handle
         /\ IonHandle(b, s, a, n).kind = "ION" /\ IonHandle(b, s, a, n).base = b
         /\ IonHandle(b, s, a, n).shape = s /\ IonHandle(b, s, a, n).asked = a
         /\ IonHandle(b, s, a, n).size = n /\ IonHandle(b, s, a, n).lockState = {"MAPPED"}
<1>1. 0 \in 0 .. NumSlots
  BY SlotAssumption
<1> QED BY <1>1 DEF IonHandle, Handle, LockState

LEMMA FramebufferType ==
  ASSUME NEW i \in Slots, NEW a \in Shape
  PROVE  /\ FramebufferHandle(i, a) \in Handle
         /\ FramebufferHandle(i, a).kind = "FRAMEBUFFER" /\ FramebufferHandle(i, a).base = "null"
         /\ FramebufferHandle(i, a).slot = i
         /\ FramebufferHandle(i, a).shape = OnScreen(a) /\ FramebufferHandle(i, a).asked = a
<1>1. i \in 0 .. NumSlots
  BY SlotAssumption DEF Slots
<1>2. OnScreen(a) \in Shape /\ BufferSize(a) \in Nat
  BY ScreenTypes, ShapeTypes
<1> QED BY <1>1, <1>2 DEF FramebufferHandle, Handle, LockState

LEMMA FreedType ==
  /\ Freed \in Handle /\ Freed.kind = "ION" /\ Freed.base = "null" /\ Freed.lockState = {}
<1>1. IonHandle("null", ScreenShape, ScreenShape, 0) \in Handle
      /\ IonHandle("null", ScreenShape, ScreenShape, 0).kind = "ION" /\ IonHandle("null", ScreenShape, ScreenShape, 0).base = "null"
  BY IonType, ScreenTypes
<1>2. Freed = [IonHandle("null", ScreenShape, ScreenShape, 0) EXCEPT !.lockState = {}]
  BY DEF Freed
<1> QED BY <1>1, <1>2 DEF Handle, LockState

\* Changes of the lock state and of the base leave the rest of a handle alone.
LEMMA HandleUpdate ==
  ASSUME NEW h \in Handle, NEW l \in SUBSET LockState, NEW b \in Pages \union {"null", "foreign"}
  PROVE  /\ [h EXCEPT !.lockState = l] \in Handle
         /\ [h EXCEPT !.base = b, !.lockState = l] \in Handle
         /\ h.kind \in {"ION", "FRAMEBUFFER"} /\ h.base \in Pages \union {"null", "foreign"}
         /\ h.lockState \subseteq LockState /\ h.slot \in 0 .. NumSlots
         /\ h.shape \in Shape /\ h.asked \in Shape /\ h.size \in Nat
BY DEF Handle

\* What two versions of a handle have in common when only its lock was touched.
SameBuffer(g, h) ==
  /\ g.kind = h.kind /\ g.slot = h.slot
  /\ g.shape = h.shape /\ g.asked = h.asked /\ g.size = h.size

\* gralloc_lock on a handle.
LEMMA SetWriteEffect ==
  ASSUME TypeOK, NEW c \in Cells, SetWrite(c)
  PROVE  /\ handle' \in [Cells -> Handle]
         /\ \A d \in Cells : d # c => handle'[d] = handle[d]
         /\ SameBuffer(handle'[c], handle[c]) /\ handle'[c].base = handle[c].base
         /\ handle'[c].lockState = handle[c].lockState \union {"WRITE"}
<1> DEFINE l == handle[c].lockState \union {"WRITE"}
<1>1. handle[c] \in Handle
  BY DEF TypeOK
<1>2. l \in SUBSET LockState
  BY <1>1, HandleUpdate DEF LockState
<1>3. handle' = [handle EXCEPT ![c] = [handle[c] EXCEPT !.lockState = l]]
  BY DEF SetWrite, TypeOK
<1> HIDE DEF l
<1>4. [handle[c] EXCEPT !.lockState = l] \in Handle
  BY <1>1, <1>2, HandleUpdate
<1>5. handle'[c] = [handle[c] EXCEPT !.lockState = l] /\ \A d \in Cells : d # c => handle'[d] = handle[d]
  BY <1>3 DEF TypeOK
<1>6. SameBuffer(handle'[c], handle[c]) /\ handle'[c].base = handle[c].base /\ handle'[c].lockState = l
  BY <1>1, <1>5 DEF SameBuffer, Handle
<1>7. handle' \in [Cells -> Handle]
  BY <1>3, <1>4 DEF TypeOK
<1> QED BY <1>5, <1>6, <1>7 DEF l

LEMMA UnmappedEffect ==
  ASSUME NEW h \in Handle, NEW l \in SUBSET LockState
  PROVE  /\ Unmapped(h) \in Handle /\ SameBuffer(Unmapped(h), h)
         /\ Unmapped(h).base = "null" /\ Unmapped(h).lockState = {}
         /\ [Unmapped(h) EXCEPT !.lockState = l] \in Handle
         /\ SameBuffer([Unmapped(h) EXCEPT !.lockState = l], h)
         /\ [Unmapped(h) EXCEPT !.lockState = l].base = "null"
         /\ [Unmapped(h) EXCEPT !.lockState = l].lockState = l
BY DEF Unmapped, Handle, SameBuffer, LockState

\* Unmapping a handle.
LEMMA WithoutEffect ==
  ASSUME TypeOK, NEW h
  PROVE  /\ Without(h) \in [Pages -> Cells \union {"none"}]
         /\ \A p \in Pages : Without(h)[p] = IF p = h.base THEN "none" ELSE mem[p]
BY DEF TypeOK, Without

\* gralloc_unlock on a handle.
LEMMA UnlockEffect ==
  ASSUME TypeOK, NEW c \in Cells, UnlockHandle(c)
  PROVE  /\ handle' \in [Cells -> Handle] /\ mem' \in [Pages -> Cells \union {"none"}]
         /\ \A d \in Cells : d # c => handle'[d] = handle[d]
         /\ SameBuffer(handle'[c], handle[c])
         /\ \/ /\ "UNREGISTERED" \in handle[c].lockState
               /\ handle'[c].base = "null" /\ handle'[c].lockState = {}
               /\ \A p \in Pages : mem'[p] = IF p = handle[c].base THEN "none" ELSE mem[p]
            \/ /\ "UNREGISTERED" \notin handle[c].lockState
               /\ handle'[c].base = handle[c].base /\ handle'[c].lockState = handle[c].lockState \ {"WRITE"}
               /\ mem' = mem
<1>1. handle[c] \in Handle
  BY DEF TypeOK
<1>2. CASE "UNREGISTERED" \in handle[c].lockState
  <2>1. handle' = [handle EXCEPT ![c] = Unmapped(handle[c])] /\ mem' = Without(handle[c])
    BY <1>2 DEF UnlockHandle, TypeOK
  <2>2. Unmapped(handle[c]) \in Handle /\ SameBuffer(Unmapped(handle[c]), handle[c])
        /\ Unmapped(handle[c]).base = "null" /\ Unmapped(handle[c]).lockState = {}
    BY <1>1, UnmappedEffect
  <2>3. handle'[c] = Unmapped(handle[c]) /\ \A d \in Cells : d # c => handle'[d] = handle[d]
    BY <2>1 DEF TypeOK
  <2>4. handle' \in [Cells -> Handle]
    BY <2>1, <2>2 DEF TypeOK
  <2> QED BY <1>2, <2>1, <2>2, <2>3, <2>4, WithoutEffect
<1>3. CASE "UNREGISTERED" \notin handle[c].lockState
  <2> DEFINE l == handle[c].lockState \ {"WRITE"}
  <2>1. handle' = [handle EXCEPT ![c] = [handle[c] EXCEPT !.lockState = l]] /\ mem' = mem
    BY <1>3 DEF UnlockHandle, TypeOK
  <2>2. l \in SUBSET LockState
    BY <1>1, HandleUpdate
  <2> HIDE DEF l
  <2>3. [handle[c] EXCEPT !.lockState = l] \in Handle
    BY <1>1, <2>2, HandleUpdate
  <2>4. handle'[c] = [handle[c] EXCEPT !.lockState = l] /\ \A d \in Cells : d # c => handle'[d] = handle[d]
    BY <2>1 DEF TypeOK
  <2>5. SameBuffer(handle'[c], handle[c]) /\ handle'[c].base = handle[c].base /\ handle'[c].lockState = l
    BY <1>1, <2>4 DEF SameBuffer, Handle
  <2>6. handle' \in [Cells -> Handle]
    BY <2>1, <2>3 DEF TypeOK
  <2>7. mem' \in [Pages -> Cells \union {"none"}]
    BY <2>1 DEF TypeOK
  <2> QED BY <1>3, <2>1, <2>4, <2>5, <2>6, <2>7 DEF l
<1> QED BY <1>2, <1>3

\* Where a thread goes.
LEMMA AtEffect ==
  ASSUME TypeOK, NEW t \in Threads, NEW where \in ThreadPc, NEW c \in Cells \union {"none"},
         At(t, where, c)
  PROVE  /\ pc' \in [Threads -> ThreadPc] /\ cell' \in [Threads -> Cells \union {"none"}]
         /\ pc'[t] = where /\ cell'[t] = c
         /\ \A u \in Threads : u # t => pc'[u] = pc[u] /\ cell'[u] = cell[u]
BY DEF TypeOK, At

\* The lock that a thread takes or lets go.
LEMMA HeldEffect ==
  ASSUME TypeOK, NEW t \in Threads, NEW c \in Cells \union {"none"}, held' = [held EXCEPT ![t] = c]
  PROVE  /\ held' \in [Threads -> Cells \union {"none"}] /\ held'[t] = c
         /\ \A u \in Threads : u # t => held'[u] = held[u]
BY DEF TypeOK

LEMMA AddrEffect ==
  ASSUME TypeOK, NEW t \in Threads, NEW a \in Pages \union {"null", "foreign", "screen", "none"},
         addr' = [addr EXCEPT ![t] = a]
  PROVE  /\ addr' \in [Threads -> Pages \union {"null", "foreign", "screen", "none"}] /\ addr'[t] = a
         /\ \A u \in Threads : u # t => addr'[u] = addr[u]
BY DEF TypeOK
-----------------------------------------------------------------------------
(* Steps that preserve Base, by what they do *)

\* A handle that nobody has in hand is filled, changed or freed.
LEMMA BaseOfCell ==
  ASSUME Base, TypeOK', UNCHANGED threadVars, NEW c \in Cells, ~InUse(c),
         \A d \in Cells : d # c => handle'[d] = handle[d] /\ use'[d] = use[d],
         use'[c] = "free" => handle'[c] = Freed,
         handle'[c].kind = "FRAMEBUFFER" => use'[c] = "allocated" /\ handle'[c].base = "null",
         handle'[c].base = "foreign" <=> use'[c] = "received",
         use'[c] = "received" => "UNREGISTERED" \notin handle'[c].lockState
  PROVE  Base'
<1>1. \A t \in Threads : /\ pc[t] # "idle" => cell[t] \in Cells /\ cell[t] # c
                         /\ held[t] # "none" => held[t] \in Cells /\ held[t] # c
  BY DEF InUse, Busy, Base, HasCell, TypeOK
<1>2. HasCell' /\ CellsApart' /\ Apart'
  BY DEF Base, HasCell, CellsApart, Apart, threadVars
<1>3. Handles'
  BY DEF Base, Handles
<1>4. Work'
  <2> SUFFICES ASSUME NEW t \in Threads
               PROVE  WorkOf(t)'
    BY DEF Work
  <2>1. WorkOf(t)
    BY DEF Base, Work
  <2>2. pc'[t] = pc[t] /\ cell'[t] = cell[t] /\ held'[t] = held[t] /\ addr'[t] = addr[t]
    BY DEF threadVars
  <2>3. pc[t] # "idle" => handle'[cell[t]] = handle[cell[t]] /\ use'[cell[t]] = use[cell[t]]
    <3> SUFFICES ASSUME pc[t] # "idle"
                 PROVE  handle'[cell[t]] = handle[cell[t]] /\ use'[cell[t]] = use[cell[t]]
      OBVIOUS
    <3>1. cell[t] \in Cells /\ cell[t] # c
      BY <1>1
    <3> QED BY <3>1
  <2>4. held[t] # "none" => use'[held[t]] = use[held[t]]
    <3> SUFFICES ASSUME held[t] # "none"
                 PROVE  use'[held[t]] = use[held[t]]
      OBVIOUS
    <3>1. held[t] \in Cells /\ held[t] # c
      BY <1>1
    <3> QED BY <3>1
  <2> QED BY <2>1, <2>2, <2>3, <2>4 DEF WorkOf
<1> QED BY <1>2, <1>3, <1>4 DEF Base

\* Only locks and addresses of handles change.
LEMMA HandlesKept ==
  ASSUME Base,
         \A d \in Cells : /\ use'[d] = use[d] /\ handle'[d].kind = handle[d].kind
                          /\ handle'[d].base = handle[d].base \/ (handle'[d].base = "null" /\ handle[d].base # "foreign")
                          /\ use[d] = "free" => handle'[d] = handle[d]
                          /\ use[d] = "received" => handle'[d].lockState \subseteq handle[d].lockState \union {"WRITE"}
  PROVE  Handles'
BY DEF Base, Handles

\* One thread moves.
LEMMA BaseOfThread ==
  ASSUME Base, TypeOK', Handles', NEW t \in Threads,
         \A u \in Threads : u # t => /\ pc'[u] = pc[u] /\ cell'[u] = cell[u]
                                     /\ held'[u] = held[u] /\ addr'[u] = addr[u],
         \A d \in Cells : use'[d] = use[d] /\ handle'[d].kind = handle[d].kind,
         pc'[t] # "idle" =>
           cell'[t] \in Cells /\ \A u \in Threads : u # t /\ pc[u] # "idle" => cell[u] # cell'[t],
         pc'[t] \notin {"idle", "read", "readCopy", "copy"} => \A u \in Threads : held'[u] # cell'[t],
         \A u \in Threads : u # t /\ pc[u] \notin {"idle", "read", "readCopy", "copy"} => held'[t] # cell[u],
         WorkOf(t)'
  PROVE  Base'
<1>1. HasCell'
  BY DEF Base, HasCell
<1>2. CellsApart'
  BY DEF Base, CellsApart
<1>3. Apart'
  BY DEF Base, Apart
<1>4. Work'
  <2> SUFFICES ASSUME NEW u \in Threads, u # t
               PROVE  WorkOf(u)'
    BY DEF Work
  <2>1. WorkOf(u)
    BY DEF Base, Work
  <2>2. pc'[u] = pc[u] /\ cell'[u] = cell[u] /\ held'[u] = held[u] /\ addr'[u] = addr[u]
    OBVIOUS
  <2>3. /\ pc[u] # "idle" => handle'[cell[u]].kind = handle[cell[u]].kind /\ use'[cell[u]] = use[cell[u]]
        /\ held[u] # "none" => use'[held[u]] = use[held[u]]
    BY DEF Base, HasCell, TypeOK
  <2> QED BY <2>1, <2>2, <2>3 DEF WorkOf
<1> QED BY <1>1, <1>2, <1>3, <1>4 DEF Base

\* One thread ends its work on a handle that nobody has locked.
LEMMA BaseOfReturn ==
  ASSUME Base, TypeOK', NEW t \in Threads, pc[t] \in {"orStore", "andStore"}, pc'[t] = "idle",
         \A u \in Threads : u # t => pc'[u] = pc[u] /\ cell'[u] = cell[u],
         UNCHANGED <<held, addr>>,
         \A d \in Cells : d # cell[t] => handle'[d] = handle[d] /\ use'[d] = use[d],
         use'[cell[t]] = "free" => handle'[cell[t]] = Freed,
         handle'[cell[t]].kind = "FRAMEBUFFER" => use'[cell[t]] = "allocated" /\ handle'[cell[t]].base = "null",
         handle'[cell[t]].base = "foreign" <=> use'[cell[t]] = "received",
         use'[cell[t]] # "received"
  PROVE  Base'
<1>1. cell[t] \in Cells
  BY DEF Base, HasCell
<1>2. HasCell' /\ CellsApart'
  BY DEF Base, HasCell, CellsApart
<1>3. Apart'
  BY DEF Base, Apart
<1>4. Handles'
  BY <1>1 DEF Base, Handles
<1>5. Work'
  <2> SUFFICES ASSUME NEW u \in Threads
               PROVE  WorkOf(u)'
    BY DEF Work
  <2>1. WorkOf(u) /\ held[u] # cell[t]
    BY DEF Base, Work, Apart
  <2>2. held[u] # "none" => use'[held[u]] = use[held[u]]
    BY <2>1 DEF Base, TypeOK
  <2>3. CASE u = t
    BY <2>1, <2>2, <2>3 DEF WorkOf
  <2>4. CASE u # t
    <3>1. pc[u] # "idle" => cell[u] \in Cells /\ cell[u] # cell[t]
      BY <2>4 DEF Base, HasCell, CellsApart
    <3> QED BY <2>1, <2>2, <2>4, <3>1 DEF WorkOf
  <2> QED BY <2>3, <2>4
<1> QED BY <1>2, <1>3, <1>4, <1>5 DEF Base
-----------------------------------------------------------------------------
(* Each action preserves Base *)

\* One cell gets another handle or another use.
LEMMA CellEffect ==
  ASSUME TypeOK, NEW c \in Cells, NEW h \in Handle, NEW u \in Use,
         handle' = [handle EXCEPT ![c] = h], use' = [use EXCEPT ![c] = u]
  PROVE  /\ handle' \in [Cells -> Handle] /\ use' \in [Cells -> Use]
         /\ handle'[c] = h /\ use'[c] = u
         /\ \A d \in Cells : d # c => handle'[d] = handle[d] /\ use'[d] = use[d]
BY DEF TypeOK

\* A page gets a buffer.
LEMMA MemEffect ==
  ASSUME TypeOK, NEW p \in Pages, NEW c \in Cells, mem' = [mem EXCEPT ![p] = c]
  PROVE  mem' \in [Pages -> Cells \union {"none"}]
BY DEF TypeOK

\* The callers do something else with a buffer of its own, and nothing with its kind.
LEMMA BaseOfUse ==
  ASSUME Base, TypeOK', Handles', UNCHANGED threadVars,
         NEW c \in Cells, ~Posting(c), handle[c].kind = "ION", use[c] # "free",
         \A d \in Cells : d # c => handle'[d] = handle[d] /\ use'[d] = use[d],
         handle'[c].kind = "ION", use'[c] = use[c] \/ use'[c] \in Usable \union Dropped
  PROVE  Base'
<1>1. HasCell' /\ CellsApart' /\ Apart'
  BY DEF Base, HasCell, CellsApart, Apart, threadVars
<1>2. Work'
  <2> SUFFICES ASSUME NEW t \in Threads
               PROVE  WorkOf(t)'
    BY DEF Work
  <2>1. WorkOf(t) /\ pc'[t] = pc[t] /\ cell'[t] = cell[t] /\ held'[t] = held[t] /\ addr'[t] = addr[t]
    BY DEF Base, Work, threadVars
  <2>2. pc[t] \in {"orLoad", "orStore", "andLoad", "andStore", "lockFlip", "flip", "lockCopy", "readCopy", "copy"}
          => cell[t] \in Cells /\ cell[t] # c
    BY <2>1 DEF WorkOf, Base, HasCell, Posting
  <2>3. held[t] # "none" => use'[held[t]] \in Usable \union Dropped
    BY <2>1 DEF WorkOf, Base, TypeOK
  <2> QED BY <2>1, <2>2, <2>3 DEF WorkOf
<1> QED BY <1>1, <1>2 DEF Base

\* Neither handles nor threads change.
LEMMA BaseOfDevice ==
  ASSUME Base, TypeOK', UNCHANGED <<handle, use, threadVars>>
  PROVE  Base'
<1>1. HasCell' /\ CellsApart' /\ Apart'
  BY DEF Base, HasCell, CellsApart, Apart, threadVars
<1>2. Handles'
  BY DEF Base, Handles
<1>3. Work'
  BY DEF Base, Work, WorkOf, threadVars
<1> QED BY <1>1, <1>2, <1>3 DEF Base

LEMMA ReceiveBase ==
  ASSUME Base, NEW c \in Cells, Receive(c), UNCHANGED <<screenVars, deviceVars>>
  PROVE  Base'
<1>1. PICK s \in Shapes, w \in {{}, {"WRITE"}} :
        handle' = [handle EXCEPT ![c] = [IonHandle("foreign", s, s, BufferSize(s)) EXCEPT
                                           !.lockState = {"MAPPED"} \union w, !.pid = "peer"]]
  BY DEF Receive
<1> DEFINE g == IonHandle("foreign", s, s, BufferSize(s))
           h == [g EXCEPT !.lockState = {"MAPPED"} \union w, !.pid = "peer"]
<1>2. s \in Shape /\ BufferSize(s) \in Nat
  BY ShapeAssumption, ShapeTypes
<1>3. g \in Handle /\ g.kind = "ION" /\ g.base = "foreign"
  BY <1>2, IonType
<1> HIDE DEF g
<1>4. h \in Handle /\ h.kind = "ION" /\ h.base = "foreign" /\ "UNREGISTERED" \notin h.lockState
  BY <1>3 DEF Handle, LockState
<1>5. handle' = [handle EXCEPT ![c] = h]
  BY <1>1 DEF g
<1> HIDE DEF h
<1>6. TypeOK /\ use' = [use EXCEPT ![c] = "received"] /\ "received" \in Use
      /\ ~InUse(c) /\ UNCHANGED <<mem, ionClient, threadVars>>
  BY DEF Base, Receive, Use
<1>7. /\ handle' \in [Cells -> Handle] /\ use' \in [Cells -> Use]
      /\ handle'[c] = h /\ use'[c] = "received"
      /\ \A d \in Cells : d # c => handle'[d] = handle[d] /\ use'[d] = use[d]
  BY <1>4, <1>5, <1>6, CellEffect
<1>8. TypeOK'
  BY <1>6, <1>7 DEF TypeOK, threadVars, screenVars, deviceVars
<1> QED BY <1>4, <1>6, <1>7, <1>8, BaseOfCell

LEMMA DeleteBase ==
  ASSUME Base, NEW c \in Cells, Delete(c), UNCHANGED <<screenVars, deviceVars>>
  PROVE  Base'
<1>1. TypeOK /\ use' = [use EXCEPT ![c] = "free"] /\ handle' = [handle EXCEPT ![c] = Freed]
      /\ "free" \in Use /\ ~InUse(c) /\ UNCHANGED <<mem, ionClient, threadVars>>
  BY DEF Base, Delete, Use
<1>2. /\ handle' \in [Cells -> Handle] /\ use' \in [Cells -> Use]
      /\ handle'[c] = Freed /\ use'[c] = "free"
      /\ \A d \in Cells : d # c => handle'[d] = handle[d] /\ use'[d] = use[d]
  BY <1>1, FreedType, CellEffect
<1>3. TypeOK'
  BY <1>1, <1>2 DEF TypeOK, threadVars, screenVars, deviceVars
<1> QED BY <1>1, <1>2, <1>3, FreedType, BaseOfCell

\* gralloc_register_buffer maps a buffer of its own, or fails.
LEMMA RegisterEffect ==
  ASSUME Base, NEW c \in Cells, Register(c)
  PROVE  /\ handle' \in [Cells -> Handle] /\ use' \in [Cells -> Use]
         /\ \A d \in Cells : d # c => handle'[d] = handle[d] /\ use'[d] = use[d]
         /\ MayRegister(c) /\ use'[c] \in Usable /\ SameBuffer(handle'[c], handle[c])
         /\ handle[c].kind = "ION" /\ handle'[c].kind = "ION"
         /\ handle'[c].lockState = handle[c].lockState \ {"UNREGISTERED"}
         /\ \E p \in FreePages : handle'[c].base = p /\ mem' = [mem EXCEPT ![p] = c]
         /\ ionClient' \in IonClient /\ UNCHANGED threadVars
<1>1. PICK p \in FreePages :
        /\ handle' = [handle EXCEPT ![c].pid = "own", ![c].base = p,
                                    ![c].lockState = @ \ {"UNREGISTERED"}]
        /\ mem' = [mem EXCEPT ![p] = c]
  BY DEF Register
<1> DEFINE g == handle[c]
           h == [g EXCEPT !.pid = "own", !.base = p, !.lockState = g.lockState \ {"UNREGISTERED"}]
           u == IF use[c] \in {"allocated", "retired"} THEN "allocated" ELSE "registered"
<1>2. TypeOK /\ MayRegister(c) /\ g \in Handle /\ g.kind = "ION" /\ p \in Pages
  BY <1>1 DEF Base, TypeOK, Register, MayRegister, FreePages
<1>3. /\ h \in Handle /\ h.kind = "ION" /\ h.base = p
      /\ h.lockState = g.lockState \ {"UNREGISTERED"} /\ SameBuffer(h, g)
  BY <1>2 DEF Handle, SameBuffer
<1>4. handle' = [handle EXCEPT ![c] = h]
  BY <1>1, <1>2 DEF TypeOK, Handle
<1>5. use' = [use EXCEPT ![c] = u] /\ u \in Use /\ u \in Usable
      /\ ionClient' \in IonClient /\ UNCHANGED threadVars
  BY <1>2 DEF Register, Use, Usable, IonClient, TypeOK
<1> HIDE DEF g, h, u
<1>6. /\ handle' \in [Cells -> Handle] /\ use' \in [Cells -> Use]
      /\ handle'[c] = h /\ use'[c] = u
      /\ \A d \in Cells : d # c => handle'[d] = handle[d] /\ use'[d] = use[d]
  BY <1>2, <1>3, <1>4, <1>5, CellEffect
<1> QED BY <1>1, <1>2, <1>3, <1>5, <1>6 DEF g

LEMMA RegisterFailsEffect ==
  ASSUME Base, NEW c \in Cells, RegisterFails(c)
  PROVE  /\ handle' \in [Cells -> Handle]
         /\ \A d \in Cells : d # c => handle'[d] = handle[d]
         /\ MayRegister(c) /\ SameBuffer(handle'[c], handle[c])
         /\ handle[c].kind = "ION" /\ handle'[c].kind = "ION" /\ handle'[c].base = handle[c].base
         /\ handle'[c].lockState = handle[c].lockState
         /\ ionClient' \in IonClient /\ UNCHANGED <<use, mem, threadVars>>
<1> DEFINE g == handle[c]
           h == [g EXCEPT !.pid = "own"]
<1>1. TypeOK /\ MayRegister(c) /\ g \in Handle /\ g.kind = "ION"
  BY DEF Base, TypeOK, RegisterFails, MayRegister
<1>2. /\ h \in Handle /\ h.kind = "ION" /\ h.base = g.base
      /\ h.lockState = g.lockState /\ SameBuffer(h, g)
  BY <1>1 DEF Handle, SameBuffer
<1>3. handle' = [handle EXCEPT ![c] = h]
  BY <1>1 DEF RegisterFails, TypeOK, Handle
<1> HIDE DEF g, h
<1>4. /\ handle' \in [Cells -> Handle] /\ handle'[c] = h
      /\ \A d \in Cells : d # c => handle'[d] = handle[d]
  BY <1>1, <1>2, <1>3 DEF TypeOK
<1> QED BY <1>1, <1>2, <1>4 DEF RegisterFails, IonClient, TypeOK, g

LEMMA RegisterBase ==
  ASSUME Base, NEW c \in Cells, Register(c), UNCHANGED <<screenVars, deviceVars>>
  PROVE  Base'
<1>1. PICK p \in FreePages : handle'[c].base = p /\ mem' = [mem EXCEPT ![p] = c]
  BY RegisterEffect
<1>2. p \in Pages /\ p # "foreign" /\ ~Posting(c) /\ use[c] # "free"
      /\ use'[c] \in Usable /\ "received" \notin Usable /\ "free" \notin Usable
  BY <1>1, RegisterEffect DEF FreePages, MayRegister, Usable
<1>3. TypeOK'
  BY <1>1, <1>2, RegisterEffect, MemEffect DEF Base, TypeOK, threadVars, screenVars, deviceVars
<1>4. Handles'
  BY <1>1, <1>2, RegisterEffect DEF Base, Handles
<1> QED BY <1>2, <1>3, <1>4, RegisterEffect, BaseOfUse

LEMMA RegisterFailsBase ==
  ASSUME Base, NEW c \in Cells, RegisterFails(c), UNCHANGED <<screenVars, deviceVars>>
  PROVE  Base'
<1>1. TypeOK' /\ ~Posting(c) /\ use[c] # "free"
  BY RegisterFailsEffect DEF Base, TypeOK, threadVars, screenVars, deviceVars, MayRegister
<1>2. Handles'
  BY <1>1, RegisterFailsEffect, HandlesKept DEF SameBuffer
<1> QED BY <1>1, <1>2, RegisterFailsEffect, BaseOfUse

\* gralloc_unregister_buffer unmaps a buffer, or leaves that to the unlock.
LEMMA UnregisterEffect ==
  ASSUME Base, NEW c \in Cells, Unregister(c)
  PROVE  /\ handle' \in [Cells -> Handle] /\ use' \in [Cells -> Use]
         /\ mem' \in [Pages -> Cells \union {"none"}]
         /\ \A d \in Cells : d # c => handle'[d] = handle[d] /\ use'[d] = use[d]
         /\ use[c] \in Usable /\ use'[c] \in Dropped /\ SameBuffer(handle'[c], handle[c])
         /\ handle[c].kind = "ION" /\ handle[c].base # "foreign"
         /\ \/ /\ "WRITE" \in handle[c].lockState /\ mem' = mem
               /\ handle'[c].base = handle[c].base
               /\ handle'[c].lockState = (handle[c].lockState \ {"MAPPED"}) \union {"UNREGISTERED"}
            \/ /\ "WRITE" \notin handle[c].lockState
               /\ \A p \in Pages : mem'[p] = IF p = handle[c].base THEN "none" ELSE mem[p]
               /\ handle'[c].base = "null" /\ handle'[c].lockState = {"UNREGISTERED"}
         /\ ~Posting(c) /\ UNCHANGED <<ionClient, threadVars>>
<1> DEFINE g == handle[c]
           u == IF use[c] = "allocated" THEN "retired" ELSE "unregistered"
<1>1. TypeOK /\ g \in Handle /\ g.kind = "ION" /\ g.base # "foreign" /\ use[c] \in Usable
      /\ ~Posting(c) /\ UNCHANGED <<ionClient, threadVars>>
  BY DEF Base, TypeOK, Handles, Unregister, Usable
<1>2. use' = [use EXCEPT ![c] = u] /\ u \in Use /\ u \in Dropped
  BY <1>1 DEF Unregister, Use, Dropped, TypeOK
<1> HIDE DEF u
<1>3. CASE "WRITE" \in g.lockState
  <2> DEFINE l == (g.lockState \ {"MAPPED"}) \union {"UNREGISTERED"}
             h == [g EXCEPT !.lockState = l]
  <2>1. l \in SUBSET LockState
    BY <1>1 DEF Handle, LockState
  <2>2. handle' = [handle EXCEPT ![c] = h] /\ mem' = mem
    BY <1>1, <1>3 DEF Unregister, TypeOK
  <2> HIDE DEF l
  <2>3. h \in Handle /\ SameBuffer(h, g) /\ h.base = g.base /\ h.lockState = l
    BY <1>1, <2>1 DEF Handle, SameBuffer
  <2> HIDE DEF h
  <2>4. /\ handle' \in [Cells -> Handle] /\ use' \in [Cells -> Use]
        /\ handle'[c] = h /\ use'[c] = u
        /\ \A d \in Cells : d # c => handle'[d] = handle[d] /\ use'[d] = use[d]
    BY <1>1, <1>2, <2>2, <2>3, CellEffect
  <2>5. mem' \in [Pages -> Cells \union {"none"}]
    BY <1>1, <2>2 DEF TypeOK
  <2> QED BY <1>1, <1>2, <1>3, <2>2, <2>3, <2>4, <2>5 DEF l
<1>4. CASE "WRITE" \notin g.lockState
  <2> DEFINE h == [Unmapped(g) EXCEPT !.lockState = {"UNREGISTERED"}]
  <2>1. handle' = [handle EXCEPT ![c] = h] /\ mem' = Without(g)
    BY <1>1, <1>4 DEF Unregister, TypeOK
  <2>2. h \in Handle /\ SameBuffer(h, g) /\ h.base = "null" /\ h.lockState = {"UNREGISTERED"}
    BY <1>1, UnmappedEffect DEF LockState
  <2> HIDE DEF h
  <2>3. /\ handle' \in [Cells -> Handle] /\ use' \in [Cells -> Use]
        /\ handle'[c] = h /\ use'[c] = u
        /\ \A d \in Cells : d # c => handle'[d] = handle[d] /\ use'[d] = use[d]
    BY <1>1, <1>2, <2>1, <2>2, CellEffect
  <2>4. /\ mem' \in [Pages -> Cells \union {"none"}]
        /\ \A p \in Pages : mem'[p] = IF p = g.base THEN "none" ELSE mem[p]
    BY <1>1, <2>1, WithoutEffect
  <2> QED BY <1>1, <1>2, <1>4, <2>2, <2>3, <2>4
<1> QED BY <1>3, <1>4

\* The buffer keeps its kind, so that the threads keep their work.
LEMMA UnregisterBase ==
  ASSUME Base, NEW c \in Cells, Unregister(c), UNCHANGED <<screenVars, deviceVars>>
  PROVE  Base'
<1>1. UNCHANGED <<ionClient, threadVars>> /\ ~Posting(c) /\ handle[c].kind = "ION" /\ use[c] \in Usable
      /\ use'[c] \in Dropped /\ handle'[c].kind = "ION" /\ handle'[c].base # "foreign"
      /\ \A d \in Cells : d # c => handle'[d] = handle[d] /\ use'[d] = use[d]
  BY UnregisterEffect DEF SameBuffer
<1>2. TypeOK'
  BY UnregisterEffect DEF Base, TypeOK, threadVars, screenVars, deviceVars
<1>3. Handles'
  BY <1>1 DEF Base, Handles, Dropped
<1>4. use[c] # "free"
  BY <1>1 DEF Usable
<1> QED BY <1>1, <1>2, <1>3, <1>4, BaseOfUse

LEMMA FreeIonBase ==
  ASSUME Base, NEW c \in Cells, FreeIon(c)
  PROVE  Base'
<1>1. /\ TypeOK /\ use' = [use EXCEPT ![c] = "free"] /\ handle' = [handle EXCEPT ![c] = Freed]
      /\ mem' = Without(handle[c]) /\ "free" \in Use /\ ~InUse(c)
      /\ UNCHANGED <<ionClient, threadVars, screenVars, deviceVars>>
  BY DEF Base, FreeIon, MayFree, Use
<1>2. /\ handle' \in [Cells -> Handle] /\ use' \in [Cells -> Use]
      /\ handle'[c] = Freed /\ use'[c] = "free"
      /\ \A d \in Cells : d # c => handle'[d] = handle[d] /\ use'[d] = use[d]
  BY <1>1, FreedType, CellEffect
<1>3. TypeOK'
  BY <1>1, <1>2, WithoutEffect DEF TypeOK, threadVars, screenVars, deviceVars
<1> QED BY <1>1, <1>2, <1>3, FreedType, BaseOfCell

\* A buffer of its own is made, whatever it is for.
LEMMA AllocIonBase ==
  ASSUME Base, NEW c \in Cells, NEW s \in Shape, NEW a \in Shape, NEW n \in Nat, AllocIon(c, s, a, n),
         UNCHANGED <<ionClient, threadVars, currentBuffer, deviceVars>>,
         numBuffers' \in 0 .. NumSlots, bufferMask' \subseteq Slots
  PROVE  /\ Base'
         /\ \E p \in FreePages : handle'[c] = IonHandle(p, s, a, n) /\ mem' = [mem EXCEPT ![p] = c]
         /\ use'[c] = "allocated"
         /\ \A d \in Cells : d # c => handle'[d] = handle[d] /\ use'[d] = use[d]
<1>1. PICK p \in FreePages : /\ handle' = [handle EXCEPT ![c] = IonHandle(p, s, a, n)]
                             /\ mem' = [mem EXCEPT ![p] = c]
  BY DEF AllocIon
<1> DEFINE h == IonHandle(p, s, a, n)
<1>2. h \in Handle /\ h.kind = "ION" /\ h.base = p /\ p \in Pages /\ p # "foreign"
  BY <1>1, IonType DEF FreePages
<1>3. /\ TypeOK /\ use' = [use EXCEPT ![c] = "allocated"] /\ "allocated" \in Use /\ ~InUse(c)
  BY DEF Base, AllocIon, Use
<1>4. handle' = [handle EXCEPT ![c] = h]
  BY <1>1
<1> HIDE DEF h
<1>5. /\ handle' \in [Cells -> Handle] /\ use' \in [Cells -> Use]
      /\ handle'[c] = h /\ use'[c] = "allocated"
      /\ \A d \in Cells : d # c => handle'[d] = handle[d] /\ use'[d] = use[d]
  BY <1>2, <1>3, <1>4, CellEffect
<1>6. TypeOK'
  BY <1>1, <1>2, <1>3, <1>5, MemEffect DEF TypeOK, threadVars, deviceVars
<1>7. UNCHANGED threadVars
  OBVIOUS
<1>8. Base'
  BY <1>2, <1>3, <1>5, <1>6, <1>7, BaseOfCell
<1> QED BY <1>1, <1>5, <1>8 DEF h

LEMMA AllocBufferBase ==
  ASSUME Base, NEW c \in Cells, NEW s \in Shapes, AllocBuffer(c, s)
  PROVE  Base'
<1>1. s \in Shape /\ BufferSize(s) \in Nat /\ AllocIon(c, s, s, BufferSize(s))
      /\ UNCHANGED <<ionClient, threadVars, currentBuffer, deviceVars>>
      /\ numBuffers' = numBuffers /\ bufferMask' = bufferMask
  BY ShapeAssumption, ShapeTypes DEF AllocBuffer, screenVars
<1>2. numBuffers' \in 0 .. NumSlots /\ bufferMask' \subseteq Slots
  BY <1>1 DEF Base, TypeOK
<1> QED BY <1>1, <1>2, AllocIonBase

LEMMA AllocSingleBase ==
  ASSUME Base, NEW c \in Cells, NEW s \in ScreenShapes, AllocSingle(c, s)
  PROVE  Base'
<1>1. s \in Shape /\ OnScreen(s) \in Shape /\ ScreenSize \in Nat /\ AllocIon(c, OnScreen(s), s, ScreenSize)
      /\ UNCHANGED <<ionClient, threadVars, currentBuffer, deviceVars>>
  BY DeviceAssumption, ScreenTypes DEF AllocSingle
<1>2. numBuffers' \in 0 .. NumSlots /\ bufferMask' \subseteq Slots
  <2>1. (numBuffers' = 1 /\ bufferMask' = {}) \/ UNCHANGED <<numBuffers, bufferMask>>
    BY DEF AllocSingle, MapScreen
  <2> QED BY <2>1, SlotAssumption DEF Base, TypeOK
<1> QED BY <1>1, <1>2, AllocIonBase

LEMMA DeviceBase ==
  ASSUME Base, OpenDevice \/ CloseDevice \/ OpenFramebuffer
  PROVE  Base'
<1>1. UNCHANGED <<handle, use, threadVars, mem, currentBuffer, slot, seen>> /\ TypeOK
  BY DEF OpenDevice, CloseDevice, OpenFramebuffer, handleVars, screenVars, Base
<1>2. ionClient' \in IonClient /\ opened' \in 0 .. MaxDevices
  BY <1>1, DeviceAssumption DEF OpenDevice, CloseDevice, OpenFramebuffer, IonClient, TypeOK
<1>3. numBuffers' \in 0 .. NumSlots /\ bufferMask' \subseteq Slots
  <2>1. CASE OpenDevice \/ CloseDevice
    BY <1>1, <2>1 DEF OpenDevice, CloseDevice, screenVars, TypeOK
  <2>2. CASE OpenFramebuffer
    BY <2>2, SlotAssumption DEF OpenFramebuffer, MapScreen, NumBuffers
  <2> QED BY <2>1, <2>2
<1>4. TypeOK'
  BY <1>1, <1>2, <1>3 DEF TypeOK, threadVars
<1> QED BY <1>1, <1>4, BaseOfDevice

\* A handle nobody works on is locked by a thread that has no lock.
LEMMA LockBase ==
  ASSUME Base, NEW t \in Threads, NEW c \in Cells, Asks(t, c), SetWrite(c),
         held' = [held EXCEPT ![t] = c], At(t, "read", c) \/ Return(t),
         UNCHANGED <<use, mem, ionClient, addr, screenVars, deviceVars>>
  PROVE  Base'
<1>1. TypeOK /\ pc[t] = "idle" /\ held[t] = "none" /\ use[c] \in Usable \union Dropped
      /\ \A u \in Threads : pc[u] # "idle" => cell[u] # c
  BY DEF Base, Asks, InUse, Busy
<1>2. /\ handle' \in [Cells -> Handle]
      /\ \A d \in Cells : d # c => handle'[d] = handle[d]
      /\ handle'[c].kind = handle[c].kind /\ handle'[c].base = handle[c].base
      /\ handle'[c].lockState = handle[c].lockState \union {"WRITE"}
  BY <1>1, SetWriteEffect DEF SameBuffer
<1>3. /\ held' \in [Threads -> Cells \union {"none"}] /\ held'[t] = c
      /\ \A u \in Threads : u # t => held'[u] = held[u]
  BY <1>1, HeldEffect
<1>4. /\ pc' \in [Threads -> ThreadPc] /\ cell' \in [Threads -> Cells \union {"none"}]
      /\ (pc'[t] = "read" /\ cell'[t] = c) \/ pc'[t] = "idle"
      /\ \A u \in Threads : u # t => pc'[u] = pc[u] /\ cell'[u] = cell[u]
  <2>1. CASE At(t, "read", c)
    BY <1>1, <2>1, AtEffect DEF ThreadPc
  <2>2. CASE Return(t)
    BY <1>1, <2>2, AtEffect DEF ThreadPc, Return
  <2> QED BY <2>1, <2>2
<1>5. TypeOK'
  BY <1>1, <1>2, <1>3, <1>4 DEF TypeOK, screenVars, deviceVars
<1>6. Handles'
  BY <1>1, <1>2, HandlesKept DEF Usable, Dropped
<1>7. WorkOf(t)'
  BY <1>1, <1>3, <1>4, CellAssumption DEF WorkOf, Base, Work, Usable, Dropped
<1> QED BY <1>1, <1>2, <1>3, <1>4, <1>5, <1>6, <1>7, BaseOfThread

\* The state of a lock changes and nothing else.
LEMMA BaseOfState ==
  ASSUME Base, TypeOK', Handles', UNCHANGED threadVars,
         \A d \in Cells : use'[d] = use[d] /\ handle'[d].kind = handle[d].kind
  PROVE  Base'
<1>1. HasCell' /\ CellsApart' /\ Apart'
  BY DEF Base, HasCell, CellsApart, Apart, threadVars
<1>2. Work'
  <2> SUFFICES ASSUME NEW u \in Threads
               PROVE  WorkOf(u)'
    BY DEF Work
  <2>1. WorkOf(u) /\ pc'[u] = pc[u] /\ cell'[u] = cell[u] /\ held'[u] = held[u] /\ addr'[u] = addr[u]
    BY DEF Base, Work, threadVars
  <2>2. /\ pc[u] # "idle" => handle'[cell[u]].kind = handle[cell[u]].kind /\ use'[cell[u]] = use[cell[u]]
        /\ held[u] # "none" => use'[held[u]] = use[held[u]]
    BY DEF Base, HasCell, TypeOK
  <2> QED BY <2>1, <2>2 DEF WorkOf
<1> QED BY <1>1, <1>2 DEF Base

LEMMA LockYcbcrBase ==
  ASSUME Base, NEW t \in Threads, NEW c \in Cells, LockYcbcr(t, c), UNCHANGED <<screenVars, deviceVars>>
  PROVE  Base'
<1>1. Asks(t, c) /\ SetWrite(c) /\ UNCHANGED <<use, mem, ionClient, addr, screenVars, deviceVars>>
  BY DEF LockYcbcr
<1>2. CASE handle[c].shape.format \in Planar
  BY <1>1, <1>2, LockBase DEF LockYcbcr
<1>3. CASE handle[c].shape.format \notin Planar
  <2>1. UNCHANGED threadVars /\ TypeOK /\ use[c] \in Usable \union Dropped
    BY <1>1, <1>3 DEF LockYcbcr, threadVars, Base, Asks
  <2>2. /\ handle' \in [Cells -> Handle]
        /\ \A d \in Cells : d # c => handle'[d] = handle[d]
        /\ handle'[c].kind = handle[c].kind /\ handle'[c].base = handle[c].base
        /\ handle'[c].lockState = handle[c].lockState \union {"WRITE"}
    BY <1>1, <2>1, SetWriteEffect DEF SameBuffer
  <2>3. TypeOK'
    BY <1>1, <2>1, <2>2 DEF TypeOK, threadVars, screenVars, deviceVars
  <2>4. Handles'
    BY <1>1, <2>1, <2>2, HandlesKept DEF Usable, Dropped
  <2> QED BY <1>1, <2>1, <2>2, <2>3, <2>4, BaseOfState
<1> QED BY <1>2, <1>3

LEMMA AddressType ==
  ASSUME TypeOK, NEW c \in Cells
  PROVE  Address(handle[c]) \in Pages \union {"null", "foreign", "screen"}
BY DEF TypeOK, Handle, Address

LEMMA ReadBaseBase ==
  ASSUME Base, NEW t \in Threads, ReadBase(t), UNCHANGED <<screenVars, deviceVars>>
  PROVE  Base'
<1>1. TypeOK /\ cell[t] \in Cells /\ UNCHANGED <<handle, use, mem, ionClient, held>> /\ held[t] = cell[t]
  BY DEF Base, HasCell, ReadBase, handleVars, Work, WorkOf
<1>2. /\ addr' \in [Threads -> Pages \union {"null", "foreign", "screen", "none"}]
      /\ \A u \in Threads : u # t => addr'[u] = addr[u]
  BY <1>1, AddressType, AddrEffect DEF ReadBase
<1>3. /\ pc' \in [Threads -> ThreadPc] /\ cell' \in [Threads -> Cells \union {"none"}]
      /\ pc'[t] = "idle"
      /\ \A u \in Threads : u # t => pc'[u] = pc[u] /\ cell'[u] = cell[u]
  BY <1>1, AtEffect DEF ReadBase, Return, ThreadPc
<1>4. TypeOK'
  BY <1>1, <1>2, <1>3 DEF TypeOK, screenVars, deviceVars
<1>5. Handles'
  BY <1>1 DEF Base, Handles
<1>6. WorkOf(t)'
  BY <1>1, <1>3, CellAssumption DEF WorkOf, Base, Work
<1>7. \A u \in Threads : u # t /\ pc[u] \notin {"idle", "read", "readCopy", "copy"} => held'[t] # cell[u]
  BY <1>1 DEF Base, Apart
<1> QED BY <1>1, <1>2, <1>3, <1>4, <1>5, <1>6, <1>7, BaseOfThread

\* What gralloc_unlock leaves of the handles.
LEMMA HandlesUnlocked ==
  ASSUME Base, NEW c \in Cells, UnlockHandle(c), use' = use, use[c] # "free"
  PROVE  Handles' /\ \A d \in Cells : handle'[d].kind = handle[d].kind
<1>1. /\ \A d \in Cells : d # c => handle'[d] = handle[d]
      /\ SameBuffer(handle'[c], handle[c])
      /\ \/ /\ "UNREGISTERED" \in handle[c].lockState
            /\ handle'[c].base = "null" /\ handle'[c].lockState = {}
         \/ handle'[c].base = handle[c].base /\ handle'[c].lockState = handle[c].lockState \ {"WRITE"}
  BY UnlockEffect DEF Base
<1>2. "UNREGISTERED" \in handle[c].lockState => handle[c].base # "foreign"
  BY DEF Base, Handles
<1> QED BY <1>1, <1>2, HandlesKept DEF SameBuffer

\* A thread lets go of its lock.
LEMMA LetGoEffect ==
  ASSUME TypeOK, NEW t \in Threads, LetGo(t)
  PROVE  /\ held' \in [Threads -> Cells \union {"none"}] /\ held'[t] = "none"
         /\ addr' \in [Threads -> Pages \union {"null", "foreign", "screen", "none"}] /\ addr'[t] = "none"
         /\ \A u \in Threads : u # t => held'[u] = held[u] /\ addr'[u] = addr[u]
BY HeldEffect, AddrEffect DEF LetGo

LEMMA UnlockBase ==
  ASSUME Base, NEW t \in Threads, Unlock(t), UNCHANGED <<screenVars, deviceVars>>
  PROVE  Base'
<1>1. TypeOK /\ held[t] \in Cells /\ use[held[t]] # "free"
      /\ UnlockHandle(held[t]) /\ LetGo(t) /\ pc[t] = "idle"
      /\ UNCHANGED <<use, ionClient, pc, cell, screenVars, deviceVars>>
  BY DEF Base, TypeOK, Work, WorkOf, Unlock, Usable, Dropped
<1>2. handle' \in [Cells -> Handle] /\ mem' \in [Pages -> Cells \union {"none"}]
  BY <1>1, UnlockEffect
<1>3. Handles' /\ \A d \in Cells : handle'[d].kind = handle[d].kind
  BY <1>1, HandlesUnlocked
<1>4. /\ held' \in [Threads -> Cells \union {"none"}] /\ held'[t] = "none"
      /\ addr' \in [Threads -> Pages \union {"null", "foreign", "screen", "none"}] /\ addr'[t] = "none"
      /\ \A u \in Threads : u # t => held'[u] = held[u] /\ addr'[u] = addr[u]
  BY <1>1, LetGoEffect
<1>5. TypeOK'
  BY <1>1, <1>2, <1>4 DEF TypeOK, screenVars, deviceVars
<1>6. WorkOf(t)'
  BY <1>1, <1>4 DEF WorkOf
<1>7. \A u \in Threads : u # t /\ pc[u] \notin {"idle", "read", "readCopy", "copy"} => held'[t] # cell[u]
  BY <1>4, CellAssumption DEF Base, HasCell
<1> QED BY <1>1, <1>3, <1>4, <1>5, <1>6, <1>7, BaseOfThread

LEMMA PostBase ==
  ASSUME Base, NEW c \in Cells, Post(c), UNCHANGED deviceVars
  PROVE  Base'
<1> DEFINE where == IF handle[c].kind = "FRAMEBUFFER" THEN "lockFlip" ELSE "lockCopy"
<1>1. /\ TypeOK /\ pc[Poster] = "idle" /\ held[Poster] = "none" /\ use[c] \in Usable /\ ~InUse(c)
      /\ At(Poster, where, c) /\ where \in ThreadPc
      /\ UNCHANGED <<use, ionClient, held, addr, numBuffers, bufferMask, deviceVars>> /\ currentBuffer' = "none"
  BY DEF Post, Base, ThreadPc
<1>2. /\ handle' \in [Cells -> Handle] /\ mem' \in [Pages -> Cells \union {"none"}]
      /\ Handles' /\ \A d \in Cells : handle'[d].kind = handle[d].kind
  <2>1. CASE currentBuffer # "none" /\ use[currentBuffer] # "free"
    <3>1. currentBuffer \in Cells /\ UnlockHandle(currentBuffer)
      BY <1>1, <2>1 DEF Post, TypeOK
    <3> QED BY <1>1, <2>1, <3>1, UnlockEffect, HandlesUnlocked
  <2>2. CASE ~(currentBuffer # "none" /\ use[currentBuffer] # "free")
    <3>1. UNCHANGED <<handle, mem>>
      BY <2>2 DEF Post
    <3> QED BY <1>1, <3>1 DEF TypeOK, Base, Handles
  <2> QED BY <2>1, <2>2
<1>3. /\ pc' \in [Threads -> ThreadPc] /\ cell' \in [Threads -> Cells \union {"none"}]
      /\ pc'[Poster] = where /\ cell'[Poster] = c
      /\ \A u \in Threads : u # Poster => pc'[u] = pc[u] /\ cell'[u] = cell[u]
  BY <1>1, AtEffect
<1>4. TypeOK'
  BY <1>1, <1>2, <1>3 DEF TypeOK, deviceVars
<1>5. handle[c].kind \in {"ION", "FRAMEBUFFER"}
  BY <1>1 DEF TypeOK, Handle
<1>6. WorkOf(Poster)'
  BY <1>1, <1>2, <1>3, <1>5 DEF WorkOf, Base, Work
<1>7. \A u \in Threads : held[u] # c /\ (pc[u] # "idle" => cell[u] # c)
  BY <1>1 DEF InUse, Busy
<1>8. \A u \in Threads : u # Poster /\ pc[u] \notin {"idle", "read", "readCopy", "copy"} => held'[Poster] # cell[u]
  BY <1>1, CellAssumption DEF Base, HasCell
<1> QED BY <1>1, <1>2, <1>3, <1>4, <1>6, <1>7, <1>8, BaseOfThread

\* The poster goes on with its handle, whose lock it has set or not.
LEMMA BaseOfPoster ==
  ASSUME Base, NEW c \in Cells, c = cell[Poster],
         pc[Poster] \in {"lockFlip", "lockCopy", "readCopy"},
         SetWrite(c) \/ handle' = handle,
         NEW where \in {"flip", "readCopy", "copy"}, At(Poster, where, c),
         NEW k \in Cells \union {"none"}, held' = [held EXCEPT ![Poster] = k], k \in {"none", c},
         where = "flip" => pc[Poster] = "lockFlip" /\ k = "none",
         addr' \in [Threads -> Pages \union {"null", "foreign", "screen", "none"}],
         \A u \in Threads : u # Poster => addr'[u] = addr[u],
         WorkOf(Poster)',
         UNCHANGED <<use, mem, ionClient, screenVars, deviceVars>>
  PROVE  Base'
<1>1. TypeOK /\ use[c] \in Usable
  BY DEF Base, Work, WorkOf, Handles, Usable
<1>2. /\ handle' \in [Cells -> Handle]
      /\ \A d \in Cells : /\ handle'[d].kind = handle[d].kind /\ handle'[d].base = handle[d].base
                          /\ handle'[d].lockState \subseteq handle[d].lockState \union {"WRITE"}
                          /\ d # c => handle'[d] = handle[d]
  <2>1. CASE SetWrite(c)
    BY <1>1, <2>1, SetWriteEffect DEF SameBuffer
  <2>2. CASE handle' = handle
    BY <1>1, <2>2 DEF TypeOK
  <2> QED BY <2>1, <2>2
<1>3. Handles'
  BY <1>1, <1>2, HandlesKept DEF Usable
<1>4. /\ pc' \in [Threads -> ThreadPc] /\ cell' \in [Threads -> Cells \union {"none"}]
      /\ pc'[Poster] = where /\ cell'[Poster] = c
      /\ \A u \in Threads : u # Poster => pc'[u] = pc[u] /\ cell'[u] = cell[u]
  BY <1>1, AtEffect DEF ThreadPc
<1>5. /\ held' \in [Threads -> Cells \union {"none"}] /\ held'[Poster] = k
      /\ \A u \in Threads : u # Poster => held'[u] = held[u]
  BY <1>1, HeldEffect
<1>6. TypeOK'
  BY <1>1, <1>2, <1>4, <1>5 DEF TypeOK, screenVars, deviceVars
<1>7. \A u \in Threads : u # Poster /\ pc[u] # "idle" => cell[u] \in Cells /\ cell[u] # c
  BY DEF Base, CellsApart, HasCell
<1>8. where \notin {"idle", "read", "readCopy", "copy"} => \A u \in Threads : held'[u] # c
  BY <1>5, CellAssumption DEF Base, Apart
<1> QED BY <1>1, <1>2, <1>3, <1>4, <1>5, <1>6, <1>7, <1>8, CellAssumption, BaseOfThread

LEMMA PostLockBase ==
  ASSUME Base, PostLock, UNCHANGED deviceVars
  PROVE  Base'
<1>1. /\ pc[Poster] = "lockFlip" /\ cell[Poster] \in Cells /\ SetWrite(cell[Poster])
      /\ At(Poster, "flip", cell[Poster])
      /\ UNCHANGED <<use, mem, ionClient, held, addr, screenVars, deviceVars>>
  BY DEF PostLock, PostIn, Posted, Base, HasCell
<1>2. /\ TypeOK /\ held[Poster] = "none" /\ addr[Poster] = "none"
      /\ handle[cell[Poster]].kind = "FRAMEBUFFER"
  BY <1>1 DEF Base, Work, WorkOf
<1>3. held' = [held EXCEPT ![Poster] = "none"]
  BY <1>1, <1>2 DEF TypeOK
<1>4. pc'[Poster] = "flip" /\ cell'[Poster] = cell[Poster] /\ "flip" \in ThreadPc
  BY <1>1, <1>2, AtEffect DEF ThreadPc
<1>5. handle'[cell[Poster]].kind = "FRAMEBUFFER"
  BY <1>1, <1>2, SetWriteEffect DEF SameBuffer
<1>6. WorkOf(Poster)'
  BY <1>1, <1>2, <1>4, <1>5 DEF WorkOf
<1>7. addr' \in [Threads -> Pages \union {"null", "foreign", "screen", "none"}]
  BY <1>1, <1>2 DEF TypeOK
<1> QED BY <1>1, <1>3, <1>6, <1>7, BaseOfPoster

LEMMA CopyLockBase ==
  ASSUME Base, CopyLock, UNCHANGED deviceVars
  PROVE  Base'
<1>1. /\ pc[Poster] = "lockCopy" /\ cell[Poster] \in Cells /\ SetWrite(cell[Poster])
      /\ At(Poster, "readCopy", cell[Poster]) /\ held' = [held EXCEPT ![Poster] = cell[Poster]]
      /\ UNCHANGED <<use, mem, ionClient, addr, screenVars, deviceVars>>
  BY DEF CopyLock, PostIn, Posted, Base, HasCell
<1>2. /\ TypeOK /\ handle[cell[Poster]].kind = "ION" /\ use[cell[Poster]] \in Usable
  BY <1>1 DEF Base, Work, WorkOf
<1>3. pc'[Poster] = "readCopy" /\ cell'[Poster] = cell[Poster] /\ held'[Poster] = cell[Poster]
  <2>1. held'[Poster] = cell[Poster]
    BY <1>1, <1>2 DEF TypeOK
  <2> QED BY <1>1, <1>2, <2>1, AtEffect DEF ThreadPc
<1>4. handle'[cell[Poster]].kind = "ION"
  BY <1>1, <1>2, SetWriteEffect DEF SameBuffer
<1>5. WorkOf(Poster)'
  BY <1>1, <1>2, <1>3, <1>4, CellAssumption DEF WorkOf
<1>6. addr' \in [Threads -> Pages \union {"null", "foreign", "screen", "none"}]
  BY <1>1, <1>2 DEF TypeOK
<1> QED BY <1>1, <1>5, <1>6, BaseOfPoster

LEMMA CopyReadBase ==
  ASSUME Base, CopyRead, UNCHANGED deviceVars
  PROVE  Base'
<1>1. /\ pc[Poster] = "readCopy" /\ cell[Poster] \in Cells
      /\ At(Poster, "copy", cell[Poster])
      /\ addr' = [addr EXCEPT ![Poster] = Address(handle[cell[Poster]])]
      /\ UNCHANGED <<handle, use, mem, ionClient, held, screenVars, deviceVars>>
  BY DEF CopyRead, PostIn, Posted, Base, HasCell, handleVars
<1>2. /\ TypeOK /\ handle[cell[Poster]].kind = "ION" /\ use[cell[Poster]] \in Usable
      /\ held[Poster] = cell[Poster]
  BY <1>1 DEF Base, Work, WorkOf
<1>3. pc'[Poster] = "copy" /\ cell'[Poster] = cell[Poster]
  BY <1>1, <1>2, AtEffect DEF ThreadPc
<1>4. WorkOf(Poster)'
  BY <1>1, <1>2, <1>3, CellAssumption DEF WorkOf
<1>5. /\ addr' \in [Threads -> Pages \union {"null", "foreign", "screen", "none"}]
      /\ \A u \in Threads : u # Poster => addr'[u] = addr[u]
  BY <1>1, <1>2, AddressType, AddrEffect
<1>6. held' = [held EXCEPT ![Poster] = cell[Poster]]
  BY <1>1, <1>2 DEF TypeOK
<1> QED BY <1>1, <1>4, <1>5, <1>6, BaseOfPoster

\* The poster ends with or without an unlock of its handle.
LEMMA BaseOfPosterReturn ==
  ASSUME Base, pc[Poster] \in {"flip", "copy"}, Return(Poster),
         UnlockHandle(cell[Poster]) \/ UNCHANGED <<handle, mem>>,
         LetGo(Poster) \/ UNCHANGED <<held, addr>>, pc[Poster] = "copy" => LetGo(Poster),
         UNCHANGED <<use, ionClient, numBuffers, bufferMask, deviceVars>>,
         currentBuffer' \in Cells \union {"none"}
  PROVE  Base'
<1>1. TypeOK /\ cell[Poster] \in Cells /\ use[cell[Poster]] # "free"
  BY DEF Base, HasCell, Work, WorkOf, Handles, Usable
<1>2. /\ handle' \in [Cells -> Handle] /\ mem' \in [Pages -> Cells \union {"none"}]
      /\ Handles' /\ \A d \in Cells : handle'[d].kind = handle[d].kind
  <2>1. CASE UnlockHandle(cell[Poster])
    BY <1>1, <2>1, UnlockEffect, HandlesUnlocked
  <2>2. CASE UNCHANGED <<handle, mem>>
    BY <1>1, <2>2 DEF TypeOK, Base, Handles
  <2> QED BY <2>1, <2>2
<1>3. /\ pc' \in [Threads -> ThreadPc] /\ cell' \in [Threads -> Cells \union {"none"}]
      /\ pc'[Poster] = "idle"
      /\ \A u \in Threads : u # Poster => pc'[u] = pc[u] /\ cell'[u] = cell[u]
  BY <1>1, AtEffect DEF Return, ThreadPc
<1>4. pc[Poster] = "flip" => held[Poster] = "none" /\ addr[Poster] = "none"
  BY DEF Base, Work, WorkOf
<1>5. /\ held' \in [Threads -> Cells \union {"none"}] /\ held'[Poster] = "none"
      /\ addr' \in [Threads -> Pages \union {"null", "foreign", "screen", "none"}] /\ addr'[Poster] = "none"
      /\ \A u \in Threads : u # Poster => held'[u] = held[u] /\ addr'[u] = addr[u]
  <2>1. CASE LetGo(Poster)
    BY <1>1, <2>1, LetGoEffect
  <2>2. CASE UNCHANGED <<held, addr>> /\ pc[Poster] = "flip"
    BY <1>1, <1>4, <2>2 DEF TypeOK
  <2> QED BY <2>1, <2>2
<1>6. TypeOK'
  BY <1>1, <1>2, <1>3, <1>5 DEF TypeOK, deviceVars
<1>7. WorkOf(Poster)'
  BY <1>3, <1>5 DEF WorkOf
<1>8. \A u \in Threads : u # Poster /\ pc[u] \notin {"idle", "read", "readCopy", "copy"} => held'[Poster] # cell[u]
  BY <1>5, CellAssumption DEF Base, HasCell
<1> QED BY <1>2, <1>3, <1>5, <1>6, <1>7, <1>8, BaseOfThread

LEMMA FlipBase ==
  ASSUME Base, Flip, UNCHANGED deviceVars
  PROVE  Base'
<1>1. /\ pc[Poster] = "flip" /\ Return(Poster)
      /\ UnlockHandle(cell[Poster]) \/ UNCHANGED <<handle, mem>>
      /\ UNCHANGED <<use, ionClient, held, addr, numBuffers, bufferMask, deviceVars>>
      /\ currentBuffer' = cell[Poster] \/ currentBuffer' = currentBuffer
  BY DEF Flip, PostIn, Posted
<1>2. currentBuffer' \in Cells \union {"none"}
  BY <1>1 DEF Base, TypeOK, HasCell
<1> QED BY <1>1, <1>2, BaseOfPosterReturn

LEMMA CopyBase ==
  ASSUME Base, Copy, UNCHANGED deviceVars
  PROVE  Base'
<1>1. /\ pc[Poster] = "copy" /\ Return(Poster) /\ UnlockHandle(cell[Poster]) /\ LetGo(Poster)
      /\ UNCHANGED <<use, ionClient, numBuffers, bufferMask, currentBuffer, deviceVars>>
  BY DEF Copy, PostIn, Posted, screenVars
<1>2. currentBuffer' \in Cells \union {"none"}
  BY <1>1 DEF Base, TypeOK
<1> QED BY <1>1, <1>2, BaseOfPosterReturn

\* A thread changes the mask: the load.
LEMMA LoadMaskBase ==
  ASSUME Base, NEW t \in Threads, OrLoad(t) \/ AndLoad(t)
  PROVE  Base'
<1>1. PICK to \in {"orStore", "andStore"} :
        /\ (pc[t] = "orLoad" /\ to = "orStore") \/ (pc[t] = "andLoad" /\ to = "andStore")
        /\ seen' = [seen EXCEPT ![t] = bufferMask]
        /\ At(t, to, cell[t])
        /\ UNCHANGED <<handle, use, mem, ionClient, held, addr, screenVars, opened, slot>>
  BY DEF OrLoad, AndLoad, LoadMask, handleVars
<1>2. TypeOK /\ cell[t] \in Cells /\ WorkOf(t)
  BY <1>1 DEF Base, HasCell, Work
<1>3. /\ pc' \in [Threads -> ThreadPc] /\ cell' \in [Threads -> Cells \union {"none"}]
      /\ pc'[t] = to /\ cell'[t] = cell[t]
      /\ \A u \in Threads : u # t => pc'[u] = pc[u] /\ cell'[u] = cell[u]
  BY <1>1, <1>2, AtEffect DEF ThreadPc
<1>4. seen' \in [Threads -> SUBSET Slots]
  BY <1>1, <1>2 DEF TypeOK
<1>5. TypeOK'
  BY <1>1, <1>2, <1>3, <1>4 DEF TypeOK, screenVars
<1>6. Handles'
  BY <1>1 DEF Base, Handles
<1>7. WorkOf(t)'
  BY <1>1, <1>2, <1>3 DEF WorkOf
<1>8. \A u \in Threads : u # t /\ pc[u] # "idle" => cell[u] # cell[t]
  BY <1>1 DEF Base, CellsApart
<1>9. /\ \A u \in Threads : held[u] # cell[t]
      /\ \A u \in Threads : u # t /\ pc[u] \notin {"idle", "read", "readCopy", "copy"} => held[t] # cell[u]
  BY <1>1 DEF Base, Apart
<1> QED BY <1>1, <1>2, <1>3, <1>5, <1>6, <1>7, <1>8, <1>9, BaseOfThread

\* A thread sets out to allocate or to free a framebuffer buffer.
LEMMA BeginBase ==
  ASSUME Base, NEW t \in Threads, NEW c \in Cells, BeginAlloc(t, c) \/ BeginFree(t, c)
  PROVE  Base'
<1>1. PICK where \in {"orLoad", "andLoad"} :
        /\ where = "orLoad" => use[c] = "free"
        /\ where = "andLoad" => handle[c].kind = "FRAMEBUFFER"
        /\ At(t, where, c)
  BY DEF BeginAlloc, BeginFree
<1>2. /\ TypeOK /\ WorkOf(t) /\ pc[t] = "idle" /\ ~InUse(c)
      /\ UNCHANGED <<handle, use, mem, ionClient, held, addr, currentBuffer, opened, seen>>
  BY DEF Base, Work, BeginAlloc, BeginFree, MayFree, handleVars, screenVars, deviceVars
<1>3. /\ numBuffers' \in 0 .. NumSlots /\ bufferMask' \subseteq Slots
      /\ slot' \in [Threads -> Slots]
  <2>1. CASE BeginFree(t, c)
    BY <1>2, <2>1 DEF BeginFree, TypeOK, screenVars, deviceVars
  <2>2. CASE BeginAlloc(t, c)
    <3> DEFINE mask == IF numBuffers = 0 THEN {} ELSE bufferMask
    <3>1. PICK n \in NumBuffers \ {1} :
            /\ ~OutOfBuffers(mask, n) /\ slot' = [slot EXCEPT ![t] = FirstFree(mask, n)]
            /\ IF numBuffers = 0 THEN MapScreen(n) ELSE UNCHANGED <<numBuffers, bufferMask>>
      BY <2>2 DEF BeginAlloc
    <3>2. n \in Nat /\ n <= NumSlots
      BY <1>2, SlotAssumption DEF NumBuffers, TypeOK
    <3>3. FirstFree(mask, n) \in Slots
      BY <3>1, <3>2, FirstFreeSlot, SlotAssumption DEF Slots
    <3> QED BY <1>2, <3>1, <3>2, <3>3 DEF MapScreen, TypeOK
  <2> QED BY <2>1, <2>2
<1>4. /\ pc' \in [Threads -> ThreadPc] /\ cell' \in [Threads -> Cells \union {"none"}]
      /\ pc'[t] = where /\ cell'[t] = c
      /\ \A u \in Threads : u # t => pc'[u] = pc[u] /\ cell'[u] = cell[u]
  BY <1>1, <1>2, AtEffect DEF ThreadPc
<1>5. TypeOK'
  BY <1>2, <1>3, <1>4 DEF TypeOK
<1>6. Handles'
  BY <1>2 DEF Base, Handles
<1>7. WorkOf(t)'
  BY <1>1, <1>2, <1>4 DEF WorkOf
<1>8. \A u \in Threads : held[u] # c /\ (pc[u] # "idle" => cell[u] # c)
  BY <1>2 DEF InUse, Busy
<1>9. \A u \in Threads : u # t /\ pc[u] \notin {"idle", "read", "readCopy", "copy"} => held[t] # cell[u]
  BY <1>2 DEF Base, Apart
<1> QED BY <1>2, <1>4, <1>5, <1>6, <1>7, <1>8, <1>9, BaseOfThread

\* What the stores leave, for this proof and for those about the mask.
LEMMA StoreEffect ==
  ASSUME Base, NEW t \in Threads, OrStore(t) \/ AndStore(t)
  PROVE  /\ TypeOK' /\ cell[t] \in Cells /\ pc'[t] = "idle"
         /\ \A u \in Threads : u # t => pc'[u] = pc[u] /\ cell'[u] = cell[u]
         /\ \A d \in Cells : d # cell[t] => handle'[d] = handle[d] /\ use'[d] = use[d]
         /\ OrStore(t) => /\ \E s \in ScreenShapes : handle'[cell[t]] = FramebufferHandle(slot[t], s)
                          /\ use'[cell[t]] = "allocated"
         /\ AndStore(t) => handle'[cell[t]] = Freed /\ use'[cell[t]] = "free"
<1>1. /\ TypeOK /\ cell[t] \in Cells /\ Return(t)
      /\ UNCHANGED <<mem, ionClient, held, addr, numBuffers, currentBuffer, opened>>
      /\ seen' = [seen EXCEPT ![t] = {}]
  BY DEF Base, HasCell, OrStore, AndStore
<1>2. PICK h \in Handle, u \in Use :
        /\ handle' = [handle EXCEPT ![cell[t]] = h] /\ use' = [use EXCEPT ![cell[t]] = u]
        /\ OrStore(t) => (\E s \in ScreenShapes : h = FramebufferHandle(slot[t], s)) /\ u = "allocated"
        /\ AndStore(t) => h = Freed /\ u = "free"
  <2>1. ~(OrStore(t) /\ AndStore(t))
    BY DEF OrStore, AndStore
  <2>2. CASE OrStore(t)
    <3>1. PICK s \in ScreenShapes : handle' = [handle EXCEPT ![cell[t]] = FramebufferHandle(slot[t], s)]
      BY <2>2 DEF OrStore
    <3>2. FramebufferHandle(slot[t], s) \in Handle /\ "allocated" \in Use
      BY <1>1, FramebufferType, DeviceAssumption DEF TypeOK, Use
    <3> QED BY <2>1, <2>2, <3>1, <3>2 DEF OrStore
  <2>3. CASE AndStore(t)
    BY <2>1, <2>3, FreedType DEF AndStore, Use
  <2> QED BY <2>2, <2>3
<1>3. /\ handle' \in [Cells -> Handle] /\ use' \in [Cells -> Use]
      /\ handle'[cell[t]] = h /\ use'[cell[t]] = u
      /\ \A d \in Cells : d # cell[t] => handle'[d] = handle[d] /\ use'[d] = use[d]
  BY <1>1, <1>2, CellEffect
<1>4. /\ pc' \in [Threads -> ThreadPc] /\ cell' \in [Threads -> Cells \union {"none"}]
      /\ pc'[t] = "idle"
      /\ \A v \in Threads : v # t => pc'[v] = pc[v] /\ cell'[v] = cell[v]
  BY <1>1, AtEffect DEF Return, ThreadPc
<1>5. bufferMask' \subseteq Slots /\ slot' \in [Threads -> Slots] /\ seen' \in [Threads -> SUBSET Slots]
  <2>1. CASE OrStore(t)
    BY <1>1, <2>1, SlotAssumption DEF OrStore, Marked, TypeOK, Slots
  <2>2. CASE AndStore(t)
    BY <1>1, <2>2 DEF AndStore, Cleared, TypeOK
  <2> QED BY <2>1, <2>2
<1>6. TypeOK'
  BY <1>1, <1>3, <1>4, <1>5 DEF TypeOK
<1> QED BY <1>1, <1>2, <1>3, <1>4, <1>6

LEMMA StoreBase ==
  ASSUME Base, NEW t \in Threads, OrStore(t) \/ AndStore(t)
  PROVE  Base'
<1>1. pc[t] \in {"orStore", "andStore"} /\ UNCHANGED <<held, addr>> /\ slot[t] \in Slots
  BY DEF OrStore, AndStore, Base, TypeOK
<1>2. Freed.base = "null" /\ Freed.kind = "ION"
  BY FreedType
<1>3. \/ handle'[cell[t]].base = "null" /\ use'[cell[t]] = "allocated"
      \/ handle'[cell[t]] = Freed /\ use'[cell[t]] = "free"
  <2>1. CASE OrStore(t)
    <3>1. PICK s \in ScreenShapes : handle'[cell[t]] = FramebufferHandle(slot[t], s)
      BY <2>1, StoreEffect
    <3> QED BY <1>1, <2>1, <3>1, StoreEffect, FramebufferType, DeviceAssumption
  <2>2. CASE AndStore(t)
    BY <2>2, StoreEffect
  <2> QED BY <2>1, <2>2
<1> QED BY <1>1, <1>2, <1>3, StoreEffect, BaseOfReturn

LEMMA InitBase == Init => Base
<1> SUFFICES ASSUME Init PROVE Base
  OBVIOUS
<1>1. Freed \in Handle /\ Freed.kind = "ION" /\ Freed.base = "null"
  BY FreedType
<1>2. TypeOK
  BY <1>1, SlotAssumption, DeviceAssumption DEF Init, TypeOK, Use, IonClient, ThreadPc, Slots
<1>3. HasCell /\ CellsApart /\ Apart /\ Work
  BY DEF Init, HasCell, CellsApart, Apart, Work, WorkOf
<1>4. Handles
  BY <1>1 DEF Init, Handles
<1> QED BY <1>2, <1>3, <1>4 DEF Base

LEMMA NextBase == Base /\ [Next]_vars => Base'
<1> SUFFICES ASSUME Base, [Next]_vars PROVE Base'
  OBVIOUS
<1>1. ASSUME NEW c \in Cells,
             Receive(c) \/ Delete(c) \/ Register(c) \/ RegisterFails(c) \/ Unregister(c),
             UNCHANGED <<screenVars, deviceVars>>
      PROVE  Base'
  BY <1>1, ReceiveBase, DeleteBase, RegisterBase, RegisterFailsBase, UnregisterBase
<1>2. ASSUME NEW t \in Threads, NEW c \in Cells, Lock(t, c) \/ LockYcbcr(t, c),
             UNCHANGED <<screenVars, deviceVars>>
      PROVE  Base'
  BY <1>2, LockBase, LockYcbcrBase DEF Lock
<1>3. ASSUME NEW t \in Threads, ReadBase(t) \/ Unlock(t), UNCHANGED <<screenVars, deviceVars>>
      PROVE  Base'
  BY <1>3, ReadBaseBase, UnlockBase
<1>4. CASE ModuleStep
  BY <1>1, <1>2, <1>3, <1>4 DEF ModuleStep
<1>5. CASE PostStep /\ UNCHANGED deviceVars
  BY <1>5, PostBase, PostLockBase, FlipBase, CopyLockBase, CopyReadBase, CopyBase DEF PostStep
<1>6. CASE DeviceStep
  BY <1>6, DeviceBase, AllocSingleBase, FreeIonBase, AllocBufferBase, LoadMaskBase, StoreBase, BeginBase
     DEF DeviceStep
<1>7. CASE OpenFramebuffer
  BY <1>7, DeviceBase
<1>8. CASE UNCHANGED vars
  <2>1. UNCHANGED <<handle, use, threadVars>> /\ TypeOK'
    BY <1>8 DEF vars, handleVars, threadVars, screenVars, deviceVars, Base, TypeOK
  <2> QED BY <2>1, BaseOfDevice
<1> QED BY <1>4, <1>5, <1>6, <1>7, <1>8 DEF Next

\* What the callers did with a handle tells what is in it, no two operations are under way on
\* one handle, and a thread works only on what it has in hand.
THEOREM BaseHolds == Spec => []Base
<1>1. Init => Base
  BY InitBase
<1>2. Base /\ [Next]_vars => Base'
  BY NextBase
<1> QED BY <1>1, <1>2, PTL DEF Spec

\* Every variable keeps its type: whatever the callers do with handles, locks, devices and
\* slots, the gralloc HAL stays within the states that the model names.
THEOREM TypeCorrect == Spec => []TypeOK
<1>1. Base => TypeOK
  BY DEF Base
<1> QED BY <1>1, BaseHolds, PTL
-----------------------------------------------------------------------------
(* Sizes, through every step *)

\* What a step does to a buffer: nothing that it is known by, or it frees it, or it makes it.
Keeps(c) == SameBuffer(handle'[c], handle[c]) /\ (use[c] = "free" <=> use'[c] = "free")
Frees(c) ==
  /\ use'[c] = "free" /\ handle'[c] = Freed
  /\ handle[c].kind = "FRAMEBUFFER" => \E t \in Threads : AndStore(t) /\ cell[t] = c
Makes(c) ==
  /\ use[c] = "free" /\ handle'[c].kind = "ION"
  /\ Plain(handle'[c]) \/ ForScreen(handle'[c])
MakesSlot(c) ==
  \E t \in Threads, s \in ScreenShapes :
    OrStore(t) /\ cell[t] = c /\ handle'[c] = FramebufferHandle(slot[t], s)

LEMMA KeepsSame ==
  ASSUME NEW d \in Cells, handle'[d] = handle[d], use'[d] = use[d]
  PROVE  Keeps(d)
BY DEF Keeps, SameBuffer

LEMMA SetWriteKeeps ==
  ASSUME Base, NEW c \in Cells, SetWrite(c), use' = use
  PROVE  \A d \in Cells : Keeps(d)
<1>1. SameBuffer(handle'[c], handle[c]) /\ \A d \in Cells : d # c => handle'[d] = handle[d]
  BY SetWriteEffect DEF Base
<1> QED BY <1>1 DEF Keeps, SameBuffer

LEMMA UnlockKeeps ==
  ASSUME Base, NEW c \in Cells, UnlockHandle(c), use' = use
  PROVE  \A d \in Cells : Keeps(d)
<1>1. SameBuffer(handle'[c], handle[c]) /\ \A d \in Cells : d # c => handle'[d] = handle[d]
  BY UnlockEffect DEF Base
<1> QED BY <1>1 DEF Keeps, SameBuffer

LEMMA BufferStep ==
  ASSUME Base, [Next]_vars, NEW d \in Cells
  PROVE  Keeps(d) \/ Frees(d) \/ Makes(d) \/ MakesSlot(d)
<1> USE DEF Base
<1>1. ASSUME NEW c \in Cells, Receive(c)
      PROVE  Keeps(d) \/ Makes(d)
  <2>1. PICK s \in Shapes, w \in {{}, {"WRITE"}} :
          handle' = [handle EXCEPT ![c] = [IonHandle("foreign", s, s, BufferSize(s)) EXCEPT
                                             !.lockState = {"MAPPED"} \union w, !.pid = "peer"]]
    BY <1>1 DEF Receive
  <2>2. s \in Shape /\ BufferSize(s) \in Nat
    BY ShapeAssumption, ShapeTypes
  <2> DEFINE g == IonHandle("foreign", s, s, BufferSize(s))
  <2>3. g \in Handle /\ g.kind = "ION" /\ g.shape = s /\ g.asked = s /\ g.size = BufferSize(s)
    BY <2>2, IonType
  <2> HIDE DEF g
  <2>4. handle'[c] = [g EXCEPT !.lockState = {"MAPPED"} \union w, !.pid = "peer"]
        /\ \A e \in Cells : e # c => handle'[e] = handle[e] /\ use'[e] = use[e]
    BY <1>1, <2>1 DEF g, Receive, TypeOK
  <2>5. /\ handle'[c].kind = "ION" /\ handle'[c].shape = s /\ handle'[c].asked = s
        /\ handle'[c].size = BufferSize(s)
    BY <2>3, <2>4 DEF Handle
  <2> QED BY <1>1, <2>4, <2>5, KeepsSame DEF Makes, Plain, Receive
<1>2. ASSUME NEW c \in Cells, Delete(c) \/ FreeIon(c)
      PROVE  Keeps(d) \/ Frees(d)
  <2>1. /\ handle[c].kind = "ION" /\ handle'[c] = Freed /\ use'[c] = "free"
        /\ \A e \in Cells : e # c => handle'[e] = handle[e] /\ use'[e] = use[e]
    BY <1>2 DEF Delete, FreeIon, TypeOK, Handles, Handle
  <2> QED BY <2>1, KeepsSame DEF Frees
<1>3. ASSUME NEW c \in Cells, Register(c) \/ RegisterFails(c)
      PROVE  Keeps(d)
  BY <1>3, RegisterEffect, RegisterFailsEffect, KeepsSame DEF Keeps, MayRegister, Usable
<1>4. ASSUME NEW c \in Cells, Unregister(c)
      PROVE  Keeps(d)
  BY <1>4, UnregisterEffect, KeepsSame DEF Keeps, Usable, Dropped
<1>5. ASSUME NEW t \in Threads, NEW c \in Cells, Lock(t, c) \/ LockYcbcr(t, c)
      PROVE  Keeps(d)
  BY <1>5, SetWriteKeeps DEF Lock, LockYcbcr
<1>6. ASSUME NEW t \in Threads, Unlock(t)
      PROVE  Keeps(d)
  BY <1>6, UnlockKeeps DEF Unlock, TypeOK
<1>7. CASE PostLock \/ CopyLock
  BY <1>7, SetWriteKeeps DEF PostLock, CopyLock, PostIn, Posted, HasCell
<1>8. CASE Flip \/ Copy
  <2>1. cell[Poster] \in Cells /\ use' = use /\ (UnlockHandle(cell[Poster]) \/ handle' = handle)
    BY <1>8 DEF Flip, Copy, PostIn, Posted, HasCell
  <2> QED BY <2>1, UnlockKeeps, KeepsSame
<1>9. ASSUME NEW c \in Cells, Post(c)
      PROVE  Keeps(d)
  <2>1. use' = use /\ (handle' = handle \/ (currentBuffer \in Cells /\ UnlockHandle(currentBuffer)))
    BY <1>9 DEF Post, TypeOK
  <2> QED BY <2>1, UnlockKeeps, KeepsSame
<1>10. ASSUME NEW c \in Cells, NEW s \in Shape, NEW a \in Shape, NEW n \in Nat, AllocIon(c, s, a, n),
              (a = s /\ n = BufferSize(s)) \/ (a \in ScreenShapes /\ s = OnScreen(a) /\ n = ScreenSize)
       PROVE  Keeps(d) \/ Makes(d)
  <2>1. PICK p \in FreePages : handle' = [handle EXCEPT ![c] = IonHandle(p, s, a, n)]
    BY <1>10 DEF AllocIon
  <2>2. /\ handle'[c] = IonHandle(p, s, a, n) /\ p \in Pages /\ use[c] = "free"
        /\ \A e \in Cells : e # c => handle'[e] = handle[e] /\ use'[e] = use[e]
    BY <1>10, <2>1 DEF AllocIon, TypeOK, FreePages
  <2>3. /\ handle'[c].kind = "ION" /\ handle'[c].shape = s /\ handle'[c].asked = a
        /\ handle'[c].size = n
    BY <2>2, IonType
  <2> QED BY <1>10, <2>2, <2>3, KeepsSame DEF Makes, Plain, ForScreen
<1>11. ASSUME NEW c \in Cells, NEW s \in Shapes, AllocBuffer(c, s)
       PROVE  Keeps(d) \/ Makes(d)
  <2>1. s \in Shape /\ BufferSize(s) \in Nat
    BY ShapeAssumption, ShapeTypes
  <2> QED BY <1>10, <1>11, <2>1 DEF AllocBuffer
<1>12. ASSUME NEW c \in Cells, NEW s \in ScreenShapes, AllocSingle(c, s)
       PROVE  Keeps(d) \/ Makes(d)
  <2>1. s \in Shape /\ OnScreen(s) \in Shape /\ ScreenSize \in Nat
    BY DeviceAssumption, ScreenTypes
  <2> QED BY <1>10, <1>12, <2>1 DEF AllocSingle
<1>13. ASSUME NEW t \in Threads, OrStore(t) \/ AndStore(t)
       PROVE  Keeps(d) \/ Frees(d) \/ MakesSlot(d)
  <2>1. /\ \A e \in Cells : e # cell[t] => handle'[e] = handle[e] /\ use'[e] = use[e]
        /\ OrStore(t) => \E s \in ScreenShapes : handle'[cell[t]] = FramebufferHandle(slot[t], s)
        /\ AndStore(t) => handle'[cell[t]] = Freed /\ use'[cell[t]] = "free"
    BY <1>13, StoreEffect
  <2> QED BY <1>13, <2>1, KeepsSame DEF Frees, MakesSlot
<1>14. ASSUME UNCHANGED <<handle, use>>
       PROVE  Keeps(d)
  BY <1>14, KeepsSame
<1>15. CASE ModuleStep
  BY <1>1, <1>2, <1>3, <1>4, <1>5, <1>6, <1>14, <1>15 DEF ModuleStep, ReadBase, handleVars
<1>16. CASE PostStep
  BY <1>7, <1>8, <1>9, <1>14, <1>16 DEF PostStep, CopyRead, handleVars
<1>17. CASE DeviceStep
  <2>1. CASE \E t \in Threads : OrLoad(t) \/ AndLoad(t) \/ \E c \in Cells : BeginAlloc(t, c) \/ BeginFree(t, c)
    BY <1>14, <2>1 DEF OrLoad, AndLoad, LoadMask, BeginAlloc, BeginFree, handleVars
  <2>2. CASE OpenDevice \/ CloseDevice
    BY <1>14, <2>2 DEF OpenDevice, CloseDevice, handleVars
  <2> QED BY <1>2, <1>11, <1>12, <1>13, <1>17, <2>1, <2>2 DEF DeviceStep
<1>18. CASE OpenFramebuffer \/ UNCHANGED vars
  BY <1>14, <1>18 DEF OpenFramebuffer, vars, handleVars
<1> QED BY <1>15, <1>16, <1>17, <1>18 DEF Next

PostPc == {"lockFlip", "flip", "lockCopy", "readCopy", "copy"}
\* The six steps of the slot mask.
MaskStep(t) ==
  \/ \E c \in Cells : BeginAlloc(t, c) \/ BeginFree(t, c)
  \/ OrLoad(t) \/ OrStore(t) \/ AndLoad(t) \/ AndStore(t)

\* Where a thread can have come from.
LEMMA ThreadStep ==
  ASSUME Base, [Next]_vars, NEW t \in Threads
  PROVE  /\ pc'[t] \in PostPc =>
              \/ pc[t] \in PostPc /\ cell'[t] = cell[t]
              \/ /\ cell'[t] \in Cells /\ use[cell'[t]] \in Usable
                 /\ handle[cell'[t]].shape = ScreenShape
         /\ (\A u \in Threads : ~MaskStep(u)) => (pc'[t] \in MaskPc \/ pc[t] \in MaskPc => pc'[t] = pc[t])
<1> USE DEF Base, MaskPc, PostPc
<1>1. ASSUME NEW u \in Threads, NEW where \in ThreadPc, NEW c \in Cells \union {"none"}, At(u, where, c)
      PROVE  pc'[u] = where /\ cell'[u] = c /\ (u # t => pc'[t] = pc[t] /\ cell'[t] = cell[t])
  BY <1>1, AtEffect
<1>2. ASSUME UNCHANGED <<pc, cell>>
      PROVE  pc'[t] = pc[t] /\ cell'[t] = cell[t]
  BY <1>2
<1>3. ASSUME NEW u \in Threads, Return(u)
      PROVE  pc'[u] = "idle" /\ (u # t => pc'[t] = pc[t] /\ cell'[t] = cell[t])
  BY <1>1, <1>3 DEF Return, ThreadPc
<1>4. CASE ModuleStep
  <2>1. CASE \E c \in Cells : Receive(c) \/ Delete(c) \/ Register(c) \/ RegisterFails(c) \/ Unregister(c)
    BY <1>2, <2>1 DEF Receive, Delete, Register, RegisterFails, Unregister, threadVars
  <2>2. ASSUME NEW u \in Threads, NEW c \in Cells, Lock(u, c) \/ LockYcbcr(u, c)
        PROVE  /\ pc[u] = "idle" /\ pc'[u] \in {"idle", "read"}
               /\ u # t => pc'[t] = pc[t] /\ cell'[t] = cell[t]
    <3>1. pc[u] = "idle" /\ (At(u, "read", c) \/ Return(u) \/ UNCHANGED <<pc, cell>>)
      BY <2>2 DEF Lock, LockYcbcr, Asks
    <3> QED BY <1>1, <1>2, <1>3, <3>1 DEF ThreadPc
  <2>3. ASSUME NEW u \in Threads, ReadBase(u)
        PROVE  pc[u] = "read" /\ pc'[u] = "idle" /\ (u # t => pc'[t] = pc[t] /\ cell'[t] = cell[t])
    BY <1>3, <2>3 DEF ReadBase
  <2>4. CASE \E u \in Threads : Unlock(u)
    BY <1>2, <2>4 DEF Unlock
  <2> QED BY <1>4, <2>1, <2>2, <2>3, <2>4 DEF ModuleStep
<1>5. CASE PostStep
  <2>1. ASSUME NEW c \in Cells, Post(c)
        PROVE  /\ pc[Poster] = "idle" /\ pc'[Poster] \in {"lockFlip", "lockCopy"} /\ cell'[Poster] = c
               /\ use[c] \in Usable /\ handle[c].shape = ScreenShape
               /\ Poster # t => pc'[t] = pc[t] /\ cell'[t] = cell[t]
    BY <1>1, <2>1 DEF Post, ThreadPc
  <2>2. CASE PostLock
    BY <1>1, <2>2 DEF PostLock, PostIn, Posted, ThreadPc, HasCell
  <2>3. CASE CopyLock
    BY <1>1, <2>3 DEF CopyLock, PostIn, Posted, ThreadPc, HasCell
  <2>4. CASE CopyRead
    BY <1>1, <2>4 DEF CopyRead, PostIn, Posted, ThreadPc, HasCell
  <2>5. CASE Flip \/ Copy
    BY <1>3, <2>5 DEF Flip, Copy, PostIn
  <2> QED BY <1>5, <2>1, <2>2, <2>3, <2>4, <2>5 DEF PostStep
<1>6. CASE \E u \in Threads : MaskStep(u)
  <2> PICK u \in Threads : MaskStep(u)
    BY <1>6
  <2>1. PICK where \in {"idle", "orLoad", "orStore", "andLoad", "andStore"}, c \in Cells \union {"none"} : At(u, where, c)
    BY DEF MaskStep, BeginAlloc, BeginFree, OrLoad, OrStore, AndLoad, AndStore, LoadMask, Return, HasCell
  <2> QED BY <1>1, <1>6, <2>1 DEF ThreadPc
<1>7. CASE OpenDevice \/ CloseDevice \/ OpenFramebuffer \/ UNCHANGED vars
  BY <1>2, <1>7 DEF OpenDevice, CloseDevice, OpenFramebuffer, vars, threadVars
<1>8. CASE \E c \in Cells : FreeIon(c) \/ (\E s \in Shapes : AllocBuffer(c, s))
                            \/ (\E s \in ScreenShapes : AllocSingle(c, s))
  BY <1>2, <1>8 DEF AllocSingle, FreeIon, AllocBuffer, threadVars
<1> QED BY <1>4, <1>5, <1>6, <1>7, <1>8 DEF Next, DeviceStep, MaskStep

LEMMA PostedUsed ==
  ASSUME Base, NEW c \in Cells, Posting(c)
  PROVE  use[c] # "free"
<1>1. PICK t \in Threads : pc[t] \in PostPc /\ cell[t] = c
  BY DEF Posting, PostPc
<1> QED BY <1>1 DEF PostPc, Base, Work, WorkOf, Handles, Usable

LEMMA InitSized == Init => Sized
BY DEF Init, Sized, Posting

LEMMA NextSized == Base /\ Sized /\ [Next]_vars => Sized'
<1> SUFFICES ASSUME Base, Sized, [Next]_vars, NEW c \in Cells
             PROVE  /\ use'[c] # "free" => Plain(handle'[c]) \/ ForScreen(handle'[c])
                    /\ Posting(c)' => handle'[c].shape = ScreenShape
  BY DEF Sized, Plain, ForScreen
<1>1. CASE MakesSlot(c)
  <2>1. PICK t \in Threads, s \in ScreenShapes :
          OrStore(t) /\ cell[t] = c /\ handle'[c] = FramebufferHandle(slot[t], s)
    BY <1>1 DEF MakesSlot
  <2>2. slot[t] \in Slots /\ s \in Shape
    BY DeviceAssumption DEF Base, TypeOK
  <2>3. ForScreen(handle'[c])
    BY <2>1, <2>2, FramebufferType DEF ForScreen
  <2>4. ~Posting(c)'
    <3>1. pc'[t] = "idle" /\ pc[t] = "orStore" /\ \A u \in Threads : u # t => pc'[u] = pc[u] /\ cell'[u] = cell[u]
      BY <2>1, StoreEffect DEF OrStore
    <3> QED BY <2>1, <3>1 DEF Posting, Base, CellsApart
  <2> QED BY <2>3, <2>4
<1>2. ASSUME Posting(c)'
      PROVE  use[c] # "free" /\ handle[c].shape = ScreenShape
  <2>1. PICK t \in Threads : pc'[t] \in PostPc /\ cell'[t] = c
    BY <1>2 DEF Posting, PostPc
  <2>2. CASE pc[t] \in PostPc /\ cell'[t] = cell[t]
    <3>1. Posting(c)
      BY <2>1, <2>2 DEF Posting, PostPc
    <3> QED BY <3>1, PostedUsed DEF Sized
  <2>3. CASE use[c] \in Usable /\ handle[c].shape = ScreenShape
    BY <2>3 DEF Usable
  <2> QED BY <2>1, <2>2, <2>3, ThreadStep
<1>3. CASE Keeps(c)
  BY <1>2, <1>3 DEF Sized, Keeps, SameBuffer, Plain, ForScreen
<1>4. CASE Frees(c)
  <2>1. Freed.shape = ScreenShape
    BY ScreenTypes, IonType DEF Freed, IonHandle
  <2> QED BY <1>4, <2>1 DEF Frees
<1>5. CASE Makes(c)
  BY <1>2, <1>5 DEF Makes
<1> QED BY <1>1, <1>3, <1>4, <1>5, BufferStep

\* Where the buffers for the screen are asked for with its pixels and no larger than it, and
\* the driver's pitch is the one that alloc_device_alloc computes, nothing that gralloc or
\* fb_post computes from a buffer's shape reaches past its memory or its slot, for every
\* size of buffer and of screen: the rows, the chroma planes of gralloc_lock_ycbcr, and the
\* copy of a whole screen by fb_post.
THEOREM PlanesInBounds == Fitting => (Spec => []InBounds)
<1> SUFFICES ASSUME Fitting PROVE Spec => []InBounds
  OBVIOUS
<1>1. Init => Sized
  BY InitSized
<1>2. Base /\ Sized /\ [Next]_vars => Sized'
  BY NextSized
<1>3. Base /\ Sized => InBounds
  <2> SUFFICES ASSUME Base, Sized, NEW c \in Cells, use[c] # "free"
               PROVE  /\ \A last \in LastBytes(handle[c]) : last <= Room(handle[c])
                      /\ handle[c].kind = "ION" /\ Posting(c) => ScreenSize <= handle[c].size
    BY DEF InBounds
  <2>1. handle[c].shape \in Shape /\ ScreenSize \in Nat
    BY ScreenTypes DEF Base, TypeOK, Handle
  <2>2. CASE Plain(handle[c])
    <3>1. \A last \in LastBytes(handle[c]) : last <= Room(handle[c])
      BY <2>1, <2>2, PlanesFit DEF Plain, Room
    <3>2. Posting(c) => handle[c].size = ScreenSize
      BY <2>2, ScreenCopied DEF Plain, Sized
    <3> QED BY <2>1, <3>1, <3>2
  <2>3. CASE ForScreen(handle[c])
    <3>1. Room(handle[c]) = ScreenSize
      BY <2>3 DEF ForScreen, Room
    <3>2. \A last \in LastBytes(handle[c]) : last <= ScreenSize
      BY <2>3, ScreenFits DEF ForScreen
    <3> QED BY <2>1, <2>3, <3>1, <3>2 DEF ForScreen
  <2> QED BY <2>2, <2>3 DEF Sized
<1> QED BY <1>1, <1>2, <1>3, BaseHolds, PTL DEF Spec

-----------------------------------------------------------------------------
(* Slots, through every step *)

\* What the steps that have nothing to do with the mask leave of it.
LEMMA QuietStep ==
  ASSUME Base, [Next]_vars, \A u \in Threads : ~MaskStep(u)
  PROVE  /\ \A c \in Cells :
              /\ handle'[c].kind = "FRAMEBUFFER" <=> handle[c].kind = "FRAMEBUFFER"
              /\ handle[c].kind = "FRAMEBUFFER" => handle'[c].slot = handle[c].slot
         /\ UNCHANGED <<slot, seen>>
         /\ bufferMask' = bufferMask \/ (numBuffers = 0 /\ bufferMask' = {})
         /\ numBuffers' = 0 => numBuffers = 0
<1>1. ASSUME NEW c \in Cells
      PROVE  /\ handle'[c].kind = "FRAMEBUFFER" <=> handle[c].kind = "FRAMEBUFFER"
             /\ handle[c].kind = "FRAMEBUFFER" => handle'[c].slot = handle[c].slot
  <2>1. CASE Keeps(c)
    BY <2>1 DEF Keeps, SameBuffer
  <2>2. CASE Frees(c)
    BY <2>2, FreedType DEF Frees, MaskStep
  <2>3. CASE Makes(c)
    BY <2>3, FreedType DEF Makes, Base, Handles
  <2>4. ~MakesSlot(c)
    BY DEF MakesSlot, MaskStep
  <2> QED BY <2>1, <2>2, <2>3, <2>4, BufferStep
<1>2. UNCHANGED <<slot, seen>> /\ (bufferMask' = bufferMask \/ (numBuffers = 0 /\ bufferMask' = {}))
      /\ (numBuffers' = 0 => numBuffers = 0)
  <2> USE DEF screenVars, deviceVars
  <2>1. CASE ModuleStep
    BY <2>1 DEF ModuleStep
  <2>2. CASE PostStep /\ UNCHANGED deviceVars
    BY <2>2 DEF PostStep, Post, PostLock, Flip, CopyLock, CopyRead, Copy
  <2>3. CASE OpenDevice \/ CloseDevice \/ UNCHANGED vars
    BY <2>3 DEF OpenDevice, CloseDevice, vars
  <2>4. CASE \E c \in Cells : FreeIon(c) \/ \E s \in Shapes : AllocBuffer(c, s)
    BY <2>4 DEF FreeIon, AllocBuffer
  <2>5. CASE OpenFramebuffer \/ \E c \in Cells, s \in ScreenShapes : AllocSingle(c, s)
    BY <2>5, SlotAssumption DEF OpenFramebuffer, AllocSingle, MapScreen, NumBuffers
  <2> QED BY <2>1, <2>2, <2>3, <2>4, <2>5 DEF Next, DeviceStep, MaskStep
<1> QED BY <1>1, <1>2

LEMMA InitMask == Init => Mask
<1>1. Freed.kind = "ION"
  BY FreedType
<1> QED BY <1>1 DEF Init, Mask, MaskPc, Changing

\* The thread that allocates or frees a framebuffer buffer is alone in doing so.
LEMMA BeginMask ==
  ASSUME Base, Mask, "overlap" \notin Habits, NEW t \in Threads, NEW c \in Cells,
         BeginAlloc(t, c) \/ BeginFree(t, c)
  PROVE  Mask' /\ UNCHANGED <<handle, use>>
<1>1. PICK where \in {"orLoad", "andLoad"} : At(t, where, c) /\ (where = "andLoad" <=> BeginFree(t, c))
  BY DEF BeginAlloc, BeginFree, At, Base, TypeOK
<1>2. /\ pc'[t] = where /\ \A u \in Threads : u # t => pc'[u] = pc[u]
      /\ \A u \in Threads : pc[u] \notin MaskPc
  BY <1>1, AtEffect DEF BeginAlloc, BeginFree, Alone, Changing, MaskPc, Base, ThreadPc
<1>3. UNCHANGED <<handle, use, seen>>
  BY DEF BeginAlloc, BeginFree, handleVars, deviceVars
<1>4. bufferMask' = bufferMask /\ numBuffers' # 0 /\ (where = "orLoad" => slot'[t] \notin bufferMask)
  <2>1. CASE BeginFree(t, c)
    BY <1>1, <2>1 DEF BeginFree, screenVars, Mask
  <2>2. CASE BeginAlloc(t, c)
    <3>1. PICK n \in NumBuffers \ {1} :
            /\ ~OutOfBuffers(bufferMask, n) /\ slot' = [slot EXCEPT ![t] = FirstFree(bufferMask, n)]
            /\ IF numBuffers = 0 THEN MapScreen(n) ELSE UNCHANGED <<numBuffers, bufferMask>>
      BY <2>2 DEF BeginAlloc, Mask
    <3>2. n \in Nat /\ n # 0
      BY SlotAssumption DEF Base, NumBuffers, TypeOK
    <3>3. FirstFree(bufferMask, n) \notin bufferMask
      BY <3>1, <3>2, FirstFreeSlot
    <3> QED BY <3>1, <3>2, <3>3 DEF MapScreen, Base, TypeOK, Mask
  <2> QED BY <2>1, <2>2
<1> QED BY <1>1, <1>2, <1>3, <1>4 DEF Mask, MaskPc, Changing

LEMMA LoadMaskMask ==
  ASSUME Base, Mask, NEW t \in Threads, OrLoad(t) \/ AndLoad(t)
  PROVE  Mask' /\ UNCHANGED <<handle, use>>
<1>1. PICK to \in {"orStore", "andStore"} :
        /\ (pc[t] = "orLoad" /\ to = "orStore") \/ (pc[t] = "andLoad" /\ to = "andStore")
        /\ seen' = [seen EXCEPT ![t] = bufferMask]
        /\ At(t, to, cell[t])
        /\ UNCHANGED <<handle, use, numBuffers, bufferMask, slot>>
  BY DEF OrLoad, AndLoad, LoadMask, handleVars, screenVars
<1>2. /\ pc'[t] = to /\ \A u \in Threads : u # t => pc'[u] = pc[u]
      /\ seen'[t] = bufferMask
  BY <1>1, AtEffect DEF Base, ThreadPc, HasCell, TypeOK
<1>3. \A u \in Threads : u # t => pc[u] \notin MaskPc
  BY <1>1 DEF Mask, MaskPc
<1>4. numBuffers # 0
  BY <1>1 DEF Mask, Changing
<1> QED BY <1>1, <1>2, <1>3, <1>4 DEF Mask, MaskPc

\* The store and what goes with it keep the mask true: the slot is marked with its buffer.
LEMMA OrStoreMask ==
  ASSUME Base, Mask, NEW t \in Threads, OrStore(t)
  PROVE  /\ Mask' /\ slot[t] \in Slots /\ \A c \in Cells : handle[c].kind = "FRAMEBUFFER" => handle[c].slot # slot[t]
         /\ handle[cell[t]].kind = "ION" /\ cell[t] \in Cells
         /\ handle'[cell[t]].kind = "FRAMEBUFFER" /\ handle'[cell[t]].slot = slot[t]
         /\ \A d \in Cells : d # cell[t] => handle'[d] = handle[d]
<1>1. /\ pc[t] = "orStore" /\ bufferMask' = bufferMask \union {slot[t]} /\ numBuffers' = numBuffers
      /\ slot[t] \notin bufferMask /\ numBuffers # 0
  BY DEF OrStore, Mask, Marked, Changing
<1>2. slot[t] \in Slots /\ cell[t] \in Cells /\ use[cell[t]] = "free"
  BY <1>1 DEF Base, TypeOK, HasCell, Work, WorkOf
<1>3. handle[cell[t]].kind = "ION"
  BY <1>2, FreedType DEF Base, Handles
<1>4. /\ handle'[cell[t]].kind = "FRAMEBUFFER" /\ handle'[cell[t]].slot = slot[t]
      /\ pc'[t] = "idle" /\ \A u \in Threads : u # t => pc'[u] = pc[u]
      /\ \A d \in Cells : d # cell[t] => handle'[d] = handle[d]
  <2>1. PICK s \in ScreenShapes : handle'[cell[t]] = FramebufferHandle(slot[t], s)
    BY StoreEffect
  <2> QED BY <1>2, <2>1, StoreEffect, FramebufferType, DeviceAssumption
<1>5. \A u \in Threads : pc'[u] \notin MaskPc
  BY <1>1, <1>4 DEF Mask, MaskPc
<1> QED BY <1>1, <1>2, <1>3, <1>4, <1>5 DEF Mask, MaskPc

LEMMA AndStoreMask ==
  ASSUME Base, Mask, NEW t \in Threads, AndStore(t)
  PROVE  /\ Mask' /\ handle[cell[t]].kind = "FRAMEBUFFER" /\ cell[t] \in Cells
         /\ handle'[cell[t]].kind = "ION" /\ \A d \in Cells : d # cell[t] => handle'[d] = handle[d]
         /\ \A c \in Cells : /\ handle[c].kind = "FRAMEBUFFER" => handle[c].slot \in Slots
                             /\ handle[c].kind = "FRAMEBUFFER" /\ handle[c].slot = handle[cell[t]].slot => c = cell[t]
<1>1. /\ pc[t] = "andStore" /\ bufferMask' = bufferMask \ {handle[cell[t]].slot} /\ numBuffers' = numBuffers
      /\ numBuffers # 0
  BY DEF AndStore, Mask, Cleared, Changing
<1>2. cell[t] \in Cells /\ handle[cell[t]].kind = "FRAMEBUFFER"
  BY <1>1 DEF Base, HasCell, Work, WorkOf
<1>3. /\ handle'[cell[t]].kind = "ION" /\ pc'[t] = "idle" /\ \A u \in Threads : u # t => pc'[u] = pc[u]
      /\ \A d \in Cells : d # cell[t] => handle'[d] = handle[d]
  BY StoreEffect, FreedType
<1>4. \A u \in Threads : pc'[u] \notin MaskPc
  BY <1>1, <1>3 DEF Mask, MaskPc
<1>5. \A c \in Cells : /\ handle[c].kind = "FRAMEBUFFER" => handle[c].slot \in Slots
                       /\ handle[c].kind = "FRAMEBUFFER" /\ handle[c].slot = handle[cell[t]].slot => c = cell[t]
  BY <1>2 DEF Mask, Base, TypeOK
<1>6. Mask'
  <2>1. \A i \in bufferMask' : \E c \in Cells : handle'[c].kind = "FRAMEBUFFER" /\ handle'[c].slot = i
    <3> TAKE i \in bufferMask'
    <3>1. i \in bufferMask /\ i # handle[cell[t]].slot
      BY <1>1
    <3>2. PICK c \in Cells : handle[c].kind = "FRAMEBUFFER" /\ handle[c].slot = i
      BY <3>1 DEF Mask
    <3> QED BY <1>3, <3>1, <3>2
  <2>2. \A c \in Cells : handle'[c].kind = "FRAMEBUFFER" => handle'[c].slot \in bufferMask'
    BY <1>1, <1>2, <1>3, <1>5 DEF Mask
  <2>3. \A c, d \in Cells :
          handle'[c].kind = "FRAMEBUFFER" /\ handle'[d].kind = "FRAMEBUFFER" /\ handle'[c].slot = handle'[d].slot
            => c = d
    BY <1>3 DEF Mask
  <2> QED BY <1>1, <1>4, <2>1, <2>2, <2>3 DEF Mask, MaskPc
<1> QED BY <1>2, <1>3, <1>5, <1>6

LEMMA NextMask == "overlap" \notin Habits /\ Base /\ Mask /\ [Next]_vars => Mask'
<1> SUFFICES ASSUME "overlap" \notin Habits, Base, Mask, [Next]_vars PROVE Mask'
  OBVIOUS
<1>1. CASE \E t \in Threads : MaskStep(t)
  BY <1>1, BeginMask, LoadMaskMask, OrStoreMask, AndStoreMask DEF MaskStep
<1>2. CASE \A t \in Threads : ~MaskStep(t)
  <2>1. /\ \A c \in Cells :
              /\ handle'[c].kind = "FRAMEBUFFER" <=> handle[c].kind = "FRAMEBUFFER"
              /\ handle[c].kind = "FRAMEBUFFER" => handle'[c].slot = handle[c].slot
        /\ UNCHANGED <<slot, seen>> /\ bufferMask' = bufferMask /\ (numBuffers' = 0 => numBuffers = 0)
    BY <1>2, QuietStep DEF Mask
  <2>2. \A t \in Threads : pc'[t] \in MaskPc => pc'[t] = pc[t]
    BY <1>2, ThreadStep
  <2> QED BY <2>1, <2>2 DEF Mask, MaskPc, Changing
<1> QED BY <1>1, <1>2

\* With no buffer freed while another is allocated or freed, no slot is lost and none has
\* two owners, although alloc_device_free changes the mask without the lock.
MaskAssumption == "overlap" \notin Habits

LEMMA MaskHolds == MaskAssumption => (Spec => []Mask)
<1>1. Init => Mask
  BY InitMask
<1>2. MaskAssumption /\ Base /\ Mask /\ [Next]_vars => Mask'
  BY NextMask DEF MaskAssumption
<1> SUFFICES ASSUME MaskAssumption PROVE Spec => []Mask
  OBVIOUS
<1>3. Base /\ Mask /\ [Next]_vars => Mask'
  BY <1>2
<1> QED BY <1>1, <1>3, BaseHolds, PTL DEF Spec

\* A framebuffer buffer is one that somebody allocated.
LEMMA LiveKind ==
  ASSUME Base, NEW c \in Cells
  PROVE  Live(c) <=> handle[c].kind = "FRAMEBUFFER"
BY DEF Live, Base, Handles

\* With those callers bufferMask names exactly the slots that have a buffer: none is lost
\* when an allocation fails or a free races a post.
THEOREM SlotsNotLost == MaskAssumption => (Spec => []NoSlotLost)
<1>1. Base /\ Mask => NoSlotLost
  <2> SUFFICES ASSUME Base, Mask PROVE bufferMask = {i \in Slots : OwnersOf(i) # {}}
    BY DEF NoSlotLost
  <2>1. bufferMask \subseteq Slots
    BY DEF Base, TypeOK
  <2>2. \A i \in Slots : OwnersOf(i) # {} <=> \E c \in Cells : handle[c].kind = "FRAMEBUFFER" /\ handle[c].slot = i
    BY LiveKind DEF OwnersOf
  <2> QED BY <2>1, <2>2 DEF Mask
<1> QED BY <1>1, BaseHolds, MaskHolds, PTL

\* The steps of Graphics are steps of the pool of slots, or leave the owners as they are.
LEMMA OwnersStep ==
  ASSUME MaskAssumption, Base, Base', Mask, [Next]_vars
  PROVE  [Pool!Next]_([i \in Slots |-> OwnersOf(i)])
<1> DEFINE owners == [i \in Slots |-> OwnersOf(i)]
           before(i) == {c \in Cells : handle[c].kind = "FRAMEBUFFER" /\ handle[c].slot = i}
           after(i) == {c \in Cells : handle'[c].kind = "FRAMEBUFFER" /\ handle'[c].slot = i}
<1>1. owners = [i \in Slots |-> before(i)] /\ owners' = [i \in Slots |-> after(i)]
  <2>1. ASSUME NEW i \in Slots
        PROVE  OwnersOf(i) = before(i) /\ OwnersOf(i)' = after(i)
    <3>1. \A c \in Cells : /\ Live(c) <=> handle[c].kind = "FRAMEBUFFER"
                           /\ Live(c)' <=> handle'[c].kind = "FRAMEBUFFER"
      BY DEF Live, Base, Handles
    <3> QED BY <3>1 DEF OwnersOf
  <2> QED BY <2>1
<1> HIDE DEF owners
<1>2. ASSUME \A c \in Cells :
               /\ handle'[c].kind = "FRAMEBUFFER" <=> handle[c].kind = "FRAMEBUFFER"
               /\ handle[c].kind = "FRAMEBUFFER" => handle'[c].slot = handle[c].slot
      PROVE  owners' = owners
  <2>1. \A i \in Slots : before(i) = after(i)
    BY <1>2
  <2> QED BY <1>1, <2>1
<1>3. ASSUME NEW t \in Threads, OrStore(t)
      PROVE  Pool!Take(slot[t], cell[t]) /\ slot[t] \in Slots /\ cell[t] \in Cells
  <2>1. /\ slot[t] \in Slots /\ cell[t] \in Cells
        /\ \A c \in Cells : handle[c].kind = "FRAMEBUFFER" => handle[c].slot # slot[t]
        /\ handle[cell[t]].kind = "ION"
        /\ handle'[cell[t]].kind = "FRAMEBUFFER" /\ handle'[cell[t]].slot = slot[t]
        /\ \A d \in Cells : d # cell[t] => handle'[d] = handle[d]
    BY <1>3, OrStoreMask
  <2>2. before(slot[t]) = {} /\ after(slot[t]) = {cell[t]}
    BY <2>1
  <2>3. \A i \in Slots : i # slot[t] => before(i) = after(i)
    BY <2>1
  <2> HIDE DEF before, after
  <2>4. owners[slot[t]] = {} /\ owners' = [owners EXCEPT ![slot[t]] = {cell[t]}]
    BY <1>1, <2>1, <2>2, <2>3
  <2> QED BY <2>1, <2>4 DEF Pool!Take, owners
<1>4. ASSUME NEW t \in Threads, AndStore(t)
      PROVE  Pool!Give(handle[cell[t]].slot) /\ handle[cell[t]].slot \in Slots
  <2> DEFINE s == handle[cell[t]].slot
  <2>1. /\ handle[cell[t]].kind = "FRAMEBUFFER" /\ cell[t] \in Cells /\ s \in Slots
        /\ handle'[cell[t]].kind = "ION" /\ \A d \in Cells : d # cell[t] => handle'[d] = handle[d]
        /\ \A c \in Cells : handle[c].kind = "FRAMEBUFFER" /\ handle[c].slot = s => c = cell[t]
    BY <1>4, AndStoreMask
  <2>2. after(s) = {}
    BY <2>1
  <2>3. \A i \in Slots : i # s => before(i) = after(i)
    BY <2>1
  <2> HIDE DEF before, after
  <2>4. owners' = [owners EXCEPT ![s] = {}]
    BY <1>1, <2>1, <2>2, <2>3
  <2> QED BY <2>1, <2>4 DEF Pool!Give, owners
<1>5. CASE \E t \in Threads : OrStore(t) \/ AndStore(t)
  BY <1>3, <1>4, <1>5 DEF Pool!Next
<1>6. CASE \E t \in Threads : OrLoad(t) \/ AndLoad(t) \/ \E c \in Cells : BeginAlloc(t, c) \/ BeginFree(t, c)
  <2>1. handle' = handle
    BY <1>6, BeginMask, LoadMaskMask DEF MaskAssumption
  <2> QED BY <1>2, <2>1 DEF owners
<1>7. CASE \A t \in Threads : ~MaskStep(t)
  BY <1>2, <1>7, QuietStep DEF owners
<1> QED BY <1>5, <1>6, <1>7 DEF MaskStep

\* The framebuffer side of gralloc implements SlotPool: gralloc_alloc_framebuffer hands a slot
\* to one buffer at a time, and alloc_device_free takes it back.
THEOREM ImplementsSlotPool == MaskAssumption => (Spec => KeepsSlots)
<1> SUFFICES ASSUME MaskAssumption PROVE Spec => KeepsSlots
  OBVIOUS
<1>1. Init => Pool!Init
  BY DEF Init, Pool!Init, OwnersOf, Live
<1>2. Base /\ Base' /\ Mask /\ [Next]_vars => [Pool!Next]_([i \in Slots |-> OwnersOf(i)])
  BY OwnersStep
<1> QED BY <1>1, <1>2, BaseHolds, MaskHolds, PTL DEF Spec, KeepsSlots, Pool!Spec

-----------------------------------------------------------------------------
(* Memory, through every step *)

\* No thread comes to free the buffer on the screen.
Onward ==
  \A t \in Threads : pc'[t] \in {"andLoad", "andStore"} =>
    pc[t] \in {"andLoad", "andStore"} /\ cell'[t] = cell[t]

\* A handle that nobody has locked is filled, mapped, unmapped or freed.
LEMMA MemoryOfCell ==
  ASSUME Base, Base', Memory, UNCHANGED <<held, addr, currentBuffer>>, Onward,
         NEW c \in Cells, c # currentBuffer, \A t \in Threads : held[t] # c,
         \A d \in Cells : d # c => handle'[d] = handle[d] /\ use'[d] = use[d],
         handle'[c].kind = "ION" => "WRITE" \notin handle'[c].lockState,
         use'[c] \in Dropped => handle'[c].base = "null",
         handle'[c].base \in Pages /\ handle'[c].base # handle[c].base => mem[handle'[c].base] = "none",
         \A p \in Pages : mem'[p] = IF p = handle'[c].base THEN c
                                    ELSE IF p = handle[c].base THEN "none" ELSE mem[p]
  PROVE  Memory'
<1>1. OneLock'
  BY DEF Memory, OneLock, Onward, Base, TypeOK
<1>2. Locks'
  BY DEF Memory, Locks
<1>3. Mapped'
  BY CellAssumption DEF Memory, Mapped, Base, TypeOK
<1>4. NeverStale'
  <2> SUFFICES ASSUME NEW t \in Threads, held[t] # "none", addr[t] \notin {"none", "null", "screen"}
               PROVE  addr[t] \in Pages /\ mem'[addr[t]] = held[t]
    BY DEF NeverStale
  <2>1. addr[t] \in Pages /\ mem[addr[t]] = held[t] /\ held[t] # c /\ held[t] \in Cells
    BY DEF Memory, NeverStale, Base, TypeOK
  <2>2. handle[held[t]].base = addr[t]
    BY <2>1, CellAssumption DEF Memory, Mapped
  <2>3. addr[t] # handle[c].base
    BY <2>1 DEF Memory, Mapped
  <2>4. addr[t] # handle'[c].base
    BY <2>1, <2>3, CellAssumption
  <2> QED BY <2>1, <2>3, <2>4
<1> QED BY <1>1, <1>2, <1>3, <1>4 DEF Memory

\* Only the screen's handles, its mask or the devices change.
LEMMA MemoryOfScreen ==
  ASSUME Base, Base', Memory, UNCHANGED <<use, mem, held, addr>>,
         \A d \in Cells : \/ handle'[d] = handle[d]
                          \/ handle[d].kind = "FRAMEBUFFER" /\ handle'[d].kind = "FRAMEBUFFER",
         currentBuffer' # "none" => handle[currentBuffer'].kind = "FRAMEBUFFER",
         \A t \in Threads : pc'[t] \in {"andLoad", "andStore"} => cell'[t] # currentBuffer'
  PROVE  Memory'
<1>1. \A d \in Cells : handle'[d].kind = handle[d].kind /\ handle'[d].base = handle[d].base
  BY DEF Base, Handles
<1>2. OneLock'
  BY <1>1 DEF Memory, OneLock, Base, TypeOK
<1>3. Locks'
  BY <1>1 DEF Memory, Locks, Base, Handles, Dropped
<1>4. Mapped'
  BY <1>1, CellAssumption DEF Memory, Mapped, Base, TypeOK
<1>5. NeverStale'
  BY DEF Memory, NeverStale
<1> QED BY <1>2, <1>3, <1>4, <1>5 DEF Memory

\* A handle that nobody has locked is locked.
LEMMA MemoryOfLock ==
  ASSUME Base, Base', Memory, Onward, NEW t \in Threads, NEW c \in Cells, SetWrite(c),
         held[t] = "none", held' = [held EXCEPT ![t] = c], \A u \in Threads : held[u] # c,
         UNCHANGED <<use, mem, addr, currentBuffer>>
  PROVE  Memory'
<1>1. /\ \A d \in Cells : d # c => handle'[d] = handle[d]
      /\ SameBuffer(handle'[c], handle[c]) /\ handle'[c].base = handle[c].base
      /\ handle'[c].lockState = handle[c].lockState \union {"WRITE"}
  BY SetWriteEffect DEF Base
<1>2. held'[t] = c /\ \A u \in Threads : u # t => held'[u] = held[u]
  BY HeldEffect DEF Base
<1>3. \A d \in Cells : handle'[d].kind = handle[d].kind /\ handle'[d].base = handle[d].base
  BY <1>1 DEF SameBuffer
<1>4. OneLock'
  BY <1>2, <1>3 DEF Memory, OneLock, Onward, Base, TypeOK
<1>5. Locks'
  BY <1>1, <1>2, <1>3 DEF Memory, Locks
<1>6. Mapped'
  BY <1>3, CellAssumption DEF Memory, Mapped, Base, TypeOK
<1>7. NeverStale'
  <2>1. addr[t] = "none"
    BY DEF Base, Work, WorkOf
  <2> QED BY <1>2, <2>1 DEF Memory, NeverStale
<1> QED BY <1>4, <1>5, <1>6, <1>7 DEF Memory

\* A thread unlocks what it has locked.
LEMMA MemoryOfUnlock ==
  ASSUME Base, Base', Memory, Onward, NEW t \in Threads, held[t] # "none",
         UnlockHandle(held[t]), LetGo(t), UNCHANGED <<use, currentBuffer>>
  PROVE  Memory'
<1> DEFINE c == held[t]
<1>1. c \in Cells /\ \A u \in Threads : u # t => held[u] # c
  BY DEF Base, TypeOK, Memory, OneLock
<1>2. /\ held'[t] = "none" /\ \A u \in Threads : u # t => held'[u] = held[u] /\ addr'[u] = addr[u]
  BY LetGoEffect DEF Base
<1> HIDE DEF c
<1>3. UnlockHandle(c)
  BY DEF c
<1>4. /\ \A d \in Cells : d # c => handle'[d] = handle[d]
      /\ SameBuffer(handle'[c], handle[c])
      /\ \/ /\ "UNREGISTERED" \in handle[c].lockState
            /\ handle'[c].base = "null" /\ handle'[c].lockState = {}
            /\ \A p \in Pages : mem'[p] = IF p = handle[c].base THEN "none" ELSE mem[p]
         \/ /\ "UNREGISTERED" \notin handle[c].lockState
            /\ handle'[c].base = handle[c].base /\ handle'[c].lockState = handle[c].lockState \ {"WRITE"}
            /\ mem' = mem
  BY <1>1, <1>3, UnlockEffect DEF Base
<1>5. OneLock'
  BY <1>1, <1>2, <1>4 DEF Memory, OneLock, Onward, Base, TypeOK, SameBuffer
<1>6. Locks'
  <2> SUFFICES ASSUME NEW d \in Cells
               PROVE  /\ handle'[d].kind = "ION" =>
                           ("WRITE" \in handle'[d].lockState <=> \E u \in Threads : held'[u] = d)
                      /\ use'[d] \in Dropped /\ handle'[d].base # "null" =>
                           {"WRITE", "UNREGISTERED"} \subseteq handle'[d].lockState
    BY DEF Locks
  <2>1. CASE d = c
    <3>1. ~\E u \in Threads : held'[u] = c
      BY <1>1, <1>2, CellAssumption
    <3> QED BY <1>1, <1>4, <2>1, <3>1 DEF Memory, Locks
  <2>2. CASE d # c
    <3>1. (\E u \in Threads : held'[u] = d) <=> \E u \in Threads : held[u] = d
      BY <1>2, <2>2, CellAssumption DEF c
    <3> QED BY <1>4, <2>2, <3>1 DEF Memory, Locks
  <2> QED BY <2>1, <2>2
<1>7. Mapped'
  BY <1>1, <1>4, CellAssumption DEF Memory, Mapped, Base, TypeOK
<1>8. NeverStale'
  <2> SUFFICES ASSUME NEW u \in Threads, u # t, held[u] # "none", addr[u] \notin {"none", "null", "screen"}
               PROVE  addr[u] \in Pages /\ mem'[addr[u]] = held[u]
    BY <1>2 DEF NeverStale
  <2>1. addr[u] \in Pages /\ mem[addr[u]] = held[u] /\ held[u] # c
    BY <1>1 DEF Memory, NeverStale
  <2>2. addr[u] # handle[c].base
    BY <1>1, <2>1 DEF Memory, Mapped
  <2> QED BY <1>4, <2>1, <2>2
<1> QED BY <1>5, <1>6, <1>7, <1>8 DEF Memory

\* A thread reads the address of what it has locked.
LEMMA MemoryOfRead ==
  ASSUME Base, Base', Memory, Onward, NEW t \in Threads, pc[t] \in {"read", "readCopy"},
         addr' = [addr EXCEPT ![t] = Address(handle[cell[t]])],
         UNCHANGED <<handle, use, mem, held, currentBuffer>>
  PROVE  Memory'
<1>1. cell[t] \in Cells /\ held[t] = cell[t] /\ use[cell[t]] \in Usable \union Dropped
  BY CellAssumption DEF Base, HasCell, Work, WorkOf
<1>2. /\ addr'[t] = Address(handle[cell[t]])
      /\ \A u \in Threads : u # t => addr'[u] = addr[u]
  BY <1>1, AddressType, AddrEffect DEF Base
<1>3. handle[cell[t]].base \in Pages \union {"null"}
  BY <1>1 DEF Base, TypeOK, Handle, Handles, Usable, Dropped
<1>4. NeverStale'
  BY <1>1, <1>2, <1>3 DEF Memory, NeverStale, Mapped, Address
<1>5. OneLock'
  BY DEF Memory, OneLock, Onward
<1> QED BY <1>4, <1>5 DEF Memory, Locks, Mapped

LEMMA InitMemory == Init => Memory
<1> SUFFICES ASSUME Init PROVE Memory
  OBVIOUS
<1>1. Freed.kind = "ION" /\ Freed.base = "null" /\ Freed.lockState = {}
  BY FreedType
<1>2. \A c \in Cells : handle[c] = Freed /\ use[c] = "free"
  BY DEF Init
<1>3. OneLock
  BY DEF Init, OneLock
<1>4. Locks
  BY <1>1, <1>2, CellAssumption DEF Init, Locks, Dropped
<1>5. Mapped
  BY <1>1, <1>2, PageAssumption DEF Init, Mapped
<1>6. NeverStale
  BY DEF Init, NeverStale
<1> QED BY <1>3, <1>4, <1>5, <1>6 DEF Memory

\* A step that leaves the threads where they are.
LEMMA StayOnward ==
  ASSUME UNCHANGED <<pc, cell>>
  PROVE  Onward
BY DEF Onward

\* A step that takes one thread elsewhere.
LEMMA AtOnward ==
  ASSUME Base, NEW t \in Threads, NEW where \in ThreadPc \ {"andLoad", "andStore"},
         NEW c \in Cells \union {"none"}, At(t, where, c)
  PROVE  Onward
<1>1. pc'[t] = where /\ \A u \in Threads : u # t => pc'[u] = pc[u] /\ cell'[u] = cell[u]
  BY AtEffect DEF Base
<1> QED BY <1>1 DEF Onward

LEMMA ReceiveMemory ==
  ASSUME Careful, Base, Base', Memory, NEW c \in Cells, Receive(c), UNCHANGED <<screenVars, deviceVars>>
  PROVE  Memory'
<1>1. /\ UNCHANGED <<mem, threadVars, currentBuffer>> /\ use[c] = "free"
      /\ use'[c] = "received" /\ \A t \in Threads : held[t] # c
      /\ \A d \in Cells : d # c => handle'[d] = handle[d] /\ use'[d] = use[d]
  BY DEF Receive, screenVars, InUse, Base, TypeOK
<1>2. handle[c].base = "null" /\ handle[c].kind = "ION" /\ handle'[c].base = "foreign"
  BY <1>1, FreedType DEF Base, Handles
<1>3. "WRITE" \notin handle'[c].lockState
  <2>1. PICK s \in Shapes :
          handle' = [handle EXCEPT ![c] = [IonHandle("foreign", s, s, BufferSize(s)) EXCEPT
                                             !.lockState = {"MAPPED"}, !.pid = "peer"]]
    BY DEF Receive, Careful
  <2>2. s \in Shape /\ BufferSize(s) \in Nat
    BY ShapeAssumption, ShapeTypes
  <2> DEFINE g == IonHandle("foreign", s, s, BufferSize(s))
  <2>3. g \in Handle
    BY <2>2, IonType
  <2> HIDE DEF g
  <2>4. handle'[c] = [g EXCEPT !.lockState = {"MAPPED"}, !.pid = "peer"]
    BY <2>1 DEF g, Base, TypeOK
  <2> QED BY <2>3, <2>4 DEF Handle
<1>4. c # currentBuffer
  BY <1>2, CellAssumption DEF Memory, OneLock
<1>5. Onward
  BY <1>1, StayOnward DEF threadVars
<1> QED BY <1>1, <1>2, <1>3, <1>4, <1>5, PageAssumption, MemoryOfCell DEF threadVars, Dropped

LEMMA FreeMemory ==
  ASSUME Base, Base', Memory, NEW c \in Cells, FreeIon(c) \/ (Delete(c) /\ UNCHANGED <<screenVars, deviceVars>>)
  PROVE  Memory'
<1>1. /\ UNCHANGED <<threadVars, currentBuffer>> /\ handle[c].kind = "ION"
      /\ use'[c] = "free" /\ handle'[c] = Freed /\ \A t \in Threads : held[t] # c
      /\ \A d \in Cells : d # c => handle'[d] = handle[d] /\ use'[d] = use[d]
  BY DEF FreeIon, MayFree, Delete, screenVars, InUse, Base, TypeOK, Handles, Handle
<1>2. \A p \in Pages : mem'[p] = IF p = handle[c].base THEN "none" ELSE mem[p]
  <2>1. CASE FreeIon(c)
    BY <2>1, WithoutEffect DEF FreeIon, Base
  <2>2. CASE Delete(c)
    <3>1. handle[c].base \notin Pages
      BY <1>1, <2>2, PageAssumption DEF Delete, Dropped, Memory, Locks, Base, Handles
    <3> QED BY <2>2, <3>1 DEF Delete
  <2> QED BY <2>1, <2>2
<1>3. c # currentBuffer
  BY <1>1, CellAssumption DEF Memory, OneLock
<1>4. Onward
  BY <1>1, StayOnward DEF threadVars
<1> QED BY <1>1, <1>2, <1>3, <1>4, FreedType, PageAssumption, MemoryOfCell DEF threadVars

LEMMA RegisterMemory ==
  ASSUME Careful, Base, Base', Memory, NEW c \in Cells, Register(c) \/ RegisterFails(c),
         UNCHANGED <<screenVars, deviceVars>>
  PROVE  Memory'
<1>1. /\ UNCHANGED <<threadVars, currentBuffer>> /\ handle[c].kind = "ION"
      /\ use[c] \in {"received"} \union Dropped /\ ~InUse(c)
      /\ handle'[c].lockState \subseteq handle[c].lockState
      /\ \A d \in Cells : d # c => handle'[d] = handle[d] /\ use'[d] = use[d]
  BY RegisterEffect, RegisterFailsEffect DEF screenVars, MayRegister, Careful
<1>2. \A t \in Threads : held[t] # c
  BY <1>1 DEF InUse
<1>3. "WRITE" \notin handle[c].lockState /\ c # currentBuffer
  BY <1>1, <1>2, CellAssumption DEF Memory, Locks, OneLock
<1>4. handle[c].base = IF use[c] = "received" THEN "foreign" ELSE "null"
  BY <1>1, <1>3 DEF Memory, Locks, Base, Handles
<1>5. Onward
  BY <1>1, StayOnward DEF threadVars
<1>6. CASE Register(c)
  <2>1. PICK p \in FreePages : handle'[c].base = p /\ mem' = [mem EXCEPT ![p] = c]
    BY <1>6, RegisterEffect
  <2>2. \A q \in Pages : mem'[q] = IF q = p THEN c ELSE mem[q]
    BY <2>1 DEF FreePages, Base, TypeOK
  <2>3. use'[c] \notin Dropped
    BY <1>6, RegisterEffect DEF Usable, Dropped
  <2> QED BY <1>1, <1>2, <1>3, <1>4, <1>5, <2>1, <2>2, <2>3, PageAssumption, MemoryOfCell
          DEF threadVars, FreePages
<1>7. CASE RegisterFails(c)
  <2>1. handle'[c].base = handle[c].base /\ mem' = mem /\ use'[c] = use[c] /\ "received" \notin Dropped
    BY <1>7, RegisterFailsEffect DEF Dropped
  <2> QED BY <1>1, <1>2, <1>3, <1>4, <1>5, <2>1, PageAssumption, MemoryOfCell DEF threadVars
<1> QED BY <1>6, <1>7

\* gralloc_unregister_buffer leaves a buffer mapped exactly when somebody has it locked.
LEMMA UnregisterMemory ==
  ASSUME Base, Base', Memory, NEW c \in Cells, Unregister(c), UNCHANGED <<screenVars, deviceVars>>
  PROVE  Memory'
<1>1. /\ UNCHANGED <<threadVars, currentBuffer>> /\ handle[c].kind = "ION" /\ handle'[c].kind = "ION"
      /\ \A d \in Cells : d # c => handle'[d] = handle[d] /\ use'[d] = use[d]
  BY UnregisterEffect DEF screenVars, SameBuffer
<1>2. c # currentBuffer
  BY <1>1, CellAssumption DEF Memory, OneLock
<1>3. Onward
  BY <1>1, StayOnward DEF threadVars
<1>4. CASE "WRITE" \notin handle[c].lockState
  <2>1. /\ \A p \in Pages : mem'[p] = IF p = handle[c].base THEN "none" ELSE mem[p]
        /\ handle'[c].base = "null" /\ handle'[c].lockState = {"UNREGISTERED"}
    BY <1>4, UnregisterEffect
  <2>2. \A t \in Threads : held[t] # c
    BY <1>1, <1>4 DEF Memory, Locks
  <2> QED BY <1>1, <1>2, <1>3, <2>1, <2>2, PageAssumption, MemoryOfCell DEF threadVars
<1>5. CASE "WRITE" \in handle[c].lockState
  <2>1. /\ mem' = mem /\ handle'[c].base = handle[c].base
        /\ handle'[c].lockState = (handle[c].lockState \ {"MAPPED"}) \union {"UNREGISTERED"}
    BY <1>5, UnregisterEffect
  <2>2. OneLock'
    BY <1>1 DEF Memory, OneLock, threadVars, Base, TypeOK
  <2>3. Locks'
    BY <1>1, <1>5, <2>1 DEF Memory, Locks, threadVars
  <2>4. Mapped' /\ NeverStale'
    BY <1>1, <2>1, CellAssumption DEF Memory, Mapped, NeverStale, threadVars, Base, TypeOK
  <2> QED BY <2>2, <2>3, <2>4 DEF Memory
<1> QED BY <1>4, <1>5

LEMMA AllocIonMemory ==
  ASSUME Base, Base', Memory, NEW c \in Cells, NEW s \in Shape, NEW a \in Shape, NEW n \in Nat,
         AllocIon(c, s, a, n), UNCHANGED <<threadVars, currentBuffer>>
  PROVE  Memory'
<1>1. PICK p \in FreePages : /\ handle' = [handle EXCEPT ![c] = IonHandle(p, s, a, n)]
                             /\ mem' = [mem EXCEPT ![p] = c]
  BY DEF AllocIon
<1>2. p \in Pages /\ mem[p] = "none" /\ \A q \in Pages : mem'[q] = IF q = p THEN c ELSE mem[q]
  BY <1>1 DEF FreePages, Base, TypeOK
<1>3. /\ handle'[c] = IonHandle(p, s, a, n) /\ use[c] = "free" /\ use'[c] = "allocated"
      /\ \A t \in Threads : held[t] # c
      /\ \A d \in Cells : d # c => handle'[d] = handle[d] /\ use'[d] = use[d]
  BY <1>1 DEF AllocIon, InUse, Base, TypeOK
<1>4. handle'[c].base = p /\ handle'[c].lockState = {"MAPPED"}
  BY <1>2, <1>3, IonType
<1>5. c # currentBuffer /\ handle[c].base = "null"
  BY <1>3, FreedType, CellAssumption DEF Memory, OneLock, Base, Handles
<1>6. Onward
  BY StayOnward DEF threadVars
<1> QED BY <1>2, <1>3, <1>4, <1>5, <1>6, PageAssumption, MemoryOfCell DEF threadVars, Dropped

\* The posts: framebuffer buffers are never mapped on their own, and a copy is a lock, a read
\* and an unlock.
LEMMA PostMemory ==
  ASSUME Base, Base', Memory, PostStep
  PROVE  Memory'
<1>1. ASSUME NEW c \in Cells, handle[c].kind = "FRAMEBUFFER", SetWrite(c) \/ UnlockHandle(c)
      PROVE  /\ \A d \in Cells : \/ handle'[d] = handle[d]
                                 \/ handle[d].kind = "FRAMEBUFFER" /\ handle'[d].kind = "FRAMEBUFFER"
             /\ UnlockHandle(c) => mem' = mem
  <2>1. SameBuffer(handle'[c], handle[c]) /\ \A d \in Cells : d # c => handle'[d] = handle[d]
    BY <1>1, SetWriteEffect, UnlockEffect DEF Base
  <2>2. UnlockHandle(c) => mem' = mem
    <3> SUFFICES ASSUME UnlockHandle(c) PROVE mem' = mem
      OBVIOUS
    <3>1. handle[c].base \notin Pages
      BY <1>1, PageAssumption DEF Base, Handles
    <3>2. mem' \in {mem, Without(handle[c])}
      BY DEF UnlockHandle
    <3> QED BY <3>1, <3>2 DEF Without
  <2> QED BY <1>1, <2>1, <2>2 DEF SameBuffer
<1>2. ASSUME NEW where \in ThreadPc \ {"andLoad", "andStore"}, NEW c \in Cells \union {"none"}, At(Poster, where, c)
      PROVE  Onward
  BY <1>2, AtOnward
<1>3. ASSUME Return(Poster)
      PROVE  Onward
  BY <1>2, <1>3 DEF Return, ThreadPc
<1>4. \A t \in Threads : pc[t] \in {"andLoad", "andStore"} => cell[t] # currentBuffer
  BY DEF Memory, OneLock
<1>5. ASSUME NEW c \in Cells, Post(c)
      PROVE  Memory'
  <2>1. UNCHANGED <<use, held, addr>> /\ currentBuffer' = "none"
    BY <1>5 DEF Post
  <2>2. PICK where \in {"lockFlip", "lockCopy"} : At(Poster, where, c)
    BY <1>5 DEF Post
  <2>3. Onward
    BY <1>2, <2>2 DEF ThreadPc
  <2>4. CASE currentBuffer # "none" /\ use[currentBuffer] # "free"
    <3>1. currentBuffer \in Cells /\ handle[currentBuffer].kind = "FRAMEBUFFER" /\ UnlockHandle(currentBuffer)
      BY <1>5, <2>4 DEF Post, Base, TypeOK, Memory, OneLock
    <3> QED BY <1>1, <2>1, <2>3, <3>1, MemoryOfScreen, CellAssumption DEF Onward, Base, HasCell
  <2>5. CASE ~(currentBuffer # "none" /\ use[currentBuffer] # "free")
    <3>1. UNCHANGED <<handle, mem>>
      BY <1>5, <2>5 DEF Post
    <3> QED BY <2>1, <2>3, <3>1, MemoryOfScreen, CellAssumption DEF Onward, Base, HasCell
  <2> QED BY <2>4, <2>5
<1>6. CASE PostLock
  <2>1. /\ cell[Poster] \in Cells /\ handle[cell[Poster]].kind = "FRAMEBUFFER" /\ SetWrite(cell[Poster])
        /\ At(Poster, "flip", cell[Poster]) /\ UNCHANGED <<use, mem, held, addr, currentBuffer>>
    BY <1>6 DEF PostLock, PostIn, Posted, screenVars, Base, HasCell, Work, WorkOf
  <2>2. Onward
    BY <1>2, <2>1 DEF ThreadPc
  <2> QED BY <1>1, <1>4, <2>1, <2>2, MemoryOfScreen DEF Onward, Memory, OneLock
<1>7. CASE Flip
  <2>1. /\ cell[Poster] \in Cells /\ handle[cell[Poster]].kind = "FRAMEBUFFER" /\ pc[Poster] = "flip"
        /\ Return(Poster) /\ UNCHANGED <<use, held, addr>>
        /\ \/ UNCHANGED <<handle, mem>>
           \/ UnlockHandle(cell[Poster])
        /\ currentBuffer' \in {cell[Poster], currentBuffer}
    BY <1>7 DEF Flip, PostIn, Posted, Base, HasCell, Work, WorkOf
  <2>2. Onward
    BY <1>3, <2>1
  <2>3. \A t \in Threads : pc[t] \in {"andLoad", "andStore"} => cell[t] # cell[Poster]
    BY <2>1 DEF Base, CellsApart
  <2> QED BY <1>1, <1>4, <2>1, <2>2, <2>3, MemoryOfScreen DEF Onward, Memory, OneLock
<1>8. CASE CopyLock
  <2>1. /\ pc[Poster] = "lockCopy" /\ cell[Poster] \in Cells /\ SetWrite(cell[Poster])
        /\ At(Poster, "readCopy", cell[Poster]) /\ held' = [held EXCEPT ![Poster] = cell[Poster]]
        /\ UNCHANGED <<use, mem, addr, currentBuffer>>
    BY <1>8 DEF CopyLock, PostIn, Posted, screenVars, Base, HasCell
  <2>2. held[Poster] = "none" /\ \A u \in Threads : held[u] # cell[Poster]
    BY <2>1 DEF Base, Work, WorkOf, Apart
  <2>3. Onward
    BY <1>2, <2>1 DEF ThreadPc
  <2> QED BY <2>1, <2>2, <2>3, MemoryOfLock
<1>9. CASE CopyRead
  <2>1. /\ pc[Poster] = "readCopy" /\ cell[Poster] \in Cells /\ At(Poster, "copy", cell[Poster])
        /\ addr' = [addr EXCEPT ![Poster] = Address(handle[cell[Poster]])]
        /\ UNCHANGED <<handle, use, mem, held, currentBuffer>>
    BY <1>9 DEF CopyRead, PostIn, Posted, handleVars, screenVars, Base, HasCell
  <2>2. Onward
    BY <1>2, <2>1 DEF ThreadPc
  <2> QED BY <2>1, <2>2, MemoryOfRead
<1>10. CASE Copy
  <2>1. /\ held[Poster] = cell[Poster] /\ cell[Poster] \in Cells /\ UnlockHandle(cell[Poster]) /\ LetGo(Poster)
        /\ Return(Poster) /\ UNCHANGED <<use, currentBuffer>>
    BY <1>10 DEF Copy, PostIn, Posted, screenVars, Base, HasCell, Work, WorkOf
  <2>2. held[Poster] # "none"
    BY <2>1, CellAssumption
  <2> QED BY <1>3, <2>1, <2>2, MemoryOfUnlock
<1> QED BY <1>5, <1>6, <1>7, <1>8, <1>9, <1>10 DEF PostStep

LEMMA LockMemory ==
  ASSUME Careful, Base, Base', Memory, NEW t \in Threads,
         \/ \E c \in Cells : Lock(t, c) \/ LockYcbcr(t, c)
         \/ ReadBase(t) \/ Unlock(t),
         UNCHANGED <<screenVars, deviceVars>>
  PROVE  Memory'
<1>1. currentBuffer' = currentBuffer
  BY DEF screenVars
<1>2. ASSUME Return(t)
      PROVE  Onward
  BY <1>2, AtOnward DEF Return, ThreadPc
<1>3. ASSUME NEW c \in Cells, Lock(t, c) \/ LockYcbcr(t, c)
      PROVE  Memory'
  <2>1. /\ SetWrite(c) /\ held' = [held EXCEPT ![t] = c] /\ held[t] = "none"
        /\ At(t, "read", c) \/ Return(t)
        /\ \A u \in Threads : held[u] # c
        /\ UNCHANGED <<use, mem, addr>>
    BY <1>3 DEF Lock, LockYcbcr, Asks, InUse, Careful
  <2>2. Onward
    BY <1>2, <2>1, AtOnward DEF ThreadPc
  <2> QED BY <1>1, <2>1, <2>2, MemoryOfLock
<1>4. CASE ReadBase(t)
  BY <1>1, <1>2, <1>4, MemoryOfRead DEF ReadBase, handleVars
<1>5. CASE Unlock(t)
  BY <1>1, <1>5, StayOnward, MemoryOfUnlock DEF Unlock
<1> QED BY <1>3, <1>4, <1>5

LEMMA SlotMemory ==
  ASSUME Careful, Base, Base', Memory, NEW t \in Threads, MaskStep(t)
  PROVE  Memory'
<1>1. UNCHANGED <<mem, held, addr, currentBuffer>>
  BY DEF MaskStep, BeginAlloc, BeginFree, OrLoad, OrStore, AndLoad, AndStore, LoadMask, handleVars, screenVars
<1>2. \A u \in Threads : pc[u] \in {"andLoad", "andStore"} => cell[u] # currentBuffer
  BY DEF Memory, OneLock
<1>3. currentBuffer # "none" => handle[currentBuffer].kind = "FRAMEBUFFER"
  BY DEF Memory, OneLock
<1>4. CASE OrStore(t) \/ AndStore(t)
  <2>1. /\ pc[t] \in {"orStore", "andStore"} /\ cell[t] \in Cells /\ pc'[t] = "idle"
        /\ \A u \in Threads : u # t => pc'[u] = pc[u] /\ cell'[u] = cell[u]
        /\ \A d \in Cells : d # cell[t] => handle'[d] = handle[d] /\ use'[d] = use[d]
    BY <1>4, StoreEffect DEF OrStore, AndStore
  <2>2. Onward
    BY <2>1 DEF Onward
  <2>3. \A u \in Threads : held[u] # cell[t]
    BY <2>1 DEF Base, Apart
  <2>4. handle[cell[t]].base = "null" /\ cell[t] # currentBuffer
    <3>1. CASE OrStore(t)
      BY <1>3, <2>1, <3>1, FreedType, CellAssumption DEF OrStore, Base, Work, WorkOf, Handles
    <3>2. CASE AndStore(t)
      BY <1>2, <2>1, <3>2 DEF AndStore, Base, Work, WorkOf, Handles
    <3> QED BY <1>4, <3>1, <3>2
  <2>5. /\ handle'[cell[t]].base = "null" /\ use'[cell[t]] \notin Dropped
        /\ handle'[cell[t]].kind = "ION" => "WRITE" \notin handle'[cell[t]].lockState
    <3>1. slot[t] \in Slots
      BY DEF Base, TypeOK
    <3>2. CASE OrStore(t)
      <4>1. PICK s \in ScreenShapes : handle'[cell[t]] = FramebufferHandle(slot[t], s)
        BY <3>2, StoreEffect
      <4> QED BY <3>1, <3>2, <4>1, StoreEffect, FramebufferType, DeviceAssumption DEF Dropped
    <3>3. CASE AndStore(t)
      BY <3>3, StoreEffect, FreedType DEF Dropped
    <3> QED BY <1>4, <3>2, <3>3
  <2>6. \A p \in Pages : p # "null"
    BY PageAssumption
  <2> QED BY <1>1, <2>1, <2>2, <2>3, <2>4, <2>5, <2>6, MemoryOfCell
<1>5. CASE OrLoad(t) \/ AndLoad(t)
  <2>1. PICK to \in {"orStore", "andStore"} :
          /\ At(t, to, cell[t]) /\ (to = "andStore" => pc[t] = "andLoad")
          /\ UNCHANGED <<handle, use>>
    BY <1>5 DEF OrLoad, AndLoad, LoadMask, handleVars
  <2>2. /\ pc'[t] = to /\ cell'[t] = cell[t]
        /\ \A u \in Threads : u # t => pc'[u] = pc[u] /\ cell'[u] = cell[u]
    BY <1>5, <2>1, AtEffect DEF Base, HasCell, ThreadPc, TypeOK
  <2> QED BY <1>1, <1>2, <1>3, <2>1, <2>2, MemoryOfScreen
<1>6. ASSUME NEW c \in Cells, BeginAlloc(t, c) \/ BeginFree(t, c)
      PROVE  Memory'
  <2>1. PICK where \in {"orLoad", "andLoad"} :
          At(t, where, c) /\ (where = "andLoad" => c # currentBuffer) /\ UNCHANGED <<handle, use>>
    BY <1>6 DEF BeginAlloc, BeginFree, MayFree, handleVars, Careful
  <2>2. /\ pc'[t] = where /\ cell'[t] = c
        /\ \A u \in Threads : u # t => pc'[u] = pc[u] /\ cell'[u] = cell[u]
    BY <2>1, AtEffect DEF Base, ThreadPc
  <2> QED BY <1>1, <1>2, <1>3, <2>1, <2>2, MemoryOfScreen
<1> QED BY <1>4, <1>5, <1>6 DEF MaskStep

LEMMA NextMemory == Careful /\ Base /\ Base' /\ Memory /\ [Next]_vars => Memory'
<1> SUFFICES ASSUME Careful, Base, Base', Memory, [Next]_vars PROVE Memory'
  OBVIOUS
<1>1. CASE ModuleStep
  <2>1. CASE \E c \in Cells : Receive(c) \/ Delete(c) \/ Register(c) \/ RegisterFails(c) \/ Unregister(c)
    BY <1>1, <2>1, ReceiveMemory, FreeMemory, RegisterMemory, UnregisterMemory DEF ModuleStep
  <2>2. CASE \E t \in Threads : \/ \E c \in Cells : Lock(t, c) \/ LockYcbcr(t, c)
                                \/ ReadBase(t) \/ Unlock(t)
    BY <1>1, <2>2, LockMemory DEF ModuleStep
  <2> QED BY <1>1, <2>1, <2>2 DEF ModuleStep
<1>2. CASE PostStep
  BY <1>2, PostMemory
<1>3. CASE \E t \in Threads : MaskStep(t)
  BY <1>3, SlotMemory
<1>4. CASE OpenDevice \/ CloseDevice \/ OpenFramebuffer \/ UNCHANGED vars
  <2>1. UNCHANGED <<handle, use, mem, held, addr, pc, cell, currentBuffer>>
    BY <1>4 DEF OpenDevice, CloseDevice, OpenFramebuffer, vars, handleVars, threadVars, screenVars
  <2> QED BY <2>1, MemoryOfScreen DEF Memory, OneLock
<1>5. ASSUME NEW c \in Cells,
             \/ FreeIon(c)
             \/ \E s \in Shapes : AllocBuffer(c, s)
             \/ \E s \in ScreenShapes : AllocSingle(c, s)
      PROVE  Memory'
  <2>1. CASE \E s \in ScreenShapes : AllocSingle(c, s)
    BY <2>1, DeviceAssumption, ScreenTypes, AllocIonMemory DEF AllocSingle
  <2>2. CASE FreeIon(c)
    BY <2>2, FreeMemory
  <2>3. CASE \E s \in Shapes : AllocBuffer(c, s)
    BY <2>3, ShapeAssumption, ShapeTypes, AllocIonMemory DEF AllocBuffer, screenVars
  <2> QED BY <1>5, <2>1, <2>2, <2>3
<1> QED BY <1>1, <1>2, <1>3, <1>4, <1>5 DEF Next, DeviceStep, MaskStep

LEMMA MemoryHolds == Careful => (Spec => []Memory)
<1>1. Init => Memory
  BY InitMemory
<1>2. Careful /\ Base /\ Base' /\ Memory /\ [Next]_vars => Memory'
  BY NextMemory
<1> SUFFICES ASSUME Careful PROVE Spec => []Memory
  OBVIOUS
<1>3. Base /\ Base' /\ Memory /\ [Next]_vars => Memory'
  BY <1>2
<1> QED BY <1>1, <1>3, BaseHolds, PTL DEF Spec

\* With careful callers an address that gralloc_lock or fb_post's copy has read stays good
\* until the unlock: gralloc_unregister_buffer puts the unmapping of a locked buffer off.
THEOREM AddressesGood == Careful => (Spec => []NeverStale)
<1>1. Memory => NeverStale
  BY DEF Memory
<1> QED BY <1>1, MemoryHolds, PTL

\* With careful callers no mapping is forgotten: each belongs to one live buffer, and the
\* unmapping that was put off is done by the unlock.  Careful leaves out callers that
\* register a buffer they have mapped: gralloc_register_buffer then maps it again and the
\* first mapping is lost.
THEOREM NoMappingLost == Careful => (Spec => []MappingsTracked)
<1>1. Base /\ Memory => MappingsTracked
  <2> SUFFICES ASSUME Base, Memory PROVE MappingsTracked
    OBVIOUS
  <2>1. \A p \in Pages : mem[p] # "none" => use[mem[p]] # "free" /\ handle[mem[p]].base = p
    <3> TAKE p \in Pages
    <3> HAVE mem[p] # "none"
    <3>1. mem[p] \in Cells /\ handle[mem[p]].base = p
      BY DEF Base, TypeOK, Memory, Mapped
    <3>2. p # "null"
      BY PageAssumption
    <3> QED BY <3>1, <3>2, FreedType DEF Base, Handles
  <2>2. \A c \in Cells : use[c] \in Dropped /\ ~InUse(c) => handle[c].base = "null"
    <3> TAKE c \in Cells
    <3> HAVE use[c] \in Dropped /\ ~InUse(c)
    <3>1. handle[c].kind = "ION"
      BY DEF Base, TypeOK, Handle, Handles, Dropped
    <3>2. "WRITE" \notin handle[c].lockState
      BY <3>1 DEF InUse, Memory, Locks
    <3> QED BY <3>2 DEF Memory, Locks
  <2> QED BY <2>1, <2>2 DEF MappingsTracked
<1> QED BY <1>1, BaseHolds, MemoryHolds, PTL
=============================================================================
