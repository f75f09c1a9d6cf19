--------------------------- MODULE PrivateHandle ---------------------------
(***************************************************************************)
(* The buffers of the gralloc HAL, src/common/gralloc: what a              *)
(* private_handle_t says of one (gralloc_priv.h), how much memory          *)
(* alloc_device_alloc asks for, and where gralloc_lock_ycbcr puts the      *)
(* planes in it.                                                           *)
(***************************************************************************)
EXTENDS Integers

CONSTANTS
  Pages,        \* addresses that mmap may return for a buffer
  NumSlots,     \* NUM_BUFFERS: screens asked of the framebuffer driver
  XRes, YRes,   \* the screen in pixels
  LineLength    \* finfo.line_length: bytes from row to row, as the driver has them

Align(v, b) == ((v + b - 1) \div b) * b

ASSUME PageAssumption == Pages \intersect {"null", "foreign", "none", "screen"} = {}
ASSUME SlotAssumption == NumSlots \in Nat \ {0}
ASSUME ScreenAssumption == {XRes, YRes, LineLength} \subseteq Nat \ {0}

Slots == 0 .. (NumSlots - 1)

\* HAL_PIXEL_FORMAT_...: RGBA_8888 stands for RGBX_8888 and BGRA_8888, too.
Format == {"RGBA_8888", "RGB_888", "RGB_565", "YCrCb_420_SP", "YV12"}
Planar == {"YCrCb_420_SP", "YV12"}
Shape  == [format: Format, width: Nat \ {0}, height: Nat \ {0}]

\* bpp, which stays at 1 for the planar formats.
BytesPerPixel(f) ==
  CASE f = "RGBA_8888" -> 4 [] f = "RGB_888" -> 3 [] f = "RGB_565" -> 2 [] OTHER -> 1

\* hnd->byte_stride, and bpr for the other formats.
ByteStride(s) == Align(s.width * BytesPerPixel(s.format), 64)

\* hnd->stride: in pixels, or bytes of a row of the luma plane.
Stride(s) == IF s.format \in Planar THEN Align(s.width, 16)
             ELSE ByteStride(s) \div BytesPerPixel(s.format)

\* Rows of the luma plane for which there is memory.
Rows(s) == CASE s.format = "YCrCb_420_SP" -> Align(s.height, 16)
             [] s.format = "YV12" -> Align(s.height, 2)
             [] OTHER -> s.height

\* Mutated form of BufferSize: no room for the second chroma plane.
BufferSizeOneChroma(s) ==
  IF s.format \in Planar THEN Rows(s) * Stride(s) + (Rows(s) \div 2) * Align(Stride(s) \div 2, 16)
                         ELSE ByteStride(s) * s.height

\* size.
BufferSize(s) == IF s.format \in Planar THEN Rows(s) * (Stride(s) + Align(Stride(s) \div 2, 16))
                                        ELSE ByteStride(s) * s.height

\* bufferSize of the framebuffer code: one screen.
ScreenSize == LineLength * YRes

\* The build sets GRALLOC_16_BITS: whatever format a buffer for the screen was asked for
\* with, its handle says RGB_565; so does the framebuffer device of the screen.
OnScreen(s) == [s EXCEPT !.format = "RGB_565"]
ScreenShape == [format |-> "RGB_565", width |-> XRes, height |-> YRes]

\* ycbcr: the first byte of each plane and the distance of its rows.
Ycbcr(s) ==
  LET luma == Stride(s) * s.height
      row  == Align(s.width \div 2, 16)
  IN IF s.format = "YCrCb_420_SP"
     THEN [y |-> 0, cr |-> luma, cb |-> luma + 1, cstride |-> Stride(s)]
     ELSE [y |-> 0, cr |-> luma, cb |-> luma + (row * s.height) \div 2, cstride |-> row]

\* Flags of lockState.
LockState == {"WRITE", "MAPPED", "UNREGISTERED"}

Handle ==
  [kind: {"ION", "FRAMEBUFFER"},           \* flags
   slot: 0 .. NumSlots,                    \* (base - framebuffer base) / bufferSize
   base: Pages \union {"null", "foreign"}, \* foreign: mapped there in another process
   lockState: SUBSET LockState,
   pid: {"own", "peer"},                   \* the process that created or registered it
   shape: Shape,                           \* width, height, format
   asked: Shape,                           \* what stride and byte_stride follow from
   size: Nat]

\* The constructors.
IonHandle(p, s, a, n) ==
  [kind |-> "ION", slot |-> 0, base |-> p, lockState |-> {"MAPPED"}, pid |-> "own",
   shape |-> s, asked |-> a, size |-> n]
FramebufferHandle(i, a) ==
  [kind |-> "FRAMEBUFFER", slot |-> i, base |-> "null", lockState |-> {}, pid |-> "own",
   shape |-> OnScreen(a), asked |-> a, size |-> BufferSize(a)]

\* Freed memory: the destructor clears magic, and validate refuses it.
Freed == [IonHandle("null", ScreenShape, ScreenShape, 0) EXCEPT !.lockState = {}]
=============================================================================
