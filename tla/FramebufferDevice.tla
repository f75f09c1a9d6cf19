------------------------- MODULE FramebufferDevice -------------------------
(***************************************************************************)
(* framebuffer_device.cpp: the screen memory is mapped once and cut into   *)
(* slots, and one thread posts buffers: a framebuffer buffer by showing    *)
(* its slot, any other one by copying it to the screen.                    *)
(***************************************************************************)
EXTENDS GrallocModule

CONSTANT Poster   \* the thread that posts

ASSUME PosterAssumption == Poster \in Threads

VARIABLES
  numBuffers,    \* 0 until the screen memory is mapped: framebuffer = NULL
  bufferMask,    \* the slots that are handed out
  currentBuffer  \* the handle that was posted last

screenVars == <<numBuffers, bufferMask, currentBuffer>>

\* init_frame_buffer_locked when the driver gives room for n screens.  The handle of the
\* whole screen is never unmapped, and its lock state is read by nobody.
MapScreen(n) == numBuffers' = n /\ bufferMask' = {}

\* PAGE_FLIP or not: what the driver may give.
NumBuffers == IF numBuffers = 0 THEN 1 .. NumSlots ELSE {numBuffers}
-----------------------------------------------------------------------------
\* fb_post, called with a buffer for the whole screen that nobody else has in hand: the
\* buffer posted before is unlocked.
Post(c) ==
  /\ pc[Poster] = "idle" /\ held[Poster] = "none"
  /\ numBuffers # 0
  /\ use[c] \in Usable /\ handle[c].shape = ScreenShape /\ ~InUse(c)
  /\ IF currentBuffer # "none" /\ use[currentBuffer] # "free"
     THEN UnlockHandle(currentBuffer) ELSE UNCHANGED <<handle, mem>>
  /\ currentBuffer' = "none"
  /\ At(Poster, IF handle[c].kind = "FRAMEBUFFER" THEN "lockFlip" ELSE "lockCopy", c)
  /\ UNCHANGED <<use, ionClient, held, addr, numBuffers, bufferMask>>

PostIn(where) == pc[Poster] = where
Posted == cell[Poster]

\* m->base.lock for the post.
PostLock ==
  /\ PostIn("lockFlip")
  /\ SetWrite(Posted) /\ At(Poster, "flip", Posted)
  /\ UNCHANGED <<use, mem, ionClient, held, addr, screenVars>>

\* FBIOPAN_DISPLAY, and the three ioctls around the wait for the vertical sync, which are
\* made unless setSwapInterval has put swapInterval (1 at first) to 0: without them the
\* last case cannot happen.  When the first fails the buffer is unlocked; when one of the
\* others does it stays locked, and currentBuffer does not name it.  0 is returned always.
Flip ==
  /\ PostIn("flip")
  /\ \/ currentBuffer' = Posted /\ UNCHANGED <<handle, mem>>
     \/ "flip" \in Faults /\ UnlockHandle(Posted) /\ UNCHANGED currentBuffer
     \/ "vsync" \in Faults /\ UNCHANGED <<handle, mem, currentBuffer>>
  /\ Return(Poster)
  /\ UNCHANGED <<use, ionClient, held, addr, numBuffers, bufferMask>>

\* m->base.lock before the copy.  Its result is not looked at: if it was refused, the
\* address that is read next is the caller's uninitialized variable.
CopyLock ==
  /\ PostIn("lockCopy")
  /\ SetWrite(Posted)
  /\ held' = [held EXCEPT ![Poster] = Posted] /\ At(Poster, "readCopy", Posted)
  /\ UNCHANGED <<use, mem, ionClient, addr, screenVars>>

CopyRead ==
  /\ PostIn("readCopy")
  /\ addr' = [addr EXCEPT ![Poster] = Address(handle[Posted])]
  /\ At(Poster, "copy", Posted)
  /\ UNCHANGED <<handleVars, ionClient, held, screenVars>>

\* memcpy, and the unlock.
Copy ==
  /\ PostIn("copy")
  /\ UnlockHandle(Posted) /\ LetGo(Poster) /\ Return(Poster)
  /\ UNCHANGED <<use, ionClient, screenVars>>

PostStep == (\E c \in Cells : Post(c)) \/ PostLock \/ Flip \/ CopyLock \/ CopyRead \/ Copy
=============================================================================
