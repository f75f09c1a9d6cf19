----------------------------- MODULE SlotPool -----------------------------
(***************************************************************************)
(* What the framebuffer side of gralloc promises: a screen's slot belongs  *)
(* to one buffer at a time, from its allocation until it is freed.         *)
(***************************************************************************)
CONSTANTS Slots, Cells

VARIABLE owners   \* owners[i]: the buffers that draw into slot i

Init == owners = [i \in Slots |-> {}]

\* A buffer takes a slot that nobody has.
Take(i, c) == owners[i] = {} /\ owners' = [owners EXCEPT ![i] = {c}]

\* Its buffer is freed.
Give(i) == owners' = [owners EXCEPT ![i] = {}]

Next == \E i \in Slots : Give(i) \/ \E c \in Cells : Take(i, c)

Spec == Init /\ [][Next]_owners
=============================================================================
