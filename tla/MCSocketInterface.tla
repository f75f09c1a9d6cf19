------------------------- MODULE MCSocketInterface --------------------------
(* Two clients with short command lines, for TLC. *)
EXTENDS SocketInterface

Msg(t, p) == [rev |-> DefaultRev, type |-> t, payload |-> p]

\* A short sync that, like the real one, holds its first byte again.
MCSync == <<105, 86, 105, 0>>

\* A message without payload before one whose payload begins like a sync; one that is too large
\* and one of another revision before one without payload.
MCScripts ==
  {<<Msg(Initialize, <<>>), Msg(2, <<105, 86>>)>>,
   <<Msg(2, <<9, 9, 9>>), [rev |-> 2, type |-> 2, payload |-> <<>>], Msg(3, <<>>)>>}
=============================================================================
