------------------------------ MODULE Session -------------------------------
(***************************************************************************)
(* What the socket of the iVeiOTA server promises to its clients: they are *)
(* served one after another, a client's requests are handled one by one in *)
(* the order it sent them, each is answered before the next, and only a    *)
(* client that left, or a server that stops, ends a session.  Until a      *)
(* client has sent Initialize, other requests are refused.                 *)
(***************************************************************************)
EXTENDS Naturals, Sequences

CONSTANTS Client, Initialize

VARIABLES
  requests,   \* requests[c]: what c wants handled, in order
  status,     \* status[c]: where c's session stands
  gone,       \* clients that left
  handled,    \* handled[c]: requests of c the server acted on
  replies,    \* replies[c]: answers sent to c
  stopped     \* the server was told to stop

vars == <<requests, status, gone, handled, replies, stopped>>

Init ==
  /\ requests \in [Client -> Seq([type: Nat, payload: Seq(Nat)])]
  /\ status = [c \in Client |-> "new"]
  /\ gone = {}
  /\ handled = [c \in Client |-> <<>>] /\ replies = [c \in Client |-> <<>>]
  /\ stopped = FALSE

\* Some client has initialized the server.
Initialized == \E c \in Client : \E n \in DOMAIN handled[c] : handled[c][n].type = Initialize

\* Every request the server acted on has its answer, unless its client left.
Answered(c) == Len(replies[c]) = Len(handled[c]) \/ c \in gone

Arrive(c) ==
  /\ status[c] = "new" /\ ~stopped
  /\ status' = [status EXCEPT ![c] = "waiting"]
  /\ UNCHANGED <<requests, gone, handled, replies, stopped>>

Begin(c) ==
  /\ status[c] = "waiting"
  /\ \A d \in Client : status[d] # "served"
  /\ status' = [status EXCEPT ![c] = "served"]
  /\ UNCHANGED <<requests, gone, handled, replies, stopped>>

Handle(c) ==
  /\ status[c] = "served" /\ Answered(c)
  /\ Len(handled[c]) < Len(requests[c])
  /\ handled' = [handled EXCEPT ![c] = Append(@, requests[c][Len(@) + 1])]
  /\ UNCHANGED <<requests, status, gone, replies, stopped>>

Answer(c) ==
  /\ status[c] = "served" /\ ~Answered(c)
  /\ replies' = [replies EXCEPT ![c] =
       Append(@, [to |-> handled[c][Len(@) + 1].type, accepted |-> Initialized])]
  /\ UNCHANGED <<requests, status, gone, handled, stopped>>

Leave(c) ==
  /\ status[c] # "new" /\ c \notin gone
  /\ gone' = gone \union {c}
  /\ UNCHANGED <<requests, status, handled, replies, stopped>>

End(c) ==
  /\ status[c] = "served" /\ c \in gone
  /\ status' = [status EXCEPT ![c] = "over"]
  /\ UNCHANGED <<requests, gone, handled, replies, stopped>>

Stop ==
  /\ ~stopped /\ stopped' = TRUE
  /\ \A c \in Client : Answered(c)
  /\ status' = [c \in Client |-> IF status[c] = "new" THEN "new" ELSE "over"]
  /\ UNCHANGED <<requests, gone, handled, replies>>

Next ==
  \/ \E c \in Client : Arrive(c) \/ Begin(c) \/ Handle(c) \/ Answer(c) \/ Leave(c) \/ End(c)
  \/ Stop

Spec == Init /\ [][Next]_vars
=============================================================================
