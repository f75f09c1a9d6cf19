-------------------------- MODULE SocketInterface ---------------------------
(***************************************************************************)
(* The server's socket: src/socket_interface.cc, the message format of     *)
(* src/message.cc, and the part of server.cc that drives them.             *)
(*                                                                         *)
(* The main thread serves one client at a time.  It reads whatever bytes   *)
(* have arrived and cuts them into messages, which may be spread over any  *)
(* number of reads; each complete message is dispatched and answered       *)
(* before the next byte is looked at.  Clients are instances of client.cc: *)
(* they write all their messages before they read an answer, and may be    *)
(* gone at any moment, with a message half written or answers unread.      *)
(*                                                                         *)
(* The three symbols of a header stand for the 28 bytes after the sync:    *)
(* revision, type (with the subtype) and payload length.                   *)
(***************************************************************************)
EXTENDS Naturals, SequencesExt

CONSTANTS
  Client, None,
  Sync,         \* the bytes a message begins with: 'i' 'V' 'e' 'i' 'O' 'T' 'A' 0
  Scripts,      \* what a client may have on its command line
  MaxPayload,   \* payload bytes a header may announce (16 MiB)
  ReadLimit,    \* rdbufLen
  SendSpace,    \* bytes a client can write ahead of the server's reads
  ReplySpace    \* answers the server can write ahead of a client's reads

DefaultRev   == 1
Initialize   == 1
HeaderLength == 3
Backlog      == 2

Message == [rev: Nat, type: Nat \ {0}, payload: Seq(Nat)]
Accepted(m) == m.rev = DefaultRev /\ Len(m.payload) <= MaxPayload

ASSUME ClientAssumption == None \notin Client
ASSUME ScriptAssumption ==
  /\ Sync \in Seq(Nat) /\ Sync # <<>>
  /\ Scripts \subseteq Seq(Message)
  /\ MaxPayload \in Nat /\ ReadLimit \in Nat \ {0}
  /\ SendSpace \in Nat \ {0} /\ ReplySpace \in Nat \ {0}

\* A message whose header is refused leaves its payload behind; nothing in it may look
\* like the beginning of a sync.
ASSUME CleanAssumption ==
  \A s \in Scripts : \A n \in DOMAIN s :
    ~Accepted(s[n]) => \A k \in DOMAIN s[n].payload : s[n].payload[k] # Sync[1]

VARIABLES
  \* SocketInterface
  listening, clientSocket, state, syncAt, hbuf, message,
  data,         \* bytes of rdbuf that ProcessData has not looked at
  \* server.cc
  main, exiting, brokenPipe, initialized,
  \* the kernel's side of the connections
  backlog, toServer, unread,
  \* the clients
  conn, unsent,
  \* history: what each client sends, and what the server did with it
  script, handled, replies

parserVars  == <<state, syncAt, hbuf, message>>
serverVars  == <<listening, clientSocket, parserVars, data, main, brokenPipe, initialized>>
historyVars == <<handled, replies>>
clientVars  == <<conn, unsent>>
vars == <<serverVars, exiting, backlog, toServer, unread, clientVars, script, historyVars>>

NoHeader  == [rev |-> DefaultRev, type |-> 0, pLen |-> 0]
NoMessage == [header |-> NoHeader, payload |-> <<>>]

TypeOK ==
  /\ listening \in BOOLEAN /\ clientSocket \in Client \union {None}
  /\ state \in {"WaitingSync", "ReadingHeader", "ReadingPayload"}
  /\ syncAt \in 0 .. Len(Sync) - 1
  /\ hbuf \in Seq(Nat) /\ Len(hbuf) < HeaderLength
  /\ message \in [header: [rev: Nat, type: Nat, pLen: 0 .. MaxPayload], payload: Seq(Nat)]
  /\ Len(message.payload) <= message.header.pLen
  /\ data \in Seq(Nat) /\ Len(data) <= ReadLimit
  /\ main \in {"loop", "parse", "reply", "exited"}
  /\ exiting \in BOOLEAN /\ brokenPipe \in BOOLEAN /\ initialized \in BOOLEAN
  /\ backlog \in Seq(Client)
  /\ toServer \in [Client -> Seq(Nat)] /\ unread \in [Client -> 0 .. ReplySpace]
  /\ conn \in [Client -> {"new", "open", "gone"}] /\ unsent \in [Client -> Seq(Nat)]
  /\ script \in [Client -> Scripts]
  /\ handled \in [Client -> Seq([type: Nat, payload: Seq(Nat)])]
  /\ replies \in [Client -> Seq([to: Nat, accepted: BOOLEAN])]
-----------------------------------------------------------------------------
(* The format *)

\* Header::ToByteArray, and the payload after it.
Wire(m) == Sync \o <<m.rev, m.type, Len(m.payload)>> \o m.payload

Stream(ms) == FlattenSeq([n \in DOMAIN ms |-> Wire(ms[n])])

\* Header::Header(buf, false), and the headers it throws on.
Parsed(h)      == [rev |-> h[1], type |-> h[2], pLen |-> h[3]]
ValidHeader(h) == h.rev = DefaultRev /\ h.pLen <= MaxPayload
-----------------------------------------------------------------------------
(* The server *)

Init ==
  /\ listening = TRUE /\ clientSocket = None
  /\ state = "WaitingSync" /\ syncAt = 0 /\ hbuf = <<>> /\ message = NoMessage /\ data = <<>>
  /\ main = "loop" /\ exiting = FALSE /\ brokenPipe = FALSE /\ initialized = FALSE
  /\ backlog = <<>>
  /\ toServer = [c \in Client |-> <<>>] /\ unread = [c \in Client |-> 0]
  /\ script \in [Client -> Scripts]
  /\ conn = [c \in Client |-> "new"] /\ unsent = [c \in Client |-> Stream(script[c])]
  /\ handled = [c \in Client |-> <<>>] /\ replies = [c \in Client |-> <<>>]

\* The top of the server's loop.
Looping == main = "loop" /\ ~exiting

\* An answer met a closed connection: CloseConnection.
CloseBroken ==
  /\ Looping /\ brokenPipe
  /\ brokenPipe' = FALSE /\ clientSocket' = None
  /\ UNCHANGED <<listening, parserVars, data, main, initialized, exiting, backlog, toServer,
                 unread, clientVars, script, historyVars>>

\* Mutated form of Restarted: accept keeps what the last client left in the matcher.
RestartedNot == UNCHANGED <<state, syncAt>>

Restarted == state' = "WaitingSync" /\ syncAt' = 0

Accept ==
  /\ Looping /\ ~brokenPipe
  /\ clientSocket = None /\ backlog # <<>>
  /\ clientSocket' = Head(backlog) /\ backlog' = Tail(backlog)
  /\ Restarted
  /\ UNCHANGED <<listening, hbuf, message, data, main, brokenPipe, initialized, exiting,
                 toServer, unread, clientVars, script, historyVars>>

Read ==
  /\ Looping /\ ~brokenPipe /\ clientSocket # None
  /\ LET arrived == toServer[clientSocket]
         bread   == Min({Len(arrived), ReadLimit})
     IN /\ bread > 0
        /\ data' = SubSeq(arrived, 1, bread)
        /\ toServer' = [toServer EXCEPT ![clientSocket] = SubSeq(arrived, bread + 1, Len(arrived))]
  /\ main' = "parse"
  /\ UNCHANGED <<listening, clientSocket, parserVars, brokenPipe, initialized, exiting,
                 backlog, unread, clientVars, script, historyVars>>

\* Mutated form of AfterEnd: the descriptor is closed and kept.
AfterEndKept(c) == c

AfterEnd(c) == None

\* read returns 0, or an error because answers were left unread.
ReadEnd ==
  /\ Looping /\ ~brokenPipe /\ clientSocket # None
  /\ toServer[clientSocket] = <<>> /\ conn[clientSocket] = "gone"
  /\ clientSocket' = AfterEnd(clientSocket)
  /\ UNCHANGED <<listening, parserVars, data, main, brokenPipe, initialized, exiting, backlog,
                 toServer, unread, clientVars, script, historyVars>>

\* SIGINT ends the loop, and ~SocketInterface closes every socket.
Stop ==
  /\ main = "loop" /\ exiting
  /\ main' = "exited" /\ listening' = FALSE
  /\ clientSocket' = None /\ backlog' = <<>>
  /\ UNCHANGED <<parserVars, data, brokenPipe, initialized, exiting, toServer, unread,
                 clientVars, script, historyVars>>
-----------------------------------------------------------------------------
(* ProcessData: one step per iteration of its loop *)

\* The loop goes on while there are bytes.
Continue(rest) == data' = rest /\ main' = IF rest = <<>> THEN "loop" ELSE "parse"

\* Mutated form of SyncFound: syncAt is left at the end of the sync.
SyncFoundKeepsPlace == state' = "ReadingHeader" /\ syncAt' = Len(Sync) /\ hbuf' = <<>>

\* Mutated form of SyncFound: hbufPos keeps its value from a header that was cut off.
SyncFoundKeepsHeader == state' = "ReadingHeader" /\ syncAt' = 0 /\ UNCHANGED hbuf

SyncFound == state' = "ReadingHeader" /\ syncAt' = 0 /\ hbuf' = <<>>

NextSync(b) == IF Sync[syncAt + 1] = b THEN syncAt + 1 ELSE 0

MatchSync ==
  /\ main = "parse" /\ state = "WaitingSync"
  /\ \/ NextSync(Head(data)) = Len(Sync) /\ SyncFound
     \/ /\ NextSync(Head(data)) < Len(Sync) /\ syncAt' = NextSync(Head(data))
        /\ UNCHANGED <<state, hbuf>>
  /\ Continue(Tail(data))
  /\ UNCHANGED <<listening, clientSocket, message, brokenPipe, initialized, exiting, backlog,
                 toServer, unread, clientVars, script, historyVars>>

\* The server's callback, up to the answer: what m asks for is done, or refused.
Dispatch(m, rest) ==
  /\ message' = m
  /\ state' = "ReadingPayload"
  /\ handled' = [handled EXCEPT ![clientSocket] =
                   Append(@, [type |-> m.header.type, payload |-> m.payload])]
  /\ initialized' = (initialized \/ m.header.type = Initialize)
  /\ main' = "reply" /\ data' = rest

\* More payload is needed.
Await(m, rest) ==
  /\ message' = m
  /\ state' = "ReadingPayload"
  /\ Continue(rest)
  /\ UNCHANGED <<handled, initialized>>

\* Mutated form of HeaderRead: a message without payload waits for the next byte.
HeaderReadNoFallThrough(m, rest) == Await(m, rest)

\* A message without payload is complete with its header.
HeaderRead(m, rest) == IF m.header.pLen > 0 THEN Await(m, rest) ELSE Dispatch(m, rest)

ReadHeader ==
  /\ main = "parse" /\ state = "ReadingHeader"
  /\ LET toCopy == Min({HeaderLength - Len(hbuf), Len(data)})
         read   == hbuf \o SubSeq(data, 1, toCopy)
         rest   == SubSeq(data, toCopy + 1, Len(data))
     IN \/ /\ Len(read) < HeaderLength
           /\ hbuf' = read /\ Continue(rest)
           /\ UNCHANGED <<state, message, handled, initialized>>
        \/ /\ Len(read) = HeaderLength /\ ~ValidHeader(Parsed(read))
           /\ hbuf' = <<>> /\ state' = "WaitingSync" /\ Continue(rest)
           /\ UNCHANGED <<message, handled, initialized>>
        \/ /\ Len(read) = HeaderLength /\ ValidHeader(Parsed(read))
           /\ hbuf' = <<>>
           /\ HeaderRead([header |-> Parsed(read), payload |-> <<>>], rest)
  /\ UNCHANGED <<listening, clientSocket, syncAt, brokenPipe, exiting, backlog, toServer,
                 unread, clientVars, script, replies>>

ReadPayload ==
  /\ main = "parse" /\ state = "ReadingPayload"
  /\ LET toCopy == Min({message.header.pLen - Len(message.payload), Len(data)})
         m      == [message EXCEPT !.payload = @ \o SubSeq(data, 1, toCopy)]
         rest   == SubSeq(data, toCopy + 1, Len(data))
     IN IF Len(m.payload) = m.header.pLen THEN Dispatch(m, rest) ELSE Await(m, rest)
  /\ UNCHANGED <<listening, clientSocket, syncAt, hbuf, brokenPipe, exiting, backlog, toServer,
                 unread, clientVars, script, replies>>

\* Send waits for room, or meets a closed connection (SIGPIPE); then the callback returns.
Reply ==
  /\ main = "reply"
  /\ \/ /\ conn[clientSocket] = "gone"
        /\ brokenPipe' = TRUE
        /\ UNCHANGED <<replies, unread>>
     \/ /\ conn[clientSocket] = "open" /\ unread[clientSocket] < ReplySpace
        /\ unread' = [unread EXCEPT ![clientSocket] = @ + 1]
        /\ replies' = [replies EXCEPT ![clientSocket] =
             Append(@, [to |-> message.header.type, accepted |-> initialized])]
        /\ UNCHANGED brokenPipe
  /\ message' = NoMessage /\ state' = "WaitingSync"
  /\ Continue(data)
  /\ UNCHANGED <<listening, clientSocket, syncAt, hbuf, initialized, exiting, backlog,
                 toServer, clientVars, script, handled>>

Server == CloseBroken \/ Accept \/ Read \/ ReadEnd \/ Stop
          \/ MatchSync \/ ReadHeader \/ ReadPayload \/ Reply
-----------------------------------------------------------------------------
(* The clients *)

Connect(c) ==
  /\ conn[c] = "new" /\ listening /\ Len(backlog) <= Backlog
  /\ conn' = [conn EXCEPT ![c] = "open"]
  /\ backlog' = Append(backlog, c)
  /\ UNCHANGED <<serverVars, exiting, toServer, unread, unsent, script, historyVars>>

\* The server's end of c's connection exists: in the backlog, or accepted.
Connected(c) == clientSocket = c \/ c \in Range(backlog)

\* write takes what there is room for.
Write(c) ==
  /\ conn[c] = "open" /\ Connected(c)
  /\ \E n \in 1 .. Min({Len(unsent[c]), SendSpace - Len(toServer[c])}) :
       /\ toServer' = [toServer EXCEPT ![c] = @ \o SubSeq(unsent[c], 1, n)]
       /\ unsent' = [unsent EXCEPT ![c] = SubSeq(@, n + 1, Len(@))]
  /\ UNCHANGED <<serverVars, exiting, backlog, unread, conn, script, historyVars>>

\* client.cc reads answers once it has sent everything.
Receive(c) ==
  /\ conn[c] = "open" /\ unsent[c] = <<>> /\ unread[c] > 0
  /\ unread' = [unread EXCEPT ![c] = @ - 1]
  /\ UNCHANGED <<serverVars, exiting, backlog, toServer, clientVars, script, historyVars>>

\* The client is interrupted, or the server is gone.
Leave(c) ==
  /\ conn[c] = "open"
  /\ conn' = [conn EXCEPT ![c] = "gone"]
  /\ UNCHANGED <<serverVars, exiting, backlog, toServer, unread, unsent, script, historyVars>>

Interrupt ==
  /\ ~exiting /\ exiting' = TRUE
  /\ UNCHANGED <<serverVars, backlog, toServer, unread, clientVars, script, historyVars>>

Next ==
  \/ Server \/ Interrupt
  \/ \E c \in Client : Connect(c) \/ Write(c) \/ Receive(c) \/ Leave(c)

Spec == Init /\ [][Next]_vars

\* The server's thread runs, and so do clients that have something to write or read.
FairSpec == Spec /\ WF_vars(Server) /\ \A c \in Client : WF_vars(Write(c)) /\ WF_vars(Receive(c))
-----------------------------------------------------------------------------
(* Properties *)

\* The messages of ms the server is to act on.
Requests(ms) ==
  LET acts[n \in 0 .. Len(ms)] ==
        IF n = 0 THEN <<>>
        ELSE IF Accepted(ms[n])
             THEN Append(acts[n - 1], [type |-> ms[n].type, payload |-> ms[n].payload])
             ELSE acts[n - 1]
  IN acts[Len(ms)]

\* Bytes of c's stream the server has looked at.
Consumed(c) == Len(Stream(script[c])) - Len(unsent[c]) - Len(toServer[c])

\* Messages of c all of whose bytes the server has looked at.
Complete(c) == Max({n \in 0 .. Len(script[c]) : Len(Stream(SubSeq(script[c], 1, n))) <= Consumed(c)})

\* Whenever the server goes back to wait for its client, everything it has received completely
\* is dispatched, in order and unharmed, and nothing else is: a message is held back neither by
\* how its bytes were cut into reads, nor by an empty payload, nor by what an earlier client
\* left half sent (ProcessData).
NothingHeldBack ==
  \A c \in Client : main = "loop" /\ clientSocket = c =>
    handled[c] = Requests(SubSeq(script[c], 1, Complete(c)))

Status(c) ==
  CASE conn[c] = "new"        -> "new"
    [] clientSocket = c       -> "served"
    [] c \in Range(backlog)   -> "waiting"
    [] OTHER                  -> "over"

Promise == INSTANCE Session WITH
  requests <- [c \in Client |-> Requests(script[c])],
  status   <- [c \in Client |-> Status(c)],
  gone     <- {c \in Client : conn[c] = "gone"},
  stopped  <- main = "exited"

\* The byte machine implements the sessions its clients rely on: one client at a time, requests
\* acted on once and in order, answers to the right client and request, no session ended while
\* its client is there.
KeepsPromise == Promise!Spec

\* A client that stays gets an answer to every message, unless the server is told to stop.
AllAnswered ==
  \A c \in Client :
    clientSocket = c ~> \/ Len(replies[c]) = Len(Requests(script[c]))
                        \/ conn[c] = "gone" \/ exiting

\* A waiting client is accepted, if no other client stays for ever.
NextServed ==
  (\A d \in Client : []<>(clientSocket # d \/ conn[d] = "gone"))
  => \A c \in Client : (c \in Range(backlog)) ~> (clientSocket = c \/ exiting)
=============================================================================
