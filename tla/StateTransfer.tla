--------------------------- MODULE StateTransfer ---------------------------
(***************************************************************************)
(* StateSync (src/src/state_sync.cpp): an editor fetches the document of a *)
(* peer over TCP.  A client tries its peers in order, each with timeouts;  *)
(* a server handles one connection at a time.  SyncedReplication takes     *)
(* from here that a call of requestState ends, and that the frame it       *)
(* delivers was serialized after the call began.                           *)
(*                                                                         *)
(* A connection is named by its client and its server: a call tries each   *)
(* peer once.  Of a frame two parts matter, the header and the payload.    *)
(* What is in a frame is the version of the document it was made from.     *)
(***************************************************************************)
EXTENDS Naturals, Sequences, SequencesExt, FiniteSets

CONSTANTS
  Clients,      \* editors in a call of requestState
  Servers,      \* editors with a running server
  Order,        \* the order in which each client tries the servers
  MaxVersions,  \* bound: edits of a served document
  Crashes,      \* servers that may crash
  Stalls,       \* clients whose host may vanish without closing anything
  Long          \* servers whose frame exceeds the kernel's buffers

ASSUME TransferAssumption ==
  /\ Order \in [Clients -> Seq(Servers)]
  /\ \A c \in Clients : IsInjective(Order[c])
  /\ MaxVersions \in Nat
  /\ Crashes \subseteq Servers /\ Long \subseteq Servers
  /\ Stalls \subseteq Clients

VARIABLES
  client,   \* where each client is in tryPeerImpl
  try,      \* the place in Order of the peer it tries
  frame,    \* the frame its consumer was given: server and version, or none
  began,    \* history: the versions when the call began
  backlog,  \* the connections each server has yet to accept
  server,   \* where each server thread is, and on which connection
  open,     \* connections the client has not closed
  sent,     \* per connection: how much of the frame the server has written
  snap,     \* per connection: the version it has serialized
  asked,    \* connections on which the request byte was written
  version,  \* the version of each server's document
  up        \* the servers that are alive

clientVars == <<client, try, frame>>
connVars   == <<open, sent, snap, asked>>
vars == <<clientVars, began, backlog, server, connVars, version, up>>

Conns == Clients \X Servers
NoFrame == <<>>
Idle == [at |-> "accepting"]

Init ==
  /\ client = [c \in Clients |-> "idle"]
  /\ try = [c \in Clients |-> 1]
  /\ frame = [c \in Clients |-> NoFrame]
  /\ version = [s \in Servers |-> 0]
  /\ began = [c \in Clients |-> [s \in Servers |-> 0]]
  /\ backlog = [s \in Servers |-> <<>>]
  /\ server = [s \in Servers |-> Idle]
  /\ open = {} /\ asked = {}
  /\ sent = [k \in Conns |-> 0]
  /\ snap = [k \in Conns |-> 0]
  /\ up = Servers

-----------------------------------------------------------------------------
(* The client: requestState and tryPeerImpl.                               *)

Peer(c) == Order[c][try[c]]
Conn(c) == <<c, Peer(c)>>

GoTo(c, at) == client' = [client EXCEPT ![c] = at]

\* The next address, or false when there is none.
NextPeer(c) ==
  IF try[c] < Len(Order[c])
  THEN /\ try' = [try EXCEPT ![c] = @ + 1]
       /\ GoTo(c, "connecting")
  ELSE /\ GoTo(c, "failed")
       /\ UNCHANGED try

Begin(c) ==
  /\ client[c] = "idle"
  /\ IF Order[c] = <<>> THEN GoTo(c, "failed") ELSE GoTo(c, "connecting")
  /\ began' = [began EXCEPT ![c] = version]
  /\ UNCHANGED <<try, frame, backlog, server, connVars, version, up>>

\* The kernel completes the connection before the server accepts it.
Connect(c) ==
  /\ client[c] = "connecting"
  /\ Peer(c) \in up
  /\ GoTo(c, "asking")
  /\ backlog' = [backlog EXCEPT ![Peer(c)] = Append(@, Conn(c))]
  /\ open' = open \cup {Conn(c)}
  /\ UNCHANGED <<try, frame, began, server, sent, snap, asked, version, up>>

\* Every retry failed until the deadline.
ConnectFails(c) ==
  /\ client[c] = "connecting"
  /\ Peer(c) \notin up
  /\ NextPeer(c)
  /\ UNCHANGED <<frame, began, backlog, server, connVars, version, up>>

\* The server died: the write fails, or it succeeds and reading fails.
AskFails(c) ==
  /\ client[c] = "asking"
  /\ Peer(c) \notin up
  /\ open' = open \ {Conn(c)}
  /\ NextPeer(c)
  /\ UNCHANGED <<frame, began, backlog, server, sent, snap, asked, version, up>>

Ask(c) ==
  /\ client[c] = "asking"
  /\ GoTo(c, "header")
  /\ asked' = asked \cup {Conn(c)}
  /\ UNCHANGED <<try, frame, began, backlog, server, open, sent, snap, version, up>>

ReadHeader(c) ==
  /\ client[c] = "header"
  /\ sent[Conn(c)] >= 1
  /\ GoTo(c, "payload")
  /\ UNCHANGED <<try, frame, began, backlog, server, connVars, version, up>>

\* The whole frame is there: it goes to the consumer.
Deliver(c) ==
  /\ client[c] = "payload"
  /\ sent[Conn(c)] = 2
  /\ GoTo(c, "loaded")
  /\ frame' = [frame EXCEPT ![c] = <<Peer(c), snap[Conn(c)]>>]
  /\ open' = open \ {Conn(c)}
  /\ UNCHANGED <<try, began, backlog, server, sent, snap, asked, version, up>>

\* Mutant of ReadFails: only a dead server ends the wait.
ReadFails_NoTimeout(c) ==
  /\ client[c] \in {"header", "payload"}
  /\ Peer(c) \notin up
  /\ open' = open \ {Conn(c)}
  /\ NextPeer(c)
  /\ UNCHANGED <<frame, began, backlog, server, sent, snap, asked, version, up>>

\* readAll ran into the end of the stream or its timeout.
ReadFails(c) ==
  /\ client[c] \in {"header", "payload"}
  /\ open' = open \ {Conn(c)}
  /\ NextPeer(c)
  /\ UNCHANGED <<frame, began, backlog, server, sent, snap, asked, version, up>>

\* The host of a client vanishes: what it has open stays open.
Stall(c) ==
  /\ c \in Stalls
  /\ client[c] \in {"asking", "header", "payload"}
  /\ GoTo(c, "gone")
  /\ UNCHANGED <<try, frame, began, backlog, server, connVars, version, up>>

-----------------------------------------------------------------------------
(* The server: serverLoop and handleClient.                                *)

ServerAt(s, at) == s \in up /\ server[s].at = at

Accept(s) ==
  /\ ServerAt(s, "accepting")
  /\ backlog[s] # <<>>
  /\ server' = [server EXCEPT ![s] = [at |-> "reading", conn |-> Head(backlog[s])]]
  /\ backlog' = [backlog EXCEPT ![s] = Tail(@)]
  /\ UNCHANGED <<clientVars, began, connVars, version, up>>

\* Mutant of RequestFails: the request is waited for without a timeout.
RequestFails_NoTimeout(s) ==
  /\ ServerAt(s, "reading")
  /\ server[s].conn \notin asked \cup open
  /\ server' = [server EXCEPT ![s] = Idle]
  /\ UNCHANGED <<clientVars, began, backlog, open, sent, snap, asked, version, up>>

\* No request within 2 s, or the client has closed.
RequestFails(s) ==
  /\ ServerAt(s, "reading")
  /\ server[s].conn \notin asked
  /\ server' = [server EXCEPT ![s] = Idle]
  /\ UNCHANGED <<clientVars, began, backlog, open, sent, snap, asked, version, up>>

\* Mutant of Provide: the frame of the first request is kept for all.
Provide_Cached(s) ==
  /\ ServerAt(s, "reading")
  /\ server[s].conn \in asked
  /\ server' = [server EXCEPT ![s].at = "writing"]
  /\ UNCHANGED <<clientVars, began, backlog, connVars, version, up>>

\* provider_, which is Pipeline::serializeState.
Provide(s) ==
  /\ ServerAt(s, "reading")
  /\ server[s].conn \in asked
  /\ snap' = [snap EXCEPT ![server[s].conn] = version[s]]
  /\ server' = [server EXCEPT ![s].at = "writing"]
  /\ UNCHANGED <<clientVars, began, backlog, open, sent, asked, version, up>>

\* The client of the connection is reading what comes after the header.
Drained(k) == client[k[1]] = "payload" /\ k = Conn(k[1])

\* Mutant of Write: the loop does not stop at the end of the frame.
Write_PastEnd(s) ==
  /\ ServerAt(s, "writing")
  /\ sent' = [sent EXCEPT ![server[s].conn] = @ + 1]
  /\ UNCHANGED <<clientVars, began, backlog, server, open, snap, asked, version, up>>

\* The kernel takes the next part.  Of a frame that fits its buffers it takes
\* all, whether or not the client is still there; the rest of a longer one
\* has to wait for the client to read, and no timeout is set on this socket.
Write(s) ==
  /\ ServerAt(s, "writing")
  /\ LET k == server[s].conn IN
     /\ sent[k] < 2
     /\ sent[k] = 1 /\ s \in Long => Drained(k)
     /\ sent' = [sent EXCEPT ![k] = @ + 1]
  /\ UNCHANGED <<clientVars, began, backlog, server, open, snap, asked, version, up>>

\* A client that has closed answers the first part of a long frame with a
\* reset: the write under way returns short, and the next one of the loop
\* raises SIGPIPE, which nothing in the program handles: the editor is ended.
BrokenPipe(s) ==
  /\ ServerAt(s, "writing")
  /\ s \in Long
  /\ server[s].conn \notin open
  /\ sent[server[s].conn] = 1
  /\ up' = up \ {s}
  /\ UNCHANGED <<clientVars, began, backlog, server, open, sent, snap, asked, version>>

CloseConn(s) ==
  /\ ServerAt(s, "writing")
  /\ sent[server[s].conn] = 2
  /\ server' = [server EXCEPT ![s] = Idle]
  /\ UNCHANGED <<clientVars, began, backlog, open, sent, snap, asked, version, up>>

\* The kernel of a crashed editor closes its connections.
Crash(s) ==
  /\ s \in Crashes \cap up
  /\ up' = up \ {s}
  /\ UNCHANGED <<clientVars, began, backlog, server, open, sent, snap, asked, version>>

\* The served document changes while transfers are under way.
EditDocument(s) ==
  /\ s \in up
  /\ version[s] < MaxVersions
  /\ version' = [version EXCEPT ![s] = @ + 1]
  /\ UNCHANGED <<clientVars, began, backlog, server, connVars, up>>
-----------------------------------------------------------------------------
ClientStep(c) ==
  \/ Begin(c) \/ Connect(c) \/ ConnectFails(c) \/ Ask(c) \/ AskFails(c)
  \/ ReadHeader(c) \/ Deliver(c) \/ ReadFails(c)

ServerStep(s) ==
  Accept(s) \/ RequestFails(s) \/ Provide(s) \/ Write(s) \/ BrokenPipe(s) \/ CloseConn(s)

Next ==
  \/ \E c \in Clients : ClientStep(c) \/ Stall(c)
  \/ \E s \in Servers : ServerStep(s) \/ Crash(s) \/ EditDocument(s)

Spec == Init /\ [][Next]_vars

\* The threads run and every wait of theirs has a timeout.
FairSpec ==
  /\ Spec
  /\ \A c \in Clients : WF_vars(ClientStep(c))
  /\ \A s \in Servers : WF_vars(ServerStep(s))

-----------------------------------------------------------------------------
TypeOK ==
  /\ client \in [Clients -> {"idle", "connecting", "asking", "header", "payload",
                            "loaded", "failed", "gone"}]
  /\ \A c \in Clients : try[c] \in 1 .. Len(Order[c]) + 1
  /\ \A c \in Clients : frame[c] # NoFrame => frame[c] \in Servers \X (0 .. MaxVersions)
  /\ began \in [Clients -> [Servers -> 0 .. MaxVersions]]
  /\ \A s \in Servers : Range(backlog[s]) \subseteq Conns
  /\ \A s \in Servers :
       /\ server[s].at \in {"accepting", "reading", "writing"}
       /\ server[s].at # "accepting" => server[s].conn \in Conns
  /\ open \subseteq Conns /\ asked \subseteq Conns
  /\ sent \in [Conns -> 0 .. 2]
  /\ snap \in [Conns -> 0 .. MaxVersions]
  /\ version \in [Servers -> 0 .. MaxVersions]
  /\ up \subseteq Servers

\* What a client loads is a document its server had after the call began,
\* however many peers were tried before and whoever was served in between.
LoadsFreshDocument ==
  \A c \in Clients : client[c] = "loaded" =>
    frame[c][2] >= began[c][frame[c][1]]

\* A call of requestState returns, unless its host is gone.
CallReturns ==
  \A c \in Clients : client[c] = "connecting" ~> client[c] \in {"loaded", "failed", "gone"}

\* A server that is up turns to every connection, clients that never send
\* their request or never read the answer included (state_sync.cpp:138-144):
\* as long as its frames fit the buffers, for writing has no timeout.
EveryoneAccepted ==
  \A s \in Servers \ Long : backlog[s] # <<>> ~> backlog[s] = <<>> \/ s \notin up
=============================================================================
