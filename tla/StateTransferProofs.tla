------------------------ MODULE StateTransferProofs ------------------------
(***************************************************************************)
(* Safety of StateTransfer for any clients and servers, in any order, with  *)
(* any of them crashing: what a client loads was made after it asked.      *)
(***************************************************************************)
EXTENDS StateTransfer, TLAPS

-----------------------------------------------------------------------------
(* The inductive invariant.                                                *)

Versions == 0 .. MaxVersions

Thread == [at : {"accepting"}] \cup [at : {"reading", "writing"}, conn : Conns]

TransferType ==
  /\ client \in [Clients -> {"idle", "connecting", "asking", "header", "payload",
                            "loaded", "failed", "gone"}]
  /\ try \in [Clients -> Nat]
  /\ frame \in [Clients -> {NoFrame} \cup (Servers \X Versions)]
  /\ began \in [Clients -> [Servers -> Versions]]
  /\ backlog \in [Servers -> Seq(Conns)]
  /\ server \in [Servers -> Thread]
  /\ open \subseteq Conns /\ asked \subseteq Conns
  /\ sent \in [Conns -> 0 .. 2]
  /\ snap \in [Conns -> Versions]
  /\ version \in [Servers -> Versions]
  /\ up \subseteq Servers

\* A client that is connected, or about to be, has a peer; one that has not
\* begun is at the first of them.
HasPeer ==
  \A c \in Clients :
    /\ client[c] = "idle" => try[c] = 1
    /\ try[c] \in 1 .. Len(Order[c]) + 1
    /\ client[c] \in {"connecting", "asking", "header", "payload"} =>
         try[c] \in DOMAIN Order[c]

\* A server handles its own connections.
OwnConnections ==
  \A s \in Servers :
    /\ \A i \in DOMAIN backlog[s] : backlog[s][i][2] = s
    /\ server[s].at # "accepting" => server[s].conn[2] = s

\* Documents never go back, so what a server has is no older than any call.
BeganBefore ==
  \A c \in Clients : \A s \in Servers : began[c][s] <= version[s]

Serving(k) == server[k[2]].at = "writing" /\ server[k[2]].conn = k

\* A request is written by a call that has begun, and what is written in
\* answer to it is no older than the call.
AnswersFresh ==
  \A k \in Conns :
    /\ k \in asked => client[k[1]] # "idle"
    /\ sent[k] >= 1 \/ Serving(k) =>
         client[k[1]] # "idle" /\ snap[k] >= began[k[1]][k[2]]

\* As LoadsFreshDocument, with the frame known to be there.
FramesFresh ==
  \A c \in Clients : client[c] = "loaded" =>
    /\ frame[c] \in Servers \X Versions
    /\ frame[c][2] >= began[c][frame[c][1]]

TransferInv ==
  /\ TransferType
  /\ HasPeer
  /\ OwnConnections
  /\ BeganBefore
  /\ AnswersFresh
  /\ FramesFresh

-----------------------------------------------------------------------------
(* The steps of a client.                                                  *)

Busy == {"connecting", "asking", "header", "payload"}

LEMMA PeerOfBusy ==
  ASSUME TransferInv, NEW c \in Clients, client[c] \in Busy
  PROVE  Peer(c) \in Servers /\ Conn(c) \in Conns /\ Conn(c)[1] = c /\ Conn(c)[2] = Peer(c)
<1>1. try[c] \in DOMAIN Order[c] /\ Order[c] \in Seq(Servers)
  BY TransferAssumption DEF TransferInv, HasPeer, Busy
<1>2. Peer(c) \in Servers
  BY <1>1 DEF Peer
<1> QED
  BY <1>2 DEF Conn, Conns

\* A step of a client that does not begin a call disturbs no answer.
LEMMA ClientMove ==
  ASSUME TransferInv, NEW c \in Clients, client[c] # "idle",
         NEW at, at # "idle",
         client' = [client EXCEPT ![c] = at],
         asked' = asked \/ (asked' = asked \cup {Conn(c)} /\ client[c] \in Busy),
         UNCHANGED <<began, version, sent, snap, server>>
  PROVE  BeganBefore' /\ AnswersFresh'
<1>1. \A d \in Clients : client[d] # "idle" => client'[d] # "idle"
  BY DEF TransferInv, TransferType
<1>2. BeganBefore'
  BY DEF TransferInv, BeganBefore
<1>3. ASSUME NEW k \in Conns
      PROVE  /\ k \in asked' => client'[k[1]] # "idle"
             /\ sent'[k] >= 1 \/ Serving(k)' =>
                  client'[k[1]] # "idle" /\ snap'[k] >= began'[k[1]][k[2]]
  <2>1. k[1] \in Clients
    BY DEF Conns
  <2>2. k \in asked => client[k[1]] # "idle"
    BY DEF TransferInv, AnswersFresh
  <2>3. k = Conn(c) /\ client[c] \in Busy => k[1] = c
    BY PeerOfBusy
  <2>4. k \in asked' => client'[k[1]] # "idle"
    BY <1>1, <2>1, <2>2, <2>3
  <2>5. sent'[k] = sent[k] /\ (Serving(k)' <=> Serving(k))
    BY DEF Serving
  <2>6. sent[k] >= 1 \/ Serving(k) =>
          client[k[1]] # "idle" /\ snap[k] >= began[k[1]][k[2]]
    BY DEF TransferInv, AnswersFresh
  <2> QED
    BY <1>1, <2>1, <2>4, <2>5, <2>6
<1> QED
  BY <1>2, <1>3 DEF AnswersFresh

\* A client that does not load keeps every client's frame fresh.
LEMMA OthersFrames ==
  ASSUME TransferInv, NEW c \in Clients, NEW at, at # "loaded",
         client' = [client EXCEPT ![c] = at], frame' = frame,
         \A d \in Clients : d # c => began'[d] = began[d]
  PROVE  FramesFresh'
<1>1. \A d \in Clients : client'[d] = IF d = c THEN at ELSE client[d]
  BY DEF TransferInv, TransferType
<1> QED
  BY <1>1 DEF TransferInv, FramesFresh

LEMMA BeginStep ==
  ASSUME TransferInv, NEW c \in Clients, Begin(c)
  PROVE  TransferInv'
<1> USE DEF TransferInv
<1>1. /\ client[c] = "idle"
      /\ began' = [began EXCEPT ![c] = version]
      /\ UNCHANGED <<try, frame, backlog, server, open, sent, snap, asked, version, up>>
  BY DEF Begin, connVars
<1>2. PICK at \in {"failed", "connecting"} :
        /\ client' = [client EXCEPT ![c] = at]
        /\ at = "connecting" => Order[c] # <<>>
  BY DEF Begin, GoTo
<1>3. /\ \A d \in Clients : client'[d] = IF d = c THEN at ELSE client[d]
      /\ \A d \in Clients : began'[d] = IF d = c THEN version ELSE began[d]
  BY <1>1, <1>2 DEF TransferType
<1>4. TransferType'
  BY <1>1, <1>2 DEF TransferType
<1>5. HasPeer'
  <2> SUFFICES ASSUME NEW d \in Clients
               PROVE  /\ client'[d] = "idle" => try'[d] = 1
                      /\ try'[d] \in 1 .. Len(Order[d]) + 1
                      /\ client'[d] \in Busy => try'[d] \in DOMAIN Order[d]
    BY DEF HasPeer, Busy
  <2>1. CASE d # c
    BY <1>1, <1>3, <2>1 DEF HasPeer, Busy
  <2>2. CASE d = c
    <3>1. Order[c] \in Seq(Servers)
      BY TransferAssumption
    <3>2. try[c] = 1
      BY <1>1 DEF HasPeer
    <3>3. /\ Len(Order[c]) \in Nat /\ DOMAIN Order[c] = 1 .. Len(Order[c])
          /\ Order[c] # <<>> => Len(Order[c]) >= 1
      BY <3>1
    <3> QED
      BY <1>1, <1>2, <1>3, <2>2, <3>2, <3>3 DEF Busy
  <2> QED
    BY <2>1, <2>2
<1>6. OwnConnections'
  BY <1>1 DEF OwnConnections
<1>7. BeganBefore'
  <2>1. \A s \in Servers : version[s] \in Nat
    BY TransferAssumption DEF TransferType, Versions
  <2> QED
    BY <1>1, <1>3, <2>1 DEF BeganBefore
<1>8. AnswersFresh'
  \* Nothing was asked or answered on behalf of an idle client.
  <2> SUFFICES ASSUME NEW k \in Conns
               PROVE  /\ k \in asked' => client'[k[1]] # "idle"
                      /\ sent'[k] >= 1 \/ Serving(k)' =>
                           client'[k[1]] # "idle" /\ snap'[k] >= began'[k[1]][k[2]]
    BY DEF AnswersFresh
  <2>1. k[1] \in Clients
    BY DEF Conns
  <2>2. Serving(k)' <=> Serving(k)
    BY <1>1 DEF Serving
  <2>3. /\ k \in asked => client[k[1]] # "idle"
        /\ sent[k] >= 1 \/ Serving(k) =>
             client[k[1]] # "idle" /\ snap[k] >= began[k[1]][k[2]]
    BY DEF AnswersFresh
  <2> QED
    BY <1>1, <1>3, <2>1, <2>2, <2>3
<1>9. FramesFresh'
  BY <1>1, <1>2, <1>3, OthersFrames
<1> QED
  BY <1>4, <1>5, <1>6, <1>7, <1>8, <1>9

\* Where a client goes when a peer fails it.
LEMMA NextPeerType ==
  ASSUME TransferInv, NEW c \in Clients, client[c] \in Busy, NextPeer(c)
  PROVE  /\ \E at \in {"connecting", "failed"} : client' = [client EXCEPT ![c] = at]
         /\ try' \in [Clients -> Nat]
         /\ HasPeer'
<1> USE DEF TransferInv
<1>1. Order[c] \in Seq(Servers) /\ try[c] \in 1 .. Len(Order[c]) + 1
  BY TransferAssumption DEF HasPeer
<1>2. CASE try[c] < Len(Order[c])
  <2>1. try' = [try EXCEPT ![c] = @ + 1] /\ client' = [client EXCEPT ![c] = "connecting"]
    BY <1>2 DEF NextPeer, GoTo
  <2>2. \A d \in Clients : /\ try'[d] = (IF d = c THEN try[c] + 1 ELSE try[d])
                            /\ client'[d] = (IF d = c THEN "connecting" ELSE client[d])
    BY <2>1 DEF TransferType
  <2>3. try[c] + 1 \in DOMAIN Order[c] /\ try[c] + 1 \in 1 .. Len(Order[c]) + 1
    BY <1>1, <1>2
  <2>4. HasPeer'
    BY <2>2, <2>3 DEF HasPeer
  <2> QED
    BY <1>1, <2>1, <2>4 DEF TransferType
<1>3. CASE ~(try[c] < Len(Order[c]))
  <2>1. try' = try /\ client' = [client EXCEPT ![c] = "failed"]
    BY <1>3 DEF NextPeer, GoTo
  <2>2. \A d \in Clients : client'[d] = IF d = c THEN "failed" ELSE client[d]
    BY <2>1 DEF TransferType
  <2> QED
    BY <2>1, <2>2 DEF HasPeer, TransferType
<1> QED
  BY <1>2, <1>3

\* The steps that give up on a peer.
LEMMA GiveUpStep ==
  ASSUME TransferInv, NEW c \in Clients,
         ConnectFails(c) \/ AskFails(c) \/ ReadFails(c)
  PROVE  TransferInv'
<1>1. /\ client[c] \in Busy
      /\ NextPeer(c)
      /\ open' \in {open, open \ {Conn(c)}}
      /\ UNCHANGED <<frame, began, backlog, server, sent, snap, asked, version, up>>
  BY DEF ConnectFails, AskFails, ReadFails, connVars, Busy
<1>2. PICK at \in {"connecting", "failed"} : client' = [client EXCEPT ![c] = at]
  BY <1>1, NextPeerType
<1>3. try' \in [Clients -> Nat] /\ HasPeer'
  BY <1>1, NextPeerType
<1>4. TransferType'
  BY <1>1, <1>2, <1>3 DEF TransferInv, TransferType
<1>5. OwnConnections'
  BY <1>1 DEF TransferInv, OwnConnections
<1>6. BeganBefore' /\ AnswersFresh'
  BY <1>1, <1>2, ClientMove DEF Busy
<1>7. FramesFresh'
  BY <1>1, <1>2, OthersFrames
<1> QED
  BY <1>3, <1>4, <1>5, <1>6, <1>7 DEF TransferInv

LEMMA SamePeer ==
  ASSUME TransferInv, NEW c \in Clients, client[c] \in Busy, NEW at, at # "idle",
         client' = [client EXCEPT ![c] = at], try' = try
  PROVE  HasPeer'
<1>1. \A d \in Clients : client'[d] = IF d = c THEN at ELSE client[d]
  BY DEF TransferInv, TransferType
<1> QED
  BY <1>1 DEF TransferInv, HasPeer, Busy

LEMMA AppendCases ==
  ASSUME NEW S, NEW q \in Seq(S), NEW x \in S, NEW i \in DOMAIN Append(q, x)
  PROVE  \/ i \in DOMAIN q /\ Append(q, x)[i] = q[i]
         \/ Append(q, x)[i] = x
OBVIOUS

LEMMA ConnectStep ==
  ASSUME TransferInv, NEW c \in Clients, Connect(c)
  PROVE  TransferInv'
<1>1. /\ client[c] \in Busy
      /\ client' = [client EXCEPT ![c] = "asking"]
      /\ backlog' = [backlog EXCEPT ![Peer(c)] = Append(@, Conn(c))]
      /\ open' = open \cup {Conn(c)}
      /\ UNCHANGED <<try, frame, began, server, sent, snap, asked, version, up>>
  BY DEF Connect, GoTo, Busy
<1>2. Peer(c) \in Servers /\ Conn(c) \in Conns /\ Conn(c)[2] = Peer(c)
  BY <1>1, PeerOfBusy
<1> DEFINE k == Conn(c)
           p == Peer(c)
<1> HIDE DEF k, p
<1>3. k \in Conns /\ k[2] = p /\ p \in Servers
  BY <1>2 DEF k, p
<1>4. \A s \in Servers : /\ backlog[s] \in Seq(Conns)
                         /\ backlog'[s] = IF s = p THEN Append(backlog[s], k) ELSE backlog[s]
  BY <1>1 DEF TransferInv, TransferType, k, p
<1>5. backlog' \in [Servers -> Seq(Conns)]
  <2>1. backlog \in [Servers -> Seq(Conns)]
    BY DEF TransferInv, TransferType
  <2>2. Append(backlog[p], k) \in Seq(Conns)
    BY <1>3, <1>4
  <2> QED
    BY <1>1, <2>1, <2>2 DEF k, p
<1>6. TransferType'
  BY <1>1, <1>2, <1>5 DEF TransferInv, TransferType
<1>7. OwnConnections'
  <2>1. ASSUME NEW s \in Servers, NEW i \in DOMAIN backlog'[s]
        PROVE  backlog'[s][i][2] = s
    <3>1. \A j \in DOMAIN backlog[s] : backlog[s][j][2] = s
      BY DEF TransferInv, OwnConnections
    <3>2. CASE s # p
      BY <1>4, <2>1, <3>1, <3>2
    <3>3. CASE s = p
      <4>1. \/ i \in DOMAIN backlog[s] /\ backlog'[s][i] = backlog[s][i]
            \/ backlog'[s][i] = k
        <5>1. backlog'[s] = Append(backlog[s], k) /\ backlog[s] \in Seq(Conns)
          BY <1>4, <3>3
        <5>2. i \in DOMAIN Append(backlog[s], k)
          BY <2>1, <5>1
        <5> QED
          BY <1>3, <5>1, <5>2, AppendCases
      <4> QED
        BY <1>3, <3>1, <3>3, <4>1
    <3> QED
      BY <3>2, <3>3
  <2> QED
    BY <1>1, <2>1 DEF TransferInv, OwnConnections
<1>8. HasPeer'
  BY <1>1, SamePeer
<1>9. BeganBefore' /\ AnswersFresh'
  BY <1>1, ClientMove DEF Busy
<1>10. FramesFresh'
  BY <1>1, OthersFrames
<1> QED
  BY <1>6, <1>7, <1>8, <1>9, <1>10 DEF TransferInv

\* The steps that only bring a client further with its peer.
LEMMA ProceedStep ==
  ASSUME TransferInv, NEW c \in Clients, Ask(c) \/ ReadHeader(c) \/ Stall(c)
  PROVE  TransferInv'
<1>1. /\ client[c] \in Busy
      /\ \E at \in {"header", "payload", "gone"} : client' = [client EXCEPT ![c] = at]
      /\ asked' = asked \/ asked' = asked \cup {Conn(c)}
      /\ UNCHANGED <<try, frame, began, backlog, server, open, sent, snap, version, up>>
  BY DEF Ask, ReadHeader, Stall, GoTo, Busy, connVars
<1>2. PICK at \in {"header", "payload", "gone"} : client' = [client EXCEPT ![c] = at]
  BY <1>1
<1>3. Conn(c) \in Conns
  BY <1>1, PeerOfBusy
<1>4. TransferType'
  BY <1>1, <1>2, <1>3 DEF TransferInv, TransferType
<1>5. OwnConnections'
  BY <1>1 DEF TransferInv, OwnConnections
<1>6. HasPeer'
  BY <1>1, <1>2, SamePeer
<1>7. BeganBefore' /\ AnswersFresh'
  BY <1>1, <1>2, ClientMove DEF Busy
<1>8. FramesFresh'
  BY <1>1, <1>2, OthersFrames
<1> QED
  BY <1>4, <1>5, <1>6, <1>7, <1>8 DEF TransferInv

\* Here the frame goes to the consumer: AnswersFresh says how old it is.
LEMMA DeliverStep ==
  ASSUME TransferInv, NEW c \in Clients, Deliver(c)
  PROVE  TransferInv'
<1>1. /\ client[c] \in Busy
      /\ sent[Conn(c)] = 2
      /\ client' = [client EXCEPT ![c] = "loaded"]
      /\ frame' = [frame EXCEPT ![c] = <<Peer(c), snap[Conn(c)]>>]
      /\ open' = open \ {Conn(c)}
      /\ UNCHANGED <<try, began, backlog, server, sent, snap, asked, version, up>>
  BY DEF Deliver, GoTo, Busy
<1>2. /\ Peer(c) \in Servers /\ Conn(c) \in Conns
      /\ Conn(c)[1] = c /\ Conn(c)[2] = Peer(c)
  BY <1>1, PeerOfBusy
<1>3. snap[Conn(c)] \in Versions /\ snap[Conn(c)] >= began[c][Peer(c)]
  <2>1. sent[Conn(c)] >= 1 =>
          snap[Conn(c)] >= began[Conn(c)[1]][Conn(c)[2]]
    BY <1>2 DEF TransferInv, AnswersFresh
  <2>2. snap[Conn(c)] \in Versions
    BY <1>2 DEF TransferInv, TransferType
  <2> QED
    BY <1>1, <1>2, <2>1, <2>2
<1> DEFINE f == <<Peer(c), snap[Conn(c)]>>
<1>4. f \in Servers \X Versions /\ f[1] = Peer(c) /\ f[2] = snap[Conn(c)]
  BY <1>2, <1>3
<1> HIDE DEF f
<1>5. frame' = [frame EXCEPT ![c] = f]
  BY <1>1 DEF f
<1>6. TransferType'
  BY <1>1, <1>4, <1>5 DEF TransferInv, TransferType
<1>7. OwnConnections'
  BY <1>1 DEF TransferInv, OwnConnections
<1>8. HasPeer'
  BY <1>1, SamePeer
<1>9. BeganBefore' /\ AnswersFresh'
  BY <1>1, ClientMove DEF Busy
<1>10. FramesFresh'
  <2>1. \A d \in Clients : /\ frame'[d] = IF d = c THEN f ELSE frame[d]
                           /\ d # c => client'[d] = client[d]
    BY <1>1, <1>5 DEF TransferInv, TransferType
  <2>2. f[2] >= began[c][f[1]]
    BY <1>3, <1>4
  <2> QED
    BY <1>1, <1>4, <2>1, <2>2 DEF TransferInv, FramesFresh
<1> QED
  BY <1>6, <1>7, <1>8, <1>9, <1>10 DEF TransferInv

-----------------------------------------------------------------------------
(* The steps of a server.                                                  *)

\* What no server writes disturbs no client.
LEMMA AcceptStep ==
  ASSUME TransferInv, NEW s \in Servers, Accept(s)
  PROVE  TransferInv'
<1>1. /\ backlog[s] # <<>>
      /\ server' = [server EXCEPT ![s] = [at |-> "reading", conn |-> Head(backlog[s])]]
      /\ backlog' = [backlog EXCEPT ![s] = Tail(@)]
      /\ UNCHANGED <<client, try, frame, began, open, sent, snap, asked, version, up>>
  BY DEF Accept, clientVars, connVars
<1> DEFINE k == Head(backlog[s])
           rest == Tail(backlog[s])
           thread == [at |-> "reading", conn |-> k]
<1>2. backlog[s] \in Seq(Conns) /\ \A i \in DOMAIN backlog[s] : backlog[s][i][2] = s
  BY DEF TransferInv, TransferType, OwnConnections
<1>3. /\ k \in Conns /\ k[2] = s
      /\ rest \in Seq(Conns) /\ \A i \in DOMAIN rest : rest[i][2] = s
  BY <1>1, <1>2
<1>4. thread \in Thread /\ thread.at = "reading" /\ thread.conn = k
  BY <1>3 DEF Thread
<1>5. server' = [server EXCEPT ![s] = thread] /\ backlog' = [backlog EXCEPT ![s] = rest]
  BY <1>1
<1> HIDE DEF k, rest, thread
<1>6. \A r \in Servers : /\ server'[r] = (IF r = s THEN thread ELSE server[r])
                         /\ backlog'[r] = (IF r = s THEN rest ELSE backlog[r])
  BY <1>5 DEF TransferInv, TransferType
<1>7. TransferType'
  BY <1>1, <1>3, <1>4, <1>5 DEF TransferInv, TransferType
<1>8. HasPeer' /\ BeganBefore' /\ FramesFresh'
  BY <1>1 DEF TransferInv, HasPeer, BeganBefore, FramesFresh
<1>9. OwnConnections'
  BY <1>3, <1>4, <1>6 DEF TransferInv, OwnConnections
<1>10. AnswersFresh'
  <2>1. \A j \in Conns : j[2] \in Servers /\ (Serving(j)' => Serving(j))
    BY <1>4, <1>6 DEF Serving, Conns
  <2> QED
    BY <1>1, <2>1 DEF TransferInv, AnswersFresh
<1> QED
  BY <1>7, <1>8, <1>9, <1>10 DEF TransferInv

LEMMA BackToAccepting ==
  ASSUME TransferInv, NEW s \in Servers, RequestFails(s) \/ CloseConn(s)
  PROVE  TransferInv'
<1>1. /\ server' = [server EXCEPT ![s] = Idle]
      /\ UNCHANGED <<client, try, frame, began, backlog, open, sent, snap, asked,
                     version, up>>
  BY DEF RequestFails, CloseConn, clientVars
<1>2. Idle \in Thread /\ Idle.at = "accepting"
  BY DEF Idle, Thread
<1>3. \A r \in Servers : server'[r] = IF r = s THEN Idle ELSE server[r]
  BY <1>1 DEF TransferInv, TransferType
<1>4. TransferType'
  BY <1>1, <1>2 DEF TransferInv, TransferType
<1>5. HasPeer' /\ BeganBefore' /\ FramesFresh'
  BY <1>1 DEF TransferInv, HasPeer, BeganBefore, FramesFresh
<1>6. OwnConnections'
  BY <1>1, <1>2, <1>3 DEF TransferInv, OwnConnections
<1>7. AnswersFresh'
  <2>1. \A j \in Conns : j[2] \in Servers /\ (Serving(j)' => Serving(j))
    BY <1>2, <1>3 DEF Serving, Conns
  <2> QED
    BY <1>1, <2>1 DEF TransferInv, AnswersFresh
<1> QED
  BY <1>4, <1>5, <1>6, <1>7 DEF TransferInv

\* The connection a server has in hand.
LEMMA InHand ==
  ASSUME TransferInv, NEW s \in Servers, server[s].at # "accepting"
  PROVE  /\ server[s].conn \in Conns /\ server[s].conn[2] = s
         /\ server[s].conn[1] \in Clients
         /\ server[s].at = "writing" => Serving(server[s].conn)
<1>1. server[s] \in Thread /\ server[s].conn[2] = s
  BY DEF TransferInv, TransferType, OwnConnections
<1>2. server[s].conn \in Conns
  BY <1>1 DEF Thread
<1> QED
  BY <1>1, <1>2 DEF Serving, Conns

\* The document is serialized for a call that has begun.
LEMMA ProvideStep ==
  ASSUME TransferInv, NEW s \in Servers, Provide(s)
  PROVE  TransferInv'
<1> DEFINE k == server[s].conn
<1>1. /\ server[s].at = "reading" /\ k \in asked
      /\ snap' = [snap EXCEPT ![k] = version[s]]
      /\ server' = [server EXCEPT ![s].at = "writing"]
      /\ UNCHANGED <<client, try, frame, began, backlog, open, sent, asked, version, up>>
  BY DEF Provide, ServerAt, clientVars
<1>2. k \in Conns /\ k[2] = s /\ k[1] \in Clients
  BY <1>1, InHand
<1>3. version[s] \in Versions /\ began[k[1]][s] <= version[s] /\ client[k[1]] # "idle"
  BY <1>1, <1>2 DEF TransferInv, TransferType, BeganBefore, AnswersFresh
<1> DEFINE thread == [server[s] EXCEPT !.at = "writing"]
<1>4. thread \in Thread /\ thread.at = "writing" /\ thread.conn = k
  <2>1. server[s] \in Thread
    BY DEF TransferInv, TransferType
  <2>2. server[s] \in [at : {"reading", "writing"}, conn : Conns]
    BY <1>1, <2>1 DEF Thread
  <2> QED
    BY <2>2 DEF Thread
<1>5. server' = [server EXCEPT ![s] = thread]
  BY <1>1 DEF TransferInv, TransferType
<1> HIDE DEF thread, k
<1>6. /\ \A r \in Servers : server'[r] = IF r = s THEN thread ELSE server[r]
      /\ \A j \in Conns : snap'[j] = IF j = k THEN version[s] ELSE snap[j]
  BY <1>1, <1>5 DEF TransferInv, TransferType
<1>7. TransferType'
  <2>1. server' \in [Servers -> Thread] /\ snap' \in [Conns -> Versions]
    <3>1. server \in [Servers -> Thread] /\ snap \in [Conns -> Versions]
      BY DEF TransferInv, TransferType
    <3>2. server' \in [Servers -> Thread]
      BY <1>4, <1>5, <3>1
    <3>3. snap' \in [Conns -> Versions]
      BY <1>1, <1>3, <3>1
    <3> QED
      BY <3>2, <3>3
  <2> QED
    BY <1>1, <2>1 DEF TransferInv, TransferType
<1>8. HasPeer' /\ BeganBefore' /\ FramesFresh'
  BY <1>1 DEF TransferInv, HasPeer, BeganBefore, FramesFresh
<1>9. OwnConnections'
  BY <1>1, <1>2, <1>4, <1>6 DEF TransferInv, OwnConnections
<1>10. AnswersFresh'
  <2> SUFFICES ASSUME NEW j \in Conns
               PROVE  /\ j \in asked' => client'[j[1]] # "idle"
                      /\ sent'[j] >= 1 \/ Serving(j)' =>
                           client'[j[1]] # "idle" /\ snap'[j] >= began'[j[1]][j[2]]
    BY DEF AnswersFresh
  <2>1. /\ j \in asked => client[j[1]] # "idle"
        /\ sent[j] >= 1 \/ Serving(j) =>
             client[j[1]] # "idle" /\ snap[j] >= began[j[1]][j[2]]
    BY DEF TransferInv, AnswersFresh
  <2>2. CASE j = k
    <3>1. snap'[j] >= began'[j[1]][j[2]]
      <4>1. version[s] \in Nat /\ began[k[1]][s] \in Nat
        BY <1>2, <1>3, TransferAssumption DEF TransferInv, TransferType, Versions
      <4> QED
        BY <1>1, <1>2, <1>3, <1>6, <2>2, <4>1
    <3> QED
      BY <1>1, <1>3, <2>1, <2>2, <3>1
  <2>3. CASE j # k
    <3>1. snap'[j] = snap[j] /\ (Serving(j)' => Serving(j))
      BY <1>4, <1>6, <2>3 DEF Serving, Conns
    <3> QED
      BY <1>1, <2>1, <3>1
  <2> QED
    BY <2>2, <2>3
<1> QED
  BY <1>7, <1>8, <1>9, <1>10 DEF TransferInv

LEMMA WriteStep ==
  ASSUME TransferInv, NEW s \in Servers, Write(s)
  PROVE  TransferInv'
<1> DEFINE k == server[s].conn
<1>1. /\ server[s].at = "writing" /\ sent[k] < 2
      /\ sent' = [sent EXCEPT ![k] = @ + 1]
      /\ UNCHANGED <<client, try, frame, began, backlog, server, open, snap, asked,
                     version, up>>
  BY DEF Write, ServerAt, clientVars
<1>2. k \in Conns /\ Serving(k)
  BY <1>1, InHand
<1> HIDE DEF k
<1>3. \A j \in Conns : sent'[j] = IF j = k THEN sent[k] + 1 ELSE sent[j]
  BY <1>1 DEF TransferInv, TransferType
<1>4. TransferType'
  <2>1. sent[k] + 1 \in 0 .. 2
    <3>1. sent[k] \in 0 .. 2 /\ sent[k] < 2
      BY <1>1, <1>2 DEF TransferInv, TransferType
    <3> QED
      BY <3>1
  <2> QED
    BY <1>1, <2>1 DEF TransferInv, TransferType
<1>5. HasPeer' /\ BeganBefore' /\ FramesFresh' /\ OwnConnections'
  BY <1>1 DEF TransferInv, HasPeer, BeganBefore, FramesFresh, OwnConnections
<1>6. AnswersFresh'
  <2>1. \A j \in Conns : sent'[j] >= 1 \/ Serving(j)' => sent[j] >= 1 \/ Serving(j)
    BY <1>1, <1>2, <1>3 DEF Serving
  <2> QED
    BY <1>1, <2>1 DEF TransferInv, AnswersFresh
<1> QED
  BY <1>4, <1>5, <1>6 DEF TransferInv

\* The end of an editor.
LEMMA DeathStep ==
  ASSUME TransferInv, NEW s \in Servers, BrokenPipe(s) \/ Crash(s)
  PROVE  TransferInv'
<1>1. /\ up' = up \ {s}
      /\ UNCHANGED <<client, try, frame, began, backlog, server, open, sent, snap, asked,
                     version>>
  BY DEF BrokenPipe, Crash, clientVars
<1>2. TransferType'
  BY <1>1 DEF TransferInv, TransferType
<1>3. HasPeer' /\ BeganBefore' /\ FramesFresh' /\ OwnConnections'
  BY <1>1 DEF TransferInv, HasPeer, BeganBefore, FramesFresh, OwnConnections
<1>4. AnswersFresh'
  BY <1>1 DEF TransferInv, AnswersFresh, Serving
<1> QED
  BY <1>2, <1>3, <1>4 DEF TransferInv

LEMMA EditStep ==
  ASSUME TransferInv, NEW s \in Servers, EditDocument(s)
  PROVE  TransferInv'
<1>1. /\ version[s] < MaxVersions
      /\ version' = [version EXCEPT ![s] = @ + 1]
      /\ UNCHANGED <<client, try, frame, began, backlog, server, open, sent, snap, asked, up>>
  BY DEF EditDocument, clientVars, connVars
<1>2. MaxVersions \in Nat /\ version \in [Servers -> Versions]
      /\ began \in [Clients -> [Servers -> Versions]]
  BY TransferAssumption DEF TransferInv, TransferType
<1>3. /\ version' \in [Servers -> Versions]
      /\ \A r \in Servers : version[r] <= version'[r]
  BY <1>1, <1>2 DEF Versions
<1>4. TransferType'
  BY <1>1, <1>3 DEF TransferInv, TransferType
<1>5. HasPeer' /\ FramesFresh' /\ OwnConnections'
  BY <1>1 DEF TransferInv, HasPeer, FramesFresh, OwnConnections
<1>6. AnswersFresh'
  BY <1>1 DEF TransferInv, AnswersFresh, Serving
<1>7. BeganBefore'
  <2>1. ASSUME NEW c \in Clients, NEW r \in Servers
        PROVE  began'[c][r] <= version'[r]
    <3>1. began[c][r] \in Nat /\ version[r] \in Nat /\ version'[r] \in Nat
      BY <1>2, <1>3 DEF Versions
    <3>2. began[c][r] <= version[r] /\ version[r] <= version'[r]
      BY <1>3 DEF TransferInv, BeganBefore
    <3> QED
      BY <1>1, <3>1, <3>2
  <2> QED
    BY <2>1 DEF BeganBefore
<1> QED
  BY <1>4, <1>5, <1>6, <1>7 DEF TransferInv

-----------------------------------------------------------------------------
(* The theorems.                                                           *)

LEMMA TransferInit ==
  ASSUME Init
  PROVE  TransferInv
<1>1. MaxVersions \in Nat /\ 0 \in Versions
  BY TransferAssumption DEF Versions
<1>2. TransferType
  <2>1. server \in [Servers -> Thread]
    BY DEF Init, Idle, Thread
  <2> QED
    BY <1>1, <2>1 DEF Init, TransferType
<1>3. HasPeer
  <2>1. \A c \in Clients : Order[c] \in Seq(Servers)
    BY TransferAssumption
  <2> QED
    BY <2>1 DEF Init, HasPeer
<1>4. OwnConnections
  BY DEF Init, OwnConnections, Idle
<1>5. BeganBefore
  BY DEF Init, BeganBefore
<1>6. AnswersFresh
  <2>1. \A k \in Conns : k[2] \in Servers /\ ~Serving(k) /\ sent[k] = 0
    BY DEF Init, Serving, Conns, Idle
  <2> QED
    BY <2>1 DEF Init, AnswersFresh
<1>7. FramesFresh
  BY DEF Init, FramesFresh
<1> QED
  BY <1>2, <1>3, <1>4, <1>5, <1>6, <1>7 DEF TransferInv

\* The invariant holds in every state of every instance.
THEOREM TransferInvariance == Spec => []TransferInv
<1>1. Init => TransferInv
  BY TransferInit
<1>2. TransferInv /\ [Next]_vars => TransferInv'
  <2> SUFFICES ASSUME TransferInv, [Next]_vars
               PROVE  TransferInv'
    OBVIOUS
  <2>1. ASSUME NEW c \in Clients, ClientStep(c) \/ Stall(c)
        PROVE  TransferInv'
    BY <2>1, BeginStep, ConnectStep, GiveUpStep, ProceedStep, DeliverStep DEF ClientStep
  <2>2. ASSUME NEW s \in Servers, ServerStep(s) \/ Crash(s) \/ EditDocument(s)
        PROVE  TransferInv'
    BY <2>2, AcceptStep, BackToAccepting, ProvideStep, WriteStep, DeathStep, EditStep
       DEF ServerStep
  <2>3. CASE UNCHANGED vars
    BY <2>3 DEF vars, clientVars, connVars, TransferInv, TransferType, HasPeer,
                OwnConnections, BeganBefore, AnswersFresh, FramesFresh, Serving
  <2> QED
    BY <2>1, <2>2, <2>3 DEF Next
<1> QED
  BY <1>1, <1>2, PTL DEF Spec

\* Every variable keeps its type: no client looks past the end of its list of
\* peers, and no server writes past the end of a frame (state_sync.cpp:45-53).
THEOREM TransferTypes == Spec => []TypeOK
<1>1. TransferInv => TypeOK
  <2> SUFFICES ASSUME TransferInv
               PROVE  TypeOK
    OBVIOUS
  <2>1. TransferType /\ HasPeer
    BY DEF TransferInv
  <2>2. ASSUME NEW s \in Servers
        PROVE  Range(backlog[s]) \subseteq Conns
    <3>1. backlog[s] \in Seq(Conns)
      BY <2>1 DEF TransferType
    <3> QED
      BY <3>1 DEF Range
  <2>3. ASSUME NEW s \in Servers
        PROVE  /\ server[s].at \in {"accepting", "reading", "writing"}
               /\ server[s].at # "accepting" => server[s].conn \in Conns
    <3>1. server[s] \in Thread
      BY <2>1 DEF TransferType
    <3> QED
      BY <3>1 DEF Thread
  <2>4. ASSUME NEW c \in Clients, frame[c] # NoFrame
        PROVE  frame[c] \in Servers \X (0 .. MaxVersions)
    BY <2>1, <2>4 DEF TransferType, Versions
  <2> QED
    BY <2>1, <2>2, <2>3, <2>4 DEF TypeOK, TransferType, HasPeer, Versions
<1> QED
  BY <1>1, TransferInvariance, PTL

\* A client loads a document its server had after the call of requestState
\* began, whatever peers failed it before (state_sync.cpp:159-165).
THEOREM LoadsAreFresh == Spec => []LoadsFreshDocument
<1>1. TransferInv => LoadsFreshDocument
  BY DEF TransferInv, FramesFresh, LoadsFreshDocument
<1> QED
  BY <1>1, TransferInvariance, PTL

=============================================================================
