------------------------------ MODULE KcpLayer ------------------------------
(***************************************************************************)
(* kcp/KcpLayer.cc with the KcpServer and KcpClient above it and the       *)
(* control blocks of module Ikcp below: a handshake over UDP gives every   *)
(* client a conversation number, a map takes a number to its control       *)
(* block, and the application learns from an eventfd, whose counter is the *)
(* number, that a conversation has data or is new.                         *)
(*                                                                         *)
(* Each node runs one event loop: a step is one callback of it.  Messages  *)
(* are of one segment.  ikcp_update() is called by send() and handleRead() *)
(* only: the timer that would call it again is commented out.  It flushes  *)
(* unless it did so less than the interval ago, and may find any timer     *)
(* expired.  The network delays datagrams as it likes, for ever if it      *)
(* loses them.                                                             *)
(***************************************************************************)
EXTENDS Ikcp

CONSTANTS
  Clients,
  NoBlock,      \* a null kcpcb_
  MaxMessages   \* bound: messages sent by each node

VARIABLES
  connections,  \* connections[n]: the map connections_ of node n
  nextConv,     \* the server's nextConv_
  dataFd,       \* dataFd[n]: the counter of the eventfd dataFd_
  connFd,       \* connFd[n]: the counter of the eventfd connFd_
  curConv,      \* curConv[n]: curConv_ of the KcpServer or KcpClient
  net,          \* the datagrams on their way
  started,      \* the clients that called connect()
  messages,     \* messages[n]: how many messages n has sent
  length,       \* length[n]: datagram_.length() as onMessage() of n last found it
  failed        \* "assertion" or "null" pointer: what ended the program

vars == <<connections, nextConv, dataFd, connFd, curConv, net, started,
          messages, length, failed>>

Server == "server"
Nodes == Clients \cup {Server}
Nowhere == "0.0.0.0:0"
NoConv == 0
Failed == failed # "no"

Init ==
  /\ connections = [n \in Nodes |-> <<>>]
  /\ nextConv = 1
  /\ dataFd = [n \in Nodes |-> 0]
  /\ connFd = [n \in Nodes |-> 0]
  /\ curConv = [n \in Nodes |-> NoConv]
  /\ net = {}
  /\ started = {}
  /\ messages = [n \in Nodes |-> 0]
  /\ length = [n \in Nodes |-> 0]
  /\ failed = "no"

-----------------------------------------------------------------------------
\* What connections_[conv] evaluates to: a missing entry is made of zeros.
Entry(n, conv) ==
  IF conv \in DOMAIN connections[n] THEN connections[n][conv]
  ELSE [kcp |-> NoBlock, peer |-> Nowhere]

SetEntry(map, conv, entry) ==
  [c \in DOMAIN map \cup {conv} |-> IF c = conv THEN entry ELSE map[c]]

Datagram(from, to, kind, conv, body) ==
  [from |-> from, to |-> to, kind |-> kind, conv |-> conv, body |-> body]

\* kcpUpdate() of the control block kcp, which has just changed, with output()
\* and sendUdpMsg(), whose sendto() fails for the address of zeros.
KcpUpdate(n, conv, kcp, inNet) ==
  LET peer == Entry(n, conv).peer
      leave(block, out) ==
        /\ connections' = [connections EXCEPT ![n] =
             SetEntry(@, conv, [kcp |-> block, peer |-> peer])]
        /\ net' = inNet \cup
             IF peer = Nowhere THEN {}
             ELSE {Datagram(n, peer, "data", conv, d) : d \in Range(out)}
  IN \/ leave(kcp, <<>>)
     \/ \E expired \in SUBSET Running(kcp),
           probeExpired \in {FALSE, kcp.probing} :
          LET flushed == Flush(kcp, expired, probeExpired)
          IN leave(flushed.cb, flushed.out)

\* KcpLayer::send() of the next message of node n.
KcpSend(n, conv) ==
  /\ messages' = [messages EXCEPT ![n] = @ + 1]
  /\ LET block == Entry(n, conv).kcp
     IN IF block = NoBlock
        THEN failed' = "null" /\ UNCHANGED <<connections, net>>
        ELSE /\ KcpUpdate(n, conv, Send(block, <<n, messages'[n]>>, 1), net)
             /\ UNCHANGED failed

-----------------------------------------------------------------------------
\* KcpClient::connect()
Connect(c) ==
  /\ ~Failed
  /\ c \notin started
  /\ started' = started \cup {c}
  /\ net' = net \cup {Datagram(c, Server, "syn", NoConv, <<>>)}
  /\ UNCHANGED <<connections, nextConv, dataFd, connFd, curConv, messages,
                 length, failed>>

\* handleRead() of a handshake request: a new conversation.  The update of the
\* new control block has nothing to send.
HandleSyn(d, rest) ==
  /\ d.kind = "syn"
  /\ connections' = [connections EXCEPT ![d.to] =
       SetEntry(@, nextConv, [kcp |-> Create, peer |-> d.from])]
  /\ net' = rest \cup {Datagram(d.to, d.from, "ack", nextConv, <<>>)}
  /\ connFd' = [connFd EXCEPT ![d.to] = @ + nextConv]
  /\ nextConv' = nextConv + 1
  /\ UNCHANGED <<dataFd, failed>>

\* ... of the answer: the peer's address goes to the entry of nextConv_, which
\* is 1 in every client, whatever the number in the answer is.
HandleAck(d, rest) ==
  /\ d.kind = "ack"
  /\ LET withBlock == SetEntry(connections[d.to], d.conv,
                        [Entry(d.to, d.conv) EXCEPT !.kcp = Create])
         first == IF 1 \in DOMAIN withBlock THEN withBlock[1] ELSE Entry(d.to, 1)
     IN connections' = [connections EXCEPT ![d.to] =
                          SetEntry(withBlock, 1, [first EXCEPT !.peer = d.from])]
  /\ net' = rest
  /\ connFd' = [connFd EXCEPT ![d.to] = @ + d.conv]
  /\ UNCHANGED <<nextConv, dataFd, failed>>

\* payload.size() > 24: more than one bare header.
Notifies(datagram) == DatagramSize(datagram) > 1

\* ... of a datagram of a conversation.
HandleData(d, rest) ==
  /\ d.kind = "data"
  /\ LET block == Entry(d.to, d.conv).kcp
     IN IF block = NoBlock
        THEN failed' = "null" /\ UNCHANGED <<connections, net, dataFd>>
        ELSE /\ KcpUpdate(d.to, d.conv, Input(block, d.body), rest)
             /\ dataFd' = IF Notifies(d.body)
                          THEN [dataFd EXCEPT ![d.to] = @ + d.conv] ELSE dataFd
             /\ UNCHANGED failed
  /\ UNCHANGED <<nextConv, connFd>>

\* The UDP socket is readable.
HandleRead(d) ==
  /\ ~Failed
  /\ LET rest == net \ {d}
     IN HandleSyn(d, rest) \/ HandleAck(d, rest) \/ HandleData(d, rest)
  /\ UNCHANGED <<curConv, started, messages, length>>

\* connFd_ is readable: handleConnection(), whose callback sends in a client.
HandleConnection(n) ==
  /\ ~Failed
  /\ connFd[n] > 0
  /\ connFd' = [connFd EXCEPT ![n] = 0]
  /\ curConv' = [curConv EXCEPT ![n] = connFd[n]]
  /\ IF n \in Clients /\ messages[n] < MaxMessages
     THEN KcpSend(n, connFd[n])
     ELSE UNCHANGED <<connections, net, messages, failed>>
  /\ UNCHANGED <<nextConv, dataFd, started, length>>

\* What ikcp_recv() returns: the length of a message of one segment, or -1 when
\* rcv_queue is empty.
RecvResult(block) == IF Receivable(block) THEN 1 ELSE -1

\* receive(), whose number is what the eventfd's counter holds, and the callback for
\* what it returns: nobody tests the result, so that datagram_.add() takes -1 for
\* a length and onMessage() finds a buffer that ends before it begins.
ReceiveFrom(n, conv) ==
  LET block == Entry(n, conv).kcp
  IN IF block = NoBlock
     THEN failed' = "assertion" /\ UNCHANGED <<connections, length>>
     ELSE /\ connections' = IF Receivable(block)
                THEN [connections EXCEPT ![n][conv].kcp = Recv(block)]
                ELSE connections
          /\ length' = [length EXCEPT ![n] = RecvResult(block)]
          /\ UNCHANGED failed

\* dataFd_ is readable: KcpServer::handleRead(), KcpClient::handleRead().
HandleMessage(n) ==
  /\ ~Failed
  /\ dataFd[n] > 0
  /\ dataFd' = [dataFd EXCEPT ![n] = 0]
  /\ curConv' = [curConv EXCEPT ![n] = dataFd[n]]
  /\ ReceiveFrom(n, dataFd[n])
  /\ UNCHANGED <<nextConv, connFd, net, started, messages>>

\* The application sends, as in the callback for a message or later.
AppSend(n) ==
  /\ ~Failed
  /\ curConv[n] # NoConv
  /\ messages[n] < MaxMessages
  /\ KcpSend(n, curConv[n])
  /\ UNCHANGED <<nextConv, dataFd, connFd, curConv, started, length>>

Next ==
  \/ \E c \in Clients : Connect(c)
  \/ \E d \in net : HandleRead(d)
  \/ \E n \in Nodes : HandleConnection(n) \/ HandleMessage(n) \/ AppSend(n)

Spec == Init /\ [][Next]_vars

-----------------------------------------------------------------------------
\* "assert(kcp)" of ikcp_recv() and ikcp_peeksize(): the number receive() reads
\* belongs to a conversation.  Two notifications that come before the
\* application reads are read as the sum of their numbers.
ControlBlockFound == failed # "assertion"
=============================================================================
