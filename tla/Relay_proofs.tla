----------------------------- MODULE Relay_proofs -----------------------------
(***************************************************************************)
(* What the proxy does to the protocol, for any clients, machines, chances *)
(* and numbers of sockets.                                                 *)
(***************************************************************************)
EXTENDS Relay, SequenceTheorems, TLAPS

\* A packet of a kind that is not only a server's.
Asks(pkt) == pkt.flags \notin ServersOnly

\* A buffer of datagrams whose senders are in A, none of them of these kinds.
From(s, A, kinds) ==
    \E T : /\ \A pkt \in T : pkt.flags \notin kinds
           /\ s \in Seq([src : A, pkt : T])

\* A client has no packet of a server's to send again, and has heard only the
\* proxy.
ClientsAsk ==
    /\ DOMAIN cs_packet = Clients /\ \A c \in Players : Asks(cs_packet[c])
    /\ DOMAIN peer = Clients /\ \A c \in Players : peer[c] = Main

\* Behind the proxy, what clients hear; kinds is what they cannot.
NetOK(n, kinds) ==
    /\ DOMAIN n = Endpoints
    /\ From(n[Main], Players, ServersOnly)
    /\ \A c \in Players : From(n[c], {Main}, kinds)

\* Before it, what the server and the proxy hear; kinds is what the server
\* cannot.
FarOK(f, kinds) ==
    /\ DOMAIN f = Endpoints
    /\ From(f[Main], {Px}, kinds) /\ From(f[Px], Ports, ClientsOnly)
    /\ \A p \in Ports : f[p] = <<>>

\* The kinds the two conditions of the theorem keep away.
NotToClients == IF OneMachine THEN ClientsOnly ELSE {}
NotToServer ==
    IF input_addr \in Players /\ host[input_addr] # ServerHost THEN ServersOnly ELSE {}

\* The proxy knows its client before it forwards anything.
ProxyOK ==
    /\ input_addr \in Players \cup {NoAddr}
    /\ input_addr = NoAddr => far[Main] = <<>> /\ far[Px] = <<>>

\* The server waits for its one client, or has none.
SeatsOK ==
    /\ pc \in {"select", "accept", "received", "loop", "closed", "recv"}
    /\ pc # "recv" => conns = <<>>
    /\ pc = "recv" => rx \in Ports /\ \E p \in Ports : conns = <<p>>
    /\ pc = "accept" => far[Main] # <<>>

RInv ==
    /\ host \in [Players -> Hosts]
    /\ ClientsAsk
    /\ NetOK(net, NotToClients) /\ FarOK(far, NotToServer)
    /\ ProxyOK
    /\ SeatsOK

-----------------------------------------------------------------------------
(* Endpoints and buffers.                                                  *)

\* No endpoint is of two kinds, and both networks have the same.
LEMMA Kinds ==
    /\ Main \notin Clients /\ Main \notin Ports /\ Main \in Endpoints
    /\ NoAddr \notin Players
    /\ Ports \cap Clients = {} /\ Ports \subseteq Endpoints
    /\ Px \in Clients /\ Px \notin Players /\ Players \subseteq Clients
    /\ Clients \subseteq Endpoints
    /\ S!Main = Main /\ S!Ports = Ports /\ S!Endpoints = Endpoints
BY NetworkAssumption, RelayAssumption
   DEF Main, Ports, NoAddr, Endpoints, Players, S!Main, S!Ports, S!Endpoints

\* An empty buffer is from anybody.
LEMMA EmptyFrom ==
    ASSUME NEW A, NEW kinds
    PROVE  From(<<>>, A, kinds)
<1>1. <<>> \in Seq([src : A, pkt : {}])
  OBVIOUS
<1> QED BY <1>1 DEF From

\* One datagram more.
LEMMA AppendFrom ==
    ASSUME NEW A, NEW kinds, NEW s, From(s, A, kinds),
           NEW a \in A, NEW pkt, pkt.flags \notin kinds
    PROVE  From(Append(s, Datagram(a, pkt)), A, kinds)
<1>1. PICK T : (\A q \in T : q.flags \notin kinds) /\ s \in Seq([src : A, pkt : T])
  BY DEF From
<1> DEFINE U == T \cup {pkt}
<1>2. \A q \in U : q.flags \notin kinds
  BY <1>1
<1>3. s \in Seq([src : A, pkt : U])
  <2>1. [src : A, pkt : T] \subseteq [src : A, pkt : U]
    OBVIOUS
  <2> DEFINE D == [src : A, pkt : T]
             E == [src : A, pkt : U]
  <2>2. s \in Seq(D) /\ D \subseteq E
    BY <1>1, <2>1
  <2> HIDE DEF D, E
  <2>3. s \in Seq(E)
    BY <2>2
  <2> QED BY <2>3 DEF E
<1>4. Datagram(a, pkt) \in [src : A, pkt : U]
  BY DEF Datagram
<1>5. Append(s, Datagram(a, pkt)) \in Seq([src : A, pkt : U])
  BY <1>3, <1>4
<1> QED BY <1>2, <1>5 DEF From

\* The first datagram, and the others.
LEMMA HeadFrom ==
    ASSUME NEW A, NEW kinds, NEW s, From(s, A, kinds), s # <<>>
    PROVE  /\ Head(s).src \in A /\ Head(s).pkt.flags \notin kinds
           /\ From(Tail(s), A, kinds)
<1>1. PICK T : (\A q \in T : q.flags \notin kinds) /\ s \in Seq([src : A, pkt : T])
  BY DEF From
<1> DEFINE D == [src : A, pkt : T]
<1>2. Head(s) \in D /\ Tail(s) \in Seq(D)
  <2>1. s \in Seq(D)
    BY <1>1
  <2> HIDE DEF D
  <2> QED BY <2>1
<1>3. Head(s).src \in A /\ Head(s).pkt \in T
  BY <1>2
<1> QED BY <1>1, <1>2, <1>3 DEF From

\* Any datagram.
LEMMA WithoutFrom ==
    ASSUME NEW A, NEW kinds, NEW s, From(s, A, kinds)
    PROVE  Without(s, kinds)
<1> SUFFICES ASSUME NEW i \in DOMAIN s PROVE s[i].pkt.flags \notin kinds
  BY DEF Without
<1>1. PICK T : (\A q \in T : q.flags \notin kinds) /\ s \in Seq([src : A, pkt : T])
  BY DEF From
<1> DEFINE D == [src : A, pkt : T]
<1>2. s[i] \in D
  <2>1. s \in Seq(D)
    BY <1>1
  <2> HIDE DEF D
  <2> QED BY <2>1, ElementOfSeq
<1> QED BY <1>1, <1>2

\* The clients' network when a client sends to the proxy, receives or ends.
LEMMA ClientSends ==
    ASSUME NEW kinds, NEW n, NetOK(n, kinds), NEW c \in Players, NEW pkt, Asks(pkt)
    PROVE  NetOK(Sent(n, c, Main, pkt), kinds)
<1>1. \/ Sent(n, c, Main, pkt) = [n EXCEPT ![Main] = Append(@, Datagram(c, pkt))]
      \/ Sent(n, c, Main, pkt) = n
  BY DEF Sent
<1>2. From(Append(n[Main], Datagram(c, pkt)), Players, ServersOnly)
  BY AppendFrom DEF NetOK, Asks
<1> QED BY <1>1, <1>2, Kinds DEF NetOK

LEMMA ClientTakes ==
    ASSUME NEW kinds, NetOK(net, kinds), NEW c \in Players
    PROVE  /\ NetOK(Closed(net, {c}), kinds)
           /\ net[c] # <<>> => Head(net[c]).src = Main /\ NetOK(Taken(c), kinds)
<1>1. From(<<>>, {Main}, kinds)
  BY EmptyFrom
<1>2. net[c] # <<>> => Head(net[c]).src \in {Main} /\ From(Tail(net[c]), {Main}, kinds)
  BY HeadFrom DEF NetOK
<1> QED BY <1>1, <1>2, Kinds DEF NetOK, Taken, Closed

-----------------------------------------------------------------------------
(* The clients.                                                            *)

\* What a client sends and then keeps for its resends.
LEMMA SendingAsks ==
    ASSUME ClientsAsk, NEW kinds, NEW n, NetOK(n, kinds), NEW c \in Players, NEW to,
           to = Main, NEW pkt, NEW wait, Asks(pkt), SendThen(c, n, to, pkt, wait),
           peer' = peer \/ peer' = [peer EXCEPT ![c] = Main]
    PROVE  ClientsAsk' /\ NetOK(net', kinds)
<1>1. NetOK(net', kinds)
  BY ClientSends DEF SendThen
<1>2. ClientsAsk'
  BY Kinds DEF SendThen, ClientsAsk
<1> QED BY <1>1, <1>2

LEMMA WaitingAsks ==
    ASSUME ClientsAsk, NEW kinds, NEW n, NetOK(n, kinds), NEW c \in Players, NEW wait,
           WaitFor(c, n, wait),
           peer' = peer \/ peer' = [peer EXCEPT ![c] = Main]
    PROVE  ClientsAsk' /\ NetOK(net', kinds)
<1>1. \A pkt : FreePayload(pkt).flags = pkt.flags \/ FreePayload(pkt) = pkt
  BY DEF FreePayload
<1>2. ClientsAsk'
  BY <1>1, Kinds DEF WaitFor, ClientsAsk, Asks
<1> QED BY <1>2 DEF WaitFor

\* No client step makes a packet of the server's kind, or addresses anybody but
\* the proxy.
LEMMA ClientsOnlyAsk ==
    ASSUME ClientsAsk, NEW kinds, NetOK(net, kinds), NEW c \in Players, ClientStep(c)
    PROVE  ClientsAsk' /\ NetOK(net', kinds)
<1>a. /\ NetOK(Closed(net, {c}), kinds)
      /\ net[c] # <<>> => Sender(c) = Main /\ NetOK(Taken(c), kinds)
      /\ Asks(cs_packet[c]) /\ peer[c] = Main
  BY ClientTakes DEF ClientsAsk, Sender
<1>b. \A f \in {"SYN", "ACK", "FIN", "FIN/ACK", "PSH"} : \A s, p :
        Asks(Bare(f, s)) /\ Asks(Packet(f, s, p))
  BY DEF Asks, Bare, Packet, ServersOnly
<1>c. ASSUME NEW n, NetOK(n, kinds), NEW s
      PROVE  NetOK(Sent(n, c, Main, Bare("ACK", s)), kinds)
  BY <1>b, <1>c, ClientSends
<1>d. ASSUME NEW wait, Gets(c, wait)
      PROVE  net[c] # <<>> /\ peer' = [peer EXCEPT ![c] = Main]
  BY <1>a, <1>d DEF Gets
<1>e. ASSUME NEW wait, Expires(c, wait)
      PROVE  peer' = peer
  BY <1>e DEF Expires
<1>1. CASE Connect(c)
  BY <1>1, <1>b, SendingAsks DEF Connect
<1>2. CASE RecvSynAck(c)
  BY <1>2, <1>a, <1>b, <1>d, SendingAsks DEF RecvSynAck
<1>3. CASE RecvGame(c)
  BY <1>3, <1>a, <1>b, <1>c, <1>d, SendingAsks DEF RecvGame, Leave
<1>4. CASE RecvAck(c)
  BY <1>4, <1>a, <1>b, <1>d, SendingAsks, WaitingAsks DEF RecvAck, Leave
<1>5. CASE RecvDisconnectAck(c)
  BY <1>5, <1>a, <1>d, WaitingAsks DEF RecvDisconnectAck
<1>6. CASE RecvFin(c)
  BY <1>6, <1>a, <1>b, <1>d, SendingAsks DEF RecvFin
<1>7. CASE RecvLastFin(c)
  BY <1>7, <1>a, <1>d, Kinds DEF RecvLastFin, Quit, ClientsAsk
<1>8. CASE RecvUnexpected(c)
  <2>1. NetOK(net', kinds)
    BY <1>8, <1>a, ClientSends DEF RecvUnexpected
  <2> QED BY <1>8, <1>a, <2>1, Kinds DEF RecvUnexpected, ClientsAsk
<1>9. CASE TakeTurn(c)
  <2>1. PICK cell, btn :
          SendThen(c, net, peer[c],
                   Packet("PSH", NextSeq(cr_seq[c]),
                          [cursor |-> cell, btn |-> btn, id |-> turns[c] + 1]),
                   "w_ack")
    BY <1>9 DEF TakeTurn
  <2>2. peer' = peer
    BY <1>9 DEF TakeTurn
  <2> QED BY <2>1, <2>2, <1>a, <1>b, SendingAsks
<1>10. CASE TimeoutResend(c)
  <2>1. NetOK(net', kinds)
    BY <1>10, <1>a, ClientSends DEF TimeoutResend
  <2> QED BY <1>10, <2>1 DEF TimeoutResend, ClientsAsk
<1>11. CASE GiveUp(c)
  <2>1. CASE GiveUpConnect(c)
    BY <2>1, <1>a, <1>b, <1>e, SendingAsks DEF GiveUpConnect
  <2>2. CASE GiveUpGame(c)
    BY <2>2, <1>a, <1>b, <1>c, <1>e, SendingAsks DEF GiveUpGame, Leave
  <2>3. CASE GiveUpAck(c)
    BY <2>3, <1>a, <1>b, <1>e, SendingAsks DEF GiveUpAck, Leave
  <2>4. CASE GiveUpFinAck(c)
    BY <2>4, <1>e, WaitingAsks DEF GiveUpFinAck
  <2>5. CASE GiveUpFin(c)
    BY <2>5, <1>a, <1>b, <1>e, SendingAsks DEF GiveUpFin
  <2>6. CASE GiveUpLinger(c)
    BY <2>6, <1>a, <1>e DEF GiveUpLinger, Quit, ClientsAsk
  <2> QED BY <1>11, <2>1, <2>2, <2>3, <2>4, <2>5, <2>6 DEF GiveUp
<1> QED BY <1>1, <1>2, <1>3, <1>4, <1>5, <1>6, <1>7, <1>8, <1>9, <1>10, <1>11
        DEF ClientStep, ClientRecv, Timer

-----------------------------------------------------------------------------
(* The proxy.                                                              *)

\* What goes to a client.
LEMMA ProxyReturns ==
    ASSUME NEW kinds, NEW n, NetOK(n, kinds), NEW to \in Players, NEW pkt,
           pkt.flags \notin kinds
    PROVE  NetOK(Sent(n, Main, to, pkt), kinds)
<1>1. \/ Sent(n, Main, to, pkt) = [n EXCEPT ![to] = Append(@, Datagram(Main, pkt))]
      \/ Sent(n, Main, to, pkt) = n
  BY DEF Sent
<1>2. From(Append(n[to], Datagram(Main, pkt)), {Main}, kinds)
  BY AppendFrom DEF NetOK
<1> QED BY <1>1, <1>2, Kinds DEF NetOK

\* A buffer with one more datagram is not empty.
LEMMA AppendNotEmpty ==
    ASSUME NEW s, NEW A, NEW kinds, From(s, A, kinds), NEW d
    PROVE  Append(s, d) # <<>>
<1>1. PICK T : s \in Seq([src : A, pkt : T])
  BY DEF From
<1> DEFINE D == [src : A, pkt : T]
           E == D \cup {d}
<1>2. s \in Seq(D)
  BY <1>1
<1> HIDE DEF D
<1>3. s \in Seq(E) /\ d \in E
  BY <1>2
<1> QED BY <1>3, AppendProperties

\* The server's network when the proxy forwards to the listening socket.
LEMMA ProxySends ==
    ASSUME NEW kinds, NEW f, FarOK(f, kinds), NEW pkt, pkt.flags \notin kinds
    PROVE  /\ FarOK(S!Sent(f, Px, Main, pkt), kinds)
           /\ f[Main] # <<>> => S!Sent(f, Px, Main, pkt)[Main] # <<>>
           /\ S!Sent(f, Px, Main, pkt)[Px] = f[Px]
<1> DEFINE g == [f EXCEPT ![Main] = Append(@, Datagram(Px, pkt))]
<1>1. S!Sent(f, Px, Main, pkt) = g \/ S!Sent(f, Px, Main, pkt) = f
  BY DEF S!Sent, S!Datagram, Datagram
<1>2. From(Append(f[Main], Datagram(Px, pkt)), {Px}, kinds)
  BY AppendFrom DEF FarOK
<1>3. Append(f[Main], Datagram(Px, pkt)) # <<>>
  BY AppendNotEmpty DEF FarOK
<1>4. FarOK(g, kinds) /\ g[Main] # <<>> /\ g[Px] = f[Px]
  BY <1>2, <1>3, Kinds DEF FarOK
<1> QED BY <1>1, <1>4

\* ... and when it takes a datagram of the server's, or closes.
LEMMA ProxyTakes ==
    ASSUME NEW kinds, FarOK(far, kinds)
    PROVE  /\ far[Px] # <<>> => FarOK(S!Taken(Px), kinds)
           /\ S!Taken(Px)[Main] = far[Main]
           /\ FarOK(S!Closed(far, {Px}), kinds)
           /\ S!Closed(far, {Px})[Main] = far[Main] /\ S!Closed(far, {Px})[Px] = <<>>
<1>1. far[Px] # <<>> => From(Tail(far[Px]), Ports, ClientsOnly)
  BY HeadFrom DEF FarOK
<1>2. From(<<>>, Ports, ClientsOnly)
  BY EmptyFrom
<1> QED BY <1>1, <1>2, Kinds DEF FarOK, S!Taken, S!Closed

\* What the server may not hear depends on the proxy's client, which the first
\* datagram decides while nothing waits for the server.
LEMMA KindsDecided ==
    ASSUME RInv, input_addr \in Players => UNCHANGED <<input_addr, host>>
    PROVE  FarOK(far, NotToServer')
<1>1. CASE input_addr \in Players
  BY <1>1 DEF RInv, NotToServer
<1>2. CASE input_addr = NoAddr
  <2>1. From(<<>>, {Px}, NotToServer')
    BY EmptyFrom
  <2> QED BY <1>2, <2>1 DEF RInv, FarOK, ProxyOK
<1> QED BY <1>1, <1>2 DEF RInv, ProxyOK

\* From the clients' side: to the server what comes from the first client's
\* machine, to the first client the rest.
LEMMA ForwardsFromClients ==
    ASSUME RInv, FromClients, UNCHANGED <<clientVars, serverVars, host>>
    PROVE  RInv'
<1> USE DEF RInv
<1> DEFINE d == Head(net[Main])
           to == Destination(d.src)
<1>1. d.src \in Players /\ Asks(d.pkt) /\ NetOK(Taken(Main), NotToClients)
  BY HeadFrom, Kinds DEF FromClients, NetOK, Taken, Asks
<1>2. /\ P!ClientAfter(d.src) \in Players /\ input_addr' = P!ClientAfter(d.src)
      /\ input_addr \in Players => input_addr' = input_addr
  BY <1>1, Kinds DEF FromClients, Relays, P!ClientAfter, ProxyOK
<1>3. FarOK(far, NotToServer')
  BY <1>2, KindsDecided
<1>4. to = Main \/ to \in Players
  BY <1>2 DEF Destination
<1>5. \/ net' = Taken(Main) /\ far' = far
      \/ Forwarded(Taken(Main), far, to, d.pkt)
  BY DEF FromClients, Relays
<1>6. NotToServer' = ServersOnly \/ NotToServer' = {}
  BY DEF NotToServer
<1>7. NetOK(net', NotToClients) /\ FarOK(far', NotToServer')
      /\ (far[Main] # <<>> => far'[Main] # <<>>)
  <2>1. CASE net' = Taken(Main) /\ far' = far
    BY <2>1, <1>1, <1>3
  <2>2. CASE Forwarded(Taken(Main), far, to, d.pkt) /\ to = Main
    <3>1. d.pkt.flags \notin NotToServer'
      BY <1>1, <1>6 DEF Asks
    <3>2. net' = Taken(Main) /\ far' = S!Sent(far, Px, Main, d.pkt)
      BY <2>2, Kinds DEF Forwarded
    <3> QED BY <3>1, <3>2, <1>1, <1>3, ProxySends
  <2>3. CASE Forwarded(Taken(Main), far, to, d.pkt) /\ to \in Players
    <3>1. ~OneMachine
      BY <2>3, <1>1, <1>2, Kinds DEF OneMachine, Destination, HostOf
    <3>2. d.pkt.flags \notin NotToClients
      BY <3>1 DEF NotToClients
    <3>3. net' = Sent(Taken(Main), Main, to, d.pkt) /\ far' = far
      BY <2>3 DEF Forwarded
    <3> QED BY <2>3, <3>2, <3>3, <1>1, <1>3, ProxyReturns
  <2> QED BY <1>4, <1>5, <2>1, <2>2, <2>3
<1>8. NotToClients' = NotToClients
  BY DEF NotToClients, OneMachine
<1>9. ClientsAsk' /\ pc' = pc /\ conns' = conns /\ rx' = rx
  BY DEF clientVars, serverVars, ClientsAsk
<1> QED BY <1>2, <1>7, <1>8, <1>9, Kinds DEF ProxyOK, SeatsOK

\* From the server: to the client, or back when they share a machine.
LEMMA ForwardsFromServer ==
    ASSUME RInv, FromServer, UNCHANGED <<clientVars, serverVars, host>>
    PROVE  RInv'
<1> USE DEF RInv
<1> DEFINE d == Head(far[Px])
           to == Destination(d.src)
<1>1. /\ d.src \in Ports /\ d.pkt.flags \notin ClientsOnly
      /\ FarOK(S!Taken(Px), NotToServer) /\ S!Taken(Px)[Main] = far[Main]
  BY HeadFrom, ProxyTakes DEF FromServer, FarOK
<1>2. input_addr \in Players /\ P!ClientAfter(d.src) = input_addr /\ input_addr' = input_addr
  BY DEF FromServer, Relays, P!ClientAfter, ProxyOK
<1>3. HostOf(d.src) = ServerHost /\ HostOf(input_addr) = host[input_addr]
  BY <1>1, <1>2, Kinds DEF HostOf
<1>4. to = Main \/ to = input_addr
  BY <1>2 DEF Destination
<1>5. \/ net' = net /\ far' = S!Taken(Px)
      \/ Forwarded(net, S!Taken(Px), to, d.pkt)
  BY DEF FromServer, Relays
<1>6. NotToServer' = NotToServer /\ NotToClients' = NotToClients
  BY <1>2 DEF NotToServer, NotToClients, OneMachine
<1>7. NetOK(net', NotToClients) /\ FarOK(far', NotToServer)
      /\ (far[Main] # <<>> => far'[Main] # <<>>)
  <2>1. CASE net' = net /\ far' = S!Taken(Px)
    BY <2>1, <1>1
  <2>2. CASE Forwarded(net, S!Taken(Px), to, d.pkt) /\ to = Main
    <3>1. host[input_addr] = ServerHost
      BY <2>2, <1>2, <1>3, Kinds DEF Destination
    <3>2. d.pkt.flags \notin NotToServer
      BY <3>1 DEF NotToServer
    <3>3. net' = net /\ far' = S!Sent(S!Taken(Px), Px, Main, d.pkt)
      BY <2>2, Kinds DEF Forwarded
    <3> QED BY <3>2, <3>3, <1>1, ProxySends
  <2>3. CASE Forwarded(net, S!Taken(Px), to, d.pkt) /\ to \in Players
    <3>1. d.pkt.flags \notin NotToClients
      BY <1>1 DEF NotToClients
    <3>2. net' = Sent(net, Main, to, d.pkt) /\ far' = S!Taken(Px)
      BY <2>3 DEF Forwarded
    <3> QED BY <3>1, <3>2, <2>3, <1>1, ProxyReturns
  <2> QED BY <1>2, <1>4, <1>5, <2>1, <2>2, <2>3
<1>8. ClientsAsk' /\ pc' = pc /\ conns' = conns /\ rx' = rx
  BY DEF clientVars, serverVars, ClientsAsk
<1> QED BY <1>2, <1>6, <1>7, <1>8, Kinds DEF ProxyOK, SeatsOK

\* Opening and closing.
LEMMA ProxyComesAndGoes ==
    ASSUME RInv, OpenProxy \/ CloseProxy, UNCHANGED <<clientVars, serverVars, host>>
    PROVE  RInv'
<1> USE DEF RInv
<1>1. UNCHANGED input_addr
  BY DEF OpenProxy, CloseProxy, P!ProxySetUp
<1>2. NotToServer' = NotToServer /\ NotToClients' = NotToClients
  BY <1>1 DEF NotToServer, NotToClients, OneMachine
<1>3. ClientsAsk' /\ pc' = pc /\ conns' = conns /\ rx' = rx
  BY DEF clientVars, serverVars, ClientsAsk
<1>4. CASE OpenProxy
  BY <1>1, <1>2, <1>3, <1>4 DEF OpenProxy, ProxyOK, SeatsOK
<1>5. CASE CloseProxy
  <2>1. NetOK(net', NotToClients)
    BY <1>5, EmptyFrom, Kinds DEF CloseProxy, Closed, NetOK
  <2>2. FarOK(far', NotToServer) /\ far'[Main] = far[Main] /\ far'[Px] = <<>>
    BY <1>5, ProxyTakes DEF CloseProxy
  <2> QED BY <1>1, <1>2, <1>3, <2>1, <2>2 DEF ProxyOK, SeatsOK
<1> QED BY <1>4, <1>5

-----------------------------------------------------------------------------
(* The server.                                                             *)

\* The server's answer to a SYN: its socket for the client sends to the proxy.
LEMMA ServerAnswers ==
    ASSUME NEW kinds, NEW f, FarOK(f, kinds), NEW p \in Ports, NEW pkt,
           pkt.flags \notin ClientsOnly
    PROVE  LET g == S!Sent(f, p, Px, pkt)
           IN  FarOK(g, kinds) /\ g[Main] = f[Main]
<1> DEFINE g == [f EXCEPT ![Px] = Append(@, Datagram(p, pkt))]
<1>1. S!Sent(f, p, Px, pkt) = g \/ S!Sent(f, p, Px, pkt) = f
  BY DEF S!Sent, S!Datagram, Datagram
<1>2. From(Append(f[Px], Datagram(p, pkt)), Ports, ClientsOnly)
  BY AppendFrom DEF FarOK
<1>3. FarOK(g, kinds) /\ g[Main] = f[Main]
  BY <1>2, Kinds DEF FarOK
<1> QED BY <1>1, <1>3

\* The server when it reads its listening socket.
LEMMA ServerTakes ==
    ASSUME NEW kinds, FarOK(far, kinds), far[Main] # <<>>
    PROVE  FarOK(S!Taken(S!Main), kinds) /\ S!Taken(S!Main)[Px] = far[Px]
<1>1. From(Tail(far[Main]), {Px}, kinds)
  BY HeadFrom DEF FarOK
<1> QED BY <1>1, Kinds DEF FarOK, S!Taken

\* The server gets as far as one wait for a client that never comes.
LEMMA ServerWaits ==
    ASSUME RInv, S!ServerStep, UNCHANGED ServerSide
    PROVE  RInv'
<1> USE DEF RInv
<1>a. ClientsAsk' /\ host' \in [Players -> Hosts] /\ NetOK(net', NotToClients')
      /\ UNCHANGED input_addr /\ NotToServer' = NotToServer
  BY DEF ServerSide, netVars, clientVars, proxyVars, ClientsAsk, NotToClients, NotToServer,
     OneMachine
<1>b. pc # "recv" => S!ServerSockets = {Main}
  BY Kinds DEF SeatsOK, S!ServerSockets, S!ToSet
<1>1. CASE S!Select
  <2>1. Main \in S!Readable
    BY <1>1, <1>b DEF S!Select, S!Readable
  <2>2. pc' = "accept" /\ far[Main] # <<>> /\ far' = far /\ conns' = <<>>
    BY <1>1, <2>1, Kinds DEF S!Select, S!Readable, S!Goto, S!netVars, SeatsOK
  <2> QED BY <1>a, <2>2 DEF ProxyOK, SeatsOK
<1>2. CASE S!SvAccept
  <2> DEFINE synack == S!Bare("SYN/ACK", MAX_SEQ)
  <2>1. pc = "accept" /\ far[Main] # <<>> /\ conns = <<>>
    BY <1>2 DEF S!SvAccept, SeatsOK
  <2>2. Head(far[Main]).src = Px
    <3>1. From(far[Main], {Px}, NotToServer)
      BY DEF FarOK
    <3>2. Head(far[Main]).src \in {Px}
      BY <3>1, <2>1, HeadFrom
    <3> QED BY <3>2
  <2>3. PICK p \in Ports :
            /\ conns' = Append(conns, p)
            /\ far' = S!Sent(S!Taken(S!Main), p, Px, synack)
            /\ S!RecvFrom(p, "received")
    BY <1>2, <2>2, Kinds DEF S!SvAccept
  <2>4. FarOK(far', NotToServer)
    <3>1. synack.flags \notin ClientsOnly
      BY DEF S!Bare, S!Packet, ClientsOnly
    <3> QED BY <2>1, <2>3, <3>1, ServerTakes, ServerAnswers
  <2>5. pc' = "recv" /\ rx' = p /\ conns' = <<p>>
    BY <2>1, <2>3 DEF S!RecvFrom, S!Goto
  <2>6. input_addr # NoAddr
    BY <2>1 DEF ProxyOK
  <2> QED BY <1>a, <2>4, <2>5, <2>6 DEF ProxyOK, SeatsOK
<1>3. CASE S!SvDeny
  <2>1. pc = "accept" /\ far[Main] # <<>> /\ conns = <<>>
    BY <1>3 DEF S!SvDeny, SeatsOK
  <2>2. far' = S!Taken(S!Main) /\ pc' = "received" /\ conns' = <<>>
    BY <1>3, <2>1 DEF S!SvDeny, S!Goto
  <2> QED BY <1>a, <2>1, <2>2, ServerTakes DEF ProxyOK, SeatsOK
<1>4. CASE S!AfterReceipt
  <2>1. pc' = "loop" /\ conns' = <<>> /\ far' = far
    BY <1>4, RelayAssumption DEF S!AfterReceipt, S!Goto, S!netVars, SeatsOK
  <2> QED BY <1>a, <2>1 DEF ProxyOK, SeatsOK
<1>5. CASE S!EndLoop
  <2>1. conns = <<>> /\ conns' = <<>> /\ pc' \in {"closed", "select"}
    BY <1>5 DEF S!EndLoop, S!Exit, S!Goto, SeatsOK
  <2>2. FarOK(far', NotToServer) /\ far'[Px] = far[Px] /\ far'[Main] \in {<<>>, far[Main]}
    <3>1. CASE far' = far
      BY <3>1
    <3>2. CASE far' = S!Closed(far, S!ServerSockets)
      <4>1. From(<<>>, {Px}, NotToServer)
        BY EmptyFrom
      <4>2. S!ServerSockets = {Main}
        BY <1>b, <1>5 DEF S!EndLoop
      <4> QED BY <3>2, <4>1, <4>2, Kinds DEF S!Closed, FarOK
    <3> QED BY <1>5, <3>1, <3>2 DEF S!EndLoop, S!Exit
  <2> QED BY <1>a, <2>1, <2>2 DEF ProxyOK, SeatsOK
<1>6. ~S!SvReceive
  BY DEF S!SvReceive, S!RecvDuplicate, S!RecvBadAck, S!RecvFinAck, S!RecvMove,
         S!RecvOther, S!Receives, SeatsOK, FarOK
<1>7. ~S!HandleReceipt /\ ~S!HandleBroadcast
  BY DEF SeatsOK, S!HandleReceipt, S!HandleBroadcast, S!ReceiptRecv, S!ReceiptSkip,
         S!UseAfterFree, S!HandleUnicast, S!NoUnicast, S!Unicasted, S!NextClient,
         S!SvDisconnect, S!BroadcastStep, S!BroadcastNext, S!BroadcastEnd
<1> QED BY <1>1, <1>2, <1>3, <1>4, <1>5, <1>6, <1>7 DEF S!ServerStep

-----------------------------------------------------------------------------
(* Theorems.                                                               *)

\* The proxy before anything has been sent.
LEMMA RInvInit == Init => RInv
<1> SUFFICES ASSUME Init PROVE RInv
  OBVIOUS
<1>1. ClientsAsk
  BY Kinds DEF Init, ClientInit, ClientsAsk, Asks, Bare, Packet, ServersOnly
<1>2. /\ NetOK(net, NotToClients) /\ FarOK(far, NotToServer)
      /\ far[Main] = <<>> /\ far[Px] = <<>>
  BY EmptyFrom, Kinds DEF Init, NetOK, FarOK
<1>3. ProxyOK /\ SeatsOK
  BY <1>2 DEF Init, P!ProxyInit, S!ServerInit, ProxyOK, SeatsOK
<1> QED BY <1>1, <1>2, <1>3 DEF Init, RInv

LEMMA RInvStep == RInv /\ [Next]_vars => RInv'
<1> SUFFICES ASSUME RInv, [Next]_vars PROVE RInv'
  OBVIOUS
<1>1. CASE ProxyStep \/ (CloseProxy /\ UNCHANGED <<faults, clientVars, serverVars, host>>)
  BY <1>1, ForwardsFromClients, ForwardsFromServer, ProxyComesAndGoes DEF ProxyStep
<1>2. ASSUME NEW c \in Players, ClientStep(c), UNCHANGED ClientSide
      PROVE  RInv'
  <2>1. ClientsAsk' /\ NetOK(net', NotToClients)
    BY <1>2, ClientsOnlyAsk DEF RInv
  <2>2. UNCHANGED <<far, input_addr, host, pc, conns, rx>>
    BY <1>2 DEF ClientSide, farVars, serverVars, proxyVars
  <2>3. NotToServer' = NotToServer /\ NotToClients' = NotToClients
    BY <2>2 DEF NotToServer, NotToClients, OneMachine
  <2> QED BY <2>1, <2>2, <2>3 DEF RInv, ProxyOK, SeatsOK
<1>3. CASE S!ServerStep /\ UNCHANGED ServerSide
  BY <1>3, ServerWaits
<1>4. CASE UNCHANGED vars
  <2>1. UNCHANGED <<net, far, cs_packet, peer, input_addr, host, pc, conns, rx>>
    BY <1>4 DEF vars, netVars, clientVars, farVars, serverVars, proxyVars
  <2>2. NotToServer' = NotToServer /\ NotToClients' = NotToClients
    BY <2>1 DEF NotToServer, NotToClients, OneMachine
  <2> QED BY <2>1, <2>2 DEF RInv, ClientsAsk, ProxyOK, SeatsOK
<1> QED BY <1>1, <1>2, <1>3, <1>4 DEF Next

(***************************************************************************)
(* Where the proxy's client does not share a machine with the server, the  *)
(* proxy sends nothing back to the server, and where the clients share one *)
(* machine, nothing back to a client (proxy.c:220, 255): whatever is       *)
(* dropped, however many clients there are and whichever is the first.     *)
(***************************************************************************)
THEOREM NothingReturns == Spec => []NothingComesBack
<1>1. RInv => NothingComesBack
  <2> SUFFICES ASSUME RInv, input_addr \in Players
               PROVE  /\ host[input_addr] # ServerHost => Without(far[Main], ServersOnly)
                      /\ OneMachine => \A c \in Players : Without(net[c], ClientsOnly)
    BY DEF NothingComesBack
  <2>1. Without(far[Main], NotToServer)
    BY WithoutFrom DEF RInv, FarOK
  <2>2. \A c \in Players : Without(net[c], NotToClients)
    BY WithoutFrom DEF RInv, NetOK
  <2> QED BY <2>1, <2>2 DEF NotToServer, NotToClients
<1> QED BY <1>1, RInvInit, RInvStep, PTL DEF Spec

(***************************************************************************)
(* The chances are consistent whatever the user enters.                    *)
(***************************************************************************)
THEOREM Bounds == Spec => []BoundsInOrder
<1> DEFINE Inv == drop_bound \in Int /\ hold_bound \in Int /\ BoundsInOrder
<1>1. Init => Inv
  BY RelayAssumption DEF Init, P!ProxyInit, BoundsInOrder, P!BoundsInOrder
<1>2. Inv /\ [Next]_vars => Inv'
  <2> SUFFICES ASSUME Inv, [Next]_vars PROVE Inv'
    OBVIOUS
  <2>1. CASE P!ProxySetUp
    <3>1. \A d \in DropArgs : P!get_percentage(d, DEFAULT_DROP_PERCENT) \in 0 .. HUNDRED_PERCENT
      BY RelayAssumption DEF P!get_percentage
    <3>2. \A h \in HoldArgs : P!get_percentage(h, DEFAULT_HOLD_PERCENT) \in 0 .. HUNDRED_PERCENT
      BY RelayAssumption DEF P!get_percentage
    <3> QED BY <2>1, <3>1, <3>2, RelayAssumption
            DEF P!ProxySetUp, P!Acceptable, BoundsInOrder, P!BoundsInOrder
  <2>2. CASE UNCHANGED <<drop_bound, hold_bound>>
    BY <2>2 DEF BoundsInOrder, P!BoundsInOrder
  <2> QED BY <2>1, <2>2
          DEF Next, vars, ProxyStep, OpenProxy, FromClients, FromServer, Relays,
              CloseProxy, ClientSide, ServerSide, proxyVars
<1> QED BY <1>1, <1>2, PTL DEF Spec

=============================================================================
