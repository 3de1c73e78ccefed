----------------------------- MODULE Client_proofs -----------------------------
(***************************************************************************)
(* Every step of a client keeps the types, touches no socket of the server *)
(* and takes no datagram from a buffer but its own.                        *)
(***************************************************************************)
EXTENDS Client, Network_proofs

\* What a client's step leaves true of the network.
ClientNet(c) ==
    /\ NetTypeOK'
    /\ bound' \ {c} = bound \ {c}
    /\ \A e \in Endpoints \ {c} : Keeps(net, net', e)

\* The four variables SendThen and WaitFor set.
WaitTypeOK ==
    /\ cpc \in [Clients -> ClientPlaces]
    /\ cs_packet \in [Clients -> ClientPackets]
    /\ tv_sec \in [Clients -> 0 .. BASE_TIMEOUT]
    /\ num_to \in [Clients -> 0 .. MAX_NUM_TIMEOUTS]

-----------------------------------------------------------------------------

\* A client's datagram is of the kind the server's sockets receive.
LEMMA ClientDatagram ==
    ASSUME NEW c \in Clients, NEW to \in {Main} \cup Ports, NEW pkt \in ClientPackets
    PROVE  Datagram(c, pkt) \in DatagramsTo(to)
BY EndpointKinds DEF Datagram, DatagramsTo

\* SendThen keeps the types and loses no datagram of the buffers n.
LEMMA SendThenType ==
    ASSUME NetTypeOK, ClientTypeOK, NEW c \in Clients, NEW n, Buffers(n),
           NEW to \in {Main} \cup Ports, NEW pkt \in ClientPackets,
           NEW place \in ClientPlaces, SendThen(c, n, to, pkt, place)
    PROVE  /\ Buffers(net') /\ \A e \in Endpoints : Keeps(n, net', e)
           /\ WaitTypeOK'
<1>1. bound \subseteq Endpoints
  BY DEF NetTypeOK
<1>2. Datagram(c, pkt) \in DatagramsTo(to)
  BY ClientDatagram
<1>3. Buffers(net') /\ \A e \in Endpoints : Keeps(n, net', e)
  BY <1>1, <1>2, SentBuffers DEF SendThen
<1>4. WaitTypeOK'
  BY ClientAssumption DEF SendThen, ClientTypeOK, WaitTypeOK
<1> QED
  BY <1>3, <1>4

\* WaitFor keeps the types.
LEMMA WaitForType ==
    ASSUME ClientTypeOK, NEW c \in Clients, NEW n,
           NEW place \in ClientPlaces, WaitFor(c, n, place)
    PROVE  net' = n /\ WaitTypeOK'
<1>1. FreePayload(cs_packet[c]) \in ClientPackets
  BY FreedClientPacket DEF ClientTypeOK
<1> QED
  BY <1>1, ClientAssumption DEF WaitFor, ClientTypeOK, WaitTypeOK

\* The end of a client closes its own socket.
LEMMA QuitType ==
    ASSUME NetTypeOK, ClientTypeOK, NEW c \in Clients, Quit(c), UNCHANGED faults
    PROVE  ClientNet(c) /\ cpc' \in [Clients -> ClientPlaces]
<1>1. Buffers(net) /\ Buffers(net') /\ \A e \in Endpoints \ {c} : net'[e] = net[e]
  BY ClosedBuffers DEF NetTypeOK, Buffers, Quit
<1> QED
  BY <1>1 DEF ClientNet, NetTypeOK, Buffers, Keeps, Quit, ClientTypeOK, ClientPlaces

\* The packet a wait accepts is one of the server's, and its sender one of the
\* server's sockets.
LEMMA ReceivedType ==
    ASSUME NetTypeOK, NEW c \in Clients, net[c] # <<>>
    PROVE  /\ Incoming(c) \in ServerPackets
           /\ Sender(c) \in Ports
           /\ Buffers(Taken(c))
           /\ \A e \in Endpoints \ {c} : Keeps(net, Taken(c), e)
<1>1. c \in Endpoints /\ Buffers(net)
  BY DEF Endpoints, NetTypeOK, Buffers
<1>2. /\ Head(net[c]) \in DatagramsTo(c) /\ Buffers(Taken(c))
      /\ \A e \in Endpoints \ {c} : Taken(c)[e] = net[e]
  BY <1>1, TakenBuffers
<1> QED
  BY <1>2 DEF DatagramsTo, Incoming, Sender, Keeps

\* A game a client accepts carries the state of a game.
LEMMA GameReceived ==
    ASSUME NEW pkt \in ServerPackets, HasPSH(pkt.flags)
    PROVE  pkt.payload \in Games /\ pkt.seq \in SeqNums
BY DEF ServerPackets

\* The timer only gets shorter.
LEMMA NextTvType ==
    ASSUME ClientTypeOK, NEW c \in Clients
    PROVE  NextTv(c) \in 0 .. BASE_TIMEOUT
<1>1. tv_sec[c] \in 0 .. BASE_TIMEOUT /\ BASE_TIMEOUT \in Nat
  BY ClientAssumption DEF ClientTypeOK
<1> QED
  BY <1>1 DEF NextTv

-----------------------------------------------------------------------------

\* Connecting.
LEMMA ConnectType ==
    ASSUME NetTypeOK, ClientTypeOK, NEW c \in Clients, Connect(c)
    PROVE  ClientTypeOK' /\ ClientNet(c)
<1>1. Bare("SYN", MAX_SEQ) \in ClientPackets
  BY BareClientPacket, PacketAssumption DEF SeqNums
<1>2. Buffers(net)
  BY DEF NetTypeOK, Buffers
<1>3. Buffers(net') /\ (\A e \in Endpoints : Keeps(net, net', e)) /\ WaitTypeOK'
  BY <1>1, <1>2, SendThenType DEF Connect, ClientPlaces, Waits
<1>4. c \in Endpoints
  BY DEF Endpoints
<1> QED
  BY <1>3, <1>4 DEF Connect, ClientNet, NetTypeOK, Buffers, WaitTypeOK, ClientTypeOK

\* Receiving what the wait is for, or anything else.
LEMMA ClientRecvType ==
    ASSUME NetTypeOK, ClientTypeOK, NEW c \in Clients, ClientRecv(c)
    PROVE  ClientTypeOK' /\ ClientNet(c)
<1> DEFINE pkt == Incoming(c)
           T == Taken(c)
<1>0. net[c] # <<>>
  BY DEF ClientRecv, RecvSynAck, RecvGame, RecvAck, RecvDisconnectAck, RecvFin,
         RecvLastFin, RecvUnexpected, Gets
<1>1. /\ pkt \in ServerPackets /\ Sender(c) \in {Main} \cup Ports
      /\ Buffers(T) /\ \A e \in Endpoints \ {c} : Keeps(net, T, e)
  BY <1>0, ReceivedType
<1>2. pkt.seq \in SeqNums /\ MAX_SEQ \in SeqNums
  BY <1>1, PacketAssumption DEF ServerPackets, SeqNums
<1>3. peer' = [peer EXCEPT ![c] = Sender(c)]
  BY DEF ClientRecv, RecvSynAck, RecvGame, RecvAck, RecvDisconnectAck, RecvFin,
         RecvLastFin, RecvUnexpected, Gets
<1>4. peer' \in [Clients -> {Main} \cup Ports]
  BY <1>1, <1>3 DEF ClientTypeOK
<1>5. Bare("ACK", MAX_SEQ) \in ClientPackets /\ Bare("FIN", MAX_SEQ) \in ClientPackets
      /\ Bare("FIN/ACK", MAX_SEQ) \in ClientPackets /\ Bare("ACK", pkt.seq) \in ClientPackets
  BY <1>2, BareClientPacket
<1> HIDE DEF pkt, T
<1>6. CASE RecvSynAck(c)
  <2>1. SendThen(c, T, Sender(c), Bare("ACK", MAX_SEQ), "w_game")
    BY <1>6 DEF RecvSynAck, T
  <2>2. /\ Buffers(net') /\ \A e \in Endpoints : Keeps(T, net', e)
        /\ WaitTypeOK'
    BY <1>1, <1>5, <2>1, SendThenType DEF ClientPlaces, Waits
  <2>3. cr_seq' \in [Clients -> SeqNums]
    BY <1>2, <1>6 DEF RecvSynAck, ClientTypeOK, pkt
  <2> QED
    BY <1>1, <1>4, <1>6, <2>2, <2>3
       DEF RecvSynAck, Gets, ClientNet, NetTypeOK, Buffers, Keeps, WaitTypeOK, ClientTypeOK
<1>7. CASE RecvGame(c)
  <2> DEFINE over == IsGameOver(pkt.payload.trackGame)
             leaves == over \/ ~(running[c] \/ HasTRN(pkt.flags))
             ack == Bare("ACK", pkt.seq)
             n == Sent(T, c, Sender(c), ack)
  <2>1. HasPSH(pkt.flags)
    BY <1>7 DEF RecvGame, Gets, Accepts, FlagSet, HasPSH, pkt
  <2>2. Judged(pkt.payload) \in Games
    BY <1>1, <2>1, GameReceived, JudgedType
  <2>3. view' \in [Clients -> Games] /\ cr_seq' \in [Clients -> SeqNums]
    BY <1>2, <1>7, <2>2 DEF RecvGame, ClientTypeOK, pkt
  <2>4. running' = [running EXCEPT ![c] = @ /\ ~over]
    BY <1>7 DEF RecvGame, pkt
  <2>5. (running[c] /\ ~over) \in BOOLEAN
    BY DEF IsGameOver, IsGridFull, ClientTypeOK
  <2>6. running' \in [Clients -> BOOLEAN]
    BY <2>4, <2>5 DEF ClientTypeOK
  <2>7. Buffers(n) /\ \A e \in Endpoints : Keeps(T, n, e)
    <3>1. Datagram(c, ack) \in DatagramsTo(Sender(c))
      BY <1>1, <1>5, ClientDatagram
    <3> QED
      BY <1>1, <3>1, SentBuffers DEF NetTypeOK
  <2>8. /\ Buffers(net') /\ \A e \in Endpoints : Keeps(T, net', e)
        /\ WaitTypeOK'
    <3>1. CASE leaves
      <4>1. SendThen(c, n, Sender(c), Bare("FIN", MAX_SEQ), "w_finack")
        BY <1>7, <3>1 DEF RecvGame, Leave, pkt, T
      <4>2. /\ Buffers(net') /\ \A e \in Endpoints : Keeps(n, net', e)
            /\ WaitTypeOK'
        BY <1>1, <1>5, <2>7, <4>1, SendThenType DEF ClientPlaces, Waits
      <4> QED
        BY <2>7, <4>2 DEF Keeps
    <3>2. CASE ~leaves
      <4>1. \E place \in ClientPlaces : SendThen(c, T, Sender(c), ack, place)
        BY <1>7, <3>2 DEF RecvGame, pkt, T, ClientPlaces, Waits
      <4> QED
        BY <1>1, <1>5, <4>1, SendThenType
    <3> QED
      BY <3>1, <3>2
  <2> QED
    BY <1>1, <1>4, <1>7, <2>3, <2>6, <2>8
       DEF RecvGame, Gets, ClientNet, NetTypeOK, Buffers, Keeps, WaitTypeOK, ClientTypeOK
<1>8. CASE RecvAck(c)
  <2>1. /\ Buffers(net') /\ \A e \in Endpoints : Keeps(T, net', e)
        /\ WaitTypeOK'
    <3>1. CASE running[c]
      <4>1. WaitFor(c, T, "w_game")
        BY <1>8, <3>1 DEF RecvAck, T
      <4> QED
        BY <1>1, <4>1, WaitForType DEF ClientPlaces, Waits, Keeps
    <3>2. CASE ~running[c]
      <4>1. SendThen(c, T, Sender(c), Bare("FIN", MAX_SEQ), "w_finack")
        BY <1>8, <3>2 DEF RecvAck, Leave, T
      <4> QED
        BY <1>1, <1>5, <4>1, SendThenType DEF ClientPlaces, Waits
    <3> QED
      BY <3>1, <3>2
  <2> QED
    BY <1>1, <1>4, <1>8, <2>1
       DEF RecvAck, Gets, ClientNet, NetTypeOK, Buffers, Keeps, WaitTypeOK, ClientTypeOK
<1>9. CASE RecvDisconnectAck(c)
  <2>1. WaitFor(c, T, "w_fin")
    BY <1>9 DEF RecvDisconnectAck, T
  <2>2. net' = T /\ WaitTypeOK'
    BY <2>1, WaitForType DEF ClientPlaces, Waits
  <2> QED
    BY <1>1, <1>4, <1>9, <2>2
       DEF RecvDisconnectAck, Gets, ClientNet, NetTypeOK, Buffers, WaitTypeOK, ClientTypeOK
<1>10. CASE RecvFin(c)
  <2>1. SendThen(c, T, Sender(c), Bare("FIN/ACK", MAX_SEQ), "w_linger")
    BY <1>10 DEF RecvFin, T
  <2>2. /\ Buffers(net') /\ \A e \in Endpoints : Keeps(T, net', e)
        /\ WaitTypeOK'
    BY <1>1, <1>5, <2>1, SendThenType DEF ClientPlaces, Waits
  <2> QED
    BY <1>1, <1>4, <1>10, <2>2
       DEF RecvFin, Gets, ClientNet, NetTypeOK, Buffers, Keeps, WaitTypeOK, ClientTypeOK
<1>11. CASE RecvLastFin(c)
  <2>1. ClientNet(c) /\ cpc' \in [Clients -> ClientPlaces]
    BY <1>11, QuitType DEF RecvLastFin, Gets
  <2> QED
    BY <1>4, <1>11, <2>1 DEF RecvLastFin, Gets, ClientTypeOK
<1>12. CASE RecvUnexpected(c)
  <2>1. Datagram(c, cs_packet[c]) \in DatagramsTo(Sender(c))
    BY <1>1, ClientDatagram DEF ClientTypeOK
  <2>2. Buffers(net') /\ \A e \in Endpoints : Keeps(T, net', e)
    BY <1>1, <1>12, <2>1, SentBuffers DEF RecvUnexpected, NetTypeOK, T
  <2>3. num_to' \in [Clients -> 0 .. MAX_NUM_TIMEOUTS]
    BY <1>12, ClientAssumption DEF RecvUnexpected, ClientTypeOK
  <2> QED
    BY <1>1, <1>4, <1>12, <2>2, <2>3
       DEF RecvUnexpected, ClientNet, NetTypeOK, Buffers, Keeps, ClientTypeOK
<1> QED
  BY <1>6, <1>7, <1>8, <1>9, <1>10, <1>11, <1>12 DEF ClientRecv

\* Taking a turn.
LEMMA TakeTurnType ==
    ASSUME NetTypeOK, ClientTypeOK, NEW c \in Clients, TakeTurn(c)
    PROVE  ClientTypeOK' /\ ClientNet(c)
<1>1. PICK cell \in Reach[view[c].cursor] \cup {view[c].cursor}, btn \in BOOLEAN :
        SendThen(c, net, peer[c],
                 Packet("PSH", NextSeq(cr_seq[c]),
                        [cursor |-> cell, btn |-> btn, id |-> turns[c] + 1]), "w_ack")
  BY DEF TakeTurn
<1>2. view[c].cursor \in Cells /\ cell \in Cells
  BY ClientAssumption DEF ClientTypeOK, Games
<1>3. turns[c] + 1 \in 0 .. MaxTurns
  BY PacketAssumption DEF TakeTurn, ClientTypeOK
<1> DEFINE input == [cursor |-> cell, btn |-> btn, id |-> turns[c] + 1]
           pkt == Packet("PSH", NextSeq(cr_seq[c]), input)
<1>4. input \in Inputs
  BY <1>2, <1>3 DEF Inputs
<1>5. NextSeq(cr_seq[c]) \in SeqNums
  BY NextSeqType DEF ClientTypeOK
<1>6. pkt \in ClientPackets
  BY <1>4, <1>5, PayloadAssumption DEF Packet, ClientPackets
<1>7. peer[c] \in {Main} \cup Ports /\ Buffers(net)
  BY DEF ClientTypeOK, NetTypeOK, Buffers
<1> HIDE DEF pkt
<1>8. SendThen(c, net, peer[c], pkt, "w_ack")
  BY <1>1 DEF pkt
<1>9. /\ Buffers(net') /\ \A e \in Endpoints : Keeps(net, net', e)
      /\ WaitTypeOK'
  BY <1>6, <1>7, <1>8, SendThenType DEF ClientPlaces, Waits
<1>10. turns' \in [Clients -> 0 .. MaxTurns]
  BY <1>3 DEF TakeTurn, ClientTypeOK
<1> QED
  BY <1>9, <1>10 DEF TakeTurn, ClientNet, NetTypeOK, Buffers, WaitTypeOK, ClientTypeOK

\* An expiry of the timer that resends.
LEMMA TimeoutResendType ==
    ASSUME NetTypeOK, ClientTypeOK, NEW c \in Clients, TimeoutResend(c)
    PROVE  ClientTypeOK' /\ ClientNet(c)
<1>1. Buffers(net) /\ bound \subseteq Endpoints
  BY DEF NetTypeOK, Buffers
<1>2. Datagram(c, cs_packet[c]) \in DatagramsTo(peer[c])
  BY ClientDatagram DEF ClientTypeOK
<1>3. Buffers(net') /\ \A e \in Endpoints : Keeps(net, net', e)
  BY <1>1, <1>2, SentBuffers DEF TimeoutResend
<1>4. tv_sec' \in [Clients -> 0 .. BASE_TIMEOUT]
  BY NextTvType DEF TimeoutResend, ClientTypeOK
<1>5. num_to' \in [Clients -> 0 .. MAX_NUM_TIMEOUTS]
  <2>1. num_to[c] \in 0 .. MAX_NUM_TIMEOUTS
    BY DEF ClientTypeOK
  <2>2. (IF Halves(c) THEN 0 ELSE num_to[c] + 1) \in 0 .. MAX_NUM_TIMEOUTS
    BY <2>1, ClientAssumption DEF Halves
  <2> QED
    BY <2>2 DEF TimeoutResend, ClientTypeOK
<1>6. resends' \in 0 .. MaxResends
  BY ClientAssumption DEF TimeoutResend, ClientTypeOK
<1> QED
  BY <1>3, <1>4, <1>5, <1>6 DEF TimeoutResend, ClientNet, NetTypeOK, Buffers, ClientTypeOK

\* The last expiry of a wait.
LEMMA GiveUpType ==
    ASSUME NetTypeOK, ClientTypeOK, NEW c \in Clients, GiveUp(c)
    PROVE  ClientTypeOK' /\ ClientNet(c)
<1> DEFINE Waited == /\ Buffers(net') /\ \A e \in Endpoints : Keeps(net, net', e)
                     /\ WaitTypeOK'
<1>1. Buffers(net) /\ peer[c] \in {Main} \cup Ports /\ cr_seq[c] \in SeqNums
  BY DEF NetTypeOK, Buffers, ClientTypeOK
<1>2. MAX_SEQ \in SeqNums
  BY PacketAssumption DEF SeqNums
<1>3. Bare("ACK", MAX_SEQ) \in ClientPackets /\ Bare("FIN", MAX_SEQ) \in ClientPackets
      /\ Bare("FIN/ACK", MAX_SEQ) \in ClientPackets /\ Bare("ACK", cr_seq[c]) \in ClientPackets
  BY <1>1, <1>2, BareClientPacket
<1>4. CASE GiveUpConnect(c)
  <2>1. SendThen(c, net, peer[c], Bare("ACK", MAX_SEQ), "w_game")
    BY <1>4 DEF GiveUpConnect
  <2>2. Waited
    BY <1>1, <1>3, <2>1, SendThenType DEF ClientPlaces, Waits
  <2> QED
    BY <1>4, <2>2 DEF GiveUpConnect, Expires, ClientNet, NetTypeOK, Buffers, WaitTypeOK, ClientTypeOK
<1>5. CASE GiveUpGame(c)
  <2> DEFINE n == Sent(net, c, peer[c], Bare("ACK", cr_seq[c]))
  <2>1. Datagram(c, Bare("ACK", cr_seq[c])) \in DatagramsTo(peer[c])
    BY <1>1, <1>3, ClientDatagram
  <2>2. Buffers(n) /\ \A e \in Endpoints : Keeps(net, n, e)
    BY <1>1, <2>1, SentBuffers DEF NetTypeOK
  <2>3. SendThen(c, n, peer[c], Bare("FIN", MAX_SEQ), "w_finack")
    BY <1>5 DEF GiveUpGame, Leave
  <2>4. Buffers(net') /\ (\A e \in Endpoints : Keeps(n, net', e)) /\ WaitTypeOK'
    BY <1>1, <1>3, <2>2, <2>3, SendThenType DEF ClientPlaces, Waits
  <2>5. Waited
    BY <2>2, <2>4 DEF Keeps
  <2>6. running' \in [Clients -> BOOLEAN]
    BY <1>5 DEF GiveUpGame, ClientTypeOK
  <2> QED
    BY <1>5, <2>5, <2>6 DEF GiveUpGame, Expires, ClientNet, NetTypeOK, Buffers, WaitTypeOK, ClientTypeOK
<1>6. CASE GiveUpAck(c)
  <2>1. SendThen(c, net, peer[c], Bare("FIN", MAX_SEQ), "w_finack")
    BY <1>6 DEF GiveUpAck, Leave
  <2>2. Waited
    BY <1>1, <1>3, <2>1, SendThenType DEF ClientPlaces, Waits
  <2>3. running' \in [Clients -> BOOLEAN]
    BY <1>6 DEF GiveUpAck, ClientTypeOK
  <2> QED
    BY <1>6, <2>2, <2>3 DEF GiveUpAck, Expires, ClientNet, NetTypeOK, Buffers, WaitTypeOK, ClientTypeOK
<1>7. CASE GiveUpFinAck(c)
  <2>1. WaitFor(c, net, "w_fin")
    BY <1>7 DEF GiveUpFinAck
  <2>2. net' = net /\ WaitTypeOK'
    BY <2>1, WaitForType DEF ClientPlaces, Waits
  <2> QED
    BY <1>7, <2>2 DEF GiveUpFinAck, Expires, ClientNet, NetTypeOK, Keeps, WaitTypeOK, ClientTypeOK
<1>8. CASE GiveUpFin(c)
  <2>1. SendThen(c, net, peer[c], Bare("FIN/ACK", MAX_SEQ), "w_linger")
    BY <1>8 DEF GiveUpFin
  <2>2. Waited
    BY <1>1, <1>3, <2>1, SendThenType DEF ClientPlaces, Waits
  <2> QED
    BY <1>8, <2>2 DEF GiveUpFin, Expires, ClientNet, NetTypeOK, Buffers, WaitTypeOK, ClientTypeOK
<1>9. CASE GiveUpLinger(c)
  <2>1. ClientNet(c) /\ cpc' \in [Clients -> ClientPlaces]
    BY <1>9, QuitType DEF GiveUpLinger, Expires
  <2> QED
    BY <1>9, <2>1 DEF GiveUpLinger, Expires, ClientTypeOK
<1> QED
  BY <1>4, <1>5, <1>6, <1>7, <1>8, <1>9 DEF GiveUp

\* The user's signal.
LEMMA SignalType ==
    ASSUME NetTypeOK, ClientTypeOK, NEW c \in Clients, Signal(c)
    PROVE  ClientTypeOK' /\ ClientNet(c)
<1>1. Buffers(net) /\ peer[c] \in {Main} \cup Ports
  BY DEF NetTypeOK, Buffers, ClientTypeOK
<1>2. Bare("FIN", MAX_SEQ) \in ClientPackets
  BY BareClientPacket, PacketAssumption DEF SeqNums
<1>3. ASSUME Leave(c, net, peer[c])
      PROVE  /\ Buffers(net') /\ \A e \in Endpoints : Keeps(net, net', e)
             /\ WaitTypeOK'
  BY <1>1, <1>2, <1>3, SendThenType DEF Leave, ClientPlaces, Waits
<1>4. CASE SignalLeave(c)
  <2>1. running' \in [Clients -> BOOLEAN]
    BY <1>4 DEF SignalLeave, ClientTypeOK
  <2> QED
    BY <1>3, <1>4, <2>1 DEF SignalLeave, ClientNet, NetTypeOK, Buffers, WaitTypeOK, ClientTypeOK
<1>5. CASE SignalQuit(c)
  <2>1. ClientNet(c) /\ cpc' \in [Clients -> ClientPlaces]
    BY <1>5, QuitType DEF SignalQuit
  <2> QED
    BY <1>5, <2>1 DEF SignalQuit, ClientTypeOK
<1>6. CASE SignalUnseen(c)
  BY <1>6 DEF SignalUnseen, netVars, ClientNet, NetTypeOK, Keeps, ClientTypeOK
<1>7. CASE SkipTurn(c)
  BY <1>3, <1>7 DEF SkipTurn, ClientNet, NetTypeOK, Buffers, WaitTypeOK, ClientTypeOK
<1> QED
  BY <1>4, <1>5, <1>6, <1>7 DEF Signal

=============================================================================
