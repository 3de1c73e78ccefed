----------------------------- MODULE Server_proofs -----------------------------
(***************************************************************************)
(* ServerInv, which says where the pointers into the client list point,    *)
(* makes the server's types inductive: every step of the server keeps the  *)
(* two together.  It also gives that the list of clients has no double     *)
(* entries, never more than MAX_CLIENTS, and one open socket per entry.    *)
(***************************************************************************)
EXTENDS Server, Network_proofs

Safe == NetTypeOK /\ ServerTypeOK /\ ServerInv

-----------------------------------------------------------------------------
(* The client list.                                                        *)

\* The entries of the list are ports; its first is one of them or NULL.
LEMMA ListEntries ==
    ASSUME ServerTypeOK
    PROVE  /\ Seated \subseteq Ports /\ 0 \notin Ports
           /\ First \in {0} \cup Seated
           /\ ServerSockets \subseteq {Main} \cup Ports
<1>1. conns \in Seq(Ports) /\ Len(conns) \in Nat /\ DOMAIN conns = 1 .. Len(conns)
  BY LenProperties DEF ServerTypeOK
<1>2. \A i \in 1 .. Len(conns) : conns[i] \in Ports
  BY <1>1, ElementOfSeq
<1>3. Seated \subseteq Ports
  BY <1>1, <1>2 DEF Seated, ToSet
<1>4. conns # <<>> => 1 \in 1 .. Len(conns)
  BY <1>1, EmptySeq
<1> QED
  BY <1>1, <1>3, <1>4, NetworkAssumption DEF First, Seated, ToSet, ServerSockets, Ports

\* The position of an entry.
LEMMA PositionOf ==
    ASSUME ServerTypeOK, NEW p \in Seated
    PROVE  Position(p) \in 1 .. Len(conns) /\ conns[Position(p)] = p
<1>1. DOMAIN conns = 1 .. Len(conns)
  BY LenProperties DEF ServerTypeOK
<1>2. \E i \in DOMAIN conns : conns[i] = p
  BY DEF Seated, ToSet
<1> QED
  BY <1>1, <1>2 DEF Position

\* curr->next is another entry or NULL.
LEMMA NextEntry ==
    ASSUME ServerTypeOK, ListOK, NEW p \in Seated
    PROVE  NextInList(p) \in {0} \cup (Seated \ {p})
<1>1. conns \in Seq(Ports) /\ Len(conns) \in Nat /\ DOMAIN conns = 1 .. Len(conns)
  BY LenProperties DEF ServerTypeOK
<1>2. Position(p) \in 1 .. Len(conns) /\ conns[Position(p)] = p
  BY PositionOf
<1>3. CASE Position(p) < Len(conns)
  <2>1. Position(p) + 1 \in DOMAIN conns /\ Position(p) \in DOMAIN conns
        /\ Position(p) + 1 # Position(p)
    BY <1>1, <1>2, <1>3
  <2>2. conns[Position(p) + 1] \in Seated /\ conns[Position(p) + 1] # p
    BY <1>2, <2>1 DEF Seated, ToSet, ListOK, IsInjective
  <2> QED
    BY <1>3, <2>2 DEF NextInList
<1>4. CASE ~(Position(p) < Len(conns))
  BY <1>4 DEF NextInList
<1> QED
  BY <1>3, <1>4

-----------------------------------------------------------------------------
(* Sending, and the end of the process.                                    *)

\* The server's datagram is of the kind the addressed client receives: a
\* record that was never filled in addresses nobody.
LEMMA ServerDatagram ==
    ASSUME NetTypeOK, NEW p \in Ports, NEW to \in Clients \cup {NoAddr},
           NEW pkt \in ServerPackets
    PROVE  to \in bound => Datagram(p, pkt) \in DatagramsTo(to)
<1>1. NoAddr \notin bound
  BY EndpointKinds DEF NetTypeOK
<1> QED
  BY <1>1 DEF Datagram, DatagramsTo

\* Buffers after the server sent pkt from the socket p.
LEMMA ServerSends ==
    ASSUME NetTypeOK, NEW n, Buffers(n), NEW p \in Ports,
           NEW to \in Clients \cup {NoAddr}, NEW pkt \in ServerPackets
    PROVE  Buffers(Sent(n, p, to, pkt))
BY ServerDatagram, SentBuffers DEF NetTypeOK

\* A process that ended holds no socket and is in no other place.
LEMMA ExitType ==
    ASSUME NetTypeOK, NEW place \in {"closed", "crashed"}, Exit(place), UNCHANGED faults
    PROVE  NetTypeOK' /\ pc' = place
<1>1. Buffers(net')
  BY ClosedBuffers DEF NetTypeOK, Buffers, Exit
<1> QED
  BY <1>1 DEF NetTypeOK, Buffers, Exit, Goto

\* The datagram sv_recvfrom takes is a client's.
LEMMA ArrivedType ==
    ASSUME NetTypeOK, ServerTypeOK, ServerInv, pc = "recv", net[rx] # <<>>
    PROVE  /\ rx \in Ports /\ rx \in Seated
           /\ Arrived \in ClientPackets /\ Head(net[rx]).src \in Clients
           /\ Buffers(Taken(rx)) /\ Buffers(net)
<1>1. rx \in Seated /\ rx \in Ports /\ rx \in Endpoints /\ rx \notin Clients
  BY ListEntries, EndpointKinds DEF ServerInv, PointersOK, Endpoints
<1>2. Buffers(net)
  BY DEF NetTypeOK, Buffers
<1>3. Head(net[rx]) \in DatagramsTo(rx) /\ Buffers(Taken(rx))
  BY <1>1, <1>2, TakenBuffers
<1> QED
  BY <1>1, <1>2, <1>3 DEF DatagramsTo, Arrived

-----------------------------------------------------------------------------
(* Steps that neither send nor change the list.                            *)

\* Select starts the loop's body at the first entry.
LEMMA SelectSafe == ASSUME Safe, Select PROVE Safe'
<1> USE DEF Safe
<1>1. readfds' \subseteq {Main} \cup Ports
  BY ListEntries DEF Select, Readable
<1>2. curr' \in {0} \cup Seated /\ Seated' = Seated /\ Seated \subseteq Ports
  BY ListEntries DEF Select, Seated
<1>3. pc' \in {"accept", "receipt"} /\ pc = "select"
  BY DEF Select, Goto
<1>4. NetTypeOK'
  BY DEF Select, netVars, NetTypeOK
<1>5. ServerTypeOK'
  BY <1>1, <1>2, <1>3 DEF Select, ServerTypeOK, Places, Returns
<1>6. AcceptOK'
  BY <1>3 DEF Select, AcceptOK, Readable, netVars, Goto
<1>7. ListOK' /\ SocketsOK' /\ PointersOK' /\ BroadcastOK'
  BY <1>2, <1>3 DEF Select, ServerInv, ListOK, SocketsOK, PointersOK, BroadcastOK,
                    Stopped, ServerSockets, Seated, netVars
<1> QED
  BY <1>4, <1>5, <1>6, <1>7 DEF ServerInv

\* A datagram that is not a SYN, or that finds the lobby full, is dropped.
LEMMA SvDenySafe == ASSUME Safe, SvDeny PROVE Safe'
<1> USE DEF Safe
<1>1. Main \in Endpoints /\ net[Main] # <<>> /\ Buffers(net)
  BY DEF SvDeny, ServerInv, AcceptOK, Endpoints, NetTypeOK, Buffers
<1>2. Buffers(net')
  BY <1>1, TakenBuffers DEF SvDeny
<1>3. NetTypeOK'
  BY <1>2 DEF SvDeny, NetTypeOK, Buffers
<1>4. ServerTypeOK'
  BY DEF SvDeny, Goto, ServerTypeOK, Places, Returns
<1>5. ServerInv'
  BY DEF SvDeny, Goto, ServerInv, ListOK, SocketsOK, PointersOK, BroadcastOK, AcceptOK,
         Stopped, ServerSockets, Seated
<1> QED
  BY <1>3, <1>4, <1>5

\* The broadcast starts at the first entry, with a game as its payload.
LEMMA AfterReceiptSafe == ASSUME Safe, AfterReceipt PROVE Safe'
<1> USE DEF Safe
<1>1. First \in {0} \cup Seated /\ Seated' = Seated /\ Seated \subseteq Ports
  BY ListEntries DEF AfterReceipt, Seated
<1>2. NetTypeOK'
  BY DEF AfterReceipt, netVars, NetTypeOK
<1>3. ServerTypeOK'
  BY <1>1 DEF AfterReceipt, Goto, ServerTypeOK, Places, Returns
<1>4. ServerInv'
  BY <1>1 DEF AfterReceipt, Goto, ServerTypeOK, ServerInv, ListOK, SocketsOK, PointersOK,
              BroadcastOK, AcceptOK, Stopped, ServerSockets, Seated, netVars
<1> QED
  BY <1>2, <1>3, <1>4

\* The loop ends, or the process does.
LEMMA EndLoopSafe == ASSUME Safe, EndLoop PROVE Safe'
<1> USE DEF Safe
<1>1. game' \in Games
  BY ResetGameType DEF EndLoop, ServerTypeOK
<1>2. pc' \in {"closed", "select"} /\ NetTypeOK'
  <2>1. CASE signalled # "no"
    BY <2>1, ExitType DEF EndLoop
  <2>2. CASE signalled = "no"
    BY <2>2 DEF EndLoop, Goto, NetTypeOK
  <2> QED
    BY <2>1, <2>2
<1>3. ServerTypeOK'
  BY <1>1, <1>2 DEF EndLoop, ServerTypeOK, Places, Returns
<1>4. pc' = "select" => bound' = bound
  BY DEF EndLoop, Exit, Goto
<1>5. pc = "loop"
  BY DEF EndLoop
<1>6. ServerInv'
  BY <1>2, <1>4, <1>5 DEF EndLoop, ServerInv, ListOK, SocketsOK, PointersOK, BroadcastOK,
              AcceptOK, Stopped, ServerSockets, Seated
<1> QED
  BY <1>2, <1>3, <1>6

\* A dangling pointer ends the process.
LEMMA UseAfterFreeSafe == ASSUME Safe, UseAfterFree PROVE Safe'
<1> USE DEF Safe
<1>1. NetTypeOK' /\ pc' = "crashed"
  BY ExitType DEF UseAfterFree
<1>2. ServerTypeOK'
  BY <1>1 DEF UseAfterFree, ServerTypeOK, Places, Returns
<1>3. ServerInv'
  BY <1>1 DEF UseAfterFree, ServerInv, ListOK, SocketsOK, PointersOK, BroadcastOK,
              AcceptOK, Stopped, Seated
<1> QED
  BY <1>1, <1>2, <1>3

\* A signal ends the wait or the process.
LEMMA SignalInCallSafe == ASSUME Safe, SignalInCall PROVE Safe'
<1> USE DEF Safe
<1>1. CASE pc = "recv"
  <2>1. pc' = ret /\ ret \in Returns /\ UNCHANGED <<bound, net, faults>>
    BY <1>1 DEF SignalInCall, Goto, ServerTypeOK
  <2>2. NetTypeOK'
    BY <2>1 DEF NetTypeOK
  <2>3. ServerTypeOK'
    BY <2>1 DEF SignalInCall, ServerTypeOK, Places, Returns
  <2>4. ServerInv'
    BY <1>1, <2>1 DEF SignalInCall, ServerInv, ListOK, SocketsOK, PointersOK, BroadcastOK,
                AcceptOK, Stopped, ServerSockets, Seated, Returns
  <2> QED
    BY <2>2, <2>3, <2>4
<1>2. CASE pc # "recv"
  <2>1. NetTypeOK' /\ pc' = "closed"
    BY <1>2, ExitType DEF SignalInCall
  <2>2. ServerTypeOK'
    BY <2>1 DEF SignalInCall, ServerTypeOK, Places, Returns
  <2>3. ServerInv'
    BY <2>1 DEF SignalInCall, ServerInv, ListOK, SocketsOK, PointersOK, BroadcastOK,
                AcceptOK, Stopped, Seated
  <2> QED
    BY <2>1, <2>2, <2>3
<1> QED
  BY <1>1, <1>2

\* A signal between two calls only leaves its mark.
LEMMA SignalBetweenSafe == ASSUME Safe, SignalBetweenCalls PROVE Safe'
<1>1. NetTypeOK' /\ ServerTypeOK'
  BY DEF Safe, SignalBetweenCalls, netVars, NetTypeOK, ServerTypeOK
<1>2. ServerInv'
  BY DEF Safe, SignalBetweenCalls, netVars, ServerInv, ListOK, SocketsOK, PointersOK,
         BroadcastOK, AcceptOK, Stopped, ServerSockets, Seated
<1> QED
  BY <1>1, <1>2 DEF Safe

\* A signal, whenever it comes.
LEMMA SvSignalSafe == ASSUME Safe, SvSignal PROVE Safe'
BY SignalInCallSafe, SignalBetweenSafe DEF SvSignal

\* The steps between two calls of handle_receipt's loop.
LEMMA ReceiptLoopSafe ==
    ASSUME Safe, ReceiptRecv \/ ReceiptSkip \/ NoUnicast \/ Unicasted \/ NextClient
    PROVE  Safe'
<1> USE DEF Safe
<1>1. Seated \subseteq Ports /\ 0 \notin Ports
  BY ListEntries
<1>2. CASE ReceiptRecv
  <2>1. curr \in Seated /\ Seated' = Seated
    BY <1>2 DEF ReceiptRecv, ServerInv, PointersOK, Seated
  <2>2. NetTypeOK' /\ ServerTypeOK'
    BY <1>1, <1>2, <2>1
       DEF ReceiptRecv, RecvFrom, Goto, netVars, NetTypeOK, ServerTypeOK, Places, Returns
  <2>3. ServerInv'
    BY <1>2, <2>1 DEF ReceiptRecv, RecvFrom, Goto, netVars, ServerInv, ListOK, SocketsOK,
                PointersOK, BroadcastOK, AcceptOK, Stopped, ServerSockets, Seated
  <2> QED
    BY <2>2, <2>3
<1>3. CASE ReceiptSkip
  <2>1. NetTypeOK' /\ ServerTypeOK'
    BY <1>3 DEF ReceiptSkip, Goto, netVars, NetTypeOK, ServerTypeOK, Places, Returns
  <2>2. ServerInv'
    BY <1>3 DEF ReceiptSkip, Goto, netVars, ServerInv, ListOK, SocketsOK,
                PointersOK, BroadcastOK, AcceptOK, Stopped, ServerSockets, Seated
  <2> QED
    BY <2>1, <2>2
<1>4. CASE NoUnicast
  <2>1. curr \in Seated
    BY <1>4 DEF NoUnicast, IsFree, Seated
  <2>2. NetTypeOK' /\ ServerTypeOK'
    BY <1>4 DEF NoUnicast, Goto, netVars, NetTypeOK, ServerTypeOK, Places, Returns
  <2>3. ServerInv'
    BY <1>4, <2>1 DEF NoUnicast, Goto, netVars, ServerInv, ListOK, SocketsOK,
                PointersOK, BroadcastOK, AcceptOK, Stopped, ServerSockets, Seated
  <2> QED
    BY <2>2, <2>3
<1>5. CASE Unicasted
  <2>1. curr \in Seated
    BY <1>5 DEF Unicasted, IsFree, Seated
  <2>2. s_packet' \in [Ports -> StoredPackets]
    BY <1>1, <1>5, <2>1, FreedIsStored DEF Unicasted, ServerTypeOK
  <2>3. NetTypeOK' /\ ServerTypeOK'
    BY <1>5, <2>2 DEF Unicasted, Goto, netVars, NetTypeOK, ServerTypeOK, Places, Returns
  <2>4. ServerInv'
    BY <1>5, <2>1 DEF Unicasted, Goto, netVars, ServerInv, ListOK, SocketsOK,
                PointersOK, BroadcastOK, AcceptOK, Stopped, ServerSockets, Seated
  <2> QED
    BY <2>3, <2>4
<1>6. CASE NextClient
  <2>1. curr' \in {0} \cup Seated /\ Seated' = Seated
    BY <1>6, NextEntry DEF NextClient, ServerInv, PointersOK, Seated
  <2>2. NetTypeOK' /\ ServerTypeOK'
    BY <1>1, <1>6, <2>1
       DEF NextClient, Goto, netVars, NetTypeOK, ServerTypeOK, Places, Returns
  <2>3. ServerInv'
    BY <1>6, <2>1 DEF NextClient, Goto, netVars, ServerInv, ListOK, SocketsOK,
                PointersOK, BroadcastOK, AcceptOK, Stopped, ServerSockets, Seated
  <2> QED
    BY <2>2, <2>3
<1> QED
  BY <1>2, <1>3, <1>4, <1>5, <1>6

\* The steps between two calls of handle_broadcast's loop.
LEMMA BroadcastLoopSafe == ASSUME Safe, BroadcastNext \/ BroadcastEnd PROVE Safe'
<1> USE DEF Safe
<1>1. Seated \subseteq Ports /\ 0 \notin Ports
  BY ListEntries
<1>2. CASE BroadcastNext
  <2>1. curr \in Seated
    BY <1>2 DEF BroadcastNext, IsFree, Seated
  <2>2. curr' \in {0} \cup Seated /\ Seated' = Seated
    BY <1>2, <2>1, NextEntry DEF BroadcastNext, ServerInv, Seated
  <2>3. NetTypeOK' /\ ServerTypeOK'
    BY <1>1, <1>2, <2>2
       DEF BroadcastNext, Goto, netVars, NetTypeOK, ServerTypeOK, Places, Returns
  <2>4. ServerInv'
    BY <1>2, <2>2 DEF BroadcastNext, Goto, netVars, ServerInv, ListOK, SocketsOK,
                PointersOK, BroadcastOK, AcceptOK, Stopped, ServerSockets, Seated
  <2> QED
    BY <2>3, <2>4
<1>3. CASE BroadcastEnd
  <2>1. s_packet' \in [Ports -> StoredPackets]
    BY <1>3, FreedIsStored DEF BroadcastEnd, ServerTypeOK
  <2>2. NetTypeOK' /\ ServerTypeOK'
    BY <1>3, <2>1
       DEF BroadcastEnd, Goto, netVars, NetTypeOK, ServerTypeOK, Places, Returns
  <2>3. ServerInv'
    BY <1>3 DEF BroadcastEnd, Goto, netVars, ServerInv, ListOK, SocketsOK,
                PointersOK, BroadcastOK, AcceptOK, Stopped, ServerSockets, Seated
  <2> QED
    BY <2>2, <2>3
<1> QED
  BY <1>2, <1>3

-----------------------------------------------------------------------------
(* Steps that send.                                                        *)

\* A new client takes the next unused port and the last place of the list.
LEMMA SvAcceptSafe == ASSUME Safe, SvAccept PROVE Safe'
<1> USE DEF Safe
<1> DEFINE from == Head(net[Main]).src
           synack == Bare("SYN/ACK", MAX_SEQ)
<1>1. PICK p \in Ports :
        /\ IsNextPort(p)
        /\ conns' = Append(conns, p)
        /\ addr' = [addr EXCEPT ![p] = from]
        /\ bound' = bound \cup {p}
        /\ s_packet' = [s_packet EXCEPT ![p] = synack]
        /\ net' = Sent(Taken(Main), p, from, synack)
        /\ RecvFrom(p, "received")
  BY DEF SvAccept
<1>2. Main \in Endpoints /\ net[Main] # <<>> /\ Buffers(net) /\ Main \notin Clients
  BY EndpointKinds DEF SvAccept, ServerInv, AcceptOK, Endpoints, NetTypeOK, Buffers
<1>3. from \in Clients /\ Buffers(Taken(Main))
  BY <1>2, TakenBuffers DEF DatagramsTo
<1>4. synack \in ServerPackets /\ synack \in StoredPackets
  BY BareServerPacket, PacketAssumption DEF SeqNums
<1> HIDE DEF from, synack
<1>5. Buffers(net')
  BY <1>1, <1>3, <1>4, ServerSends
<1>6. NetTypeOK'
  BY <1>1, <1>5 DEF SvAccept, NetTypeOK, Buffers, Endpoints
<1>7. conns \in Seq(Ports) /\ IsInjective(conns) /\ p \notin ToSet(conns)
  BY <1>1 DEF ServerTypeOK, ServerInv, ListOK, Seated, IsNextPort
<1>8. /\ conns' \in Seq(Ports) /\ Len(conns') = Len(conns) + 1
      /\ Seated' = Seated \cup {p} /\ IsInjective(conns')
  BY <1>1, <1>7, AppendNew DEF Seated
<1>9. ServerTypeOK'
  BY <1>1, <1>3, <1>4, <1>8
     DEF SvAccept, RecvFrom, Goto, ServerTypeOK, Places, Returns
<1>10. ListOK'
  <2>1. Len(conns) < MAX_CLIENTS /\ Len(conns) \in Nat /\ MAX_CLIENTS \in Nat
    BY <1>7, LenProperties, ServerAssumption DEF SvAccept, HasRoom
  <2>2. Len(conns') <= MAX_CLIENTS
    BY <1>8, <2>1
  <2>3. \A q \in Seated' : addr'[q] # NoAddr
    <3>1. from # NoAddr
      BY <1>3, EndpointKinds DEF Endpoints
    <3> QED
      BY <1>1, <1>8, <3>1 DEF ServerTypeOK, ServerInv, ListOK
  <2> QED
    BY <1>8, <2>2, <2>3 DEF ListOK
<1>11. SocketsOK'
  <2>1. bound \cap ({Main} \cup Ports) = ServerSockets
    BY DEF SvAccept, ServerInv, SocketsOK, Stopped
  <2> QED
    BY <1>1, <1>8, <2>1 DEF SocketsOK, ServerSockets, Seated
<1>12. PointersOK' /\ BroadcastOK' /\ AcceptOK'
  BY <1>1, <1>8 DEF RecvFrom, Goto, PointersOK, BroadcastOK, AcceptOK
<1> QED
  BY <1>6, <1>9, <1>10, <1>11, <1>12 DEF ServerInv

\* A step that transmits pkt to the client of curr and waits for its answer.
LEMMA TransmitSafe ==
    ASSUME Safe, curr \in Seated, NEW pkt \in ServerPackets, pkt \in StoredPackets,
           NEW place \in Returns, Transmit(curr, pkt), RecvFrom(curr, place),
           place \notin {"receipt"}, place = "bcasted" => payload \in Games,
           UNCHANGED <<bound, faults, curr, readfds, conns, addr, r_packet, game,
                       payload, do_broadcast, do_unicast, signalled, applied>>,
           ~Stopped
    PROVE  Safe'
<1> USE DEF Safe
<1>1. curr \in Ports
  BY ListEntries
<1>2. addr[curr] \in Clients \cup {NoAddr} /\ Buffers(net)
  BY <1>1 DEF ServerTypeOK, NetTypeOK, Buffers
<1>3. Buffers(net')
  BY <1>1, <1>2, ServerSends DEF Transmit
<1>4. NetTypeOK'
  BY <1>3 DEF NetTypeOK, Buffers
<1>5. ServerTypeOK'
  BY <1>1 DEF Transmit, RecvFrom, Goto, ServerTypeOK, Places
<1>6. ServerInv'
  BY DEF RecvFrom, Goto, ServerInv, ListOK, SocketsOK, PointersOK, BroadcastOK,
         AcceptOK, Stopped, ServerSockets, Seated
<1> QED
  BY <1>4, <1>5, <1>6

\* The unicast repeats the flags of the last packet, with the game of now.
LEMMA HandleUnicastSafe == ASSUME Safe, HandleUnicast PROVE Safe'
<1> USE DEF Safe
<1>1. curr \in Seated /\ curr \in Ports
  BY ListEntries DEF HandleUnicast, IsFree, Seated
<1> DEFINE pkt == Packet(s_packet[curr].flags, NextSeq(r_packet[curr].seq), game)
<1>2. s_packet[curr].flags \in ServerFlags /\ r_packet[curr].seq \in SeqNums
  BY <1>1 DEF ServerTypeOK, StoredPackets, Receipts
<1>3. pkt \in ServerPackets /\ pkt \in StoredPackets
  BY <1>2, NextSeqType, GamePacket DEF ServerTypeOK
<1> HIDE DEF pkt
<1>4. Transmit(curr, pkt) /\ RecvFrom(curr, "unicasted") /\ ~Stopped
  BY DEF HandleUnicast, pkt, Stopped
<1> QED
  BY <1>1, <1>3, <1>4, TransmitSafe DEF HandleUnicast, Returns

\* A round of the broadcast.
LEMMA BroadcastStepSafe == ASSUME Safe, BroadcastStep PROVE Safe'
<1> USE DEF Safe
<1>1. curr \in Seated /\ curr \in Ports /\ payload \in Games
  BY ListEntries DEF BroadcastStep, ServerInv, PointersOK, BroadcastOK
<1> DEFINE pkt == Packet(BroadcastFlags(curr), NextSeq(r_packet[curr].seq), payload)
<1>2. BroadcastFlags(curr) \in ServerFlags /\ r_packet[curr].seq \in SeqNums
  BY <1>1 DEF BroadcastFlags, ServerFlags, Flags, ServerTypeOK, Receipts
<1>3. pkt \in ServerPackets /\ pkt \in StoredPackets
  BY <1>1, <1>2, NextSeqType, GamePacket
<1> HIDE DEF pkt
<1>4. Transmit(curr, pkt) /\ RecvFrom(curr, "bcasted") /\ ~Stopped
  BY DEF BroadcastStep, pkt, Stopped
<1> QED
  BY <1>1, <1>3, <1>4, TransmitSafe DEF BroadcastStep, Returns

\* The farewell goes to the entry of curr, which moves on to another one.
LEMMA SvDisconnectSafe == ASSUME Safe, SvDisconnect PROVE Safe'
<1> USE DEF Safe
<1> DEFINE finack == Bare("FIN/ACK", MAX_SEQ)
           fin == Bare("FIN", MAX_SEQ)
           first == Sent(net, curr, addr[curr], finack)
<1>1. curr \in Seated /\ curr \in Ports /\ pc = "finchk"
  BY ListEntries DEF SvDisconnect, ServerInv, PointersOK
<1>2. curr' \in {0} \cup (Seated \ {curr}) /\ Seated' = Seated /\ Seated \subseteq Ports
  BY <1>1, NextEntry, ListEntries DEF SvDisconnect, ServerInv, Seated
<1>3. finack \in ServerPackets /\ finack \in StoredPackets
      /\ fin \in ServerPackets /\ fin \in StoredPackets
  BY BareServerPacket, PacketAssumption DEF SeqNums
<1>4. addr[curr] \in Clients \cup {NoAddr} /\ Buffers(net)
  BY <1>1 DEF ServerTypeOK, NetTypeOK, Buffers
<1>5. Buffers(first)
  BY <1>1, <1>3, <1>4, ServerSends
<1>6. Buffers(Sent(first, curr, addr[curr], fin))
  BY <1>1, <1>3, <1>4, <1>5, ServerSends
<1>7. Buffers(net')
  BY <1>5, <1>6 DEF SvDisconnect
<1>8. NetTypeOK'
  BY <1>7 DEF SvDisconnect, NetTypeOK, Buffers
<1>9. /\ s_packet' \in [Ports -> StoredPackets]
      /\ \/ pc' = "receipt" /\ UNCHANGED <<rx, ret>>
         \/ pc' = "recv" /\ rx' = curr /\ ret' = "receipt"
  BY <1>3 DEF SvDisconnect, RecvFrom, Goto, ServerTypeOK
<1>10. ServerTypeOK'
  BY <1>1, <1>2, <1>9 DEF SvDisconnect, ServerTypeOK, Places, Returns
<1>11. ServerInv'
  BY <1>1, <1>2, <1>9 DEF SvDisconnect, ServerInv, ListOK, SocketsOK, PointersOK,
         BroadcastOK, AcceptOK, Stopped, ServerSockets, Seated
<1> QED
  BY <1>8, <1>10, <1>11

-----------------------------------------------------------------------------
(* sv_recvfrom.                                                            *)

\* A receipt that leaves the list alone and continues at ret.
LEMMA ReceivesSafe ==
    ASSUME Safe, Receives, Buffers(net'), Goto(ret) \/ UNCHANGED pc, UNCHANGED <<bound, conns>>,
           s_packet' \in [Ports -> StoredPackets], r_packet' \in [Ports -> Receipts],
           game' \in Games, do_broadcast' \in BOOLEAN, do_unicast' \in BOOLEAN,
           applied' \in [Ports -> 0 .. MaxTurns]
    PROVE  Safe'
<1> USE DEF Safe
<1>1. pc = "recv" /\ rx \in Ports /\ rx \in Seated /\ Head(net[rx]).src \in Clients
  BY ArrivedType DEF Receives
<1>2. addr' \in [Ports -> Clients \cup {NoAddr}] /\ NoAddr \notin Clients
  BY <1>1, EndpointKinds DEF Receives, ServerTypeOK, Endpoints
<1>3. NetTypeOK'
  BY DEF Receives, NetTypeOK, Buffers
<1>4. ret \in Returns /\ ret' = ret /\ pc' \in {"recv", ret}
  BY <1>1 DEF Receives, Goto, ServerTypeOK
<1>5. ServerTypeOK'
  BY <1>2, <1>4 DEF Receives, ServerTypeOK, Places
<1>6. ListOK'
  BY <1>1, <1>2 DEF Receives, ServerInv, ListOK, Seated, ServerTypeOK
<1>7. SocketsOK' /\ PointersOK' /\ BroadcastOK' /\ AcceptOK'
  BY <1>1, <1>4 DEF Receives, ServerInv, SocketsOK, PointersOK, BroadcastOK, AcceptOK,
         Stopped, ServerSockets, Seated, Returns
<1> QED
  BY <1>3, <1>5, <1>6, <1>7 DEF ServerInv

\* What every receipt may rely on.
LEMMA ReceiptFacts ==
    ASSUME Safe, pc = "recv", net[rx] # <<>>
    PROVE  /\ rx \in Ports /\ rx \in Seated
           /\ Arrived \in ClientPackets /\ Head(net[rx]).src \in Clients \cup {NoAddr}
           /\ Buffers(Taken(rx)) /\ Buffers(net)
           /\ [flags |-> Arrived.flags, seq |-> Arrived.seq] \in Receipts
           /\ Arrived.seq \in SeqNums
<1>1. /\ rx \in Ports /\ rx \in Seated
      /\ Arrived \in ClientPackets /\ Head(net[rx]).src \in Clients
      /\ Buffers(Taken(rx)) /\ Buffers(net)
  BY ArrivedType DEF Safe
<1> QED
  BY <1>1 DEF ClientPackets, Receipts, Flags

\* A repeated packet.
LEMMA RecvDuplicateSafe == ASSUME Safe, RecvDuplicate PROVE Safe'
<1>1. pc = "recv" /\ net[rx] # <<>>
  BY DEF RecvDuplicate, Receives
<1>2. Buffers(net')
  BY <1>1, ReceiptFacts DEF RecvDuplicate
<1> QED
  BY <1>2, ReceivesSafe DEF RecvDuplicate, Safe, ServerTypeOK

\* An acknowledgement of something else.
LEMMA RecvBadAckSafe == ASSUME Safe, RecvBadAck PROVE Safe'
<1>1. pc = "recv" /\ net[rx] # <<>>
  BY DEF RecvBadAck, Receives
<1>2. rx \in Ports /\ Head(net[rx]).src \in Clients \cup {NoAddr} /\ Buffers(Taken(rx))
  BY <1>1, ReceiptFacts
<1>3. s_packet[rx] \in StoredPackets
  BY <1>2 DEF Safe, ServerTypeOK
<1>4. CASE s_packet[rx].payload = Freed
  <2>1. Exit("crashed") /\ UNCHANGED faults
    BY <1>4 DEF RecvBadAck, Receives
  <2>2. NetTypeOK' /\ pc' = "crashed"
    BY <2>1, ExitType DEF Safe
  <2>3. addr' \in [Ports -> Clients \cup {NoAddr}]
    BY <1>2 DEF RecvBadAck, Receives, Safe, ServerTypeOK
  <2>4. ServerTypeOK'
    BY <2>2, <2>3 DEF RecvBadAck, Receives, Safe, ServerTypeOK, Places, Returns
  <2>5. \A p \in Seated' : addr'[p] # NoAddr
    <3>1. Head(net[rx]).src # NoAddr
      BY <1>1, ArrivedType, EndpointKinds DEF Safe, Endpoints
    <3> QED
      BY <1>2, <3>1 DEF RecvBadAck, Receives, Safe, ServerTypeOK, ServerInv, ListOK, Seated
  <2>6. ServerInv'
    BY <2>2, <2>5 DEF RecvBadAck, Safe, ServerInv, ListOK, SocketsOK, PointersOK,
                      BroadcastOK, AcceptOK, Stopped
  <2> QED
    BY <2>2, <2>4, <2>6 DEF Safe
<1>5. CASE s_packet[rx].payload # Freed
  <2>1. s_packet[rx] \in ServerPackets
    BY <1>3, <1>5, StoredIsSendable
  <2>2. Buffers(net')
    BY <1>2, <1>5, <2>1, ServerSends DEF RecvBadAck, Safe
  <2> QED
    BY <1>5, <2>2, ReceivesSafe DEF RecvBadAck, Safe, ServerTypeOK
<1> QED
  BY <1>4, <1>5

\* The farewell's answer takes the client's entry and socket away.
LEMMA RecvFinAckSafe == ASSUME Safe, RecvFinAck PROVE Safe'
<1> USE DEF Safe
<1>1. rx \in Ports /\ rx \in Seated /\ Buffers(net)
  BY ReceiptFacts DEF RecvFinAck
<1>2. /\ conns \in Seq(Ports) /\ IsInjective(conns) /\ Len(conns) \in Nat
      /\ Position(rx) \in 1 .. Len(conns) /\ conns[Position(rx)] = rx
  BY <1>1, PositionOf, LenProperties DEF ServerTypeOK, ServerInv, ListOK
<1>3. /\ conns' \in Seq(Ports) /\ Len(conns') = Len(conns) - 1
      /\ Seated' = Seated \ {rx} /\ IsInjective(conns')
  BY <1>2, RemoveOne DEF RecvFinAck, Seated
<1>4. Buffers(net')
  BY <1>1, ClosedBuffers DEF RecvFinAck
<1>5. NetTypeOK'
  BY <1>4 DEF RecvFinAck, NetTypeOK, Buffers
<1>6. ZeroPacket \in StoredPackets /\ NoReceipt \in Receipts
  BY BareServerPacket, PacketAssumption DEF ZeroPacket, NoReceipt, Receipts, Flags, SeqNums
<1>7. ret \in Returns /\ pc' = ret /\ pc = "recv"
  BY DEF RecvFinAck, Goto, ServerTypeOK
<1>8. ServerTypeOK'
  BY <1>3, <1>6, <1>7 DEF RecvFinAck, ServerTypeOK, Places
<1>9. ListOK'
  <2>1. Len(conns') <= MAX_CLIENTS
    BY <1>2, <1>3, ServerAssumption DEF ServerInv, ListOK
  <2> QED
    BY <1>3, <2>1 DEF RecvFinAck, ServerInv, ListOK
<1>10. SocketsOK'
  <2>1. bound \cap ({Main} \cup Ports) = {Main} \cup Seated
    BY <1>7 DEF ServerInv, SocketsOK, Stopped, ServerSockets, Seated
  <2>2. bound' \cap ({Main} \cup Ports) = {Main} \cup Seated'
    BY <1>1, <1>3, <2>1, EndpointKinds DEF RecvFinAck
  <2> QED
    BY <2>2 DEF SocketsOK, ServerSockets, Seated
<1>11. PointersOK' /\ BroadcastOK' /\ AcceptOK'
  BY <1>1, <1>3, <1>7 DEF RecvFinAck, ServerInv, PointersOK, BroadcastOK, AcceptOK, Returns
<1> QED
  BY <1>5, <1>8, <1>9, <1>10, <1>11 DEF ServerInv

\* However a turn reads, it is an input.
LEMMA ReadingsType ==
    ASSUME NEW pkt \in ClientPackets, HasPSH(pkt.flags)
    PROVE  Readings(pkt.payload) \subseteq Inputs
<1>1. pkt.payload \in Inputs \cup {Freed}
  BY DEF ClientPackets
<1>2. CASE pkt.payload = Freed
  BY <1>2, PacketAssumption DEF Readings, Inputs
<1>3. CASE pkt.payload # Freed
  BY <1>1, <1>3 DEF Readings
<1> QED
  BY <1>2, <1>3

\* An input moves the cursor and perhaps marks a cell.
LEMMA RecvMoveSafe == ASSUME Safe, RecvMove PROVE Safe'
<1> DEFINE ack == Bare("ACK", Arrived.seq)
<1>1. pc = "recv" /\ net[rx] # <<>>
  BY DEF RecvMove, Receives
<1>2. /\ rx \in Ports /\ Arrived \in ClientPackets
      /\ Head(net[rx]).src \in Clients \cup {NoAddr} /\ Buffers(Taken(rx))
      /\ [flags |-> Arrived.flags, seq |-> Arrived.seq] \in Receipts
      /\ Arrived.seq \in SeqNums
  BY <1>1, ReceiptFacts
<1>3. PICK input \in Inputs :
        LET moved == [game EXCEPT !.cursor = input.cursor]
        IN  /\ game' = IF input.btn THEN UpdateBoard(moved) ELSE moved
            /\ applied' = [applied EXCEPT ![rx] = input.id]
  BY <1>2, ReadingsType DEF RecvMove, IsMove
<1> DEFINE moved == [game EXCEPT !.cursor = input.cursor]
<1>4. moved \in Games
  BY <1>3 DEF Safe, ServerTypeOK, Games, Inputs
<1>5. game' \in Games
  BY <1>3, <1>4, UpdateBoardType
<1>6. ack \in ServerPackets /\ ack \in StoredPackets
  BY <1>2, BareServerPacket
<1>7. input.id \in 0 .. MaxTurns
  BY <1>3 DEF Inputs
<1>8. net' = Sent(Taken(rx), rx, Head(net[rx]).src, ack)
      /\ s_packet' = [s_packet EXCEPT ![rx] = ack]
      /\ applied' = [applied EXCEPT ![rx] = input.id]
  BY <1>3 DEF RecvMove
<1> HIDE DEF ack
<1>9. Buffers(net')
  BY <1>2, <1>6, <1>8, ServerSends DEF Safe
<1>10. /\ s_packet' \in [Ports -> StoredPackets] /\ r_packet' \in [Ports -> Receipts]
       /\ applied' \in [Ports -> 0 .. MaxTurns]
  BY <1>2, <1>6, <1>7, <1>8 DEF RecvMove, Safe, ServerTypeOK
<1> QED
  BY <1>5, <1>9, <1>10, ReceivesSafe DEF RecvMove, Safe, ServerTypeOK

\* Any other packet is stored.
LEMMA RecvOtherSafe == ASSUME Safe, RecvOther PROVE Safe'
<1>1. pc = "recv" /\ net[rx] # <<>>
  BY DEF RecvOther, Receives
<1>2. /\ rx \in Ports /\ Buffers(Taken(rx))
      /\ [flags |-> Arrived.flags, seq |-> Arrived.seq] \in Receipts
  BY <1>1, ReceiptFacts
<1>3. r_packet' \in [Ports -> Receipts] /\ Buffers(net') /\ do_broadcast' \in BOOLEAN
  BY <1>2 DEF RecvOther, Safe, ServerTypeOK
<1> QED
  BY <1>3, ReceivesSafe DEF RecvOther, Safe, ServerTypeOK

-----------------------------------------------------------------------------

\* Every step of the server keeps the types and ServerInv.
LEMMA ServerStepSafe ==
    ASSUME Safe, ServerStep \/ SvSignal
    PROVE  Safe'
BY SelectSafe, SvAcceptSafe, SvDenySafe, AfterReceiptSafe, EndLoopSafe,
   RecvDuplicateSafe, RecvBadAckSafe, RecvFinAckSafe, RecvMoveSafe, RecvOtherSafe,
   ReceiptLoopSafe, UseAfterFreeSafe, HandleUnicastSafe, SvDisconnectSafe,
   BroadcastStepSafe, BroadcastLoopSafe, SvSignalSafe
DEF ServerStep, SvReceive, HandleReceipt, HandleBroadcast

=============================================================================
