-------------------------------- MODULE Server --------------------------------
(***************************************************************************)
(* The server process (server.c with the client list of server-util.c).    *)
(* One thread waits in select, handles what arrived, broadcasts the game   *)
(* when an input was applied or a game starts, and waits in recvfrom, with *)
(* no timeout, for the answer to everything it sends.  pc is the place in  *)
(* the code; the places between two blocking calls do not interact with    *)
(* anybody, but a step of a client or of the network may fall between      *)
(* them.                                                                   *)
(***************************************************************************)
EXTENDS Network

CONSTANT
    MAX_CLIENTS     \* players in the lobby (2 in the code)

ASSUME ServerAssumption == MAX_CLIENTS \in Nat \ {0}

VARIABLES
    pc,             \* where the server is in its code
    ret,            \* where sv_recvfrom returns to
    curr,           \* curr_cli, 0 for NULL
    rx,             \* the client sv_recvfrom was called for
    readfds,        \* the sockets select reported and nobody has read since
    conns,          \* the list of connected clients, by their socket
    addr,           \* addr[p]: where packets for p go
    s_packet,       \* s_packet[p]: the packet last created for p
    r_packet,       \* r_packet[p]: flags and number of the packet last accepted
    game,           \* the server's game
    payload,        \* handle_broadcast's snapshot of the game
    do_broadcast,
    do_unicast,
    signalled,      \* whether running is 0, and whether errno is EINTR
    applied         \* history: applied[p] is the id of the last input applied

serverVars == <<pc, ret, curr, rx, readfds, conns, addr, s_packet, r_packet,
                game, payload, do_broadcast, do_unicast, signalled, applied>>

Returns == {"received", "receipted", "unicasted", "receipt", "bcasted"}

Places == Returns \cup
    {"select", "accept", "recv", "finchk", "bcast", "loop", "closed", "crashed"}

Stopped == pc \in {"closed", "crashed"}

ServerSockets == {Main} \cup ToSet(conns)

\* The packet the code compares arrivals with: calloc leaves it zeroed.
NoReceipt == [flags |-> "NONE", seq |-> 0]

Receipts == [flags : Flags, seq : SeqNums]

ServerTypeOK ==
    /\ pc \in Places
    /\ ret \in Returns
    /\ curr \in {0} \cup Ports
    /\ rx \in {0} \cup Ports
    /\ readfds \subseteq {Main} \cup Ports
    /\ conns \in Seq(Ports)
    /\ addr \in [Ports -> Clients \cup {NoAddr}]
    /\ s_packet \in [Ports -> StoredPackets]
    /\ r_packet \in [Ports -> Receipts]
    /\ game \in Games
    /\ payload \in Games \cup {NoPayload}
    /\ do_broadcast \in BOOLEAN
    /\ do_unicast \in BOOLEAN
    /\ signalled \in {"no", "unseen", "EINTR"}
    /\ applied \in [Ports -> 0 .. MaxTurns]

ServerInit ==
    /\ pc = "select" /\ ret = "received"
    /\ curr = 0 /\ rx = 0
    /\ readfds = {}
    /\ conns = <<>>
    /\ addr = [p \in Ports |-> NoAddr]
    /\ s_packet = [p \in Ports |-> ZeroPacket]
    /\ r_packet = [p \in Ports |-> NoReceipt]
    /\ game = ResetGame
    /\ payload = NoPayload
    /\ do_broadcast = FALSE /\ do_unicast = FALSE
    /\ signalled = "no"
    /\ applied = [p \in Ports |-> 0]

\* errno is EINTR: everything guarded by !errno is skipped.
Interrupted == signalled = "EINTR"

-----------------------------------------------------------------------------
(* The client list and the sockets.                                        *)

First == IF conns = <<>> THEN 0 ELSE conns[1]

Position(p) == CHOOSE i \in DOMAIN conns : conns[i] = p

\* curr->next
NextInList(p) == IF Position(p) < Len(conns) THEN conns[Position(p) + 1] ELSE 0

IsFree(p) == p \notin ToSet(conns)

\* The turn's ASCII code modulo MAX_CLIENTS
\* picks the client at that position of the list.
TurnIndex(m) == (CASE m = "X" -> 88 [] m = "O" -> 79 [] OTHER -> 32) % MAX_CLIENTS

\* Mutant: the turn goes to everybody from its holder on.
TurnFromHere(p) ==
    IF Position(p) - 1 >= TurnIndex(game.turn) THEN "PSH/TRN" ELSE "PSH"

\* Mutant: the turn goes to everybody but its holder.
TurnToTheOther(p) ==
    IF Position(p) - 1 # TurnIndex(game.turn) THEN "PSH/TRN" ELSE "PSH"

\* handle_broadcast's flags for the client at p.
BroadcastFlags(p) ==
    IF Position(p) - 1 = TurnIndex(game.turn) THEN "PSH/TRN" ELSE "PSH"

\* Mutant: every packet goes to the first client of the list.
TransmitToFirst(p, pkt) ==
    /\ s_packet' = [s_packet EXCEPT ![p] = pkt]
    /\ net' = Sent(net, p, addr[First], pkt)

\* create_packet followed by sv_sendto.
Transmit(p, pkt) ==
    /\ s_packet' = [s_packet EXCEPT ![p] = pkt]
    /\ net' = Sent(net, p, addr[p], pkt)

Goto(place) == pc' = place

\* The process ends, and its sockets with it.
Exit(place) ==
    /\ Goto(place)
    /\ bound' = bound \ ServerSockets
    /\ net' = Closed(net, ServerSockets)

\* Call sv_recvfrom for p, then continue at place.
RecvFrom(p, place) == Goto("recv") /\ rx' = p /\ ret' = place

-----------------------------------------------------------------------------
(* sv_comm_core and sv_accept.                                             *)

Readable == {e \in ServerSockets : net[e] # <<>>}

Select ==
    /\ pc = "select"
    /\ Readable # {}
    /\ readfds' = Readable
    /\ do_broadcast' = FALSE
    /\ do_unicast' = FALSE
    /\ curr' = First
    /\ Goto(IF Main \in Readable THEN "accept" ELSE "receipt")
    /\ UNCHANGED <<netVars, ret, rx, conns, addr, s_packet, r_packet, game,
                   payload, signalled, applied>>

\* Mutant: off by one.
RoomForOneMore == Len(conns) <= MAX_CLIENTS

HasRoom == Len(conns) < MAX_CLIENTS

\* connect_client opens a socket that was never used, the lowest.
IsNextPort(p) == addr[p] = NoAddr /\ \A q \in Ports : q < p => addr[q] # NoAddr

SvAccept ==
    /\ pc = "accept"
    /\ HasRoom
    /\ Head(net[Main]).pkt.flags = "SYN"
    /\ \E p \in Ports :
        LET from   == Head(net[Main]).src
            synack == Bare("SYN/ACK", MAX_SEQ)
        IN  /\ IsNextPort(p)
            /\ conns' = Append(conns, p)
            /\ addr' = [addr EXCEPT ![p] = from]
            /\ bound' = bound \cup {p}
            /\ s_packet' = [s_packet EXCEPT ![p] = synack]
            /\ net' = Sent(Taken(Main), p, from, synack)
            /\ RecvFrom(p, "received")
    /\ readfds' = {}
    /\ UNCHANGED <<faults, curr, r_packet, game, payload,
                   do_broadcast, do_unicast, signalled, applied>>

\* A SYN for a full lobby is denied without an answer, anything else ignored.
SvDeny ==
    /\ pc = "accept"
    /\ ~HasRoom \/ Head(net[Main]).pkt.flags # "SYN"
    /\ net' = Taken(Main)
    /\ Goto("received")
    /\ readfds' = {}
    /\ UNCHANGED <<bound, faults, ret, curr, rx, conns, addr, s_packet,
                   r_packet, game, payload, do_broadcast, do_unicast,
                   signalled, applied>>

\* Back in sv_comm_core: broadcast only to a full lobby.
AfterReceipt ==
    /\ pc = "received"
    /\ IF ~Interrupted /\ Len(conns) = MAX_CLIENTS /\ do_broadcast
       THEN /\ payload' = game
            /\ curr' = First
            /\ Goto("bcast")
       ELSE /\ Goto("loop")
            /\ UNCHANGED <<payload, curr>>
    /\ UNCHANGED <<netVars, ret, rx, readfds, conns, addr, s_packet, r_packet,
                   game, do_broadcast, do_unicast, signalled, applied>>

\* Mutant: the game is not reset when a client has left.
NeverResets ==
    /\ pc = "loop"
    /\ IF signalled # "no"
       THEN Exit("closed")
       ELSE /\ Goto("select")
            /\ UNCHANGED <<bound, net>>
    /\ UNCHANGED <<faults, ret, curr, rx, readfds, conns, addr, s_packet,
                   r_packet, game, payload, do_broadcast, do_unicast,
                   signalled, applied>>

\* The end of the loop's body; close_server when a signal ended it.
EndLoop ==
    /\ pc = "loop"
    /\ game' = IF Len(conns) < MAX_CLIENTS THEN ResetGame ELSE game
    /\ IF signalled # "no"
       THEN Exit("closed")
       ELSE /\ Goto("select")
            /\ UNCHANGED <<bound, net>>
    /\ UNCHANGED <<faults, ret, curr, rx, readfds, conns, addr, s_packet,
                   r_packet, payload, do_broadcast, do_unicast, signalled,
                   applied>>

-----------------------------------------------------------------------------
(* sv_recvfrom and sv_process: one action per outcome of sv_process.       *)

Arrived == Head(net[rx]).pkt

Receives ==
    /\ pc = "recv"
    /\ net[rx] # <<>>
    /\ addr' = [addr EXCEPT ![rx] = Head(net[rx]).src]
    /\ readfds' = readfds \ {rx}
    /\ UNCHANGED <<faults, ret, curr, rx, payload, signalled>>

IsDuplicate ==
    Arrived.flags = r_packet[rx].flags /\ Arrived.seq = r_packet[rx].seq

IsBadAck ==
    ~IsDuplicate /\ Arrived.flags = "ACK" /\ Arrived.seq # s_packet[rx].seq

\* Mutant: an input counts whatever its number.
IsMoveAnyNumber == ~IsDuplicate /\ HasPSH(Arrived.flags)

IsMove ==
    /\ ~IsDuplicate
    /\ HasPSH(Arrived.flags)
    /\ Arrived.seq = NextSeq(s_packet[rx].seq)

RecvDuplicate ==
    /\ Receives
    /\ IsDuplicate
    /\ do_unicast' = TRUE
    /\ net' = Taken(rx)
    /\ Goto(ret)
    /\ UNCHANGED <<bound, conns, s_packet, r_packet, game, do_broadcast, applied>>

\* A wrong acknowledgement is answered with the last packet and does not end
\* the wait.  Serialising a freed payload is the undefined behaviour the
\* address sanitizer of the server's build stops at.
RecvBadAck ==
    /\ Receives
    /\ IsBadAck
    /\ IF s_packet[rx].payload = Freed
       THEN Exit("crashed")
       ELSE /\ net' = Sent(Taken(rx), rx, Head(net[rx]).src, s_packet[rx])
            /\ UNCHANGED <<pc, bound>>
    /\ UNCHANGED <<conns, s_packet, r_packet, game, do_broadcast, do_unicast,
                   applied>>

\* Mutant: remove_client forgets the socket.
ForgetsToClose ==
    /\ pc = "recv"
    /\ net[rx] # <<>>
    /\ ~IsDuplicate
    /\ Arrived.flags = "FIN/ACK"
    /\ conns' = RemoveAt(conns, Position(rx))
    /\ net' = Closed(net, {rx})
    /\ s_packet' = [s_packet EXCEPT ![rx] = ZeroPacket]
    /\ r_packet' = [r_packet EXCEPT ![rx] = NoReceipt]
    /\ readfds' = readfds \ {rx}
    /\ Goto(ret)
    /\ UNCHANGED <<bound, faults, ret, curr, rx, addr, game, payload,
                   do_broadcast, do_unicast, signalled, applied>>

\* remove_client: the socket is closed and the record freed.
RecvFinAck ==
    /\ pc = "recv"
    /\ net[rx] # <<>>
    /\ ~IsDuplicate
    /\ Arrived.flags = "FIN/ACK"
    /\ conns' = RemoveAt(conns, Position(rx))
    /\ bound' = bound \ {rx}
    /\ net' = Closed(net, {rx})
    /\ s_packet' = [s_packet EXCEPT ![rx] = ZeroPacket]
    /\ r_packet' = [r_packet EXCEPT ![rx] = NoReceipt]
    /\ readfds' = readfds \ {rx}
    /\ Goto(ret)
    /\ UNCHANGED <<faults, ret, curr, rx, addr, game, payload,
                   do_broadcast, do_unicast, signalled, applied>>

\* What the two bytes of a turn may read as; a turn whose bytes were gone when
\* it was sent is nobody's input.
Readings(p) == IF p = Freed THEN [cursor : Cells, btn : BOOLEAN, id : {0}] ELSE {p}

\* A client's input with the expected number: acknowledge it, move the cursor
\* and mark the cell when the button was pressed.
RecvMove ==
    /\ Receives
    /\ IsMove
    /\ LET ack == Bare("ACK", Arrived.seq)
       IN  /\ s_packet' = [s_packet EXCEPT ![rx] = ack]
           /\ net' = Sent(Taken(rx), rx, Head(net[rx]).src, ack)
    /\ \E input \in Readings(Arrived.payload) :
        LET moved == [game EXCEPT !.cursor = input.cursor]
        IN  /\ game' = IF input.btn THEN UpdateBoard(moved) ELSE moved
            /\ applied' = [applied EXCEPT ![rx] = input.id]
    /\ r_packet' = [r_packet EXCEPT ![rx] = [flags |-> Arrived.flags, seq |-> Arrived.seq]]
    /\ do_broadcast' = TRUE
    /\ Goto(ret)
    /\ UNCHANGED <<bound, conns, do_unicast>>

\* Everything else is stored; the acknowledgement of the handshake starts a
\* game.
RecvOther ==
    /\ Receives
    /\ ~IsDuplicate /\ ~IsBadAck /\ ~IsMove /\ Arrived.flags # "FIN/ACK"
    /\ r_packet' = [r_packet EXCEPT ![rx] = [flags |-> Arrived.flags, seq |-> Arrived.seq]]
    /\ do_broadcast' = (do_broadcast \/ (Arrived.flags = "ACK" /\ Arrived.seq = MAX_SEQ))
    /\ net' = Taken(rx)
    /\ Goto(ret)
    /\ UNCHANGED <<bound, conns, s_packet, game, do_unicast, applied>>

-----------------------------------------------------------------------------
(* handle_receipt: one round of the loop over the clients.                 *)

ReceiptRecv ==
    /\ pc = "receipt"
    /\ curr # 0
    /\ curr \in readfds
    /\ ~Interrupted
    /\ RecvFrom(curr, "receipted")
    /\ UNCHANGED <<netVars, curr, readfds, conns, addr, s_packet, r_packet, game,
                   payload, do_broadcast, do_unicast, signalled, applied>>

ReceiptSkip ==
    /\ pc = "receipt"
    /\ curr \notin readfds \/ Interrupted
    /\ Goto(IF curr = 0 THEN "received" ELSE "receipted")
    /\ UNCHANGED <<netVars, ret, curr, rx, readfds, conns, addr, s_packet,
                   r_packet, game, payload, do_broadcast, do_unicast,
                   signalled, applied>>

\* The loop goes on using curr_cli, which the reception of a FIN/ACK freed.
UseAfterFree ==
    /\ pc \in {"receipted", "unicasted", "bcasted"}
    /\ IsFree(curr)
    /\ Exit("crashed")
    /\ UNCHANGED <<faults, ret, curr, rx, readfds, conns, addr, s_packet,
                   r_packet, game, payload, do_broadcast, do_unicast,
                   signalled, applied>>

\* Mutant: errno is not tested before the unicast.
UnicastsAnyway == ~do_broadcast /\ do_unicast

\* handle_receipt calls handle_unicast.
WantsUnicast == ~Interrupted /\ ~do_broadcast /\ do_unicast

\* handle_unicast up to its sv_recvfrom: the flags of the last packet, the
\* number after the client's, the game as it is now.
HandleUnicast ==
    /\ pc = "receipted"
    /\ ~IsFree(curr)
    /\ WantsUnicast
    /\ Transmit(curr, Packet(s_packet[curr].flags, NextSeq(r_packet[curr].seq), game))
    /\ RecvFrom(curr, "unicasted")
    /\ UNCHANGED <<bound, faults, curr, readfds, conns, addr, r_packet, game,
                   payload, do_broadcast, do_unicast, signalled, applied>>

NoUnicast ==
    /\ pc = "receipted"
    /\ ~IsFree(curr)
    /\ ~WantsUnicast
    /\ Goto("finchk")
    /\ UNCHANGED <<netVars, ret, curr, rx, readfds, conns, addr, s_packet,
                   r_packet, game, payload, do_broadcast, do_unicast,
                   signalled, applied>>

\* Mutant: the request for a unicast is not cleared.
KeepsUnicasting ==
    /\ pc = "unicasted"
    /\ ~IsFree(curr)
    /\ s_packet' = [s_packet EXCEPT ![curr] = FreePayload(@)]
    /\ Goto("finchk")
    /\ UNCHANGED <<netVars, ret, curr, rx, readfds, conns, addr, r_packet, game,
                   payload, do_broadcast, do_unicast, signalled, applied>>

\* The rest of handle_unicast frees the payload s_packet still points to.
Unicasted ==
    /\ pc = "unicasted"
    /\ ~IsFree(curr)
    /\ s_packet' = [s_packet EXCEPT ![curr] = FreePayload(@)]
    /\ do_unicast' = FALSE
    /\ Goto("finchk")
    /\ UNCHANGED <<netVars, ret, curr, rx, readfds, conns, addr, r_packet, game,
                   payload, do_broadcast, signalled, applied>>

NextClient ==
    /\ pc = "finchk"
    /\ r_packet[curr].flags # "FIN"
    /\ curr' = NextInList(curr)
    /\ Goto("receipt")
    /\ UNCHANGED <<netVars, ret, rx, readfds, conns, addr, s_packet, r_packet,
                   game, payload, do_broadcast, do_unicast, signalled, applied>>

\* Mutant: the loop's variable stays at the client that is disconnected.
StaysWithLeaver ==
    /\ pc = "finchk"
    /\ r_packet[curr].flags = "FIN"
    /\ s_packet' = [s_packet EXCEPT ![curr] = Bare("FIN", MAX_SEQ)]
    /\ net' = Sent(Sent(net, curr, addr[curr], Bare("FIN/ACK", MAX_SEQ)), curr, addr[curr],
                   Bare("FIN", MAX_SEQ))
    /\ RecvFrom(curr, "receipted")
    /\ UNCHANGED <<bound, faults, curr, readfds, conns, addr, r_packet, game, payload,
                   do_broadcast, do_unicast, signalled, applied>>

\* sv_disconnect: FIN/ACK and FIN, then wait for the client's FIN/ACK.  After a
\* signal only the first of the three happens.
SvDisconnect ==
    /\ pc = "finchk"
    /\ r_packet[curr].flags = "FIN"
    /\ curr' = NextInList(curr)
    /\ LET finack == Bare("FIN/ACK", MAX_SEQ)
           fin    == Bare("FIN", MAX_SEQ)
           first  == Sent(net, curr, addr[curr], finack)
       IN  IF Interrupted
           THEN /\ s_packet' = [s_packet EXCEPT ![curr] = finack]
                /\ net' = first
                /\ Goto("receipt")
                /\ UNCHANGED <<rx, ret>>
           ELSE /\ s_packet' = [s_packet EXCEPT ![curr] = fin]
                /\ net' = Sent(first, curr, addr[curr], fin)
                /\ RecvFrom(curr, "receipt")
    /\ UNCHANGED <<bound, faults, readfds, conns, addr, r_packet, game, payload,
                   do_broadcast, do_unicast, signalled, applied>>

-----------------------------------------------------------------------------
(* handle_broadcast: one round per client, on one snapshot of the game but *)
(* with the turn of the moment.                                            *)

BroadcastStep ==
    /\ pc = "bcast"
    /\ curr # 0
    /\ Transmit(curr, Packet(BroadcastFlags(curr), NextSeq(r_packet[curr].seq), payload))
    /\ RecvFrom(curr, "bcasted")
    /\ UNCHANGED <<bound, faults, curr, readfds, conns, addr, r_packet, game,
                   payload, do_broadcast, do_unicast, signalled, applied>>

\* Mutant: the loop tests running instead of errno.
BroadcastWhileRunning ==
    /\ pc = "bcasted"
    /\ ~IsFree(curr)
    /\ curr' = IF signalled # "no" THEN 0 ELSE NextInList(curr)
    /\ Goto("bcast")
    /\ UNCHANGED <<netVars, ret, rx, readfds, conns, addr, s_packet, r_packet,
                   game, payload, do_broadcast, do_unicast, signalled, applied>>

BroadcastNext ==
    /\ pc = "bcasted"
    /\ ~IsFree(curr)
    /\ curr' = IF Interrupted THEN 0 ELSE NextInList(curr)
    /\ Goto("bcast")
    /\ UNCHANGED <<netVars, ret, rx, readfds, conns, addr, s_packet, r_packet,
                   game, payload, do_broadcast, do_unicast, signalled, applied>>

BroadcastEnd ==
    /\ pc = "bcast"
    /\ curr = 0
    /\ s_packet' = [p \in Ports |-> FreePayload(s_packet[p])]
    /\ payload' = NoPayload
    /\ Goto("loop")
    /\ UNCHANGED <<netVars, ret, curr, rx, readfds, conns, addr, r_packet, game,
                   do_broadcast, do_unicast, signalled, applied>>

-----------------------------------------------------------------------------
(* The user's signal.  A process that died of a sanitizer report leaves no  *)
(* socket open.                                                            *)

\* It ends a blocking call, with EINTR.
SignalInCall ==
    /\ pc \in {"select", "recv"}
    /\ signalled' = "EINTR"
    /\ IF pc = "recv"
       THEN /\ Goto(ret)
            /\ UNCHANGED <<bound, net>>
       ELSE Exit("closed")
    /\ UNCHANGED <<faults, ret, curr, rx, readfds, conns, addr, s_packet,
                   r_packet, game, payload, do_broadcast, do_unicast, applied>>

\* It comes between two calls, perhaps right before one that blocks: only the
\* loop's next test of running sees it.
SignalBetweenCalls ==
    /\ ~Stopped
    /\ signalled = "no"
    /\ signalled' = "unseen"
    /\ UNCHANGED <<netVars, pc, ret, curr, rx, readfds, conns, addr, s_packet,
                   r_packet, game, payload, do_broadcast, do_unicast, applied>>

SvSignal == SignalInCall \/ SignalBetweenCalls

SvReceive == RecvDuplicate \/ RecvBadAck \/ RecvFinAck \/ RecvMove \/ RecvOther

HandleReceipt ==
    \/ ReceiptRecv \/ ReceiptSkip \/ UseAfterFree
    \/ HandleUnicast \/ NoUnicast \/ Unicasted
    \/ NextClient \/ SvDisconnect

HandleBroadcast == BroadcastStep \/ BroadcastNext \/ BroadcastEnd

ServerStep ==
    \/ Select \/ SvAccept \/ SvDeny \/ AfterReceipt \/ EndLoop
    \/ SvReceive \/ HandleReceipt \/ HandleBroadcast

-----------------------------------------------------------------------------
(* Where the pointers into the client list point: the invariant that keeps *)
(* types and sockets right.                                                *)

Seated == ToSet(conns)

ListOK ==
    /\ Len(conns) <= MAX_CLIENTS
    /\ IsInjective(conns)
    /\ \A p \in Seated : addr[p] # NoAddr

SocketsOK == ~Stopped => bound \cap ({Main} \cup Ports) = ServerSockets

\* curr may dangle after the receipt of a FIN/ACK, and only where the code is
\* about to look at it again.
PointersOK ==
    /\ pc \in {"receipt", "bcast"} => curr \in {0} \cup Seated
    /\ pc = "finchk" => curr \in Seated
    /\ pc = "recv" =>
        /\ rx \in Seated
        /\ ret = "receipt" => curr \in {0} \cup (Seated \ {rx})

BroadcastOK ==
    pc \in {"bcast", "bcasted"} \/ (pc = "recv" /\ ret = "bcasted") => payload \in Games

AcceptOK == pc = "accept" => Main \in readfds /\ net[Main] # <<>>

ServerInv == ListOK /\ SocketsOK /\ PointersOK /\ BroadcastOK /\ AcceptOK

\* Blocked in a system call with nothing to read.
ServerBlocked ==
    \/ Stopped
    \/ pc = "select" /\ Readable = {}
    \/ pc = "recv" /\ net[rx] = <<>>

=============================================================================
