-------------------------------- MODULE Session --------------------------------
(***************************************************************************)
(* A session as it goes when the network delivers everything and timers    *)
(* expire only when nothing is on its way: where each client is in the     *)
(* exchange with its socket of the server, for each place of the server.   *)
(* SessionInv is an inductive invariant under those conditions.            *)
(***************************************************************************)
EXTENDS System

\* A network that delivers, nobody stopped from outside, timers that wait
\* longer than an answer takes, and the sizes of the program: two players, a
\* timer that is not halved at once, and room for three datagrams.
Undisturbed ==
    /\ FaultKinds = {} /\ Prompt
    /\ ~ServerSignal /\ SignalClients = {}
    /\ MAX_CLIENTS = 2
    /\ MAX_NUM_TIMEOUTS >= 2
    /\ SockBuf >= 3

\* No game got the number that stands for the handshake.
NoWrap == \A p \in Ports : HasPSH(s_packet[p].flags) => s_packet[p].seq # MAX_SEQ

Over == IsGameOver(game.trackGame)

-----------------------------------------------------------------------------
(* Who writes to whom: a client to the listening socket or its own, and    *)
(* nobody else to its own and to it.                                       *)

AddressesOK ==
    /\ \A c \in Clients : peer[c] = Main \/ addr[peer[c]] = c
    /\ \A c \in Clients : \A d \in ToSet(net[c]) : addr[d.src] = c
    /\ \A p \in Ports : \A d \in ToSet(net[p]) : d.src = addr[p]

-----------------------------------------------------------------------------
(* The phases of the client seated at p: what it waits for, and what is on *)
(* its way between the two.                                                *)

Ack(n) == Bare("ACK", n)
Fin == Bare("FIN", MAX_SEQ)
FinAck == Bare("FIN/ACK", MAX_SEQ)

\* A datagram of p's client, and one to it.
From(p, pkt) == Datagram(addr[p], pkt)
To(p, pkt) == Datagram(p, pkt)

\* The client at p is at this place of its code and has nothing to read.
Stays(p, place) == cpc[addr[p]] = place /\ net[addr[p]] = <<>>

\* It waits for the next game and acknowledged number n; q is still unread.
Heard(p, q, n) ==
    /\ Stays(p, "w_game")
    /\ net[p] = q
    /\ cs_packet[addr[p]] = Ack(n)
    /\ peer[addr[p]] = p /\ running[addr[p]]
    /\ tv_sec[addr[p]] = BASE_TIMEOUT

Unhurried(p) == num_to[addr[p]] = 0

\* It has the turn that came with game g, numbered k, and may have used it.
HasTurn(p, q, k, g) ==
    /\ peer[addr[p]] = p /\ running[addr[p]]
    /\ \/ /\ Stays(p, "turn")
          /\ net[p] = q
          /\ view[addr[p]] = g /\ cr_seq[addr[p]] = k
       \/ /\ Stays(p, "w_ack")
          /\ net[p] = Append(q, From(p, cs_packet[addr[p]]))
          /\ cs_packet[addr[p]].flags = "PSH"
          /\ cs_packet[addr[p]].seq = NextSeq(k)

\* It said that it leaves.
Left(p, q) ==
    /\ Stays(p, "w_finack")
    /\ net[p] = Append(q, From(p, Fin))
    /\ cs_packet[addr[p]] = Fin

\* It answered the game g, numbered k, as its flags f and the board ask for.
Answered(p, q, k, f, g) ==
    IF IsGameOver(g.trackGame) THEN Left(p, q)
    ELSE IF HasTRN(f) THEN HasTurn(p, q, k, g)
    ELSE Heard(p, q, k) /\ Unhurried(p)

\* The game is on its way, perhaps behind the acknowledgement of a turn.
OnItsWay(p, q, k, f, g) ==
    /\ net[p] = q /\ running[addr[p]]
    /\ NextSeq(cs_packet[addr[p]].seq) = k
    /\ \/ /\ cpc[addr[p]] = "w_game"
          /\ net[addr[p]] = <<To(p, Packet(f, k, g))>>
       \/ /\ cpc[addr[p]] = "w_ack"
          /\ net[addr[p]] = <<To(p, Ack(cs_packet[addr[p]].seq)), To(p, Packet(f, k, g))>>

Offered(p, q, k, f, g) ==
    \/ OnItsWay(p, q, k, f, g)
    \/ Answered(p, Append(q, From(p, Ack(k))), k, f, g)

\* Its turn, numbered j, was applied.
Moved(p, j) ==
    /\ net[p] = <<>> /\ running[addr[p]]
    /\ cs_packet[addr[p]].seq = j
    /\ \/ cpc[addr[p]] = "w_ack" /\ net[addr[p]] = <<To(p, Ack(j))>>
       \/ Stays(p, "w_game")

\* A lone client is sent a packet that is none of a game, and repeats itself.
Prodded(p, n) ==
    \/ /\ cpc[addr[p]] = "w_game" /\ net[p] = <<>>
       /\ \E k \in SeqNums, g \in Games : net[addr[p]] = <<To(p, Packet("SYN/ACK", k, g))>>
       /\ cs_packet[addr[p]] = Ack(n)
       /\ running[addr[p]] /\ tv_sec[addr[p]] = BASE_TIMEOUT
    \/ Heard(p, <<From(p, Ack(n))>>, n) /\ Unhurried(p)

\* The handshake.
Joining(p) ==
    \/ /\ cpc[addr[p]] = "w_synack" /\ net[p] = <<>>
       /\ net[addr[p]] = <<To(p, Bare("SYN/ACK", MAX_SEQ))>>
       /\ cs_packet[addr[p]] = Bare("SYN", MAX_SEQ)
       /\ running[addr[p]]
    \/ Heard(p, <<From(p, Ack(MAX_SEQ))>>, MAX_SEQ) /\ Unhurried(p)

\* The farewell, once the server answered.
Parting(p) ==
    \/ /\ cpc[addr[p]] = "w_finack" /\ net[p] = <<>>
       /\ net[addr[p]] = <<To(p, FinAck), To(p, Fin)>>
       /\ cs_packet[addr[p]] = Fin
    \/ /\ cpc[addr[p]] = "w_fin" /\ net[p] = <<>>
       /\ net[addr[p]] = <<To(p, Fin)>>
       /\ cs_packet[addr[p]] = Fin
    \/ /\ Stays(p, "w_linger") /\ net[p] = <<From(p, FinAck)>>
       /\ peer[addr[p]] = p

\* The client that was seated at p ends by itself.
Gone(p) ==
    /\ cpc[addr[p]] \in {"w_linger", "exit"}
    /\ net[addr[p]] = <<>>
    /\ peer[addr[p]] = p

-----------------------------------------------------------------------------
(* The phases of a seated client, by what the server last sent and took.   *)

\* It waits for the other's move, and its timer ran out once or not at all.
Nudged(p) ==
    /\ r_packet[p].flags = "ACK"
    /\ Heard(p, <<>>, r_packet[p].seq)

Waiting(p) == Nudged(p) /\ Unhurried(p)

\* Its timer made it repeat its acknowledgement.
Reminds(p) ==
    /\ r_packet[p].flags = "ACK"
    /\ Heard(p, <<From(p, Ack(r_packet[p].seq))>>, r_packet[p].seq)

\* The game of the moment was sent to it and is not acknowledged.
Told(p, q) ==
    /\ s_packet[p].seq = NextSeq(r_packet[p].seq)
    /\ HasPSH(s_packet[p].flags)
    /\ Offered(p, q, s_packet[p].seq, s_packet[p].flags, game)

Informed(p) == r_packet[p].flags \in {"ACK", "PSH"} /\ Told(p, <<>>)

\* The same behind a repeated acknowledgement.
InformedLate(p) ==
    /\ r_packet[p].flags = "ACK"
    /\ ~Over /\ HasTRN(s_packet[p].flags)
    /\ Told(p, <<From(p, Ack(r_packet[p].seq))>>)

\* It has the turn, or the game that brings it is on its way.
Plays(p) ==
    /\ r_packet[p].flags = "ACK"
    /\ HasTRN(s_packet[p].flags) /\ ~Over
    /\ \/ r_packet[p].seq = s_packet[p].seq /\ HasTurn(p, <<>>, s_packet[p].seq, game)
       \/ Told(p, <<>>)

HasMoved(p) == r_packet[p].flags = "PSH" /\ Moved(p, r_packet[p].seq)

\* It saw the end of the game.
Leaves(p) == r_packet[p].flags = "ACK" /\ Left(p, <<>>)

\* The server knows that it leaves.
Waves(p) ==
    /\ r_packet[p].flags = "FIN"
    /\ Stays(p, "w_finack") /\ net[p] = <<>>
    /\ cs_packet[addr[p]] = Fin

Parts(p) == r_packet[p].flags = "FIN" /\ Parting(p)

Prods(p) ==
    /\ r_packet[p].flags = "ACK"
    /\ s_packet[p].flags = "SYN/ACK"
    /\ Prodded(p, r_packet[p].seq)

Joins(p) ==
    /\ s_packet[p].flags = "SYN/ACK" /\ s_packet[p].seq = MAX_SEQ
    /\ r_packet[p] = NoReceipt
    /\ Joining(p)

-----------------------------------------------------------------------------
(* Which phases go with which place of the server.                         *)

\* What the server last sent to a client that waits.
Opponents == Len(conns) = MAX_CLIENTS

WaitsHere(p) ==
    IF Opponents THEN s_packet[p].flags = "PSH" /\ BroadcastFlags(p) = "PSH"
                 ELSE s_packet[p].flags = "SYN/ACK"

\* Between two rounds of the loop: nothing for the server to read but a turn,
\* or something that makes it act.
Settled(p) ==
    /\ ~Over
    /\ \/ WaitsHere(p) /\ Waiting(p)
       \/ Opponents /\ BroadcastFlags(p) = "PSH/TRN" /\ Plays(p)

Calls(p) == IF Over THEN Leaves(p) ELSE WaitsHere(p) /\ Reminds(p)

AtRest(p) == Settled(p) \/ Calls(p)

\* Before a broadcast.  A repeated acknowledgement meets the first one only.
Due(p) ==
    \/ HasMoved(p)
    \/ Nudged(p)
    \/ Reminds(p) /\ BroadcastFlags(p) = "PSH/TRN" /\ ~Over

\* In the round over the clients: what select reported of p is still unread.
ToVisit(p) ==
    /\ p \in readfds
    /\ curr # 0
    /\ \/ p = NextInList(curr)
       \/ p = curr /\ (pc = "receipt" \/ (pc = "recv" /\ ret \in {"receipt", "receipted"}))

InRound(p) ==
    IF do_broadcast
    THEN HasMoved(p) \/ Nudged(p) \/ (Reminds(p) /\ ToVisit(p))
    ELSE Settled(p) \/ (Calls(p) /\ ToVisit(p))

Passed(p) == curr = 0 \/ (p # curr /\ p # NextInList(curr))

InBroadcast(p) == IF Passed(p) THEN AtRest(p) ELSE Due(p)

InCall(place) == pc = "recv" /\ ret = place

RestOK == pc \in {"select", "accept", "loop"} => \A p \in Seated : AtRest(p)

JoiningOK ==
    InCall("received") =>
        /\ game = ResetGame
        /\ Position(rx) = Len(conns)
        /\ Joins(rx)
        /\ \A p \in Seated \ {rx} :
              s_packet[p].flags = "SYN/ACK" /\ (Waiting(p) \/ Reminds(p))

ReceivedOK ==
    pc = "received" =>
        \A p \in Seated : IF do_broadcast /\ Opponents THEN Due(p) ELSE AtRest(p)

BroadcastingOK ==
    /\ pc \in {"bcast", "bcasted"} \/ InCall("bcasted") => payload = game /\ Opponents
    /\ pc = "bcast" => \A p \in Seated : InBroadcast(p)
    /\ InCall("bcasted") =>
          /\ rx = curr
          /\ s_packet[rx].flags = BroadcastFlags(rx)
          /\ Informed(rx) \/ InformedLate(rx)
          /\ \A p \in Seated \ {rx} : InBroadcast(p)
    /\ pc = "bcasted" =>
          /\ curr \in Seated
          /\ AtRest(curr)
          /\ \A p \in Seated \ {curr} : InBroadcast(p)

RoundPlace ==
    \/ pc \in {"receipt", "receipted", "unicasted", "finchk"}
    \/ \E place \in {"receipted", "unicasted", "receipt"} : InCall(place)

\* A unicast is due to the client that repeated itself.
Answerable(p) == do_unicast /\ ~do_broadcast /\ ~Over /\ WaitsHere(p) /\ Nudged(p)

\* The client's farewell is due.
Dismissed(p) == ~do_unicast /\ ~do_broadcast /\ Over /\ Waves(p)

Served(p) == (do_unicast => do_broadcast) /\ InRound(p)

RoundOK ==
    /\ RoundPlace =>
          /\ do_broadcast => Opponents
          /\ \A p \in Seated \cap readfds : net[p] # <<>>
    /\ pc = "receipt" =>
          /\ do_unicast => do_broadcast
          /\ \A p \in Seated : InRound(p)
    /\ InCall("receipted") =>
          /\ rx = curr /\ curr \in readfds
          /\ \A p \in Seated : Served(p)
    /\ pc = "receipted" =>
          /\ curr \in Seated
          /\ \A p \in Seated \ {curr} : InRound(p)
          /\ Answerable(curr) \/ Served(curr) \/ Dismissed(curr)
    /\ InCall("unicasted") =>
          /\ rx = curr /\ ~do_broadcast /\ ~Over
          /\ IF Opponents THEN WaitsHere(rx) /\ r_packet[rx].flags = "ACK" /\ Informed(rx)
                          ELSE Prods(rx)
          /\ \A p \in Seated \ {curr} : InRound(p)
    /\ pc = "unicasted" =>
          /\ curr \in Seated /\ ~do_broadcast
          /\ \A p \in Seated : InRound(p)
    /\ pc = "finchk" =>
          /\ Served(curr) \/ Dismissed(curr)
          /\ \A p \in Seated \ {curr} : InRound(p)
    /\ InCall("receipt") =>
          /\ ~do_broadcast /\ ~do_unicast /\ Over
          /\ Parts(rx)
          /\ \A p \in Seated \ {rx} : InRound(p)

\* The table is cleared before anybody is seated.
TableOK ==
    /\ game.turn \in Marks
    /\ ~Opponents =>
        \/ game = ResetGame
        \/ Over /\ (RoundPlace \/ (pc \in {"received", "loop"} /\ conns = <<>>))
    /\ pc = "accept" => ~do_broadcast

\* A client without a seat: it asks for one, at most once at a time, or ends.
Outside(c) ==
    /\ peer[c] = Main /\ net[c] = <<>>
    /\ cpc[c] \notin {"turn", "w_ack"}
    /\ cs_packet[c].flags = "SYN" => cpc[c] \in {"start", "w_synack"}
    /\ cpc[c] \in {"start", "w_synack"} => running[c] /\ cs_packet[c] = Bare("SYN", MAX_SEQ)

Asks(d) == d.pkt.flags = "SYN"

ClientsOK ==
    /\ SingleSeats
    /\ \A c \in Clients : c \in bound <=> cpc[c] \notin {"start", "exit"}
    /\ \A c \in Clients : (\A p \in Ports : addr[p] # c) => Outside(c)
    /\ \A p \in Ports : addr[p] # NoAddr /\ p \notin Seated => Gone(p)
    /\ \A p \in Ports : p \notin Seated => net[p] = <<>> /\ r_packet[p] = NoReceipt
    /\ \A i \in DOMAIN net[Main] : Asks(net[Main][i]) =>
        /\ cpc[net[Main][i].src] = "w_synack"
        /\ \A p \in Ports : addr[p] # net[Main][i].src
        /\ \A j \in DOMAIN net[Main] :
              Asks(net[Main][j]) /\ net[Main][i].src = net[Main][j].src => i = j

SessionInv ==
    /\ signalled = "no" /\ ~Stopped
    /\ TableOK /\ ClientsOK
    /\ RestOK /\ JoiningOK /\ ReceivedOK /\ BroadcastingOK /\ RoundOK

-----------------------------------------------------------------------------
(* What is counted over a session, and what is left of it.                 *)

\* The inputs of a queue, and those that wait for the server.
InputsIn(q) == {d \in ToSet(q) : HasPSH(d.pkt.flags)}
Unread(p) == InputsIn(net[p])

\* What the client at p sent was applied, but for the input that is unread.
Balanced(p) ==
    IF Unread(p) = {}
    THEN applied[p] = turns[addr[p]]
    ELSE /\ applied[p] + 1 = turns[addr[p]]
         /\ \A d \in Unread(p) : d.pkt.payload # Freed /\ d.pkt.payload.id = turns[addr[p]]

\* What was sent and what was applied differ by the input that is on its way:
\* take_turn sends the next one only when sv_process has applied the last, and a
\* client without a seat has sent none.
TurnsCounted ==
    /\ \A c \in Clients : (\A p \in Ports : addr[p] # c) => turns[c] = 0
    /\ \A p \in Ports : IF addr[p] = NoAddr THEN applied[p] = 0 ELSE Balanced(p)

\* The places of a client that has left the game.
Leaving == {"w_finack", "w_fin", "w_linger", "exit"}

SawTheEnd(c) == IsGameOver(view[c].trackGame)

\* Who saw the end of a game is on its way out (client.c:445), and a board of the
\* server that is over is the very one it saw: the next game starts on a cleared
\* board (server.c:240).
SeenAndLeft ==
    /\ \A c \in Clients : SawTheEnd(c) => cpc[c] \in Leaving
    /\ \A c \in Clients : SawTheEnd(c) /\ Over => view[c] = Judged(game)

EndsAgree == AgreeOnTheEnd /\ SeenAndLeft

\* Nobody but the two who play.
TwoClients == \E c, d \in Clients : Clients = {c, d}

=============================================================================
