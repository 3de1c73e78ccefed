-------------------------------- MODULE Client --------------------------------
(***************************************************************************)
(* The client processes (client.c).  A client sends one packet at a time   *)
(* and waits for the packet that must follow it, resending on every other  *)
(* packet and on every expiry of the receive timer.  cpc names the wait,   *)
(* or "turn" while the user holds the controller.                          *)
(***************************************************************************)
EXTENDS Network

CONSTANTS
    BASE_TIMEOUT,       \* seconds a wait starts with (8 in the code)
    MIN_TIMEOUT,        \* below it the wait is given up (1)
    MAX_NUM_TIMEOUTS,   \* expiries before the timer is halved (3)
    Reach,              \* Reach[cell]: where the stick takes the cursor in one turn
    Purposeful,         \* TRUE: every turn marks a free cell (for liveness)
    Prompt,             \* TRUE: a timer expires only when no packet is on its way
    MaxResends          \* bound: resends by timer, where Counted

ASSUME ClientAssumption ==
    /\ MIN_TIMEOUT \in Nat \ {0}
    /\ BASE_TIMEOUT \in Nat /\ BASE_TIMEOUT >= MIN_TIMEOUT
    /\ MAX_NUM_TIMEOUTS \in Nat \ {0}
    /\ Reach \in [Cells -> SUBSET Cells]
    /\ Purposeful \in BOOLEAN
    /\ Prompt \in BOOLEAN
    /\ MaxResends \in Nat

VARIABLES
    cpc,        \* cpc[c]: where the client is in its code
    cs_packet,  \* s_packet of the client: the packet it resends
    cr_seq,     \* the number of its r_packet
    view,       \* its copy of the game
    peer,       \* server_addr: the sender of the last datagram received
    tv_sec,     \* the receive timer
    num_to,     \* expiries since the last datagram or halving
    running,    \* running[c], while cl_messaging loops
    turns,      \* turns[c]: inputs sent
    resends     \* how many of these resends are still allowed

clientVars == <<cpc, cs_packet, cr_seq, view, peer, tv_sec, num_to, running,
                turns, resends>>

Waits == {"w_synack", "w_game", "w_ack", "w_finack", "w_fin", "w_linger"}

ClientPlaces == Waits \cup {"start", "turn", "exit"}

ClientTypeOK ==
    /\ cpc \in [Clients -> ClientPlaces]
    /\ cs_packet \in [Clients -> ClientPackets]
    /\ cr_seq \in [Clients -> SeqNums]
    /\ view \in [Clients -> Games]
    /\ peer \in [Clients -> {Main} \cup Ports]
    /\ tv_sec \in [Clients -> 0 .. BASE_TIMEOUT]
    /\ num_to \in [Clients -> 0 .. MAX_NUM_TIMEOUTS]
    /\ running \in [Clients -> BOOLEAN]
    /\ turns \in [Clients -> 0 .. MaxTurns]
    /\ resends \in 0 .. MaxResends

ClientInit ==
    /\ cpc = [c \in Clients |-> "start"]
    /\ cs_packet = [c \in Clients |-> Bare("SYN", MAX_SEQ)]
    /\ cr_seq = [c \in Clients |-> 0]
    /\ view = [c \in Clients |-> ResetGame]
    /\ peer = [c \in Clients |-> Main]
    /\ tv_sec = [c \in Clients |-> BASE_TIMEOUT]
    /\ num_to = [c \in Clients |-> 0]
    /\ running = [c \in Clients |-> TRUE]
    /\ turns = [c \in Clients |-> 0]
    /\ resends = MaxResends

-----------------------------------------------------------------------------
(* Sending and waiting.                                                    *)

\* Create pkt, send it to the server's address and go to the next place with a
\* fresh timer; n holds the buffers before the packet is sent.
SendThen(c, n, to, pkt, place) ==
    /\ cs_packet' = [cs_packet EXCEPT ![c] = pkt]
    /\ net' = Sent(n, c, to, pkt)
    /\ cpc' = [cpc EXCEPT ![c] = place]
    /\ tv_sec' = [tv_sec EXCEPT ![c] = BASE_TIMEOUT]
    /\ num_to' = [num_to EXCEPT ![c] = 0]

\* Wait for another packet without sending one.  The last packet stays what a
\* timer resends, but the bytes of a turn were a local array of take_turn.
WaitFor(c, n, place) ==
    /\ net' = n
    /\ cpc' = [cpc EXCEPT ![c] = place]
    /\ cs_packet' = [cs_packet EXCEPT ![c] = FreePayload(@)]
    /\ tv_sec' = [tv_sec EXCEPT ![c] = BASE_TIMEOUT]
    /\ num_to' = [num_to EXCEPT ![c] = 0]

\* The start of cl_disconnect.
Leave(c, n, to) == SendThen(c, n, to, Bare("FIN", MAX_SEQ), "w_finack")

\* The program ends: close_client.
Quit(c) ==
    /\ cpc' = [cpc EXCEPT ![c] = "exit"]
    /\ bound' = bound \ {c}
    /\ net' = Closed(net, {c})

Connect(c) ==
    /\ cpc[c] = "start"
    /\ bound' = bound \cup {c}
    /\ SendThen(c, net, Main, Bare("SYN", MAX_SEQ), "w_synack")
    /\ UNCHANGED <<faults, cr_seq, view, peer, running, turns, resends>>

-----------------------------------------------------------------------------
(* cl_recvfrom: what each wait accepts, and one action per accepted packet *)
(* with everything the caller does before the next wait.                   *)

FlagSet ==
    [w_synack |-> {"SYN/ACK"}, w_game |-> {"PSH", "PSH/TRN"}, w_ack |-> {"ACK"},
     w_finack |-> {"FIN/ACK"}, w_fin |-> {"FIN"}, w_linger |-> {"FIN"}]

\* Only a game is numbered after the client's packet, an answer is numbered as it.
AwaitedSeq(c) ==
    IF cpc[c] = "w_game" THEN NextSeq(cs_packet[c].seq) ELSE cs_packet[c].seq

\* Mutant: the number is not compared.
AcceptsAnyNumber(c, pkt) == pkt.flags \in FlagSet[cpc[c]]

Accepts(c, pkt) == pkt.flags \in FlagSet[cpc[c]] /\ pkt.seq = AwaitedSeq(c)

Incoming(c) == Head(net[c]).pkt
Sender(c) == Head(net[c]).src

\* recvfrom returned the packet this wait is for.
Gets(c, place) ==
    /\ cpc[c] = place
    /\ net[c] # <<>>
    /\ Accepts(c, Incoming(c))
    /\ peer' = [peer EXCEPT ![c] = Sender(c)]
    /\ UNCHANGED <<faults, turns, resends>>

RecvSynAck(c) ==
    /\ Gets(c, "w_synack")
    /\ cr_seq' = [cr_seq EXCEPT ![c] = Incoming(c).seq]
    /\ SendThen(c, Taken(c), Sender(c), Bare("ACK", MAX_SEQ), "w_game")
    /\ UNCHANGED <<bound, view, running>>

\* Mutant: asks isGameOver before the game is updated.
JudgesOldGame(c) ==
    /\ Gets(c, "w_game")
    /\ LET pkt  == Incoming(c)
           over == IsGameOver(view[c].trackGame)
           ack  == Bare("ACK", pkt.seq)
       IN  /\ cr_seq' = [cr_seq EXCEPT ![c] = pkt.seq]
           /\ view' = [view EXCEPT ![c] = Judged(pkt.payload)]
           /\ IF over \/ ~(running[c] \/ HasTRN(pkt.flags))
              THEN Leave(c, Sent(Taken(c), c, Sender(c), ack), Sender(c))
              ELSE SendThen(c, Taken(c), Sender(c), ack,
                            IF HasTRN(pkt.flags) THEN "turn" ELSE "w_game")
           /\ running' = [running EXCEPT ![c] = @ /\ ~over]
    /\ UNCHANGED bound

\* The game as the server sent it; isGameOver overwrites the turn and ends the
\* session, otherwise the client takes its turn or waits on.  A turn is taken
\* even when running is 0 already.
RecvGame(c) ==
    /\ Gets(c, "w_game")
    /\ LET pkt  == Incoming(c)
           over == IsGameOver(pkt.payload.trackGame)
           ack  == Bare("ACK", pkt.seq)
       IN  /\ cr_seq' = [cr_seq EXCEPT ![c] = pkt.seq]
           /\ view' = [view EXCEPT ![c] = Judged(pkt.payload)]
           /\ IF over \/ ~(running[c] \/ HasTRN(pkt.flags))
              THEN Leave(c, Sent(Taken(c), c, Sender(c), ack), Sender(c))
              ELSE SendThen(c, Taken(c), Sender(c), ack,
                            IF HasTRN(pkt.flags) THEN "turn" ELSE "w_game")
           /\ running' = [running EXCEPT ![c] = @ /\ ~over]
    /\ UNCHANGED bound

\* useController returns when the stick moved the cursor or the button was
\* pressed, perhaps both.
TakeTurn(c) ==
    /\ cpc[c] = "turn"
    /\ turns[c] < MaxTurns
    /\ \E cell \in Reach[view[c].cursor] \cup {view[c].cursor}, btn \in BOOLEAN :
        /\ btn \/ cell # view[c].cursor
        /\ Purposeful => btn /\ view[c].trackGame[cell] = Blank
        /\ SendThen(c, net, peer[c],
                    Packet("PSH", NextSeq(cr_seq[c]),
                           [cursor |-> cell, btn |-> btn, id |-> turns[c] + 1]),
                    "w_ack")
    /\ turns' = [turns EXCEPT ![c] = @ + 1]
    /\ UNCHANGED <<bound, faults, cr_seq, view, peer, running, resends>>

RecvAck(c) ==
    /\ Gets(c, "w_ack")
    /\ IF running[c]
       THEN WaitFor(c, Taken(c), "w_game")
       ELSE Leave(c, Taken(c), Sender(c))
    /\ UNCHANGED <<bound, cr_seq, view, running>>

RecvDisconnectAck(c) ==
    /\ Gets(c, "w_finack")
    /\ WaitFor(c, Taken(c), "w_fin")
    /\ UNCHANGED <<bound, cr_seq, view, running>>

RecvFin(c) ==
    /\ Gets(c, "w_fin")
    /\ SendThen(c, Taken(c), Sender(c), Bare("FIN/ACK", MAX_SEQ), "w_linger")
    /\ UNCHANGED <<bound, cr_seq, view, running>>

\* A repeated FIN ends the program at once: the FIN/ACK is not sent again.
RecvLastFin(c) ==
    /\ Gets(c, "w_linger")
    /\ Quit(c)
    /\ UNCHANGED <<cs_packet, cr_seq, view, tv_sec, num_to, running>>

\* Any other packet: resend, and the count of expiries starts again (the timer
\* itself does not).
RecvUnexpected(c) ==
    /\ cpc[c] \in Waits
    /\ net[c] # <<>>
    /\ ~Accepts(c, Incoming(c))
    /\ peer' = [peer EXCEPT ![c] = Sender(c)]
    /\ num_to' = [num_to EXCEPT ![c] = 0]
    /\ net' = Sent(Taken(c), c, Sender(c), cs_packet[c])
    /\ UNCHANGED <<bound, faults, cpc, cs_packet, cr_seq, view, tv_sec, running,
                   turns, resends>>

-----------------------------------------------------------------------------
(* The receive timer: handle_timeout.                                      *)

\* Every MAX_NUM_TIMEOUTS expiries the timer is halved.
Halves(c) == num_to[c] + 1 >= MAX_NUM_TIMEOUTS
\* Mutant: the timer is not halved.
NeverShorter(c) == tv_sec[c]
\* The timer after one more expiry.
NextTv(c) == IF Halves(c) THEN tv_sec[c] \div 2 ELSE tv_sec[c]

TimerRuns(c) == cpc[c] \in Waits /\ net[c] = <<>>

\* Only the waits that let the numbers grow need a bound, and with timers that
\* expire early every wait, because the buffers fill.
Counted(c) ==
    /\ peer[c] \in bound
    /\ ~Prompt \/ cpc[c] \in {"w_synack", "w_game"}

TimeoutResend(c) ==
    /\ TimerRuns(c)
    /\ NextTv(c) >= MIN_TIMEOUT
    /\ IF Counted(c)
       THEN resends > 0 /\ resends' = resends - 1
       ELSE UNCHANGED resends
    /\ tv_sec' = [tv_sec EXCEPT ![c] = NextTv(c)]
    /\ num_to' = [num_to EXCEPT ![c] = IF Halves(c) THEN 0 ELSE @ + 1]
    /\ net' = Sent(net, c, peer[c], cs_packet[c])
    /\ UNCHANGED <<bound, faults, cpc, cs_packet, cr_seq, view, peer, running,
                   turns>>

Expires(c, place) ==
    /\ TimerRuns(c)
    /\ cpc[c] = place
    /\ NextTv(c) < MIN_TIMEOUT
    /\ UNCHANGED <<faults, cr_seq, view, peer, turns, resends>>

\* errno is 0 after an expired wait, so every caller goes on as if the packet
\* had come; only running tells the messaging loop to stop.
GiveUpConnect(c) ==
    /\ Expires(c, "w_synack")
    /\ SendThen(c, net, peer[c], Bare("ACK", MAX_SEQ), "w_game")
    /\ UNCHANGED <<bound, running>>

GiveUpGame(c) ==
    /\ Expires(c, "w_game")
    /\ Leave(c, Sent(net, c, peer[c], Bare("ACK", cr_seq[c])), peer[c])
    /\ running' = [running EXCEPT ![c] = FALSE]
    /\ UNCHANGED bound

\* Mutant: running is not cleared.
KeepsRunning(c) ==
    /\ Expires(c, "w_ack")
    /\ WaitFor(c, net, "w_game")
    /\ UNCHANGED <<bound, running>>

GiveUpAck(c) ==
    /\ Expires(c, "w_ack")
    /\ Leave(c, net, peer[c])
    /\ running' = [running EXCEPT ![c] = FALSE]
    /\ UNCHANGED bound

GiveUpFinAck(c) ==
    /\ Expires(c, "w_finack")
    /\ WaitFor(c, net, "w_fin")
    /\ UNCHANGED <<bound, running>>

\* Mutant: waits for the FIN for ever.
WaitsOnForFin(c) ==
    /\ Expires(c, "w_fin")
    /\ WaitFor(c, net, "w_fin")
    /\ UNCHANGED <<bound, running>>

GiveUpFin(c) ==
    /\ Expires(c, "w_fin")
    /\ SendThen(c, net, peer[c], Bare("FIN/ACK", MAX_SEQ), "w_linger")
    /\ UNCHANGED <<bound, running>>

GiveUpLinger(c) ==
    /\ Expires(c, "w_linger")
    /\ Quit(c)
    /\ UNCHANGED <<cs_packet, tv_sec, num_to, running>>

GiveUp(c) ==
    \/ GiveUpConnect(c) \/ GiveUpGame(c) \/ GiveUpAck(c)
    \/ GiveUpFinAck(c) \/ GiveUpFin(c) \/ GiveUpLinger(c)

-----------------------------------------------------------------------------
(* The user's signal.                                                      *)

\* In a wait of the game: recvfrom fails with EINTR and the client leaves.
SignalLeave(c) ==
    /\ cpc[c] \in {"w_game", "w_ack"}
    /\ Leave(c, net, peer[c])
    /\ running' = [running EXCEPT ![c] = FALSE]
    /\ UNCHANGED <<bound, faults, cr_seq, view, peer, turns, resends>>

\* In any other wait the rest of the exchange is skipped.
SignalQuit(c) ==
    /\ cpc[c] \in {"w_synack", "w_finack", "w_fin", "w_linger"}
    /\ Quit(c)
    /\ UNCHANGED <<faults, cs_packet, cr_seq, view, peer, tv_sec, num_to,
                   running, turns, resends>>

\* Between two calls, or in a turn, the handler only clears running, which
\* cl_messaging tests after the next packet or turn.
SignalUnseen(c) ==
    /\ cpc[c] \in {"turn", "w_game", "w_ack"}
    /\ running[c]
    /\ running' = [running EXCEPT ![c] = FALSE]
    /\ UNCHANGED <<netVars, cpc, cs_packet, cr_seq, view, peer, tv_sec, num_to,
                   turns, resends>>

\* When the signal left errno set (delay was interrupted), nothing is sent.
SkipTurn(c) ==
    /\ cpc[c] = "turn"
    /\ ~running[c]
    /\ Leave(c, net, peer[c])
    /\ UNCHANGED <<bound, faults, cr_seq, view, peer, running, turns, resends>>

Signal(c) == SignalLeave(c) \/ SignalQuit(c) \/ SignalUnseen(c) \/ SkipTurn(c)

-----------------------------------------------------------------------------

ClientRecv(c) ==
    \/ RecvSynAck(c) \/ RecvGame(c) \/ RecvAck(c)
    \/ RecvDisconnectAck(c) \/ RecvFin(c) \/ RecvLastFin(c) \/ RecvUnexpected(c)

=============================================================================
