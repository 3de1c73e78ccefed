-------------------------------- MODULE System --------------------------------
(***************************************************************************)
(* The server, its clients and the network between them.                   *)
(***************************************************************************)
EXTENDS Server, Client

CONSTANTS
    ServerSignal,   \* TRUE: the user may stop the server
    SignalClients   \* the clients whose user may stop them

ASSUME SystemAssumption ==
    /\ ServerSignal \in BOOLEAN
    /\ SignalClients \subseteq Clients

vars == <<netVars, serverVars, clientVars>>

TypeOK == NetTypeOK /\ ServerTypeOK /\ ClientTypeOK

Init == NetInit /\ ServerInit /\ ClientInit

\* Everything sent has been read or waits for a server that is blocked
\* elsewhere: the answer a client's timer waits for will not come.
Quiet == ServerBlocked /\ \A c \in Clients : net[c] = <<>>

Timer(c) == (Prompt => Quiet) /\ (TimeoutResend(c) \/ GiveUp(c))

ClientStep(c) ==
    \/ Connect(c) \/ ClientRecv(c) \/ TakeTurn(c)
    \/ Timer(c)
    \/ c \in SignalClients /\ Signal(c)

\* The network does nothing to a datagram that select has already reported.
Next ==
    \/ ServerStep /\ UNCHANGED clientVars
    \/ ServerSignal /\ SvSignal /\ UNCHANGED clientVars
    \/ \E c \in Clients : ClientStep(c) /\ UNCHANGED serverVars
    \/ \E e \in Endpoints \ readfds :
        NetworkFault(e) /\ UNCHANGED <<serverVars, clientVars>>

Spec == Init /\ [][Next]_vars

\* The server's loop never idles while it can read, a client reads what
\* arrives, users connect and take their turns.  Timers expire even when, with
\* Prompt, the moments they may do so only keep coming back.
Fairness ==
    /\ WF_vars(ServerStep /\ UNCHANGED clientVars)
    /\ \A c \in Clients :
        /\ WF_vars(Connect(c) /\ UNCHANGED serverVars)
        /\ WF_vars(ClientRecv(c) /\ UNCHANGED serverVars)
        /\ WF_vars(TakeTurn(c) /\ UNCHANGED serverVars)
        /\ SF_vars(Timer(c) /\ UNCHANGED serverVars)

FairSpec == Spec /\ Fairness

-----------------------------------------------------------------------------
(* Properties that need a network that loses nothing and timers that do    *)
(* not fire early.                                                         *)

\* The client whose turn it is, by the flag the server gave it.
InTurn(c) == cpc[c] = "turn"

\* Two players never hold the controller at once: PSH/TRN goes to one client
\* per broadcast (server.c:332) and is used up by its answer.
OneTurnHolder == \A c, d \in Clients : InTurn(c) /\ InTurn(d) => c = d

\* The board a player decides on is the server's board at that moment, and
\* the mark the server will set is that player's own.
TurnHolderUpToDate ==
    \A c \in Clients : InTurn(c) =>
        /\ view[c] = game
        /\ peer[c] \in ToSet(conns)
        /\ Position(peer[c]) - 1 = TurnIndex(game.turn)

\* An input is applied for the player whose turn it is: the server does not
\* check who sent a PSH, it relies on nobody else sending one.
OnlyTurnHolderMoves ==
    [][\A p \in Ports : applied'[p] # applied[p] =>
          Position(p) - 1 = TurnIndex(game.turn)]_vars

\* The server uses no client record it has freed (server-util.c:281) and sends
\* no payload it has freed (server.c:313, 346), whoever leaves when: with every
\* message delivered and answered in time, a client is removed only while
\* sv_disconnect waits for it.
NoDeadMemory == pc # "crashed"

\* Players that saw the end of the game saw the same end.
AgreeOnTheEnd ==
    \A c, d \in Clients :
        IsGameOver(view[c].trackGame) /\ IsGameOver(view[d].trackGame)
            => view[c] = view[d]

T == INSTANCE TicTacToe WITH board <- game.trackGame, toMove <- game.turn

\* The server's board implements a game in which nobody marks a cell after the
\* end; the server itself never asks isGameOver, only the clients do.
ImplementsFairPlay == T!FairPlay

\* Every session ends: both clients leave, the server forgets them and is
\* ready for a new game.
SessionEnds ==
    <>[](/\ \A c \in Clients : cpc[c] = "exit"
         /\ pc = "select"
         /\ conns = <<>>
         /\ game = ResetGame)

-----------------------------------------------------------------------------
(* Properties that must survive what the network does.                     *)

\* The server's board implements tick-tack-toe: marks alternate, none is ever
\* changed, whatever is lost, repeated or overtaken.
ImplementsTicTacToe == T!Spec

\* The list of clients, the sockets and the sizes agree (server-util.c
\* connect_client and remove_client).
ListMatchesSockets ==
    /\ Len(conns) <= MAX_CLIENTS
    /\ IsInjective(conns)
    /\ ~Stopped => bound \cap ({Main} \cup Ports) = ServerSockets

\* A repeated SYN seats a client twice (see SeatedOnce); what follows is about
\* sessions where that has not happened.
SingleSeats ==
    \A p, q \in Ports : p # q => addr[p] # addr[q] \/ addr[p] = NoAddr

\* Inputs are applied once each and in the order the client sent them: every
\* new acknowledgement of a PSH (server.c sv_process) is that of the next input.
\* Only until the server knows that the client leaves: the number of a FIN, 255,
\* starts the numbers of the connection again, and an old input may fit.
AppliedInOrder ==
    [][pc = "recv" => \A p \in Ports :
        (/\ s_packet'[p] # s_packet[p] /\ s_packet'[p].flags = "ACK"
         /\ r_packet[p].flags # "FIN"
         /\ SingleSeats)
            => applied'[p] = applied[p] + 1]_vars

\* A client that has its acknowledgement has had its input applied: outside
\* the wait for it, everything it sent has reached the game.
AckMeansApplied ==
    \A c \in Clients :
        turns[c] > 0 /\ cpc[c] \in {"w_game", "turn"} /\ SingleSeats =>
            \E p \in Ports : addr[p] = c /\ applied[p] = turns[c]

\* A signal that ended a blocking call ends the server without another wait:
\* every call on the way out of sv_recvfrom is guarded by !errno (server.c:256,
\* 266, 269, 301-310, 332-340, 551-557).
StopsForGood == Interrupted => pc \notin {"select", "recv"}

\* A signal that falls between two calls, with errno 0, does not cut the round
\* short (server.c:208): when a round in which an input was applied, or a game
\* began, ends, every player still in the game has been told the server's board,
\* whoever was to be told before or after the signal.
RoundFinishes ==
    pc = "loop" /\ do_broadcast /\ ~Interrupted /\ Len(conns) = MAX_CLIENTS =>
        \A p \in ToSet(conns) :
            cpc[addr[p]] \in {"w_game", "turn", "w_ack"} => view[addr[p]] = Judged(game)

\* Every client comes to an end by itself when the server is gone.
ClientsTerminate == (pc = "closed") ~> (\A c \in Clients : cpc[c] = "exit")

\* A client that starts to leave comes to its end, whoever else is still there.
LeaversLeave == \A c \in Clients : (cpc[c] = "w_finack") ~> (cpc[c] = "exit")

-----------------------------------------------------------------------------
(* What comments of the code say and the code does not do: each of these   *)
(* is violated in a run of its own.                                        *)

\* A behaviour that used up the bound on resends, or on the server's sockets,
\* says nothing about a client or a server that would be helped by one more.
Exhausted ==
    \/ resends = 0
    \/ pc = "accept" /\ \A p \in Ports : addr[p] # NoAddr

\* README.md:3, "a connection-oriented, reliable application layer protocol":
\* the wait for the acknowledgement of a turn ends.
TurnAcknowledged ==
    \A c \in Clients : (cpc[c] = "w_ack") ~> (cpc[c] # "w_ack" \/ Exhausted)

\* server.c:538, "Do a broadcast because the game has just started.": the
\* acknowledgement that starts a broadcast is the one of a handshake.
AckStartsGame ==
    [][pc = "recv" /\ ~do_broadcast /\ do_broadcast' /\ applied' = applied
        => game = ResetGame]_vars

\* server.c:132, "Disconnect a client from the server by responding to a client
\* FIN message and removing them from the server connected client list": when
\* sv_disconnect returns, the client is no longer in the list.
DisconnectRemoves ==
    [][pc = "recv" /\ ret = "receipt" /\ pc' # "recv" /\ signalled' = "no"
        => rx \notin ToSet(conns')]_vars

\* server.c:91, "If it is a SYN, connect the new client.": a client holds one
\* seat of the lobby.
SeatedOnce == SingleSeats

=============================================================================
