-------------------------------- MODULE Relay --------------------------------
(***************************************************************************)
(* Clients, proxy and server.  The clients talk to the proxy's socket,     *)
(* which is Main in their network, net; in the server's network, far, the  *)
(* same socket is Px, the one client the server hears of.                  *)
(***************************************************************************)
EXTENDS Client

CONSTANTS
    MAX_CLIENTS,
    Px,                \* the proxy's socket, as the server sees it: one of Clients
    Hosts,             \* the machines clients run on, perhaps the server's
    ServerHost,
    HUNDRED_PERCENT, DEFAULT_DROP_PERCENT, DEFAULT_HOLD_PERCENT,
    NoOption, DropArgs, HoldArgs

ASSUME RelayAssumption ==
    /\ Px \in Clients
    /\ FaultKinds = {} /\ MaxFaults = 0
    /\ MAX_CLIENTS \in Nat \ {0}
    /\ HUNDRED_PERCENT \in Nat
    /\ DEFAULT_DROP_PERCENT \in 0 .. HUNDRED_PERCENT
    /\ DEFAULT_HOLD_PERCENT \in 0 .. HUNDRED_PERCENT
    /\ NoOption \notin Int
    /\ DropArgs \cup HoldArgs \subseteq Int \cup {NoOption}

VARIABLES
    far, farBound,
    pc, ret, curr, rx, readfds, conns, addr, s_packet, r_packet, game, payload,
    do_broadcast, do_unicast, signalled, applied,
    place, drop_bound, hold_bound, input_addr,
    host               \* the machine each client runs on

Players == Clients \ {Px}

S == INSTANCE Server WITH net <- far, bound <- farBound

P == INSTANCE Proxy WITH
        Senders <- Players \cup Ports, NoSender <- NoAddr

serverVars == <<pc, ret, curr, rx, readfds, conns, addr, s_packet, r_packet,
                game, payload, do_broadcast, do_unicast, signalled, applied>>
farVars == <<far, farBound, serverVars>>
proxyVars == <<place, drop_bound, hold_bound, input_addr>>
vars == <<netVars, clientVars, farVars, proxyVars, host>>

Init ==
    /\ net = [e \in Endpoints |-> <<>>] /\ far = net
    /\ bound = {} /\ farBound = {Main}
    /\ faults = 0
    /\ ClientInit
    /\ S!ServerInit
    /\ P!ProxyInit
    /\ host \in [Players -> Hosts]

HostOf(sender) == IF sender \in Players THEN host[sender] ELSE ServerHost

-----------------------------------------------------------------------------
(* The proxy's loop: one datagram from either side.                        *)

\* Mutant: whatever comes is for the server.
AlwaysOutput(from) == Main

\* forward_message: what comes from the client's machine goes to output_addr,
\* the server's listening socket, the rest to the client.
Destination(from) ==
    IF HostOf(from) = HostOf(P!ClientAfter(from)) THEN Main ELSE P!ClientAfter(from)

\* sendto with n and f the buffers recvfrom left.
Forwarded(n, f, to, pkt) ==
    IF to \in Players
    THEN net' = Sent(n, Main, to, pkt) /\ far' = f
    ELSE far' = S!Sent(f, Px, to, pkt) /\ net' = n

\* The rest of the loop's body for a datagram already taken.
Relays(n, f, datagram) ==
    /\ place = "waiting"
    /\ input_addr' = P!ClientAfter(datagram.src)
    /\ \E dropped \in {P!Drops(directive) : directive \in P!Directives} :
          IF dropped
          THEN net' = n /\ far' = f
          ELSE Forwarded(n, f, Destination(datagram.src), datagram.pkt)
    /\ UNCHANGED <<place, drop_bound, hold_bound>>

FromClients ==
    /\ net[Main] # <<>>
    /\ Relays(Taken(Main), far, Head(net[Main]))

FromServer ==
    /\ far[Px] # <<>>
    /\ Relays(net, S!Taken(Px), Head(far[Px]))

\* close_proxy: SIGINT while it waits.
CloseProxy ==
    /\ place = "waiting"
    /\ place' = "closed"
    /\ bound' = bound \ {Main} /\ net' = Closed(net, {Main})
    /\ farBound' = farBound \ {Px} /\ far' = S!Closed(far, {Px})
    /\ UNCHANGED <<drop_bound, hold_bound, input_addr>>

\* The socket is opened when the arguments are accepted.
OpenProxy ==
    /\ P!ProxySetUp
    /\ IF place' = "waiting"
       THEN bound' = {Main} /\ farBound' = farBound \cup {Px}
       ELSE UNCHANGED <<bound, farBound>>
    /\ UNCHANGED <<net, far>>

ProxyStep ==
    /\ \/ OpenProxy
       \/ (FromClients \/ FromServer) /\ UNCHANGED <<bound, farBound>>
    /\ UNCHANGED <<faults, clientVars, serverVars, host>>

\* As in System: an answer that has not come will not come.
Quiet ==
    /\ place # "setup"
    /\ net[Main] = <<>> /\ far[Px] = <<>>
    /\ S!ServerBlocked
    /\ \A c \in Players : net[c] = <<>>

Timer(c) == (Prompt => Quiet) /\ (TimeoutResend(c) \/ GiveUp(c))

\* Clients are started when the proxy is there.
ClientStep(c) ==
    \/ place # "setup" /\ Connect(c)
    \/ ClientRecv(c) \/ TakeTurn(c) \/ Timer(c)

ServerSide == <<netVars, clientVars, proxyVars, host>>
ClientSide == <<farVars, proxyVars, host>>

Next ==
    \/ ProxyStep
    \/ CloseProxy /\ UNCHANGED <<faults, clientVars, serverVars, host>>
    \/ \E c \in Players : ClientStep(c) /\ UNCHANGED ClientSide
    \/ S!ServerStep /\ UNCHANGED ServerSide

Spec == Init /\ [][Next]_vars

Fairness ==
    /\ WF_vars(ProxyStep)
    /\ WF_vars(S!ServerStep /\ UNCHANGED ServerSide)
    /\ \A c \in Players :
        /\ WF_vars(ClientRecv(c) /\ UNCHANGED ClientSide)
        /\ WF_vars(TakeTurn(c) /\ UNCHANGED ClientSide)
        /\ SF_vars(Timer(c) /\ UNCHANGED ClientSide)

FairSpec == Spec /\ Fairness

-----------------------------------------------------------------------------

(***************************************************************************)
(* The chances of proxy-src/src/setup.c are consistent whatever the user   *)
(* enters: a directive is in at most one of the ranges.                    *)
(***************************************************************************)
BoundsInOrder == P!BoundsInOrder

\* What only a server sends, and what only a client sends.
ServersOnly == {"SYN/ACK", "PSH/TRN"}
ClientsOnly == {"SYN"}

\* The buffer holds none of these kinds.
Without(buffer, kinds) == \A i \in DOMAIN buffer : buffer[i].pkt.flags \notin kinds

OneMachine == \A c, d \in Players : host[c] = host[d]

(***************************************************************************)
(* The proxy tells the two sides apart by the host of the first sender     *)
(* alone (proxy.c:220, 255).  Where that client's machine is not the       *)
(* server's, what the server answers does not come back to its listening   *)
(* socket; where the clients share one machine, no client is sent what a   *)
(* client sent.  The code gives neither without its condition: the answers *)
(* do come back when the client runs on the server's machine, and what a   *)
(* client on a second machine sends goes to the first client.              *)
(***************************************************************************)
NothingComesBack ==
    input_addr \in Players =>
        /\ host[input_addr] # ServerHost => Without(far[Main], ServersOnly)
        /\ OneMachine => \A c \in Players : Without(net[c], ClientsOnly)

(***************************************************************************)
(* A client that began behind the proxy comes to its end all the same,     *)
(* whatever is dropped, delivered to the wrong client or lost with the     *)
(* proxy (client.c handle_timeout).                                        *)
(***************************************************************************)
RelayedClientsLeave == \A c \in Players : (cpc[c] # "start") ~> (cpc[c] = "exit")

=============================================================================
