------------------------------- MODULE Network -------------------------------
(***************************************************************************)
(* UDP between the server's sockets and the clients' sockets.  Neither     *)
(* program contains this code: the module models what sendto and recvfrom  *)
(* rely on.  A datagram waits in the receive buffer of the socket it is    *)
(* addressed to, or is discarded when nobody has that socket open or its   *)
(* buffer is full.  The faults of the network are actions of their own,    *)
(* bounded by a budget.                                                    *)
(***************************************************************************)
EXTENDS Packets, SequencesExt

CONSTANTS
    Clients,      \* the client processes, each with its own socket
    MaxConns,     \* bound: ephemeral sockets the server opens in one run
    SockBuf,      \* bound: datagrams a receive buffer holds
    FaultKinds,   \* subset of {"lose", "duplicate", "reorder"}
    MaxFaults     \* bound: faults of the network in one run

Main == 0                   \* the server's listening socket
Ports == 1 .. MaxConns      \* the sockets connect_client opens, one per client
Endpoints == {Main} \cup Ports \cup Clients
NoAddr == -1                \* the address of a client record never filled in

ASSUME NetworkAssumption ==
    /\ MaxConns \in Nat
    /\ SockBuf \in Nat \ {0}
    /\ MaxFaults \in Nat
    /\ Clients \cap Int = {}
    /\ FaultKinds \subseteq {"lose", "duplicate", "reorder"}

VARIABLES
    net,      \* net[e]: the datagrams waiting in the receive buffer of e
    bound,    \* the endpoints that are open
    faults    \* how many faults the network still commits

netVars == <<net, bound, faults>>

DatagramsTo(e) ==
    IF e \in Clients THEN [src : Ports, pkt : ServerPackets]
                     ELSE [src : Clients, pkt : ClientPackets]

NetTypeOK ==
    /\ DOMAIN net = Endpoints
    /\ \A e \in Endpoints : net[e] \in Seq(DatagramsTo(e))
    /\ bound \subseteq Endpoints
    /\ faults \in 0 .. MaxFaults

NetInit ==
    /\ net = [e \in Endpoints |-> <<>>]
    /\ bound = {Main}
    /\ faults = MaxFaults

Datagram(from, pkt) == [src |-> from, pkt |-> pkt]

\* The buffers after sendto.
Sent(n, from, to, pkt) ==
    IF to \in bound /\ Len(n[to]) < SockBuf
    THEN [n EXCEPT ![to] = Append(@, Datagram(from, pkt))]
    ELSE n

\* The buffers after recvfrom has taken the first datagram of e.
Taken(e) == [net EXCEPT ![e] = Tail(@)]

\* The buffers after the sockets in S are closed.
Closed(n, S) == [e \in Endpoints |-> IF e \in S THEN <<>> ELSE n[e]]

-----------------------------------------------------------------------------

Fault(kind) ==
    /\ kind \in FaultKinds
    /\ faults > 0
    /\ faults' = faults - 1
    /\ UNCHANGED bound

Lose(e) ==
    /\ Fault("lose")
    /\ net[e] # <<>>
    /\ net' = Taken(e)

Duplicate(e) ==
    /\ Fault("duplicate")
    /\ net[e] # <<>>
    /\ Len(net[e]) < SockBuf
    /\ net' = [net EXCEPT ![e] = Append(@, Head(@))]

Reorder(e) ==
    /\ Fault("reorder")
    /\ Len(net[e]) > 1
    /\ net[e][1] # net[e][2]
    /\ net' = [net EXCEPT ![e] = <<@[2], @[1]>> \o SubSeq(@, 3, Len(@))]

NetworkFault(e) == Lose(e) \/ Duplicate(e) \/ Reorder(e)

=============================================================================
