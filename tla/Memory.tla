------------------------------- MODULE Memory -------------------------------
(***************************************************************************)
(* The memory of the two programs: what each of them allocates, registers  *)
(* and frees over a session.  The steps are those of Server and Client,    *)
(* with everything left out but the heap, the pointers that outlive a call *)
(* and errno, which is what a failed step leaves behind.                   *)
(***************************************************************************)
EXTENDS Startup

CONSTANT MaxClients   \* MAX_CLIENTS

ASSUME MaxClientsAssumption == MaxClients \in Nat \ {0}

VARIABLES
    peers,         \* per connection its objects and r_packet->payload, which
                   \* outlives the packet it was received with
    game_payload,  \* what handle_unicast or handle_broadcast has assembled
    again          \* sv_recvfrom has sent the last packet again and waits on

sessionVars == <<peers, game_payload, again>>
vars == <<startVars, sessionVars>>

Init ==
    /\ StartupInit
    /\ peers = {}
    /\ game_payload = NULL
    /\ again = FALSE

\* The client has one connection, whose objects are those of the set-up.
Begin ==
    /\ StartupStep
    /\ peers' = IF program = "client" /\ phase' = "up"
                THEN {[objs |-> <<>>, payload |-> NULL]}
                ELSE peers
    /\ UNCHANGED <<game_payload, again>>

-----------------------------------------------------------------------------

\* The pointers that are compared with new addresses or freed later on.
Kept == ToSet(heap.list) \cup {peer.payload : peer \in peers}

Mallocs(n) == MallocsBeside(Kept, n)

\* One allocation at a place where it may fail.
Malloc(site) ==
    {objs[1] : objs \in Mallocs(1)} \cup (IF site \in MayFail THEN {NULL} ELSE {})

\* Where a step is in the program, and that it goes on.
In(who) == program = who /\ phase = "up" /\ UNCHANGED <<program, phase, args, server_ip>>

\* Every step of the server is skipped once errno is set, but for the wait of
\* sv_recvfrom after it has sent again, which is the next step then, and what
\* sv_disconnect sends first.
Clear == errno = "none" /\ ~again
Receiving == errno = "none" \/ again

\* create_conn_client: the client, its address and both packets, registered in
\* the opposite order.
Connects ==
    \E objs \in Mallocs(4) :
        /\ heap' = ObtainAll(heap, Reverse(objs))
        /\ peers' = peers \cup {[objs |-> Reverse(objs), payload |-> NULL]}

\* One of the four could not be had.
ConnectsInVain ==
    /\ "connection" \in MayFail
    /\ \E objs \in Mallocs(3), n \in 0 .. 3 : heap' = AllocatedInVain(heap, objs, n)
    /\ errno' = "ENOMEM"
    /\ UNCHANGED peers

Connect ==
    /\ In("server") /\ Clear /\ game_payload = NULL
    /\ Cardinality(peers) < MaxClients
    /\ \/ Connects /\ UNCHANGED errno
       \/ Connects /\ errno' = "other"     \* no socket for the new client
       \/ ConnectsInVain
    /\ UNCHANGED <<game_payload, again>>

\* remove_client, from sv_process: possibly while a game payload is out.
Disconnect ==
    /\ In("server") /\ Receiving
    /\ \E peer \in peers :
         /\ heap' = ReleaseAll(heap, peer.objs)
         /\ peers' = peers \ {peer}
    /\ again' = FALSE
    /\ UNCHANGED <<errno, game_payload>>

\* handle_unicast and handle_broadcast before they send ...
Assemble ==
    /\ In("server") /\ Clear /\ game_payload = NULL /\ peers # {}
    /\ \E a \in Malloc("game payload") :
         IF a = NULL
         THEN errno' = "ENOMEM" /\ UNCHANGED <<heap, game_payload>>
         ELSE /\ heap' = Obtain(heap, a)
              /\ game_payload' = a
              /\ UNCHANGED errno
    /\ UNCHANGED <<peers, again>>

\* ... and as they return.
Discard ==
    /\ In("server") /\ game_payload # NULL /\ ~again
    /\ heap' = mm_free(heap, game_payload)
    /\ game_payload' = NULL
    /\ UNCHANGED <<errno, peers, again>>

\* The buffer is freed unless sendto fails.
SendsFrom(a) ==
    \/ heap' = mm_free(Obtain(heap, a), a) /\ UNCHANGED errno
    \/ heap' = Obtain(heap, a) /\ errno' = "other"

\* sv_sendto.
SvSends(site) ==
    \E a \in Malloc(site) :
        IF a = NULL THEN errno' = "ENOMEM" /\ UNCHANGED heap ELSE SendsFrom(a)

SvSend ==
    /\ In("server") /\ peers # {} /\ ~again
    /\ SvSends("buffer")
    /\ UNCHANGED sessionVars

\* sv_recvfrom got a wrong acknowledgement.
SvSendAgain ==
    /\ In("server") /\ peers # {} /\ Receiving
    /\ SvSends("buffer sent again")
    /\ again' = TRUE
    /\ UNCHANGED <<peers, game_payload>>

\* A blocking call of the server ends with EINTR or another error.
SvCallFails ==
    /\ In("server") /\ Receiving
    /\ errno' = "other"
    /\ again' = FALSE
    /\ UNCHANGED <<heap, peers, game_payload>>

\* cl_sendto looks for another error than that of a failed allocation, registers
\* the null pointer, and sendto fails on it.
ClSend ==
    /\ In("client") /\ errno # "ENOMEM"
    /\ \E a \in Malloc("buffer") :
         IF a = NULL
         THEN heap' = mm_add(heap, NULL) /\ errno' = "other"
         ELSE SendsFrom(a)
    /\ UNCHANGED sessionVars

\* deserialize_packet replaces the pointer only when the packet has a payload;
\* the pointer is registered and freed whether it was replaced or not.
Processed(a, allocated) ==
    mm_free(IF allocated THEN Obtain(heap, a) ELSE mm_add(heap, a), a)

\* The pointer, and whether it is new.
Deserialized(peer) ==
    {<<peer.payload, FALSE>>} \cup (Malloc("payload") \X {TRUE})

\* sv_process and cl_process return at once when errno is ENOMEM, also when the
\* allocation that failed was an earlier one; keep is the pointer at the end.
Processes(peer, p, keep) ==
    LET failed == p = <<NULL, TRUE>>
        left   == IF failed \/ errno = "ENOMEM" THEN p[1] ELSE keep
    IN  /\ errno' = IF failed THEN "ENOMEM" ELSE errno
        /\ heap' = CASE failed -> heap
                     [] ~failed /\ errno = "ENOMEM" ->
                            IF p[2] THEN Allocated(heap, p[1]) ELSE heap
                     [] OTHER -> Processed(p[1], p[2])
        /\ peers' = (peers \ {peer}) \cup {[peer EXCEPT !.payload = left]}

\* Mutant: sv_process does not reset the pointer once it has freed the payload.
KeepsThePointer ==
    /\ In("server") /\ Receiving
    /\ \E peer \in peers : \E p \in Deserialized(peer) : Processes(peer, p, p[1])
    /\ again' = FALSE
    /\ UNCHANGED game_payload

\* sv_process resets the pointer ...
SvProcess ==
    /\ In("server") /\ Receiving
    /\ \E peer \in peers : \E p \in Deserialized(peer) : Processes(peer, p, NULL)
    /\ again' = FALSE
    /\ UNCHANGED game_payload

\* ... and cl_process does not: after the SYN/ACK, which has no payload, it
\* looks only at packets that carry the game.
ClProcess ==
    /\ In("client") /\ errno # "ENOMEM"
    /\ \E peer \in peers : \E p \in Deserialized(peer) :
         /\ p[2] \/ peer.payload = NULL
         /\ Processes(peer, p, p[1])
    /\ UNCHANGED <<game_payload, again>>

End ==
    /\ phase = "up" /\ game_payload = NULL /\ ~again
    /\ Close
    /\ UNCHANGED sessionVars

Next ==
    \/ Begin
    \/ Connect \/ Disconnect
    \/ Assemble \/ Discard
    \/ SvSend \/ SvSendAgain \/ SvCallFails \/ ClSend
    \/ SvProcess \/ ClProcess
    \/ End

Spec == Init /\ [][Next]_vars

-----------------------------------------------------------------------------

(***************************************************************************)
(* Neither program frees an address twice or asks the manager for one it   *)
(* does not list, which would run off the end of the list: not when a      *)
(* client leaves in the middle of a broadcast, when malloc hands a freed   *)
(* address out again, when a packet without payload leaves the pointer of  *)
(* the last one in place, or when an allocation of the session fails.      *)
(***************************************************************************)
FreesWhatItOwns == ~heap.broken

(***************************************************************************)
(* Whatever the program still holds when it closes is freed, the buffer of *)
(* a packet that could not be sent and the parts of a connection that was  *)
(* not completed included: mm_add never takes a new allocation for one it  *)
(* already lists.                                                          *)
(***************************************************************************)
NothingLeaks == phase = "exited" => heap.live = {}

=============================================================================
