----------------------------- MODULE System_proofs -----------------------------
(***************************************************************************)
(* What the system guarantees for every number of clients, every board and *)
(* every budget of faults, with timers that expire at any time: the types, *)
(* the agreement of the client list with the open sockets, and that the    *)
(* server's board is played by the rules.                                  *)
(***************************************************************************)
EXTENDS System, Server_proofs, Client_proofs

\* The inductive invariant: the types, and where the server's pointers point.
IInv == TypeOK /\ ServerInv

-----------------------------------------------------------------------------

\* Initially every buffer is empty and every record zeroed.
LEMMA InitSafe == Init => IInv
<1> SUFFICES ASSUME Init PROVE IInv
  OBVIOUS
<1> USE DEF Init
<1>1. NetTypeOK
  <2>1. \A e \in Endpoints : <<>> \in Seq(DatagramsTo(e))
    BY EmptySeq
  <2> QED
    BY <2>1, NetworkAssumption DEF NetInit, NetTypeOK, Endpoints
<1>2. ServerTypeOK
  <2>1. ZeroPacket \in StoredPackets /\ NoReceipt \in Receipts
    BY BareServerPacket, PacketAssumption
       DEF ZeroPacket, NoReceipt, Receipts, Flags, SeqNums
  <2>2. <<>> \in Seq(Ports)
    BY EmptySeq
  <2>3. /\ pc \in Places /\ ret \in Returns
        /\ curr \in {0} \cup Ports /\ rx \in {0} \cup Ports
        /\ readfds \subseteq {Main} \cup Ports
        /\ conns \in Seq(Ports)
        /\ game \in Games
        /\ payload \in Games \cup {NoPayload}
    BY <2>2, ResetGameType DEF ServerInit, Places, Returns
  <2>4. /\ addr \in [Ports -> Clients \cup {NoAddr}]
        /\ s_packet \in [Ports -> StoredPackets]
        /\ r_packet \in [Ports -> Receipts]
    BY <2>1 DEF ServerInit
  <2>5. applied \in [Ports -> 0 .. MaxTurns]
    BY PacketAssumption DEF ServerInit
  <2>6. /\ do_broadcast \in BOOLEAN /\ do_unicast \in BOOLEAN 
        /\ signalled \in {"no", "unseen", "EINTR"}
    BY DEF ServerInit
  <2> QED
    BY <2>3, <2>4, <2>5, <2>6 DEF ServerTypeOK
<1>3. ClientTypeOK
  <2>1. Bare("SYN", MAX_SEQ) \in ClientPackets
    BY BareClientPacket, PacketAssumption DEF SeqNums
  <2> QED
    BY <2>1, ResetGameType, PacketAssumption, ClientAssumption
       DEF ClientInit, ClientTypeOK, ClientPlaces, SeqNums
<1>4. ServerInv
  <2>1. conns = <<>> /\ Len(conns) = 0 /\ DOMAIN conns = {} /\ Seated = {}
    BY EmptySeq DEF ServerInit, Seated, ToSet
  <2>2. bound \cap ({Main} \cup Ports) = ServerSockets
    BY <2>1 DEF NetInit, ServerSockets, Seated
  <2> QED
    BY <2>1, <2>2, ServerAssumption DEF ServerInit, ServerInv, ListOK, SocketsOK,
       PointersOK, BroadcastOK, AcceptOK, IsInjective
<1> QED
  BY <1>1, <1>2, <1>3, <1>4 DEF IInv, TypeOK

\* A client's step, or a fault on a buffer that select has not reported, does
\* not disturb the server.
LEMMA ServerUndisturbed ==
    ASSUME IInv, UNCHANGED serverVars, NetTypeOK',
           bound' \cap ({Main} \cup Ports) = bound \cap ({Main} \cup Ports),
           Main \in readfds => Keeps(net, net', Main)
    PROVE  ServerTypeOK' /\ ServerInv'
<1>1. ServerTypeOK'
  BY DEF IInv, TypeOK, ServerTypeOK, serverVars
<1>2. ServerInv'
  BY DEF IInv, ServerInv, ListOK, SocketsOK, PointersOK, BroadcastOK, AcceptOK,
         Stopped, ServerSockets, Seated, serverVars, Keeps
<1> QED
  BY <1>1, <1>2

\* Every step keeps the inductive invariant.
LEMMA StepSafe == IInv /\ [Next]_vars => IInv'
<1> SUFFICES ASSUME IInv, [Next]_vars PROVE IInv'
  OBVIOUS
<1>1. CASE ServerStep /\ UNCHANGED clientVars
  <2>1. Safe'
    BY <1>1, ServerStepSafe DEF IInv, TypeOK, Safe
  <2> QED
    BY <1>1, <2>1 DEF IInv, TypeOK, Safe, clientVars, ClientTypeOK
<1>2. CASE ServerSignal /\ SvSignal /\ UNCHANGED clientVars
  <2>1. Safe'
    BY <1>2, ServerStepSafe DEF IInv, TypeOK, Safe
  <2> QED
    BY <1>2, <2>1 DEF IInv, TypeOK, Safe, clientVars, ClientTypeOK
<1>3. ASSUME NEW c \in Clients, ClientStep(c), UNCHANGED serverVars
      PROVE  IInv'
  <2>1. ClientTypeOK' /\ ClientNet(c)
    BY <1>3, ConnectType, ClientRecvType, TakeTurnType, TimeoutResendType, GiveUpType,
       SignalType DEF ClientStep, Timer, IInv, TypeOK
  <2>2. c \notin {Main} \cup Ports /\ Main \in Endpoints \ {c}
    BY EndpointKinds DEF Endpoints
  <2>3. bound' \cap ({Main} \cup Ports) = bound \cap ({Main} \cup Ports)
    BY <2>1, <2>2 DEF ClientNet
  <2>4. NetTypeOK' /\ Keeps(net, net', Main)
    BY <2>1, <2>2 DEF ClientNet
  <2> QED
    BY <1>3, <2>1, <2>3, <2>4, ServerUndisturbed DEF IInv, TypeOK
<1>4. ASSUME NEW e \in Endpoints \ readfds, NetworkFault(e),
             UNCHANGED <<serverVars, clientVars>>
      PROVE  IInv'
  <2>1. /\ NetTypeOK' /\ bound' = bound
        /\ \A o \in Endpoints \ {e} : net'[o] = net[o]
    BY <1>4, FaultBuffers DEF IInv, TypeOK
  <2>2. Main \in readfds => Keeps(net, net', Main)
    BY <2>1 DEF Keeps, Endpoints
  <2>3. ServerTypeOK' /\ ServerInv'
    BY <1>4, <2>1, <2>2, ServerUndisturbed
  <2> QED
    BY <1>4, <2>1, <2>3 DEF IInv, TypeOK, clientVars, ClientTypeOK
<1>5. CASE UNCHANGED vars
  BY <1>5 DEF IInv, TypeOK, vars, netVars, serverVars, clientVars, NetTypeOK,
     ServerTypeOK, ClientTypeOK, ServerInv, ListOK, SocketsOK, PointersOK,
     BroadcastOK, AcceptOK, Stopped, ServerSockets, Seated
<1> QED
  BY <1>1, <1>2, <1>3, <1>4, <1>5 DEF Next

\* The inductive invariant holds in every reachable state.
THEOREM Inductive == Spec => []IInv
BY InitSafe, StepSafe, PTL DEF Spec

\* Every variable keeps its type: no packet of a wrong kind waits anywhere, no
\* sequence number leaves its byte, and no board is malformed.
THEOREM TypeCorrect == Spec => []TypeOK
<1>1. IInv => TypeOK
  BY DEF IInv
<1> QED
  BY <1>1, Inductive, PTL

\* The client list has no double entries and never more than MAX_CLIENTS, and
\* as long as the server runs its open sockets are the listening one and one
\* per entry (connect_client and remove_client of server-util.c).
THEOREM SocketsMatchList == Spec => []ListMatchesSockets
<1>1. IInv => ListMatchesSockets
  BY DEF IInv, ServerInv, ListOK, SocketsOK, ListMatchesSockets
<1> QED
  BY <1>1, Inductive, PTL

-----------------------------------------------------------------------------
(* A signal that ended a wait ends the server.                             *)

\* Where the server can be once errno is EINTR: on a way out that no call
\* blocks, and past the last client of a broadcast.
WayOut ==
    Interrupted => /\ pc \notin {"select", "accept", "recv"}
                   /\ pc = "bcast" => curr = 0

\* No step of the server waits again, or starts a broadcast, after that.
LEMMA WayOutStep == TypeOK /\ WayOut /\ [Next]_vars => WayOut'
<1> SUFFICES ASSUME TypeOK, WayOut, [Next]_vars PROVE WayOut'
  OBVIOUS
<1> USE DEF WayOut, Interrupted
<1>1. ret \in Returns
  BY DEF TypeOK, ServerTypeOK
<1>2. CASE Select \/ SvAccept \/ SvDeny \/ AfterReceipt \/ EndLoop
  BY <1>2 DEF Select, SvAccept, SvDeny, AfterReceipt, EndLoop, Goto, Exit, RecvFrom
<1>3. CASE SvReceive
  BY <1>1, <1>3 DEF SvReceive, RecvDuplicate, RecvBadAck, RecvFinAck, RecvMove, RecvOther,
     Receives, Returns, Goto, Exit
<1>4. CASE HandleReceipt
  BY <1>4 DEF HandleReceipt, ReceiptRecv, ReceiptSkip, UseAfterFree, HandleUnicast,
     NoUnicast, WantsUnicast, Unicasted, NextClient, SvDisconnect, Goto, Exit, RecvFrom
<1>5. CASE HandleBroadcast
  BY <1>5 DEF HandleBroadcast, BroadcastStep, BroadcastNext, BroadcastEnd, Goto, RecvFrom
<1>6. CASE SvSignal
  BY <1>1, <1>6 DEF SvSignal, SignalInCall, SignalBetweenCalls, Returns, Goto, Exit
<1>7. CASE UNCHANGED serverVars
  BY <1>7 DEF serverVars
<1> QED
  BY <1>2, <1>3, <1>4, <1>5, <1>6, <1>7 DEF Next, ServerStep, vars

\* Once a signal has ended a call of the server, no other call blocks
\* (the tests of errno in server.c, from sv_comm_core down to sv_disconnect).
THEOREM SignalsStop == Spec => []StopsForGood
<1>1. Init => WayOut
  BY DEF Init, ServerInit, WayOut, Interrupted
<1>2. IInv => TypeOK
  BY DEF IInv
<1>3. WayOut => StopsForGood
  BY DEF WayOut, StopsForGood
<1> QED
  BY <1>1, <1>2, <1>3, WayOutStep, Inductive, PTL DEF Spec

-----------------------------------------------------------------------------
(* The server's board implements tick-tack-toe.                            *)

\* The first board is empty and X moves first.
LEMMA InitRefines == Init => T!Init
<1> SUFFICES ASSUME Init PROVE T!Init
  OBVIOUS
<1>1. game = [trackGame |-> [c \in Cells |-> Blank], turn |-> "X", cursor |-> Middle]
  BY DEF Init, ServerInit, ResetGame
<1> QED
  BY <1>1 DEF T!Init, T!EmptyBoard, T!Blank, Blank

\* A clearing of the table.
LEMMA ResetRefines == ASSUME game' = ResetGame PROVE T!NewGame
BY DEF ResetGame, T!NewGame, T!EmptyBoard, T!Blank, Blank

\* An input that sv_process applies marks one blank cell for the player whose
\* turn it is, or leaves board and turn alone.
LEMMA MoveRefines ==
    ASSUME IInv, RecvMove
    PROVE  T!Next \/ UNCHANGED T!gameVars
<1>1. /\ game \in Games
      /\ \E input \in Inputs :
            LET moved == [game EXCEPT !.cursor = input.cursor]
            IN  game' = IF input.btn THEN UpdateBoard(moved) ELSE moved
  <2>1. pc = "recv" /\ net[rx] # <<>> /\ HasPSH(Arrived.flags)
    BY DEF RecvMove, Receives, IsMove
  <2>2. Arrived \in ClientPackets
    BY <2>1, ReceiptFacts DEF IInv, TypeOK, Safe
  <2> QED
    BY <2>1, <2>2, ReadingsType DEF RecvMove, IInv, TypeOK, ServerTypeOK
<1>2. PICK input \in Inputs :
        LET moved == [game EXCEPT !.cursor = input.cursor]
        IN  game' = IF input.btn THEN UpdateBoard(moved) ELSE moved
  BY <1>1
<1> DEFINE moved == [game EXCEPT !.cursor = input.cursor]
<1>3. /\ moved.trackGame = game.trackGame /\ moved.turn = game.turn
      /\ moved.cursor = input.cursor
  BY <1>1 DEF Games
<1>4. game' = IF input.btn THEN UpdateBoard(moved) ELSE moved
  BY <1>2
<1>5. CASE input.btn /\ ValidateMove(moved)
  <2>1. game.trackGame[input.cursor] = Blank
    BY <1>3, <1>5 DEF ValidateMove
  <2>2. game' = [moved EXCEPT !.trackGame[moved.cursor] = moved.turn,
                              !.turn = Opponent(moved.turn)]
    BY <1>4, <1>5 DEF UpdateBoard
  <2>3. game'.trackGame = [game.trackGame EXCEPT ![input.cursor] = game.turn]
        /\ game'.turn = Opponent(game.turn)
    BY <1>1, <1>3, <2>2 DEF Games
  <2>4. T!Mark(input.cursor)
    BY <2>1, <2>3 DEF T!Mark, T!Blank, Blank, T!Opponent, Opponent
  <2> QED
    BY <2>4 DEF T!Next, Inputs
<1>6. CASE ~(input.btn /\ ValidateMove(moved))
  <2>1. game' = moved
    BY <1>4, <1>6 DEF UpdateBoard
  <2> QED
    BY <1>3, <2>1 DEF T!gameVars
<1> QED
  BY <1>5, <1>6

\* Every step of the system is a step of the game of tick-tack-toe, or none.
LEMMA StepRefines == IInv /\ [Next]_vars => [T!Next]_T!gameVars
<1> SUFFICES ASSUME IInv, [Next]_vars PROVE T!Next \/ UNCHANGED T!gameVars
  OBVIOUS
<1>1. CASE RecvMove
  BY <1>1, MoveRefines
<1>2. CASE EndLoop
  BY <1>2, ResetRefines DEF EndLoop, T!Next, T!gameVars
<1>3. CASE ~RecvMove /\ ~EndLoop
  <2>1. game' = game
    BY <1>3 DEF Next, vars, serverVars, ServerStep, SvReceive, HandleReceipt,
       HandleBroadcast, Select, SvAccept, SvDeny, AfterReceipt, RecvDuplicate, RecvBadAck,
       RecvFinAck, RecvOther, ReceiptRecv, ReceiptSkip, UseAfterFree, HandleUnicast,
       NoUnicast, Unicasted, NextClient, SvDisconnect, BroadcastStep, BroadcastNext,
       BroadcastEnd, SvSignal, SignalInCall, SignalBetweenCalls
  <2> QED
    BY <2>1 DEF T!gameVars
<1> QED
  BY <1>1, <1>2, <1>3

\* Whatever is lost, repeated, overtaken or resent too early, the marks on the
\* server's board alternate, start with X and are never changed, until the
\* table is cleared.
THEOREM PlaysTicTacToe == Spec => ImplementsTicTacToe
<1>1. Init => T!Init
  BY InitRefines
<1>2. IInv /\ [Next]_vars => [T!Next]_T!gameVars
  BY StepRefines
<1> QED
  BY <1>1, <1>2, Inductive, PTL DEF Spec, ImplementsTicTacToe, T!Spec

=============================================================================
