---------------------------- MODULE Network_proofs ----------------------------
(***************************************************************************)
(* Lemmas about the packets and the buffers of the network, and about the  *)
(* sequences the models keep.                                              *)
(***************************************************************************)
EXTENDS Network, SequenceTheorems, TLAPS

\* What NetTypeOK says of the buffers, for any value of them.
Buffers(n) ==
    /\ DOMAIN n = Endpoints
    /\ \A e \in Endpoints : n[e] \in Seq(DatagramsTo(e))

\* No datagram of a buffer is gone.
Keeps(n, m, e) == n[e] # <<>> => m[e] # <<>>

-----------------------------------------------------------------------------
(* Packets.                                                                *)

\* The number after a sequence number is one again: the sum wraps.
LEMMA NextSeqType ==
    ASSUME NEW s \in SeqNums
    PROVE  NextSeq(s) \in SeqNums
BY PacketAssumption DEF SeqNums, NextSeq

\* The packets of length 0 the client builds.
LEMMA BareClientPacket ==
    ASSUME NEW s \in SeqNums, NEW f \in {"SYN", "ACK", "FIN", "FIN/ACK"}
    PROVE  Bare(f, s) \in ClientPackets
BY DEF Bare, Packet, ClientPackets, HasPSH

\* The packets of length 0 the server builds or allocates.
LEMMA BareServerPacket ==
    ASSUME NEW s \in SeqNums, NEW f \in {"NONE", "ACK", "SYN/ACK", "FIN", "FIN/ACK"}
    PROVE  /\ Bare(f, s) \in ServerPackets
           /\ Bare(f, s) \in StoredPackets
BY DEF Bare, Packet, ServerPackets, StoredPackets, ServerFlags, Flags, HasPSH

\* The packets that carry a game.
LEMMA GamePacket ==
    ASSUME NEW s \in SeqNums, NEW f \in ServerFlags, NEW g \in Games
    PROVE  /\ Packet(f, s, g) \in ServerPackets
           /\ Packet(f, s, g) \in StoredPackets
<1>1. g # NoPayload
  BY PayloadAssumption
<1> QED
  BY <1>1 DEF Packet, ServerPackets, StoredPackets

\* A stored packet can be sent again unless its payload was freed.
LEMMA StoredIsSendable ==
    ASSUME NEW pkt \in StoredPackets, pkt.payload # Freed
    PROVE  pkt \in ServerPackets
BY DEF StoredPackets, ServerPackets

\* Freeing the payload of a stored packet leaves a stored packet.
LEMMA FreedIsStored ==
    ASSUME NEW pkt \in StoredPackets
    PROVE  FreePayload(pkt) \in StoredPackets
<1>1. pkt \in [flags : ServerFlags, seq : SeqNums, payload : Games \cup {NoPayload, Freed}]
  BY DEF StoredPackets
<1>2. CASE pkt.payload = NoPayload
  BY <1>2 DEF FreePayload
<1>3. CASE pkt.payload # NoPayload
  BY <1>1, <1>3, PayloadAssumption DEF FreePayload, StoredPackets
<1> QED
  BY <1>2, <1>3

\* The same of a client's packet.
LEMMA FreedClientPacket ==
    ASSUME NEW pkt \in ClientPackets
    PROVE  FreePayload(pkt) \in ClientPackets
<1>1. pkt \in [flags : {"SYN", "ACK", "PSH", "FIN", "FIN/ACK"}, seq : SeqNums,
              payload : Inputs \cup {NoPayload, Freed}]
  BY DEF ClientPackets
<1>2. CASE pkt.payload = NoPayload
  BY <1>2 DEF FreePayload
<1>3. CASE pkt.payload # NoPayload
  BY <1>1, <1>3, PayloadAssumption DEF FreePayload, ClientPackets
<1> QED
  BY <1>2, <1>3

-----------------------------------------------------------------------------
(* The game.                                                               *)

\* The game before the first move, or after the table was cleared.
LEMMA ResetGameType == ResetGame \in Games
BY BoardAssumption DEF ResetGame, Games, Boards, Marks

\* A press of the button leaves a game.
LEMMA UpdateBoardType ==
    ASSUME NEW g \in Games
    PROVE  UpdateBoard(g) \in Games
BY DEF UpdateBoard, ValidateMove, Games, Boards, Marks, Opponent

\* The verdict of isGameOver leaves a game.
LEMMA JudgedType ==
    ASSUME NEW g \in Games
    PROVE  Judged(g) \in Games
<1>1. WinnerOf(g.trackGame) \in Marks \cup {Blank}
  BY DEF WinnerOf, Marks
<1> QED
  BY <1>1 DEF Judged, Games

-----------------------------------------------------------------------------
(* The buffers.                                                            *)

\* No endpoint is of two kinds.
LEMMA EndpointKinds ==
    /\ Main \notin Clients /\ NoAddr \notin Endpoints
    /\ Ports \cap Clients = {} /\ Main \notin Ports
BY NetworkAssumption DEF Main, Ports, NoAddr, Endpoints

\* Buffers stay buffers when a datagram of the right kind is sent.
LEMMA SentBuffers ==
    ASSUME NEW n, Buffers(n), bound \subseteq Endpoints, NEW from, NEW to, NEW pkt,
           to \in bound => Datagram(from, pkt) \in DatagramsTo(to)
    PROVE  /\ Buffers(Sent(n, from, to, pkt))
           /\ \A e \in Endpoints : Keeps(n, Sent(n, from, to, pkt), e)
<1>1. CASE to \in bound /\ Len(n[to]) < SockBuf
  <2> DEFINE d == Datagram(from, pkt)
  <2>1. to \in Endpoints /\ n[to] \in Seq(DatagramsTo(to)) /\ d \in DatagramsTo(to)
    BY <1>1 DEF Buffers
  <2>2. Append(n[to], d) \in Seq(DatagramsTo(to)) /\ Append(n[to], d) # <<>>
    BY <2>1, AppendProperties
  <2>3. Sent(n, from, to, pkt) = [n EXCEPT ![to] = Append(n[to], d)]
    BY <1>1 DEF Sent
  <2> QED
    BY <2>1, <2>2, <2>3 DEF Buffers, Keeps
<1>2. CASE ~(to \in bound /\ Len(n[to]) < SockBuf)
  BY <1>2 DEF Sent, Keeps
<1> QED
  BY <1>1, <1>2

\* Reading takes the first datagram of one buffer and leaves the others alone.
LEMMA TakenBuffers ==
    ASSUME Buffers(net), NEW e \in Endpoints, net[e] # <<>>
    PROVE  /\ Head(net[e]) \in DatagramsTo(e)
           /\ Buffers(Taken(e))
           /\ \A o \in Endpoints \ {e} : Taken(e)[o] = net[o]
<1>1. net[e] \in Seq(DatagramsTo(e))
  BY DEF Buffers
<1>2. Head(net[e]) \in DatagramsTo(e) /\ Tail(net[e]) \in Seq(DatagramsTo(e))
  BY <1>1, HeadTailProperties
<1> QED
  BY <1>2 DEF Buffers, Taken

\* Closing sockets empties their buffers and leaves the others alone.
LEMMA ClosedBuffers ==
    ASSUME NEW n, Buffers(n), NEW S
    PROVE  /\ Buffers(Closed(n, S))
           /\ \A o \in Endpoints \ S : Closed(n, S)[o] = n[o]
<1>1. \A e \in Endpoints : <<>> \in Seq(DatagramsTo(e))
  BY EmptySeq
<1> QED
  BY <1>1 DEF Buffers, Closed

\* The faults of the network change one buffer, and leave buffers.
LEMMA FaultBuffers ==
    ASSUME NetTypeOK, NEW e \in Endpoints, NetworkFault(e)
    PROVE  /\ NetTypeOK'
           /\ bound' = bound
           /\ \A o \in Endpoints \ {e} : net'[o] = net[o]
<1> DEFINE D == DatagramsTo(e)
<1>1. Buffers(net) /\ net[e] \in Seq(D) /\ Len(net[e]) \in Nat
  BY LenProperties DEF NetTypeOK, Buffers
<1>2. faults' \in 0 .. MaxFaults /\ bound' = bound
  BY NetworkAssumption DEF NetworkFault, Lose, Duplicate, Reorder, Fault, NetTypeOK
<1>3. CASE Lose(e)
  BY <1>1, <1>2, <1>3, TakenBuffers DEF Lose, NetTypeOK, Buffers
<1>4. CASE Duplicate(e)
  <2>1. Append(net[e], Head(net[e])) \in Seq(D)
    BY <1>1, <1>4, HeadTailProperties, AppendProperties DEF Duplicate
  <2> QED
    BY <1>2, <1>4, <2>1 DEF Duplicate, NetTypeOK
<1>5. CASE Reorder(e)
  <2> DEFINE s == net[e]
             t == <<s[2], s[1]>>
             u == SubSeq(s, 3, Len(s))
  <2>1. s[1] \in D /\ s[2] \in D
    BY <1>1, <1>5, ElementOfSeq DEF Reorder
  <2>2. t \in Seq(D)
    BY <2>1
  <2>3. u \in Seq(D)
    <3>1. \A i \in 3 .. Len(s) : s[i] \in D
      BY <1>1, ElementOfSeq
    <3> QED
      BY <1>1, <3>1, SubSeqProperties
  <2>4. t \o u \in Seq(D)
    BY <2>2, <2>3, ConcatProperties
  <2>5. net' = [net EXCEPT ![e] = t \o u]
    BY <1>5 DEF Reorder
  <2> QED
    BY <1>2, <2>4, <2>5 DEF NetTypeOK
<1> QED
  BY <1>3, <1>4, <1>5 DEF NetworkFault

-----------------------------------------------------------------------------
(* Sequences without repetitions.                                          *)

\* A new element at the end.
LEMMA AppendNew ==
    ASSUME NEW S, NEW s \in Seq(S), IsInjective(s), NEW x \in S, x \notin ToSet(s)
    PROVE  /\ Append(s, x) \in Seq(S)
           /\ Len(Append(s, x)) = Len(s) + 1
           /\ ToSet(Append(s, x)) = ToSet(s) \cup {x}
           /\ IsInjective(Append(s, x))
<1> DEFINE t == Append(s, x)
<1>1. /\ t \in Seq(S) /\ Len(t) = Len(s) + 1 /\ Len(s) \in Nat
      /\ \A i \in 1 .. Len(s) : t[i] = s[i]
      /\ t[Len(s) + 1] = x
  BY AppendProperties, LenProperties
<1>2. DOMAIN t = 1 .. Len(s) + 1 /\ DOMAIN s = 1 .. Len(s)
  BY <1>1, LenProperties
<1> HIDE DEF t
<1>3. ToSet(t) = ToSet(s) \cup {x}
  BY <1>1, <1>2 DEF ToSet
<1>4. IsInjective(t)
  BY <1>1, <1>2 DEF IsInjective, ToSet
<1> QED
  BY <1>1, <1>3, <1>4 DEF t

\* An element less.
LEMMA RemoveOne ==
    ASSUME NEW S, NEW s \in Seq(S), IsInjective(s), NEW k \in 1 .. Len(s)
    PROVE  /\ RemoveAt(s, k) \in Seq(S)
           /\ Len(RemoveAt(s, k)) = Len(s) - 1
           /\ ToSet(RemoveAt(s, k)) = ToSet(s) \ {s[k]}
           /\ IsInjective(RemoveAt(s, k))
<1> DEFINE u == SubSeq(s, 1, k - 1)
           v == SubSeq(s, k + 1, Len(s))
           t == RemoveAt(s, k)
<1>1. Len(s) \in Nat /\ DOMAIN s = 1 .. Len(s) /\ \A i \in 1 .. Len(s) : s[i] \in S
  BY LenProperties, ElementOfSeq
<1>2. /\ u \in Seq(S) /\ Len(u) = k - 1
      /\ \A i \in 1 .. k - 1 : u[i] = s[i]
  BY <1>1, SubSeqProperties
<1>3. /\ v \in Seq(S) /\ Len(v) = Len(s) - k
      /\ \A i \in 1 .. Len(s) - k : v[i] = s[k + i]
  <2>1. k + 1 \in Int /\ Len(s) \in Int /\ \A i \in k + 1 .. Len(s) : s[i] \in S
    BY <1>1
  <2>2. /\ v \in Seq(S)
        /\ Len(v) = IF k + 1 <= Len(s) THEN Len(s) - (k + 1) + 1 ELSE 0
        /\ \A i \in 1 .. Len(s) - (k + 1) + 1 : v[i] = s[(k + 1) + i - 1]
    BY <2>1, SubSeqProperties
  <2> HIDE DEF v
  <2>3. Len(v) = Len(s) - k
    <3>1. Len(v) = IF k + 1 <= Len(s) THEN Len(s) - (k + 1) + 1 ELSE 0
      BY <2>2
    <3>2. Len(s) \in Int /\ k \in Int /\ 1 <= k /\ k <= Len(s)
      BY <1>1
    <3>3. CASE k < Len(s)
      BY <3>1, <3>2, <3>3
    <3>4. CASE k = Len(s)
      BY <3>1, <3>2, <3>4
    <3> QED
      BY <3>2, <3>3, <3>4
  <2>4. ASSUME NEW i \in 1 .. Len(s) - k
        PROVE  v[i] = s[k + i]
    <3>1. i \in 1 .. Len(s) - (k + 1) + 1 /\ (k + 1) + i - 1 = k + i
      BY <1>1
    <3> QED
      BY <2>2, <3>1
  <2> QED
    BY <2>2, <2>3, <2>4
<1>4. t = u \o v
  BY DEF RemoveAt
<1> HIDE DEF u, v, t
<1>5. /\ t \in Seq(S) /\ Len(t) = Len(s) - 1
      /\ \A i \in 1 .. Len(s) - 1 : t[i] = IF i < k THEN s[i] ELSE s[i + 1]
  <2>1. /\ t \in Seq(S) /\ Len(t) = Len(u) + Len(v)
        /\ \A i \in 1 .. Len(u) + Len(v) :
              t[i] = IF i <= Len(u) THEN u[i] ELSE v[i - Len(u)]
    BY <1>2, <1>3, <1>4, ConcatProperties
  <2>2. ASSUME NEW i \in 1 .. Len(s) - 1
        PROVE  t[i] = IF i < k THEN s[i] ELSE s[i + 1]
    <3>0. i \in 1 .. Len(u) + Len(v) /\ (i <= Len(u) <=> i < k)
      BY <1>1, <1>2, <1>3
    <3>1. CASE i < k
      <4>1. t[i] = u[i] /\ i \in 1 .. k - 1
        BY <1>1, <2>1, <3>0, <3>1
      <4> QED
        BY <1>2, <3>1, <4>1
    <3>2. CASE ~(i < k)
      <4>1. i - Len(u) \in 1 .. Len(s) - k /\ k + (i - Len(u)) = i + 1
        BY <1>1, <1>2, <3>2
      <4>2. t[i] = v[i - Len(u)]
        BY <2>1, <3>0, <3>2
      <4> QED
        BY <1>3, <3>2, <4>1, <4>2
    <3> QED
      BY <3>1, <3>2
  <2> QED
    BY <1>1, <1>2, <1>3, <2>1, <2>2
<1>6. DOMAIN t = 1 .. Len(s) - 1
  BY <1>5, LenProperties
<1>7. IsInjective(t)
  BY <1>1, <1>5, <1>6 DEF IsInjective
<1>8. ToSet(t) = ToSet(s) \ {s[k]}
  <2>1. ASSUME NEW i \in 1 .. Len(s) - 1
        PROVE  \E j \in 1 .. Len(s) : j # k /\ t[i] = s[j]
    <3>1. CASE i < k
      BY <1>1, <1>5, <3>1
    <3>2. CASE ~(i < k)
      BY <1>1, <1>5, <3>2
    <3> QED
      BY <3>1, <3>2
  <2>2. ASSUME NEW j \in 1 .. Len(s), j # k
        PROVE  \E i \in 1 .. Len(s) - 1 : t[i] = s[j]
    <3>1. CASE j < k
      BY <1>1, <1>5, <3>1
    <3>2. CASE ~(j < k)
      <4>1. j - 1 \in 1 .. Len(s) - 1 /\ ~(j - 1 < k) /\ (j - 1) + 1 = j
        BY <1>1, <2>2, <3>2
      <4> QED
        BY <1>5, <4>1
    <3> QED
      BY <3>1, <3>2
  <2>3. \A i, j \in 1 .. Len(s) : s[i] = s[j] => i = j
    BY <1>1 DEF IsInjective
  <2>4. ToSet(t) = {t[i] : i \in 1 .. Len(s) - 1} /\ ToSet(s) = {s[j] : j \in 1 .. Len(s)}
    BY <1>1, <1>6 DEF ToSet
  <2>5. \A i \in 1 .. Len(s) - 1 : t[i] \in ToSet(s) \ {s[k]}
    BY <2>1, <2>3, <2>4
  <2>6. \A x \in ToSet(s) \ {s[k]} : x \in ToSet(t)
    BY <2>2, <2>4
  <2> QED
    BY <2>4, <2>5, <2>6
<1> QED
  BY <1>5, <1>7, <1>8 DEF t

=============================================================================
