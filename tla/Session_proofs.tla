---------------------------- MODULE Session_proofs ----------------------------
(***************************************************************************)
(* What a session guarantees when the network delivers everything and      *)
(* timers expire only when nothing is on its way: SessionInv is inductive, *)
(* for every number of clients, every board and every number of turns.     *)
(***************************************************************************)
EXTENDS Session, System_proofs

-----------------------------------------------------------------------------
(* Short queues.                                                           *)

\* AppendProperties for explicit tuples.
LEMMA AppendTwo ==
    ASSUME NEW a, NEW b
    PROVE  Append(<<a>>, b) = <<a, b>>
<1> DEFINE S == {a, b}
           s == <<a>>
           t == <<a, b>>
           u == Append(s, b)
<1>0. s \in Seq(S) /\ b \in S
  OBVIOUS
<1>1. Len(s) = 1 /\ s[1] = a
  OBVIOUS
<1>2. t \in Seq(S) /\ Len(t) = 2 /\ t[1] = a /\ t[2] = b
  OBVIOUS
<1> HIDE DEF S, s, t
<1>3. /\ u \in Seq(S) /\ Len(u) = Len(s) + 1
      /\ \A i \in 1 .. Len(s) : u[i] = s[i]
      /\ u[Len(s) + 1] = b
  BY <1>0, AppendProperties
<1> HIDE DEF u
<1>4. \A i \in 1 .. Len(u) : u[i] = t[i]
  BY <1>1, <1>2, <1>3
<1>5. u = t
  BY <1>1, <1>2, <1>3, <1>4, SeqEqual
<1> QED
  BY <1>5 DEF u, s, t

LEMMA AppendThree ==
    ASSUME NEW a, NEW b, NEW d
    PROVE  Append(<<a, b>>, d) = <<a, b, d>>
<1> DEFINE S == {a, b, d}
           s == <<a, b>>
           t == <<a, b, d>>
           u == Append(s, d)
<1>0. s \in Seq(S) /\ d \in S
  OBVIOUS
<1>1. Len(s) = 2 /\ s[1] = a /\ s[2] = b
  OBVIOUS
<1>2. t \in Seq(S) /\ Len(t) = 3 /\ t[1] = a /\ t[2] = b /\ t[3] = d
  OBVIOUS
<1> HIDE DEF S, s, t
<1>3. /\ u \in Seq(S) /\ Len(u) = Len(s) + 1
      /\ \A i \in 1 .. Len(s) : u[i] = s[i]
      /\ u[Len(s) + 1] = d
  BY <1>0, AppendProperties
<1> HIDE DEF u
<1>4. \A i \in 1 .. Len(u) : u[i] = t[i]
  BY <1>1, <1>2, <1>3
<1>5. u = t
  BY <1>1, <1>2, <1>3, <1>4, SeqEqual
<1> QED
  BY <1>5 DEF u, s, t

LEMMA Queues ==
    ASSUME NEW a, NEW b, NEW d
    PROVE  /\ <<a>> # <<>> /\ Head(<<a>>) = a /\ Tail(<<a>>) = <<>>
           /\ <<a, b>> # <<>> /\ Head(<<a, b>>) = a /\ Tail(<<a, b>>) = <<b>>
           /\ <<a, b, d>> # <<>> /\ Head(<<a, b, d>>) = a /\ Tail(<<a, b, d>>) = <<b, d>>
           /\ Append(<<>>, a) = <<a>> /\ Append(<<a>>, b) = <<a, b>>
           /\ Append(<<a, b>>, d) = <<a, b, d>>
           /\ Len(<<>>) = 0 /\ Len(<<a>>) = 1 /\ Len(<<a, b>>) = 2 /\ Len(<<a, b, d>>) = 3
<1>1. /\ <<a>> # <<>> /\ Head(<<a>>) = a /\ Tail(<<a>>) = <<>>
      /\ <<a, b>> # <<>> /\ Head(<<a, b>>) = a /\ Tail(<<a, b>>) = <<b>>
      /\ <<a, b, d>> # <<>> /\ Head(<<a, b, d>>) = a /\ Tail(<<a, b, d>>) = <<b, d>>
  OBVIOUS
<1>2. /\ Append(<<>>, a) = <<a>>
      /\ Len(<<>>) = 0 /\ Len(<<a>>) = 1 /\ Len(<<a, b>>) = 2 /\ Len(<<a, b, d>>) = 3
  OBVIOUS
<1> QED
  BY <1>1, <1>2, AppendTwo, AppendThree

\* A queue of one datagram at most, and of two.
One(q) == q = <<>> \/ \E x : q = <<x>>
Two(q) == One(q) \/ \E x, y : q = <<x, y>>

LEMMA ShortQueues ==
    ASSUME NEW q
    PROVE  /\ One(<<>>)
           /\ One(q) => Two(q)
           /\ Two(q) /\ SockBuf \in Nat /\ SockBuf >= 3 => Len(q) < SockBuf
<1>1. ASSUME NEW x, NEW y, q = <<x, y>> \/ q = <<x>> \/ q = <<>>, SockBuf \in Nat, SockBuf >= 3
      PROVE  Len(q) < SockBuf
  <2>1. PICK l : l = Len(q)
    OBVIOUS
  <2>2. l = 0 \/ l = 1 \/ l = 2
    BY <1>1, <2>1, Queues
  <2>3. l < SockBuf
    BY <1>1, <2>2
  <2> QED
    BY <2>1, <2>3
<1> QED
  BY <1>1 DEF One, Two

LEMMA LongerQueue ==
    ASSUME NEW q, One(q), NEW a
    PROVE  Two(Append(q, a))
<1>1. CASE q = <<>>
  BY <1>1, Queues DEF One, Two
<1>2. ASSUME NEW x, q = <<x>>
      PROVE  Two(Append(q, a))
  <2>1. Append(q, a) = <<x, a>>
    BY <1>2, Queues
  <2> QED
    BY <2>1 DEF Two
<1> QED
  BY <1>1, <1>2 DEF One

-----------------------------------------------------------------------------
(* What a step leaves alone.                                               *)

\* Nothing changed between p and its client.
SameLink(p) ==
    /\ addr'[p] = addr[p]
    /\ net'[p] = net[p] /\ net'[addr[p]] = net[addr[p]]
    /\ cpc'[addr[p]] = cpc[addr[p]] /\ cs_packet'[addr[p]] = cs_packet[addr[p]]
    /\ cr_seq'[addr[p]] = cr_seq[addr[p]] /\ view'[addr[p]] = view[addr[p]]
    /\ peer'[addr[p]] = peer[addr[p]] /\ running'[addr[p]] = running[addr[p]]
    /\ tv_sec'[addr[p]] = tv_sec[addr[p]] /\ num_to'[addr[p]] = num_to[addr[p]]

\* Nothing changed in what the server keeps of p, but for freed bytes.
SameRecord(p) ==
    /\ s_packet'[p].flags = s_packet[p].flags /\ s_packet'[p].seq = s_packet[p].seq
    /\ r_packet'[p] = r_packet[p]

\* The phases that do not depend on the game.
KeepsPlain(p) ==
    /\ Nudged(p) => Nudged(p)'
    /\ Waiting(p) => Waiting(p)'
    /\ Reminds(p) => Reminds(p)'
    /\ HasMoved(p) => HasMoved(p)'
    /\ Leaves(p) => Leaves(p)'
    /\ Waves(p) => Waves(p)'
    /\ Parts(p) => Parts(p)'
    /\ Prods(p) => Prods(p)'
    /\ Joins(p) => Joins(p)'

\* The phases that do.
KeepsGame(p) ==
    /\ Informed(p) => Informed(p)'
    /\ InformedLate(p) => InformedLate(p)'
    /\ Plays(p) => Plays(p)'

LEMMA PlainFrame ==
    ASSUME NEW p, SameLink(p), SameRecord(p)
    PROVE  KeepsPlain(p)
<1> USE DEF SameLink, SameRecord, Stays, From, To, Heard
<1>1. /\ Nudged(p) => Nudged(p)'
      /\ Waiting(p) => Waiting(p)'
      /\ Reminds(p) => Reminds(p)'
  BY DEF Nudged, Waiting, Reminds, Unhurried
<1>2. HasMoved(p) => HasMoved(p)'
  BY DEF HasMoved, Moved
<1>3. Leaves(p) => Leaves(p)'
  BY DEF Leaves, Left
<1>4. Waves(p) => Waves(p)'
  BY DEF Waves
<1>5. Parts(p) => Parts(p)'
  BY DEF Parts, Parting
<1>6. Prods(p) => Prods(p)'
  BY DEF Prods, Prodded, Unhurried
<1>7. Joins(p) => Joins(p)'
  BY DEF Joins, Joining, Unhurried
<1> QED
  BY <1>1, <1>2, <1>3, <1>4, <1>5, <1>6, <1>7 DEF KeepsPlain

LEMMA GameFrame ==
    ASSUME NEW p, SameLink(p), SameRecord(p), game' = game
    PROVE  KeepsGame(p)
<1> USE DEF SameLink, SameRecord, Stays, From, To, Heard, HasTurn, Left, Answered,
            OnItsWay, Offered, Told, Unhurried, Over
<1>1. Informed(p) => Informed(p)'
  BY DEF Informed
<1>2. InformedLate(p) => InformedLate(p)'
  BY DEF InformedLate
<1>3. Plays(p) => Plays(p)'
  BY DEF Plays
<1> QED
  BY <1>1, <1>2, <1>3 DEF KeepsGame

-----------------------------------------------------------------------------
(* Sending and reading.                                                    *)

\* A datagram for an open socket with room is put behind the others.
LEMMA SentTo ==
    ASSUME NEW buf, DOMAIN buf = Endpoints, NEW from, NEW to \in Endpoints, NEW pkt,
           to \in bound, Len(buf[to]) < SockBuf
    PROVE  /\ DOMAIN Sent(buf, from, to, pkt) = Endpoints
           /\ Sent(buf, from, to, pkt)[to] = Append(buf[to], Datagram(from, pkt))
           /\ \A e \in Endpoints \ {to} : Sent(buf, from, to, pkt)[e] = buf[e]
BY DEF Sent

LEMMA FirstSent ==
    ASSUME NEW buf, NEW from, NEW to \in Endpoints, NEW pkt,
           to \in bound, buf[to] = <<>>, SockBuf \in Nat, SockBuf >= 3
    PROVE  Sent(buf, from, to, pkt) = [buf EXCEPT ![to] = <<Datagram(from, pkt)>>]
<1>1. PICK x : x = Datagram(from, pkt)
  OBVIOUS
<1>2. Len(buf[to]) < SockBuf
  BY ShortQueues
<1>3. Append(buf[to], x) = <<x>>
  BY Queues
<1> QED
  BY <1>1, <1>2, <1>3 DEF Sent

\* A datagram for a socket that is not open changes nothing.
LEMMA SentNowhere ==
    ASSUME NEW buf, NEW from, NEW to, NEW pkt, to \notin bound
    PROVE  Sent(buf, from, to, pkt) = buf
BY DEF Sent

LEMMA TakenFrom ==
    ASSUME NetTypeOK, NEW e \in Endpoints
    PROVE  /\ DOMAIN Taken(e) = Endpoints
           /\ Taken(e)[e] = Tail(net[e])
           /\ \A o \in Endpoints \ {e} : Taken(e)[o] = net[o]
BY DEF NetTypeOK, Taken

-----------------------------------------------------------------------------
(* The steps of a client other than its timer's.                           *)

ProperStep(c) == Connect(c) \/ ClientRecv(c) \/ TakeTurn(c)

\* The client at p has its socket open, and so has the server its own.
Linked(p) ==
    /\ p \in Ports /\ addr[p] \in Clients
    /\ p \in bound /\ addr[p] \in bound
    /\ TypeOK /\ Undisturbed

LEMMA LinkFacts ==
    ASSUME NEW p, Linked(p)
    PROVE  /\ p \in Endpoints /\ addr[p] \in Endpoints /\ addr[p] # p
           /\ DOMAIN net = Endpoints
           /\ SockBuf \in Nat /\ SockBuf >= 3
BY EndpointKinds, NetworkAssumption
   DEF Linked, Endpoints, TypeOK, NetTypeOK, Undisturbed

\* A client with nothing to read waits.
LEMMA StillClient ==
    ASSUME NEW c \in Clients, net[c] = <<>>, cpc[c] \notin {"start", "turn"}, ProperStep(c)
    PROVE  FALSE
BY DEF ProperStep, Connect, ClientRecv, TakeTurn, RecvSynAck, RecvGame, RecvAck,
       RecvDisconnectAck, RecvFin, RecvLastFin, RecvUnexpected, Gets

\* A client in a wait does what the head of its queue makes it do.
LEMMA WaitingClient ==
    ASSUME NEW c \in Clients, cpc[c] \in Waits, ProperStep(c)
    PROVE  /\ net[c] # <<>>
           /\ IF Accepts(c, Incoming(c))
              THEN \/ cpc[c] = "w_synack" /\ RecvSynAck(c)
                   \/ cpc[c] = "w_game" /\ RecvGame(c)
                   \/ cpc[c] = "w_ack" /\ RecvAck(c)
                   \/ cpc[c] = "w_finack" /\ RecvDisconnectAck(c)
                   \/ cpc[c] = "w_fin" /\ RecvFin(c)
                   \/ cpc[c] = "w_linger" /\ RecvLastFin(c)
              ELSE RecvUnexpected(c)
<1>1. ClientRecv(c)
  BY DEF ProperStep, Connect, TakeTurn, Waits
<1> QED
  BY <1>1 DEF ClientRecv, RecvSynAck, RecvGame, RecvAck,
       RecvDisconnectAck, RecvFin, RecvLastFin, RecvUnexpected, Gets

\* The game arrives: the client acknowledges it and takes its turn, waits on or
\* leaves.
LEMMA GameArrives ==
    ASSUME NEW p, Linked(p), addr' = addr, ProperStep(addr[p]),
           NEW q, One(q), NEW k \in SeqNums, NEW f, HasPSH(f), NEW g \in Games,
           cpc[addr[p]] = "w_game", OnItsWay(p, q, k, f, g)
    PROVE  Offered(p, q, k, f, g)'
<1> DEFINE c == addr[p]
           d == To(p, Packet(f, k, g))
           rest == Taken(c)
<1>1. /\ c \in Clients /\ p \in Endpoints /\ c \in Endpoints /\ c # p
      /\ c \in bound /\ p \in bound /\ NetTypeOK /\ ClientTypeOK
      /\ SockBuf \in Nat /\ SockBuf >= 3
  BY LinkFacts DEF Linked, TypeOK
<1>2. /\ net[p] = q /\ net[c] = <<d>> /\ running[c] /\ cpc[c] = "w_game"
      /\ NextSeq(cs_packet[c].seq) = k
  BY DEF OnItsWay
<1>3. Head(net[c]) = d /\ Tail(net[c]) = <<>> /\ net[c] # <<>>
  BY <1>2
<1>4. Incoming(c) = Packet(f, k, g) /\ Sender(c) = p
  BY <1>3 DEF Incoming, Sender, To, Datagram
<1>5. Accepts(c, Incoming(c))
  BY <1>2, <1>4 DEF Accepts, AwaitedSeq, FlagSet, Packet, HasPSH
<1>6. RecvGame(c)
  BY <1>1, <1>2, <1>5, WaitingClient DEF Waits
<1>7. DOMAIN rest = Endpoints /\ rest[c] = <<>> /\ rest[p] = q
  BY <1>1, <1>2, <1>3, TakenFrom
<1> DEFINE over == IsGameOver(g.trackGame)
           ack == Ack(k)
           n == Sent(rest, c, p, ack)
<1>8. /\ n = Sent(rest, c, p, ack)
      /\ DOMAIN n = Endpoints /\ n[p] = Append(q, Datagram(c, ack)) /\ n[c] = <<>>
  <2> HIDE DEF rest, ack
  <2>1. Len(rest[p]) < SockBuf
    BY <1>1, <1>7, ShortQueues
  <2> QED
    BY <1>1, <1>7, <2>1 DEF Sent
<1>9. /\ cr_seq' = [cr_seq EXCEPT ![c] = k]
      /\ view' = [view EXCEPT ![c] = Judged(g)]
      /\ peer' = [peer EXCEPT ![c] = p]
      /\ running' = [running EXCEPT ![c] = @ /\ ~over]
  BY <1>4, <1>6 DEF RecvGame, Gets, Packet
<1>10. IF over \/ ~(running[c] \/ HasTRN(f))
       THEN Leave(c, n, p)
       ELSE SendThen(c, rest, p, ack, IF HasTRN(f) THEN "turn" ELSE "w_game")
  BY <1>4, <1>6 DEF RecvGame, Packet, Ack
<1> HIDE DEF rest, d, n, ack
<1>11. CASE over
  <2>1. SendThen(c, n, p, Fin, "w_finack")
    BY <1>10, <1>11 DEF Leave, Fin
  <2>2. Len(n[p]) < SockBuf
    <3>1. Two(n[p])
      BY <1>8, LongerQueue
    <3> QED
      BY <1>1, <3>1, ShortQueues
  <2>3. net' = Sent(n, c, p, Fin) /\ cpc'[c] = "w_finack" /\ cs_packet'[c] = Fin
    BY <1>1, <2>1 DEF SendThen, ClientTypeOK
  <2>4. net'[p] = Append(n[p], Datagram(c, Fin)) /\ net'[c] = <<>>
    <3>1. /\ DOMAIN n = Endpoints /\ p \in Endpoints /\ p \in bound /\ Len(n[p]) < SockBuf
          /\ c \in Endpoints \ {p} /\ n[c] = <<>>
      BY <1>1, <1>8, <2>2
    <3>2. /\ Sent(n, c, p, Fin)[p] = Append(n[p], Datagram(c, Fin))
          /\ \A e \in Endpoints \ {p} : Sent(n, c, p, Fin)[e] = n[e]
      BY <3>1, SentTo
    <3> QED
      BY <2>3, <3>1, <3>2
  <2>5. Left(p, Append(q, From(p, Ack(k))))'
    BY <1>8, <2>3, <2>4 DEF Left, Stays, From, ack
  <2> QED
    BY <1>11, <2>5 DEF Offered, Answered
<1>12. CASE ~over
  <2> DEFINE place == IF HasTRN(f) THEN "turn" ELSE "w_game"
  <2>1. SendThen(c, rest, p, ack, place)
    BY <1>2, <1>10, <1>12
  <2>2. /\ net' = Sent(rest, c, p, ack) /\ cpc'[c] = place /\ cs_packet'[c] = ack
        /\ tv_sec'[c] = BASE_TIMEOUT /\ num_to'[c] = 0
    BY <1>1, <2>1 DEF SendThen, ClientTypeOK
  <2>3. net'[p] = Append(q, Datagram(c, ack)) /\ net'[c] = <<>>
    BY <1>8, <2>2
  <2>4. peer'[c] = p /\ running'[c] /\ cr_seq'[c] = k /\ view'[c] = g
    <3>1. Judged(g) = g
      BY <1>12 DEF Judged
    <3> QED
      BY <1>1, <1>2, <1>9, <1>12, <3>1 DEF ClientTypeOK
  <2>5. CASE HasTRN(f)
    <3>1. HasTurn(p, Append(q, From(p, Ack(k))), k, g)'
      BY <2>2, <2>3, <2>4, <2>5 DEF HasTurn, Stays, From, ack
    <3> QED
      BY <1>12, <2>5, <3>1 DEF Offered, Answered
  <2>6. CASE ~HasTRN(f)
    <3>1. Heard(p, Append(q, From(p, Ack(k))), k)' /\ Unhurried(p)'
      BY <2>2, <2>3, <2>4, <2>6 DEF Heard, Unhurried, Stays, From, ack
    <3> QED
      BY <1>12, <2>6, <3>1 DEF Offered, Answered
  <2> QED
    BY <2>5, <2>6
<1> QED
  BY <1>11, <1>12

\* The acknowledgement of a turn arrives ahead of the next game.
LEMMA AckArrives ==
    ASSUME NEW p, Linked(p), addr' = addr, ProperStep(addr[p]),
           NEW q, NEW k, NEW f, NEW g,
           cpc[addr[p]] = "w_ack", OnItsWay(p, q, k, f, g)
    PROVE  OnItsWay(p, q, k, f, g)'
<1> DEFINE c == addr[p]
           j == cs_packet[c].seq
           d == To(p, Ack(j))
           e == To(p, Packet(f, k, g))
           rest == Taken(c)
<1>1. /\ c \in Clients /\ p \in Endpoints /\ c \in Endpoints /\ c # p
      /\ NetTypeOK /\ ClientTypeOK
  BY LinkFacts DEF Linked, TypeOK
<1>2. /\ net[p] = q /\ net[c] = <<d, e>> /\ running[c] /\ cpc[c] = "w_ack"
      /\ NextSeq(j) = k
  BY DEF OnItsWay
<1>3. Head(net[c]) = d /\ Tail(net[c]) = <<e>> /\ net[c] # <<>>
  BY <1>2
<1>4. Accepts(c, Incoming(c))
  BY <1>2, <1>3 DEF Accepts, AwaitedSeq, FlagSet, Incoming, To, Datagram, Ack, Bare, Packet
<1>5. RecvAck(c)
  BY <1>1, <1>2, <1>4, WaitingClient DEF Waits
<1>6. rest[c] = <<e>> /\ rest[p] = q
  BY <1>1, <1>2, <1>3, TakenFrom
<1>7. WaitFor(c, rest, "w_game") /\ running' = running
  BY <1>2, <1>5 DEF RecvAck
<1> HIDE DEF rest, e
<1>8. /\ net' = rest /\ cpc'[c] = "w_game" /\ cs_packet'[c].seq = j
  BY <1>1, <1>7 DEF WaitFor, ClientTypeOK, FreePayload
<1> QED
  BY <1>2, <1>6, <1>7, <1>8 DEF OnItsWay, e, To

\* The player takes the turn.
LEMMA TurnTaken ==
    ASSUME NEW p, Linked(p), addr' = addr, ProperStep(addr[p]),
           NEW q, Two(q), NEW k, NEW g, HasTurn(p, q, k, g)
    PROVE  HasTurn(p, q, k, g)'
<1> DEFINE c == addr[p]
<1>1. /\ c \in Clients /\ p \in Endpoints /\ c \in Endpoints /\ c # p
      /\ c \in bound /\ p \in bound /\ NetTypeOK /\ ClientTypeOK
      /\ DOMAIN net = Endpoints /\ SockBuf \in Nat /\ SockBuf >= 3
  BY LinkFacts DEF Linked, TypeOK
<1>2. net[c] = <<>> /\ peer[c] = p /\ running[c]
  BY DEF HasTurn, Stays
<1>3. cpc[c] = "turn" /\ net[p] = q /\ cr_seq[c] = k
  BY <1>1, <1>2, StillClient DEF HasTurn, Stays
<1>4. TakeTurn(c)
  BY <1>3 DEF ProperStep, Connect, ClientRecv, RecvSynAck, RecvGame, RecvAck,
       RecvDisconnectAck, RecvFin, RecvLastFin, RecvUnexpected, Gets, Waits
<1>5. /\ peer' = peer /\ running' = running
      /\ \E input : SendThen(c, net, p, Packet("PSH", NextSeq(k), input), "w_ack")
  BY <1>2, <1>3, <1>4 DEF TakeTurn
<1>6. PICK input : SendThen(c, net, p, Packet("PSH", NextSeq(k), input), "w_ack")
  BY <1>5
<1> DEFINE pkt == Packet("PSH", NextSeq(k), input)
<1>7. pkt.flags = "PSH" /\ pkt.seq = NextSeq(k)
  BY DEF Packet
<1>8. SendThen(c, net, p, pkt, "w_ack")
  BY <1>6
<1> HIDE DEF pkt
<1>9. net' = Sent(net, c, p, pkt) /\ cpc'[c] = "w_ack" /\ cs_packet'[c] = pkt
  BY <1>1, <1>8 DEF SendThen, ClientTypeOK
<1>10. net'[p] = Append(q, Datagram(c, pkt)) /\ net'[c] = <<>>
  <2>1. Len(net[p]) < SockBuf
    BY <1>1, <1>3, ShortQueues
  <2> QED
    BY <1>1, <1>2, <1>3, <1>9, <2>1, SentTo
<1> QED
  BY <1>2, <1>5, <1>7, <1>9, <1>10 DEF HasTurn, Stays, From

\* A client that was sent a game reads it and answers.
LEMMA OfferedKept ==
    ASSUME NEW p, Linked(p), addr' = addr, ProperStep(addr[p]),
           NEW q, One(q), NEW k \in SeqNums, NEW f, HasPSH(f), NEW g \in Games,
           Offered(p, q, k, f, g)
    PROVE  Offered(p, q, k, f, g)'
<1>1. CASE OnItsWay(p, q, k, f, g)
  <2>1. CASE cpc[addr[p]] = "w_game"
    BY <1>1, <2>1, GameArrives
  <2>2. CASE cpc[addr[p]] = "w_ack"
    BY <1>1, <2>2, AckArrives DEF Offered
  <2> QED
    BY <1>1, <2>1, <2>2 DEF OnItsWay
<1>2. CASE Answered(p, Append(q, From(p, Ack(k))), k, f, g)
  <2>1. PICK u : u = Append(q, From(p, Ack(k)))
    OBVIOUS
  <2>2. u = Append(q, From(p, Ack(k)))' /\ Two(u)
    BY <2>1, LongerQueue DEF From
  <2>3. HasTurn(p, u, k, g)
    <3>1. ASSUME Left(p, u) \/ Heard(p, u, k) PROVE FALSE
      BY <3>1, StillClient DEF Left, Heard, Stays, Linked
    <3> QED
      BY <1>2, <2>1, <3>1 DEF Answered
  <2>4. HasTurn(p, u, k, g)'
    BY <2>2, <2>3, TurnTaken
  <2>5. ~IsGameOver(g.trackGame) /\ HasTRN(f)
    <3>1. ASSUME Left(p, u) \/ Heard(p, u, k) PROVE FALSE
      BY <3>1, StillClient DEF Left, Heard, Stays, Linked
    <3> QED
      BY <1>2, <2>1, <3>1 DEF Answered
  <2> QED
    BY <2>2, <2>4, <2>5 DEF Offered, Answered
<1> QED
  BY <1>1, <1>2 DEF Offered

\* The other waits of a session.
LEMMA MovedKept ==
    ASSUME NEW p, Linked(p), addr' = addr, ProperStep(addr[p]), NEW j, Moved(p, j)
    PROVE  Moved(p, j)'
<1> DEFINE c == addr[p]
           d == To(p, Ack(j))
           rest == Taken(c)
<1>1. /\ c \in Clients /\ p \in Endpoints /\ c \in Endpoints /\ c # p
      /\ NetTypeOK /\ ClientTypeOK
  BY LinkFacts DEF Linked, TypeOK
<1>2. net[p] = <<>> /\ running[c] /\ cs_packet[c].seq = j
  BY DEF Moved
<1>3. cpc[c] = "w_ack" /\ net[c] = <<d>>
  BY <1>1, StillClient DEF Moved, Stays
<1>4. Head(net[c]) = d /\ Tail(net[c]) = <<>> /\ net[c] # <<>>
  BY <1>3
<1>5. Accepts(c, Incoming(c))
  BY <1>2, <1>3, <1>4 DEF Accepts, AwaitedSeq, FlagSet, Incoming, To, Datagram, Ack, Bare, Packet
<1>6. RecvAck(c)
  BY <1>1, <1>3, <1>5, WaitingClient DEF Waits
<1>7. rest[c] = <<>> /\ rest[p] = <<>>
  BY <1>1, <1>2, <1>4, TakenFrom
<1>8. WaitFor(c, rest, "w_game") /\ running' = running
  BY <1>2, <1>6 DEF RecvAck
<1> HIDE DEF rest, d
<1>9. /\ net' = rest /\ cpc'[c] = "w_game" /\ cs_packet'[c].seq = j
  BY <1>1, <1>2, <1>8 DEF WaitFor, ClientTypeOK, FreePayload
<1> QED
  BY <1>2, <1>7, <1>8, <1>9 DEF Moved, Stays

LEMMA ProddedKept ==
    ASSUME NEW p, Linked(p), addr' = addr, ProperStep(addr[p]), NEW n, Prodded(p, n)
    PROVE  Prodded(p, n)'
<1> DEFINE c == addr[p]
           rest == Taken(c)
<1>1. /\ c \in Clients /\ p \in Endpoints /\ c \in Endpoints /\ c # p
      /\ c \in bound /\ p \in bound /\ NetTypeOK /\ ClientTypeOK
      /\ SockBuf \in Nat /\ SockBuf >= 3
  BY LinkFacts DEF Linked, TypeOK
<1>2. /\ cpc[c] = "w_game" /\ net[p] = <<>>
      /\ \E k, g : net[c] = <<To(p, Packet("SYN/ACK", k, g))>>
      /\ cs_packet[c] = Ack(n) /\ running[c] /\ tv_sec[c] = BASE_TIMEOUT
  BY <1>1, StillClient DEF Prodded, Heard, Stays
<1>3. PICK k, g : net[c] = <<To(p, Packet("SYN/ACK", k, g))>>
  BY <1>2
<1>4. /\ Head(net[c]) = To(p, Packet("SYN/ACK", k, g)) /\ Tail(net[c]) = <<>> /\ net[c] # <<>>
  BY <1>3
<1>5. ~Accepts(c, Incoming(c)) /\ Sender(c) = p
  BY <1>2, <1>4 DEF Accepts, FlagSet, Incoming, Sender, To, Datagram, Packet
<1>6. RecvUnexpected(c)
  BY <1>1, <1>2, <1>5, WaitingClient DEF Waits
<1>7. rest[c] = <<>> /\ rest[p] = <<>> /\ DOMAIN rest = Endpoints
  BY <1>1, <1>2, <1>4, TakenFrom
<1>8. net' = Sent(rest, c, p, Ack(n))
  BY <1>2, <1>5, <1>6 DEF RecvUnexpected
<1> HIDE DEF rest
<1>9. net'[p] = <<Datagram(c, Ack(n))>> /\ net'[c] = <<>>
  <2>1. PICK pkt : pkt = Ack(n)
    OBVIOUS
  <2>2. Sent(rest, c, p, pkt) = [rest EXCEPT ![p] = <<Datagram(c, pkt)>>]
    <3>1. /\ p \in Endpoints /\ p \in bound /\ rest[p] = <<>>
          /\ SockBuf \in Nat /\ SockBuf >= 3
      BY <1>1, <1>7
    <3> QED
      BY <3>1, FirstSent
  <2> QED
    BY <1>1, <1>7, <1>8, <2>1, <2>2
<1>10. /\ cpc'[c] = "w_game" /\ cs_packet'[c] = Ack(n) /\ running'[c]
       /\ peer'[c] = p /\ num_to'[c] = 0 /\ tv_sec'[c] = BASE_TIMEOUT
  BY <1>1, <1>2, <1>5, <1>6 DEF RecvUnexpected, ClientTypeOK
<1> QED
  BY <1>9, <1>10 DEF Prodded, Heard, Stays, Unhurried, From

LEMMA JoiningKept ==
    ASSUME NEW p, Linked(p), addr' = addr, ProperStep(addr[p]), Joining(p)
    PROVE  Joining(p)'
<1> DEFINE c == addr[p]
           d == To(p, Bare("SYN/ACK", MAX_SEQ))
           rest == Taken(c)
<1>1. /\ c \in Clients /\ p \in Endpoints /\ c \in Endpoints /\ c # p
      /\ c \in bound /\ p \in bound /\ NetTypeOK /\ ClientTypeOK
      /\ SockBuf \in Nat /\ SockBuf >= 3
  BY LinkFacts DEF Linked, TypeOK
<1>2. /\ cpc[c] = "w_synack" /\ net[p] = <<>> /\ net[c] = <<d>>
      /\ cs_packet[c] = Bare("SYN", MAX_SEQ) /\ running[c]
  BY <1>1, StillClient DEF Joining, Heard, Stays
<1>3. Head(net[c]) = d /\ Tail(net[c]) = <<>> /\ net[c] # <<>>
  BY <1>2
<1>4. Accepts(c, Incoming(c)) /\ Sender(c) = p
  BY <1>2, <1>3 DEF Accepts, AwaitedSeq, FlagSet, Incoming, Sender, To, Datagram, Bare, Packet
<1>5. RecvSynAck(c)
  BY <1>1, <1>2, <1>4, WaitingClient DEF Waits
<1>6. rest[c] = <<>> /\ rest[p] = <<>> /\ DOMAIN rest = Endpoints
  BY <1>1, <1>2, <1>3, TakenFrom
<1>7. SendThen(c, rest, p, Ack(MAX_SEQ), "w_game") /\ running' = running
      /\ peer' = [peer EXCEPT ![c] = p]
  BY <1>4, <1>5 DEF RecvSynAck, Gets, Ack
<1> HIDE DEF rest, d
<1>8. /\ net' = Sent(rest, c, p, Ack(MAX_SEQ)) /\ cpc'[c] = "w_game"
      /\ cs_packet'[c] = Ack(MAX_SEQ) /\ tv_sec'[c] = BASE_TIMEOUT /\ num_to'[c] = 0
      /\ peer'[c] = p /\ running'[c]
  BY <1>1, <1>2, <1>7 DEF SendThen, ClientTypeOK
<1>9. net'[p] = <<Datagram(c, Ack(MAX_SEQ))>> /\ net'[c] = <<>>
  BY <1>1, <1>6, <1>8, FirstSent
<1> QED
  BY <1>8, <1>9 DEF Joining, Heard, Stays, Unhurried, From

LEMMA PartingKept ==
    ASSUME NEW p, Linked(p), addr' = addr, ProperStep(addr[p]), Parting(p)
    PROVE  Parting(p)'
<1> DEFINE c == addr[p]
           d == To(p, FinAck)
           e == To(p, Fin)
           rest == Taken(c)
<1>1. /\ c \in Clients /\ p \in Endpoints /\ c \in Endpoints /\ c # p
      /\ c \in bound /\ p \in bound /\ NetTypeOK /\ ClientTypeOK
      /\ SockBuf \in Nat /\ SockBuf >= 3
  BY LinkFacts DEF Linked, TypeOK
<1>2. CASE cpc[c] = "w_finack" /\ net[p] = <<>> /\ net[c] = <<d, e>> /\ cs_packet[c] = Fin
  <2>1. Head(net[c]) = d /\ Tail(net[c]) = <<e>> /\ net[c] # <<>>
    BY <1>2
  <2>2. Accepts(c, Incoming(c))
    BY <1>2, <2>1 DEF Accepts, AwaitedSeq, FlagSet, Incoming, To, Datagram, Fin, FinAck, Bare, Packet
  <2>3. RecvDisconnectAck(c)
    BY <1>1, <1>2, <2>2, WaitingClient DEF Waits
  <2>4. rest[c] = <<e>> /\ rest[p] = <<>>
    BY <1>1, <1>2, <2>1, TakenFrom
  <2>5. WaitFor(c, rest, "w_fin")
    BY <2>3 DEF RecvDisconnectAck
  <2> HIDE DEF rest, d, e
  <2>6. net' = rest /\ cpc'[c] = "w_fin" /\ cs_packet'[c] = Fin
    BY <1>1, <1>2, <2>5 DEF WaitFor, ClientTypeOK, FreePayload, Fin, Bare, Packet
  <2> QED
    BY <2>4, <2>6 DEF Parting, e, To
<1>3. CASE cpc[c] = "w_fin" /\ net[p] = <<>> /\ net[c] = <<e>> /\ cs_packet[c] = Fin
  <2>1. Head(net[c]) = e /\ Tail(net[c]) = <<>> /\ net[c] # <<>>
    BY <1>3
  <2>2. Accepts(c, Incoming(c)) /\ Sender(c) = p
    BY <1>3, <2>1 DEF Accepts, AwaitedSeq, FlagSet, Incoming, Sender, To, Datagram, Fin, Bare, Packet
  <2>3. RecvFin(c)
    BY <1>1, <1>3, <2>2, WaitingClient DEF Waits
  <2>4. rest[c] = <<>> /\ rest[p] = <<>> /\ DOMAIN rest = Endpoints
    BY <1>1, <1>3, <2>1, TakenFrom
  <2>5. SendThen(c, rest, p, FinAck, "w_linger") /\ peer' = [peer EXCEPT ![c] = p]
    BY <2>2, <2>3 DEF RecvFin, Gets, FinAck
  <2> HIDE DEF rest, d, e
  <2>6. net' = Sent(rest, c, p, FinAck) /\ cpc'[c] = "w_linger" /\ peer'[c] = p
    BY <1>1, <2>5 DEF SendThen, ClientTypeOK
  <2>7. Sent(rest, c, p, FinAck) = [rest EXCEPT ![p] = <<Datagram(c, FinAck)>>]
    <3>1. PICK buf, a : buf = rest /\ a = c
      OBVIOUS
    <3>2. p \in Endpoints /\ p \in bound /\ buf[p] = <<>> /\ SockBuf \in Nat /\ SockBuf >= 3
      BY <1>1, <2>4, <3>1
    <3>3. Sent(buf, a, p, FinAck) = [buf EXCEPT ![p] = <<Datagram(a, FinAck)>>]
      BY <3>2, FirstSent
    <3> QED
      BY <3>1, <3>3
  <2>8. net'[p] = <<Datagram(c, FinAck)>> /\ net'[c] = <<>>
    BY <1>1, <2>4, <2>6, <2>7
  <2> QED
    BY <2>6, <2>8 DEF Parting, Stays, From
<1>4. ~(Stays(p, "w_linger"))
  BY <1>1, StillClient DEF Stays
<1> QED
  BY <1>2, <1>3, <1>4 DEF Parting

\* Whatever step its client takes, a phase between the two remains.
LEMMA ProperKeeps ==
    ASSUME NEW p, Linked(p), UNCHANGED serverVars, ProperStep(addr[p])
    PROVE  KeepsPlain(p) /\ KeepsGame(p)
<1>1. /\ addr' = addr /\ s_packet' = s_packet /\ r_packet' = r_packet /\ game' = game
  BY DEF serverVars
<1>2. /\ addr[p] \in Clients /\ s_packet[p].seq \in SeqNums /\ game \in Games
  BY DEF Linked, TypeOK, ServerTypeOK, StoredPackets
<1>3. ~Nudged(p) /\ ~Waiting(p) /\ ~Reminds(p) /\ ~Leaves(p) /\ ~Waves(p)
  BY <1>2, StillClient DEF Nudged, Waiting, Reminds, Leaves, Waves, Heard, Left, Stays
<1>4. HasMoved(p) => HasMoved(p)'
  <2>1. PICK j : j = r_packet[p].seq
    OBVIOUS
  <2> QED
    BY <1>1, <2>1, MovedKept DEF HasMoved
<1>5. Parts(p) => Parts(p)'
  BY <1>1, PartingKept DEF Parts
<1>6. Prods(p) => Prods(p)'
  <2>1. PICK n : n = r_packet[p].seq
    OBVIOUS
  <2> QED
    BY <1>1, <2>1, ProddedKept DEF Prods
<1>7. Joins(p) => Joins(p)'
  BY <1>1, JoiningKept DEF Joins
<1>8. ASSUME NEW q, One(q), q' = q, Told(p, q)
      PROVE  Told(p, q)'
  <2>1. PICK k, f, g : k = s_packet[p].seq /\ f = s_packet[p].flags /\ g = game
    OBVIOUS
  <2>2. Offered(p, q, k, f, g)'
    BY <1>1, <1>2, <1>8, <2>1, OfferedKept DEF Told
  <2> QED
    BY <1>1, <1>8, <2>1, <2>2 DEF Told
<1>9. Informed(p) => Informed(p)'
  BY <1>1, <1>8, ShortQueues DEF Informed
<1>10. InformedLate(p) => InformedLate(p)'
  <2>1. PICK q : q = <<From(p, Ack(r_packet[p].seq))>>
    OBVIOUS
  <2>2. q = <<From(p, Ack(r_packet[p].seq))>>' /\ One(q)
    BY <1>1, <2>1 DEF From, One
  <2> QED
    BY <1>1, <1>8, <2>1, <2>2 DEF InformedLate, Over
<1>11. Plays(p) => Plays(p)'
  <2> SUFFICES ASSUME Plays(p) PROVE Plays(p)'
    OBVIOUS
  <2>1. PICK k, g : k = s_packet[p].seq /\ g = game
    OBVIOUS
  <2>2. CASE Told(p, <<>>)
    BY <1>1, <1>8, <2>2, ShortQueues DEF Plays, Over
  <2>3. CASE r_packet[p].seq = k /\ HasTurn(p, <<>>, k, g)
    <3>1. HasTurn(p, <<>>, k, g)'
      <4>1. Two(<<>>)
        BY ShortQueues
      <4> QED
        BY <1>1, <2>3, <4>1, TurnTaken
    <3> QED
      BY <1>1, <2>1, <2>3, <3>1 DEF Plays, Over
  <2> QED
    BY <2>1, <2>2, <2>3 DEF Plays
<1> QED
  BY <1>3, <1>4, <1>5, <1>6, <1>7, <1>9, <1>10, <1>11 DEF KeepsPlain, KeepsGame

-----------------------------------------------------------------------------
(* Who writes to whom.                                                     *)

LEMMA ElementsIn ==
    ASSUME NEW S, NEW s \in Seq(S)
    PROVE  ToSet(s) \subseteq S
<1>1. DOMAIN s = 1 .. Len(s) /\ \A i \in 1 .. Len(s) : s[i] \in S
  BY LenProperties, ElementOfSeq
<1> QED
  BY <1>1 DEF ToSet

LEMMA ElementsOf ==
    ASSUME NEW S, NEW s \in Seq(S), NEW x \in S
    PROVE  /\ ToSet(Append(s, x)) = ToSet(s) \cup {x}
           /\ s # <<>> => ToSet(Tail(s)) \subseteq ToSet(s) /\ Head(s) \in ToSet(s)
           /\ ToSet(s) \subseteq S
<1>1. /\ DOMAIN s = 1 .. Len(s) /\ Len(s) \in Nat
      /\ \A i \in 1 .. Len(s) : s[i] \in S
  BY LenProperties, ElementOfSeq
<1>2. ToSet(Append(s, x)) = ToSet(s) \cup {x}
  <2> DEFINE t == Append(s, x)
  <2>1. /\ t \in Seq(S) /\ Len(t) = Len(s) + 1
        /\ \A i \in 1 .. Len(s) : t[i] = s[i]
        /\ t[Len(s) + 1] = x
    BY AppendProperties
  <2>2. DOMAIN t = 1 .. Len(s) + 1
    BY <2>1, LenProperties
  <2> HIDE DEF t
  <2> QED
    BY <1>1, <2>1, <2>2 DEF ToSet, t
<1>3. ASSUME s # <<>>
      PROVE  ToSet(Tail(s)) \subseteq ToSet(s) /\ Head(s) \in ToSet(s)
  <2> DEFINE t == Tail(s)
  <2>1. /\ t \in Seq(S) /\ Len(t) = Len(s) - 1 /\ Head(s) = s[1]
        /\ \A i \in 1 .. Len(t) : t[i] = s[i + 1]
    BY <1>3, HeadTailProperties
  <2>2. DOMAIN t = 1 .. Len(s) - 1 /\ Len(s) # 0
    BY <1>1, <1>3, <2>1, LenProperties, EmptySeq
  <2> HIDE DEF t
  <2>3. ASSUME NEW i \in 1 .. Len(s) - 1 PROVE i + 1 \in DOMAIN s /\ t[i] = s[i + 1]
    BY <1>1, <2>1, <2>2
  <2>4. 1 \in DOMAIN s
    BY <1>1, <2>2
  <2> QED
    BY <2>1, <2>2, <2>3, <2>4 DEF ToSet, t
<1> QED
  BY <1>1, <1>2, <1>3 DEF ToSet

\* Sending reaches one buffer at most, and adds nothing but the datagram.
LEMMA SentReach ==
    ASSUME NEW n, Buffers(n), bound \subseteq Endpoints, NEW from, NEW to, NEW pkt,
           to \in bound => Datagram(from, pkt) \in DatagramsTo(to)
    PROVE  /\ Buffers(Sent(n, from, to, pkt))
           /\ \A e \in Endpoints : e # to => Sent(n, from, to, pkt)[e] = n[e]
           /\ \A e \in Endpoints : \A d \in ToSet(Sent(n, from, to, pkt)[e]) :
                 d \in ToSet(n[e]) \/ (e = to /\ d = Datagram(from, pkt))
           /\ \A e \in Endpoints : n[e] # <<>> => Sent(n, from, to, pkt)[e] # <<>>
<1>1. Buffers(Sent(n, from, to, pkt))
  BY SentBuffers
<1>2. CASE to \in bound /\ Len(n[to]) < SockBuf
  <2> DEFINE x == Datagram(from, pkt)
  <2>1. to \in Endpoints /\ n[to] \in Seq(DatagramsTo(to)) /\ x \in DatagramsTo(to)
    BY <1>2 DEF Buffers
  <2>2. ToSet(Append(n[to], x)) = ToSet(n[to]) \cup {x} /\ Append(n[to], x) # <<>>
    BY <2>1, ElementsOf, AppendProperties
  <2>3. Sent(n, from, to, pkt) = [n EXCEPT ![to] = Append(n[to], x)]
    BY <1>2 DEF Sent
  <2> QED
    BY <1>1, <2>1, <2>2, <2>3 DEF Buffers
<1>3. CASE ~(to \in bound /\ Len(n[to]) < SockBuf)
  BY <1>1, <1>3 DEF Sent
<1> QED
  BY <1>2, <1>3

\* The variables of the other clients.
OthersStay(c) ==
    \A d \in Clients \ {c} :
        /\ cpc'[d] = cpc[d] /\ cs_packet'[d] = cs_packet[d] /\ cr_seq'[d] = cr_seq[d]
        /\ view'[d] = view[d] /\ peer'[d] = peer[d] /\ running'[d] = running[d]
        /\ tv_sec'[d] = tv_sec[d] /\ num_to'[d] = num_to[d]

\* What a client may do to the buffers: it takes from its own and writes to dest.
Reaches(c, n, m, dest) ==
    /\ \A e \in Endpoints \ {c} : e # dest => m[e] = n[e]
    /\ \A e \in Endpoints : \A d \in ToSet(m[e]) :
          d \in ToSet(n[e]) \/ (e = dest /\ d.src = c)
    /\ \A e \in Endpoints \ {c} : n[e] # <<>> => m[e] # <<>>

LEMMA SendReaches ==
    ASSUME NetTypeOK, ClientTypeOK, NEW c \in Clients, NEW n, Buffers(n),
           NEW to \in {Main} \cup Ports, NEW pkt \in ClientPackets
    PROVE  /\ Reaches(c, n, Sent(n, c, to, pkt), to)
           /\ Buffers(Sent(n, c, to, pkt))
<1>1. Datagram(c, pkt) \in DatagramsTo(to) /\ Datagram(c, pkt).src = c
  BY ClientDatagram DEF Datagram
<1>2. bound \subseteq Endpoints
  BY DEF NetTypeOK
<1> DEFINE m == Sent(n, c, to, pkt)
<1>3. Buffers(m) /\ \A e \in Endpoints : e # to => m[e] = n[e]
  BY <1>1, <1>2, SentReach
<1>4. \A e \in Endpoints : \A d \in ToSet(m[e]) :
         d \in ToSet(n[e]) \/ (e = to /\ d = Datagram(c, pkt))
  BY <1>1, <1>2, SentReach
<1>5. \A e \in Endpoints : n[e] # <<>> => m[e] # <<>>
  BY <1>1, <1>2, SentReach
<1> QED
  BY <1>1, <1>3, <1>4, <1>5 DEF Reaches

LEMMA TakingReaches ==
    ASSUME NetTypeOK, NEW c \in Clients, net[c] # <<>>, NEW dest
    PROVE  Reaches(c, net, Taken(c), dest) /\ Buffers(Taken(c))
<1>1. c \in Endpoints /\ Buffers(net) /\ net[c] \in Seq(DatagramsTo(c))
  BY DEF Endpoints, NetTypeOK, Buffers
<1>2. Buffers(Taken(c)) /\ \A e \in Endpoints \ {c} : Taken(c)[e] = net[e]
  BY <1>1, TakenBuffers
<1>3. Taken(c)[c] = Tail(net[c])
  BY <1>1, TakenFrom
<1>4. ToSet(Tail(net[c])) \subseteq ToSet(net[c])
  <2>1. Head(net[c]) \in DatagramsTo(c)
    BY <1>1, TakenBuffers
  <2> QED
    BY <1>1, <2>1, ElementsOf
<1> QED
  BY <1>2, <1>3, <1>4 DEF Reaches

LEMMA ReachesOn ==
    ASSUME NEW c, NEW n, NEW m, NEW o, NEW dest, Reaches(c, n, m, dest), Reaches(c, m, o, dest)
    PROVE  Reaches(c, n, o, dest)
BY DEF Reaches

LEMMA QuittingReaches ==
    ASSUME NetTypeOK, NEW c \in Clients, Quit(c), NEW dest
    PROVE  Reaches(c, net, net', dest)
<1>1. Buffers(net) /\ c \in Endpoints
  BY DEF NetTypeOK, Buffers, Endpoints
<1>2. \A e \in Endpoints \ {c} : net'[e] = net[e]
  BY <1>1, ClosedBuffers DEF Quit
<1>3. net'[c] = <<>> /\ ToSet(<<>>) = {}
  BY <1>1 DEF Quit, Closed, ToSet
<1> QED
  BY <1>2, <1>3 DEF Reaches

\* A step of a client changes nothing of the others, and writes to the socket of
\* the server it last heard from, or, at its start, to the listening one.
WritesTo(c) == IF cpc[c] = "start" THEN Main ELSE peer'[c]

LEMMA ClientReach ==
    ASSUME TypeOK, NEW c \in Clients, ClientStep(c)
    PROVE  /\ OthersStay(c)
           /\ peer'[c] = peer[c] \/ (net[c] # <<>> /\ peer'[c] = Sender(c))
           /\ ClientRecv(c) => net[c] # <<>> /\ peer'[c] = Sender(c)
           /\ Reaches(c, net, net', WritesTo(c))
<1> SUFFICES /\ OthersStay(c)
             /\ peer'[c] = peer[c] \/ (net[c] # <<>> /\ peer'[c] = Sender(c))
             /\ \/ Reaches(c, net, net', peer'[c])
                \/ Connect(c) /\ Reaches(c, net, net', Main)
  <2>1. ClientRecv(c) => net[c] # <<>> /\ peer'[c] = Sender(c)
    BY DEF TypeOK, ClientTypeOK, ClientRecv, RecvSynAck, RecvGame, RecvAck,
       RecvDisconnectAck, RecvFin, RecvLastFin, RecvUnexpected, Gets
  <2>2. IF Connect(c) THEN cpc[c] = "start" ELSE cpc[c] # "start"
    BY DEF Connect, ClientStep, Timer, TakeTurn, TimeoutResend, TimerRuns, Waits, GiveUp,
       GiveUpConnect, GiveUpGame, GiveUpAck, GiveUpFinAck, GiveUpFin, GiveUpLinger, Expires,
       Signal, SignalLeave, SignalQuit, SignalUnseen, SkipTurn, ClientRecv, RecvSynAck,
       RecvGame, RecvAck, RecvDisconnectAck, RecvFin, RecvLastFin, RecvUnexpected, Gets
  <2>3. ASSUME Connect(c) PROVE Reaches(c, net, net', Main)
    <3>1. net' = Sent(net, c, Main, Bare("SYN", MAX_SEQ))
      BY <2>3 DEF Connect, SendThen
    <3>2. Bare("SYN", MAX_SEQ) \in ClientPackets
      BY BareClientPacket, PacketAssumption DEF SeqNums
    <3>3. NetTypeOK /\ ClientTypeOK /\ Buffers(net)
      BY DEF TypeOK, NetTypeOK, Buffers
    <3> QED
      BY <3>1, <3>2, <3>3, SendReaches
  <2> QED
    BY <2>1, <2>2, <2>3 DEF WritesTo
<1> DEFINE rest == Taken(c)
<1>0. /\ NetTypeOK /\ ClientTypeOK /\ Buffers(net)
      /\ peer[c] \in {Main} \cup Ports /\ cr_seq[c] \in SeqNums
      /\ cs_packet[c] \in ClientPackets
  BY DEF TypeOK, NetTypeOK, Buffers, ClientTypeOK
<1>1. MAX_SEQ \in SeqNums
  BY PacketAssumption DEF SeqNums
<1>2. \A s \in SeqNums, f \in {"SYN", "ACK", "FIN", "FIN/ACK"} : Bare(f, s) \in ClientPackets
  BY BareClientPacket
<1>3. ASSUME NEW n, Buffers(n), NEW dest \in {Main} \cup Ports, Reaches(c, net, n, dest),
             NEW pkt \in ClientPackets
      PROVE  Reaches(c, net, Sent(n, c, dest, pkt), dest) /\ Buffers(Sent(n, c, dest, pkt))
  BY <1>0, <1>3, SendReaches, ReachesOn
<1>4. \A dest : Reaches(c, net, net, dest)
  BY DEF Reaches
<1>5. ASSUME net[c] # <<>>
      PROVE  /\ Sender(c) \in {Main} \cup Ports /\ Incoming(c) \in ServerPackets
             /\ \A dest : Reaches(c, net, rest, dest) /\ Buffers(rest)
  BY <1>0, <1>5, TakingReaches, ReceivedType
<1> HIDE DEF rest
<1>6. CASE Connect(c)
  <2>1. SendThen(c, net, Main, Bare("SYN", MAX_SEQ), "w_synack") /\ peer' = peer
    BY <1>6 DEF Connect
  <2>2. Reaches(c, net, net', Main)
    BY <1>0, <1>1, <1>2, <1>3, <1>4, <2>1 DEF SendThen
  <2>3. OthersStay(c)
    BY <1>0, <1>6 DEF Connect, SendThen, OthersStay, ClientTypeOK
  <2> QED
    BY <1>6, <2>1, <2>2, <2>3
<1>7. CASE TakeTurn(c)
  <2>1. PICK cell \in Reach[view[c].cursor] \cup {view[c].cursor}, btn \in BOOLEAN :
          SendThen(c, net, peer[c],
                   Packet("PSH", NextSeq(cr_seq[c]),
                          [cursor |-> cell, btn |-> btn, id |-> turns[c] + 1]), "w_ack")
    BY <1>7 DEF TakeTurn
  <2> DEFINE pkt == Packet("PSH", NextSeq(cr_seq[c]),
                          [cursor |-> cell, btn |-> btn, id |-> turns[c] + 1])
  <2>2. cs_packet'[c] = pkt /\ net' = Sent(net, c, peer[c], pkt)
    BY <1>0, <2>1 DEF SendThen, ClientTypeOK
  <2>3. cs_packet'[c] \in ClientPackets
    BY <1>0, <1>7, TakeTurnType DEF ClientTypeOK
  <2>4. pkt \in ClientPackets
    BY <2>2, <2>3
  <2> HIDE DEF pkt
  <2>5. Reaches(c, net, net', peer[c])
    BY <1>0, <1>3, <1>4, <2>2, <2>4
  <2>6. OthersStay(c) /\ peer' = peer
    BY <1>0, <1>7 DEF TakeTurn, SendThen, OthersStay, ClientTypeOK
  <2> QED
    BY <2>5, <2>6
<1>8. CASE TimeoutResend(c)
  <2>1. Reaches(c, net, net', peer[c])
    BY <1>0, <1>3, <1>4, <1>8 DEF TimeoutResend
  <2> QED
    BY <1>0, <1>8, <2>1 DEF TimeoutResend, OthersStay, ClientTypeOK
<1>9. CASE Signal(c) \/ GiveUp(c)
  <2>1. OthersStay(c) /\ peer' = peer
    BY <1>0, <1>9 DEF GiveUp, GiveUpConnect, GiveUpGame, GiveUpAck, GiveUpFinAck, GiveUpFin,
       GiveUpLinger, Expires, Signal, SignalLeave, SignalQuit, SignalUnseen, SkipTurn,
       SendThen, WaitFor, Leave, Quit, OthersStay, ClientTypeOK
  <2>2. CASE Quit(c)
    BY <1>0, <2>1, <2>2, QuittingReaches
  <2>3. CASE net' = net
    BY <1>4, <2>1, <2>3
  <2>4. CASE GiveUpGame(c)
    <3> DEFINE n == Sent(net, c, peer[c], Bare("ACK", cr_seq[c]))
    <3>1. Reaches(c, net, n, peer[c]) /\ Buffers(n)
      BY <1>0, <1>2, <1>3, <1>4
    <3>2. net' = Sent(n, c, peer[c], Bare("FIN", MAX_SEQ))
      BY <2>4 DEF GiveUpGame, Leave, SendThen
    <3> HIDE DEF n
    <3>3. Reaches(c, net, net', peer[c])
      BY <1>0, <1>1, <1>2, <1>3, <3>1, <3>2
    <3> QED
      BY <2>1, <3>3
  <2>5. CASE \E pkt \in ClientPackets : net' = Sent(net, c, peer[c], pkt)
    <3>1. Reaches(c, net, net', peer[c])
      BY <1>0, <1>3, <1>4, <2>5
    <3> QED
      BY <2>1, <3>1
  <2> QED
    <3>1. CASE Signal(c)
      BY <1>1, <1>2, <2>2, <2>3, <2>5, <3>1 DEF Signal, SignalLeave, SignalQuit, SignalUnseen,
         SkipTurn, SendThen, Leave, netVars
    <3>2. CASE GiveUp(c)
      BY <1>1, <1>2, <2>2, <2>3, <2>4, <2>5, <3>2 DEF GiveUp, GiveUpConnect, GiveUpAck,
         GiveUpFinAck, GiveUpFin, GiveUpLinger, SendThen, WaitFor, Leave
    <3> QED
      BY <1>9, <3>1, <3>2
<1>10. CASE ClientRecv(c)
  <2>1. /\ net[c] # <<>> /\ peer'[c] = Sender(c) /\ OthersStay(c)
    BY <1>0, <1>10 DEF ClientRecv, RecvSynAck, RecvGame, RecvAck, RecvDisconnectAck, RecvFin,
       RecvLastFin, RecvUnexpected, Gets, SendThen, WaitFor, Leave, Quit, OthersStay,
       ClientTypeOK
  <2> DEFINE to == Sender(c)
  <2>2. /\ to \in {Main} \cup Ports /\ Incoming(c) \in ServerPackets
        /\ Reaches(c, net, rest, to) /\ Buffers(rest)
    BY <1>5, <2>1
  <2> HIDE DEF to
  <2>3. Incoming(c).seq \in SeqNums
    BY <2>2 DEF ServerPackets
  <2>4. CASE RecvGame(c)
    <3> DEFINE ack == Bare("ACK", Incoming(c).seq)
               n == Sent(rest, c, to, ack)
    <3>1. ack \in ClientPackets
      BY <1>2, <2>3
    <3>2. Reaches(c, net, n, to) /\ Buffers(n)
      BY <1>3, <2>2, <3>1
    <3>3. net' = n \/ net' = Sent(n, c, to, Bare("FIN", MAX_SEQ))
      BY <2>4 DEF RecvGame, Leave, SendThen, rest, to
    <3> HIDE DEF n, ack
    <3>4. Reaches(c, net, net', to)
      BY <1>1, <1>2, <1>3, <2>2, <3>2, <3>3
    <3> QED
      BY <2>1, <3>4 DEF to
  <2>5. CASE \E pkt \in ClientPackets : net' = Sent(rest, c, to, pkt)
    <3>1. Reaches(c, net, net', to)
      BY <1>3, <2>2, <2>5
    <3> QED
      BY <2>1, <3>1 DEF to
  <2>6. CASE net' = rest
    BY <2>1, <2>2, <2>6 DEF to
  <2>7. CASE Quit(c)
    BY <1>0, <2>1, <2>7, QuittingReaches
  <2> QED
    BY <1>0, <1>1, <1>2, <1>10, <2>4, <2>5, <2>6, <2>7 DEF ClientRecv, RecvSynAck, RecvAck,
       RecvDisconnectAck, RecvFin, RecvLastFin, RecvUnexpected, SendThen, WaitFor, Leave, rest, to
<1> QED
  BY <1>6, <1>7, <1>8, <1>9, <1>10 DEF ClientStep, Timer


\* What the server may do to the buffers: it takes datagrams out, and writes from
\* a socket of a client to that client.
ServerReaches(n, m) ==
    \A e \in Endpoints : \A d \in ToSet(m[e]) :
        d \in ToSet(n[e]) \/ (e \in Clients /\ d.src \in Ports /\ addr'[d.src] = e)

LEMMA ServerSendReaches ==
    ASSUME NetTypeOK, NEW n, Buffers(n), NEW p \in Ports, NEW pkt \in ServerPackets,
           addr'[p] \in Clients \cup {NoAddr}
    PROVE  /\ ServerReaches(n, Sent(n, p, addr'[p], pkt))
           /\ Buffers(Sent(n, p, addr'[p], pkt))
<1>1. PICK to : to = addr'[p]
  OBVIOUS
<1>2. CASE to \in Clients
  <2>1. Datagram(p, pkt) \in DatagramsTo(to) /\ Datagram(p, pkt).src = p
    BY <1>2 DEF Datagram, DatagramsTo
  <2>2. bound \subseteq Endpoints
    BY DEF NetTypeOK
  <2>3. /\ Buffers(Sent(n, p, to, pkt))
        /\ \A e \in Endpoints : \A d \in ToSet(Sent(n, p, to, pkt)[e]) :
              d \in ToSet(n[e]) \/ (e = to /\ d = Datagram(p, pkt))
    BY <2>1, <2>2, SentReach
  <2> QED
    BY <1>1, <1>2, <2>1, <2>3 DEF ServerReaches
<1>3. CASE to = NoAddr
  <2>1. to \notin bound
    BY <1>3, EndpointKinds DEF NetTypeOK
  <2>2. Sent(n, p, to, pkt) = n
    BY <2>1, SentNowhere
  <2> QED
    BY <1>1, <2>2 DEF ServerReaches
<1> QED
  BY <1>1, <1>2, <1>3

LEMMA ServerTakingReaches ==
    ASSUME NetTypeOK, NEW e \in Endpoints, net[e] # <<>>
    PROVE  ServerReaches(net, Taken(e)) /\ Buffers(Taken(e))
<1>1. Buffers(net) /\ net[e] \in Seq(DatagramsTo(e))
  BY DEF NetTypeOK, Buffers
<1>2. /\ Buffers(Taken(e)) /\ \A o \in Endpoints \ {e} : Taken(e)[o] = net[o]
      /\ Head(net[e]) \in DatagramsTo(e)
  BY <1>1, TakenBuffers
<1>3. Taken(e)[e] = Tail(net[e])
  BY TakenFrom
<1>4. ToSet(Tail(net[e])) \subseteq ToSet(net[e])
  BY <1>1, <1>2, ElementsOf
<1> QED
  BY <1>2, <1>3, <1>4 DEF ServerReaches

LEMMA ServerClosingReaches ==
    ASSUME NEW n, Buffers(n), NEW S
    PROVE  ServerReaches(n, Closed(n, S))
<1>1. ToSet(<<>>) = {}
  BY DEF ToSet
<1> QED
  BY <1>1 DEF ServerReaches, Closed

LEMMA ServerReachesOn ==
    ASSUME NEW n, NEW m, NEW o, ServerReaches(n, m), ServerReaches(m, o)
    PROVE  ServerReaches(n, o)
BY DEF ServerReaches

\* The socket of a client has one client for ever, and nobody else is written to
\* from it.
LEMMA ServerReach ==
    ASSUME Safe, AddressesOK, ServerStep \/ SvSignal
    PROVE  /\ \A p \in Ports : addr'[p] = addr[p] \/ addr[p] = NoAddr
           /\ ServerReaches(net, net')
<1> USE DEF Safe
<1>0. /\ Buffers(net) /\ \A p \in Ports : addr[p] \in Clients \cup {NoAddr}
      /\ MAX_SEQ \in SeqNums
  BY PacketAssumption DEF NetTypeOK, Buffers, ServerTypeOK, SeqNums
<1>1. ServerReaches(net, net)
  BY DEF ServerReaches
<1>2. CASE addr' = addr /\ net' = net
  BY <1>1, <1>2
<1>3. CASE addr' = addr /\ \E S : net' = Closed(net, S)
  BY <1>0, <1>3, ServerClosingReaches
<1>4. CASE SvDeny
  <2>1. net[Main] # <<>> /\ Main \in Endpoints /\ net' = Taken(Main) /\ addr' = addr
    BY <1>4 DEF SvDeny, ServerInv, AcceptOK, Endpoints
  <2> QED
    BY <2>1, ServerTakingReaches
<1>5. CASE SvAccept
  <2> DEFINE from == Head(net[Main]).src
             synack == Bare("SYN/ACK", MAX_SEQ)
             rest == Taken(Main)
  <2>1. PICK p \in Ports : /\ IsNextPort(p) /\ addr' = [addr EXCEPT ![p] = from]
                           /\ net' = Sent(rest, p, from, synack)
    BY <1>5 DEF SvAccept
  <2>2. net[Main] # <<>> /\ Main \in Endpoints /\ Main \notin Clients
    BY <1>5, EndpointKinds DEF SvAccept, ServerInv, AcceptOK, Endpoints
  <2>3. from \in Clients
    BY <1>0, <2>2, TakenBuffers DEF DatagramsTo
  <2>4. ServerReaches(net, rest) /\ Buffers(rest)
    BY <2>2, ServerTakingReaches
  <2>5. synack \in ServerPackets
    BY <1>0, BareServerPacket
  <2> HIDE DEF rest, synack, from
  <2>6. addr'[p] = from /\ \A q \in Ports : q # p => addr'[q] = addr[q]
    BY <2>1 DEF ServerTypeOK
  <2>7. ServerReaches(rest, net')
    BY <2>1, <2>3, <2>4, <2>5, <2>6, ServerSendReaches
  <2> QED
    BY <2>1, <2>4, <2>6, <2>7, ServerReachesOn DEF IsNextPort
<1>6. CASE SvReceive
  <2>1. /\ pc = "recv" /\ net[rx] # <<>>
        /\ addr' = addr \/ addr' = [addr EXCEPT ![rx] = Head(net[rx]).src]
    BY <1>6 DEF SvReceive, RecvDuplicate, RecvBadAck, RecvMove, RecvOther, RecvFinAck, Receives
  <2>2. /\ rx \in Ports /\ Arrived \in ClientPackets /\ Head(net[rx]).src \in Clients
        /\ Arrived.seq \in SeqNums /\ rx \in Endpoints
    BY <2>1, ReceiptFacts, ArrivedType DEF Endpoints
  <2>3. Head(net[rx]).src = addr[rx]
    <3>1. Head(net[rx]) \in ToSet(net[rx])
      <4>1. net[rx] \in Seq(DatagramsTo(rx)) /\ Head(net[rx]) \in DatagramsTo(rx)
        BY <1>0, <2>1, <2>2, TakenBuffers DEF Buffers
      <4> QED
        BY <2>1, <4>1, ElementsOf
    <3> QED
      BY <2>2, <3>1 DEF AddressesOK
  <2>4. addr' = addr
    BY <2>1, <2>3 DEF ServerTypeOK
  <2> DEFINE rest == Taken(rx)
  <2>5. ServerReaches(net, rest) /\ Buffers(rest)
    BY <2>1, <2>2, ServerTakingReaches
  <2> HIDE DEF rest
  <2>6. CASE \E pkt \in ServerPackets : net' = Sent(rest, rx, addr[rx], pkt)
    <3>1. ServerReaches(rest, net')
      BY <1>0, <2>2, <2>4, <2>5, <2>6, ServerSendReaches
    <3> QED
      BY <2>4, <2>5, <3>1, ServerReachesOn
  <2>7. s_packet[rx].payload # Freed => s_packet[rx] \in ServerPackets
    BY <2>2 DEF ServerTypeOK, StoredPackets, ServerPackets, HasPSH
  <2>8. Bare("ACK", Arrived.seq) \in ServerPackets
    BY <2>2, BareServerPacket
  <2> QED
    BY <1>3, <1>6, <2>3, <2>4, <2>5, <2>6, <2>7, <2>8
    DEF SvReceive, RecvDuplicate, RecvBadAck, RecvMove, RecvOther, RecvFinAck, Exit, rest
<1>7. ASSUME NEW pkt \in ServerPackets, curr \in Ports, addr' = addr, Transmit(curr, pkt)
      PROVE  ServerReaches(net, net')
  BY <1>0, <1>7, ServerSendReaches DEF Transmit
<1>8. CASE HandleUnicast
  <2>1. curr \in Ports /\ addr' = addr
    BY <1>8, ListEntries DEF HandleUnicast, IsFree, Seated
  <2> DEFINE pkt == Packet(s_packet[curr].flags, NextSeq(r_packet[curr].seq), game)
  <2>2. s_packet[curr].flags \in ServerFlags /\ r_packet[curr].seq \in SeqNums
    BY <2>1 DEF ServerTypeOK, StoredPackets, Receipts
  <2>3. pkt \in ServerPackets
    BY <2>2, NextSeqType, GamePacket DEF ServerTypeOK
  <2> HIDE DEF pkt
  <2>4. Transmit(curr, pkt)
    BY <1>8 DEF HandleUnicast, pkt
  <2> QED
    BY <1>7, <2>1, <2>3, <2>4
<1>9. CASE BroadcastStep
  <2>1. curr \in Ports /\ payload \in Games /\ addr' = addr
    BY <1>9, ListEntries DEF BroadcastStep, ServerInv, PointersOK, BroadcastOK
  <2> DEFINE pkt == Packet(BroadcastFlags(curr), NextSeq(r_packet[curr].seq), payload)
  <2>2. BroadcastFlags(curr) \in ServerFlags /\ r_packet[curr].seq \in SeqNums
    BY <2>1 DEF BroadcastFlags, ServerFlags, Flags, ServerTypeOK, Receipts
  <2>3. pkt \in ServerPackets
    BY <2>1, <2>2, NextSeqType, GamePacket
  <2> HIDE DEF pkt
  <2>4. Transmit(curr, pkt)
    BY <1>9 DEF BroadcastStep, pkt
  <2> QED
    BY <1>7, <2>1, <2>3, <2>4
<1>10. CASE SvDisconnect
  <2> DEFINE finack == Bare("FIN/ACK", MAX_SEQ)
             fin == Bare("FIN", MAX_SEQ)
             first == Sent(net, curr, addr[curr], finack)
  <2>1. curr \in Ports /\ addr' = addr
    BY <1>10, ListEntries DEF SvDisconnect, ServerInv, PointersOK
  <2>2. finack \in ServerPackets /\ fin \in ServerPackets
    BY <1>0, BareServerPacket
  <2>3. net' = first \/ net' = Sent(first, curr, addr[curr], fin)
    BY <1>10 DEF SvDisconnect
  <2> HIDE DEF finack, fin
  <2>4. ServerReaches(net, first) /\ Buffers(first)
    BY <1>0, <2>1, <2>2, ServerSendReaches
  <2> HIDE DEF first
  <2>5. net' # first => ServerReaches(first, net')
    BY <1>0, <2>1, <2>2, <2>3, <2>4, ServerSendReaches
  <2> QED
    BY <2>1, <2>4, <2>5, ServerReachesOn
<1>11. CASE Select \/ AfterReceipt \/ ReceiptRecv \/ ReceiptSkip \/ NoUnicast \/ Unicasted
            \/ NextClient \/ BroadcastNext \/ BroadcastEnd \/ SignalBetweenCalls
  BY <1>2, <1>11 DEF Select, AfterReceipt, ReceiptRecv, ReceiptSkip, NoUnicast, Unicasted,
     NextClient, BroadcastNext, BroadcastEnd, SignalBetweenCalls, netVars
<1>12. CASE EndLoop \/ UseAfterFree \/ SignalInCall
  BY <1>2, <1>3, <1>12 DEF EndLoop, UseAfterFree, SignalInCall, Exit
<1> QED
  BY <1>4, <1>5, <1>6, <1>8, <1>9, <1>10, <1>11, <1>12
  DEF ServerStep, HandleReceipt, HandleBroadcast, SvSignal

\* Faults of the network take, repeat and exchange datagrams.
LEMMA FaultReach ==
    ASSUME NetTypeOK, NEW e \in Endpoints, NetworkFault(e)
    PROVE  \A o \in Endpoints : ToSet(net'[o]) \subseteq ToSet(net[o])
<1>0. net[e] \in Seq(DatagramsTo(e)) /\ Len(net[e]) \in Nat /\ DOMAIN net[e] = 1 .. Len(net[e])
      /\ Buffers(net)
  BY LenProperties DEF NetTypeOK, Buffers
<1>1. CASE Lose(e)
  <2>1. net[e] # <<>> /\ net' = Taken(e)
    BY <1>1 DEF Lose
  <2>2. Head(net[e]) \in DatagramsTo(e)
    BY <1>0, <2>1, TakenBuffers
  <2>3. ToSet(Tail(net[e])) \subseteq ToSet(net[e])
    BY <1>0, <2>1, <2>2, ElementsOf
  <2> QED
    BY <2>1, <2>3, TakenFrom
<1>2. CASE Duplicate(e)
  <2>1. net[e] # <<>> /\ net' = [net EXCEPT ![e] = Append(@, Head(@))]
    BY <1>2 DEF Duplicate
  <2>2. Head(net[e]) \in DatagramsTo(e)
    BY <1>0, <2>1, TakenBuffers
  <2>3. ToSet(Append(net[e], Head(net[e]))) \subseteq ToSet(net[e])
    BY <1>0, <2>1, <2>2, ElementsOf
  <2> QED
    BY <2>1, <2>3 DEF NetTypeOK
<1>3. CASE Reorder(e)
  <2>1. PICK s : s = net[e]
    OBVIOUS
  <2> DEFINE u == SubSeq(s, 3, Len(s))
             t == <<s[2], s[1]>> \o u
  <2>2. Len(s) > 1 /\ net' = [net EXCEPT ![e] = t]
    BY <1>3, <2>1 DEF Reorder
  <2>3. s \in Seq(DatagramsTo(e)) /\ Len(s) \in Nat /\ DOMAIN s = 1 .. Len(s)
    BY <1>0, <2>1
  <2>4. /\ u \in Seq(DatagramsTo(e)) /\ Len(u) = Len(s) - 2
        /\ \A i \in 1 .. Len(s) - 2 : u[i] = s[i + 2]
    BY <2>2, <2>3
  <2>5. s[1] \in DatagramsTo(e) /\ s[2] \in DatagramsTo(e)
    BY <2>2, <2>3, ElementOfSeq
  <2> HIDE DEF u
  <2>6. /\ DOMAIN t = 1 .. Len(s)
        /\ \A i \in 1 .. Len(s) :
             t[i] = IF i = 1 THEN s[2] ELSE IF i = 2 THEN s[1] ELSE u[i - 2]
    <3> DEFINE h == <<s[2], s[1]>>
    <3>0. h \in Seq(DatagramsTo(e))
      BY <2>5
    <3>1. Len(h) = 2 /\ h[1] = s[2] /\ h[2] = s[1]
      OBVIOUS
    <3> HIDE DEF h
    <3>2. /\ h \o u \in Seq(DatagramsTo(e)) /\ Len(h \o u) = Len(h) + Len(u)
          /\ \A i \in 1 .. Len(h) + Len(u) :
                (h \o u)[i] = IF i <= Len(h) THEN h[i] ELSE u[i - Len(h)]
      BY <2>4, <3>0, ConcatProperties
    <3>3. DOMAIN (h \o u) = 1 .. Len(s)
      <4>1. Len(h \o u) = Len(s)
        BY <2>3, <2>4, <3>1, <3>2
      <4> QED
        BY <3>2, <4>1, LenProperties
    <3>4. \A i \in 1 .. Len(s) :
            (h \o u)[i] = IF i = 1 THEN s[2] ELSE IF i = 2 THEN s[1] ELSE u[i - 2]
      BY <2>3, <2>4, <3>1, <3>2
    <3> QED
      BY <3>3, <3>4 DEF h
  <2> HIDE DEF t
  <2>7. ASSUME NEW i \in 1 .. Len(s) PROVE \E j \in 1 .. Len(s) : t[i] = s[j]
    <3>1. CASE i \in {1, 2}
      BY <2>2, <2>3, <2>6, <3>1
    <3>2. CASE i \notin {1, 2}
      <4>1. i - 2 \in 1 .. Len(s) - 2 /\ t[i] = u[i - 2] /\ i - 2 + 2 = i
        BY <2>3, <2>6, <3>2
      <4> QED
        BY <2>4, <4>1
    <3> QED
      BY <3>1, <3>2
  <2>8. ToSet(t) \subseteq ToSet(s)
    BY <2>3, <2>6, <2>7 DEF ToSet
  <2> QED
    BY <2>1, <2>2, <2>8 DEF NetTypeOK
<1> QED
  BY <1>1, <1>2, <1>3 DEF NetworkFault


LEMMA HeadIsElement ==
    ASSUME NetTypeOK, NEW e \in Endpoints, net[e] # <<>>
    PROVE  Head(net[e]) \in ToSet(net[e]) /\ Head(net[e]) \in DatagramsTo(e)
<1>1. Buffers(net) /\ net[e] \in Seq(DatagramsTo(e))
  BY DEF NetTypeOK, Buffers
<1>2. Head(net[e]) \in DatagramsTo(e)
  BY <1>1, TakenBuffers
<1> QED
  BY <1>1, <1>2, ElementsOf

LEMMA AddressesKept == IInv /\ AddressesOK /\ [Next]_vars => AddressesOK'
<1> SUFFICES ASSUME IInv, AddressesOK, [Next]_vars PROVE AddressesOK'
  OBVIOUS
<1>0. /\ Safe /\ NoAddr \notin Clients /\ Main \notin Clients /\ Clients \cap Ports = {}
      /\ Clients \subseteq Endpoints /\ Ports \subseteq Endpoints
      /\ peer \in [Clients -> {Main} \cup Ports] /\ addr \in [Ports -> Clients \cup {NoAddr}]
      /\ 0 \notin Ports /\ Main = 0
  BY EndpointKinds, ListEntries DEF IInv, TypeOK, Safe, ClientTypeOK, ServerTypeOK, Endpoints, Main
<1>1. ASSUME ServerStep \/ SvSignal, UNCHANGED clientVars
      PROVE  AddressesOK'
  <2>1. /\ \A p \in Ports : addr'[p] = addr[p] \/ addr[p] = NoAddr
        /\ ServerReaches(net, net')
    BY <1>0, <1>1, ServerReach
  <2>2. peer' = peer
    BY <1>1 DEF clientVars
  <2>3. ASSUME NEW c \in Clients PROVE peer'[c] = Main \/ addr'[peer'[c]] = c
    BY <1>0, <2>1, <2>2 DEF AddressesOK
  <2>4. ASSUME NEW c \in Clients, NEW d \in ToSet(net'[c]) PROVE addr'[d.src] = c
    <3>1. CASE d \in ToSet(net[c])
      <4>1. d.src \in Ports
        <5>1. net[c] \in Seq(DatagramsTo(c))
          BY <1>0 DEF Safe, NetTypeOK
        <5>2. d \in DatagramsTo(c)
          BY <3>1, <5>1, ElementsIn
        <5> QED
          BY <5>2 DEF DatagramsTo
      <4> QED
        BY <1>0, <2>1, <3>1, <4>1 DEF AddressesOK
    <3>2. CASE d \notin ToSet(net[c])
      BY <1>0, <2>1, <3>2 DEF ServerReaches
    <3> QED
      BY <3>1, <3>2
  <2>5. ASSUME NEW p \in Ports, NEW d \in ToSet(net'[p]) PROVE d.src = addr'[p]
    <3>1. d \in ToSet(net[p])
      BY <1>0, <2>1 DEF ServerReaches
    <3>2. d.src = addr[p]
      BY <3>1 DEF AddressesOK
    <3>3. d.src \in Clients
      <4>1. net[p] \in Seq(DatagramsTo(p))
        BY <1>0 DEF Safe, NetTypeOK
      <4>2. d \in DatagramsTo(p)
        BY <3>1, <4>1, ElementsIn
      <4> QED
        BY <1>0, <4>2 DEF DatagramsTo
    <3> QED
      BY <1>0, <2>1, <3>2, <3>3
  <2> QED
    BY <2>3, <2>4, <2>5 DEF AddressesOK
<1>2. ASSUME NEW c \in Clients, ClientStep(c), UNCHANGED serverVars
      PROVE  AddressesOK'
  <2>1. /\ OthersStay(c)
        /\ peer'[c] = peer[c] \/ (net[c] # <<>> /\ peer'[c] = Sender(c))
    BY <1>2, ClientReach DEF IInv
  <2>2. PICK dest \in {Main, peer'[c]} : Reaches(c, net, net', dest)
    BY <1>2, ClientReach DEF IInv, WritesTo
  <2>3. addr' = addr
    BY <1>2 DEF serverVars
  <2>4. peer'[c] = Main \/ (peer'[c] \in Ports /\ addr[peer'[c]] = c)
    <3>1. CASE peer'[c] = peer[c]
      BY <1>0, <3>1 DEF AddressesOK
    <3>2. CASE net[c] # <<>> /\ peer'[c] = Sender(c)
      <4>1. Head(net[c]) \in ToSet(net[c]) /\ Head(net[c]) \in DatagramsTo(c)
        BY <1>0, <3>2, HeadIsElement DEF Safe
      <4> QED
        BY <3>2, <4>1 DEF AddressesOK, Sender, DatagramsTo
    <3> QED
      BY <2>1, <3>1, <3>2
  <2>5. ASSUME NEW d \in Clients PROVE peer'[d] = Main \/ addr'[peer'[d]] = d
    BY <2>1, <2>3, <2>4 DEF AddressesOK, OthersStay
  <2>6. ASSUME NEW e \in Clients, NEW d \in ToSet(net'[e]) PROVE addr'[d.src] = e
    BY <1>0, <2>2, <2>3, <2>4 DEF AddressesOK, Reaches
  <2>7. ASSUME NEW p \in Ports, NEW d \in ToSet(net'[p]) PROVE d.src = addr'[p]
    BY <1>0, <2>2, <2>3, <2>4 DEF AddressesOK, Reaches
  <2> QED
    BY <2>5, <2>6, <2>7 DEF AddressesOK
<1>3. ASSUME NEW e \in Endpoints, NetworkFault(e), UNCHANGED <<serverVars, clientVars>>
      PROVE  AddressesOK'
  <2>1. \A o \in Endpoints : ToSet(net'[o]) \subseteq ToSet(net[o])
    BY <1>0, <1>3, FaultReach DEF Safe
  <2> QED
    BY <1>0, <1>3, <2>1 DEF AddressesOK, serverVars, clientVars
<1>4. CASE UNCHANGED vars
  BY <1>4 DEF AddressesOK, vars, netVars, serverVars, clientVars
<1> QED
  BY <1>1, <1>2, <1>3, <1>4 DEF Next

\* Whatever the network does and whenever timers expire: what arrives at a socket
\* of the server was sent by the client it was opened for, and a client hears from
\* the listening socket's process only through sockets opened for it.  The server
\* does not check this (server.c, sv_recvfrom stores the sender's address over and
\* over); it holds because nobody else learns the socket's port.
THEOREM AddressesNeverMix == Spec => []AddressesOK
<1>1. Init => AddressesOK
  <2> SUFFICES ASSUME Init PROVE AddressesOK
    OBVIOUS
  <2>1. /\ \A e \in Endpoints : net[e] = <<>>
        /\ \A c \in Clients : peer[c] = Main
        /\ ToSet(<<>>) = {}
    BY DEF Init, NetInit, ClientInit, ToSet
  <2> QED
    BY <2>1 DEF AddressesOK, Endpoints
<1> QED
  BY <1>1, AddressesKept, Inductive, PTL DEF Spec


-----------------------------------------------------------------------------
(* Two seats.                                                              *)

LEMMA TwoSeats ==
    ASSUME ServerTypeOK, ListOK, MAX_CLIENTS = 2
    PROVE  /\ Len(conns) \in {0, 1, 2}
           /\ conns = <<>> <=> Len(conns) = 0
           /\ Seated # {} <=> Len(conns) # 0
           /\ Seated # {} => First \in Seated
           /\ First \in {0} \cup Seated
           /\ Seated \subseteq Ports /\ 0 \notin Seated
           /\ \A p \in Seated : Position(p) \in {1, 2} /\ Position(p) <= Len(conns)
           /\ \A p \in Seated : p = First <=> Position(p) = 1
           /\ \A p, q \in Seated : Position(p) = Position(q) => p = q
           /\ \A p \in Seated : NextInList(p) \in {0} \cup (Seated \ {p})
           /\ \A p, q \in Seated : p # q /\ Position(p) = 1 => q = NextInList(p)
           /\ \A p \in Seated : Position(p) = 2 => NextInList(p) = 0
<1>1. /\ conns \in Seq(Ports) /\ Len(conns) \in Nat /\ DOMAIN conns = 1 .. Len(conns)
      /\ Len(conns) <= 2 /\ Seated \subseteq Ports /\ 0 \notin Ports
      /\ First \in {0} \cup Seated
  BY LenProperties, ListEntries DEF ServerTypeOK, ListOK
<1>2. conns = <<>> <=> Len(conns) = 0
  BY <1>1, EmptySeq
<1>3. \A p \in Seated : Position(p) \in 1 .. Len(conns) /\ conns[Position(p)] = p
  BY PositionOf
<1>4. \A p \in Seated : NextInList(p) \in {0} \cup (Seated \ {p})
  BY NextEntry
<1>5. \A i \in 1 .. Len(conns) : conns[i] \in Seated
  BY <1>1 DEF Seated, ToSet
<1>6. \A i, j \in 1 .. Len(conns) : conns[i] = conns[j] => i = j
  BY <1>1 DEF ListOK, IsInjective
<1>7. Len(conns) \in {0, 1, 2}
  BY <1>1
<1>8. Seated # {} <=> Len(conns) # 0
  <2>1. Len(conns) # 0 => 1 \in 1 .. Len(conns)
    BY <1>1
  <2>2. ASSUME NEW p \in Seated PROVE Len(conns) # 0
    BY <1>1, <1>3
  <2> QED
    BY <1>5, <2>1, <2>2
<1>9. Len(conns) # 0 => First = conns[1] /\ 1 \in 1 .. Len(conns)
  BY <1>1, <1>2 DEF First
<1>10. \A p \in Seated : p = First <=> Position(p) = 1
  <2> SUFFICES ASSUME NEW p \in Seated PROVE p = First <=> Position(p) = 1
    OBVIOUS
  <2>1. Len(conns) # 0
    BY <1>8
  <2> QED
    BY <1>3, <1>6, <1>9, <2>1
<1>11. ASSUME NEW p \in Seated, NEW q \in Seated, p # q, Position(p) = 1
       PROVE  q = NextInList(p)
  <2>1. Position(q) = 2 /\ Len(conns) = 2
    BY <1>1, <1>3, <1>11
  <2> QED
    BY <1>3, <1>11, <2>1 DEF NextInList
<1>12. \A p \in Seated : Position(p) = 2 => NextInList(p) = 0
  BY <1>1 DEF NextInList
<1>13. \A p \in Seated : Position(p) \in {1, 2} /\ Position(p) <= Len(conns)
  BY <1>1, <1>3
<1>14. \A p, q \in Seated : Position(p) = Position(q) => p = q
  BY <1>3
<1>15. Seated # {} => First \in Seated
  BY <1>5, <1>8, <1>9
<1> QED
  BY <1>1, <1>2, <1>4, <1>7, <1>8, <1>10, <1>11, <1>12, <1>13, <1>14, <1>15

\* With two seats.
LEMMA Neighbours ==
    ASSUME ServerTypeOK, ListOK, MAX_CLIENTS = 2
    PROVE  /\ \A p \in Seated : p = First \/ p = NextInList(First)
           /\ \A p, q \in Seated : p # q => Opponents
           /\ \A p, q, r \in Seated : p # q /\ p # r => q = r
           /\ \A p, q \in Seated : p # q /\ q # NextInList(p) => NextInList(p) = 0
           /\ \A p \in Seated : NextInList(p) # 0 => NextInList(NextInList(p)) = 0
           /\ Opponents <=> Len(conns) = 2
<1>1. Opponents <=> Len(conns) = 2
  BY DEF Opponents
<1>2. \A p \in Seated : p = First \/ p = NextInList(First)
  BY TwoSeats
<1>3. ASSUME NEW p \in Seated, NEW q \in Seated, p # q PROVE Opponents
  <2>1. /\ Position(p) \in {1, 2} /\ Position(q) \in {1, 2} /\ Len(conns) \in {0, 1, 2}
        /\ Position(p) <= Len(conns) /\ Position(q) <= Len(conns) /\ Position(p) # Position(q)
    BY <1>3, TwoSeats
  <2> QED
    BY <1>1, <2>1
<1>4. \A p, q, r \in Seated : p # q /\ p # r => q = r
  BY TwoSeats
<1>5. \A p, q \in Seated : p # q /\ q # NextInList(p) => NextInList(p) = 0
  BY TwoSeats
<1>6. ASSUME NEW p \in Seated, NextInList(p) # 0 PROVE NextInList(NextInList(p)) = 0
  <2>1. PICK q : q = NextInList(p)
    OBVIOUS
  <2>2. q \in Seated /\ q # p /\ Position(p) \in {1, 2} /\ Position(q) \in {1, 2}
    BY <1>6, <2>1, TwoSeats
  <2>3. Position(p) # Position(q) /\ Position(p) # 2
    BY <1>6, <2>1, <2>2, TwoSeats
  <2>4. NextInList(q) = 0
    BY <2>2, <2>3, TwoSeats
  <2> QED
    BY <2>1, <2>4
<1> QED
  BY <1>1, <1>2, <1>3, <1>4, <1>5, <1>6

LEMMA TurnIndices == MAX_CLIENTS = 2 => TurnIndex("X") = 0 /\ TurnIndex("O") = 1
BY DEF TurnIndex

\* The turn goes to one of two.
LEMMA TurnGoesToOne ==
    ASSUME ServerTypeOK, ListOK, MAX_CLIENTS = 2, NEW p \in Seated, NEW q \in Seated, p # q
    PROVE  /\ BroadcastFlags(p) = "PSH" \/ BroadcastFlags(q) = "PSH"
           /\ game.turn \in Marks => BroadcastFlags(p) = "PSH/TRN" \/ BroadcastFlags(q) = "PSH/TRN"
<1>1. Position(p) \in {1, 2} /\ Position(q) \in {1, 2} /\ Position(p) # Position(q)
  BY TwoSeats
<1> QED
  BY <1>1, TurnIndices DEF BroadcastFlags, Marks

LEMMA FlagsOfBroadcast == \A p : BroadcastFlags(p) \in {"PSH", "PSH/TRN"}
BY DEF BroadcastFlags

\* A new game is not over.
LEMMA NewGameIsOpen == ~IsGameOver(ResetGame.trackGame)
<1>1. Middle \in Cells /\ WinLines \in Seq((SUBSET Cells) \ {{}})
  BY BoardAssumption
<1>2. \A i \in DOMAIN WinLines : WinLines[i] \in (SUBSET Cells) \ {{}}
  BY <1>1, ElementOfSeq, LenProperties
<1>3. \A c \in Cells : ResetGame.trackGame[c] = Blank
  BY DEF ResetGame
<1>4. Blank # "X" /\ Blank # "O"
  BY DEF Blank
<1>5. CompleteLines(ResetGame.trackGame) = {}
  <2>1. ASSUME NEW m, m # Blank PROVE CompletedBy(ResetGame.trackGame, m) = {}
    <3> SUFFICES ASSUME NEW i \in DOMAIN WinLines,
                        \A c \in WinLines[i] : ResetGame.trackGame[c] = m
                 PROVE  FALSE
      BY DEF CompletedBy
    <3>1. PICK c \in WinLines[i] : c \in Cells
      BY <1>2
    <3> QED
      BY <1>3, <2>1, <3>1
  <2> QED
    BY <1>4, <2>1 DEF CompleteLines
<1>6. ~IsGridFull(ResetGame.trackGame)
  BY <1>1, <1>3 DEF IsGridFull
<1> QED
  BY <1>5, <1>6 DEF IsGameOver

LEMMA NextSeqDiffers == \A n \in SeqNums : NextSeq(n) # n /\ NextSeq(n) \in SeqNums
<1> SUFFICES ASSUME NEW n \in SeqNums PROVE NextSeq(n) # n /\ NextSeq(n) \in SeqNums
  OBVIOUS
<1>1. MAX_SEQ \in Nat \ {0} /\ n \in 0 .. MAX_SEQ
  BY PacketAssumption DEF SeqNums
<1>2. CASE n = MAX_SEQ
  BY <1>1, <1>2 DEF NextSeq, SeqNums
<1>3. CASE n < MAX_SEQ
  <2>1. (n + 1) % (MAX_SEQ + 1) = n + 1
    BY <1>1, <1>3
  <2> QED
    BY <1>1, <1>3, <2>1 DEF NextSeq, SeqNums
<1> QED
  BY <1>1, <1>2, <1>3

-----------------------------------------------------------------------------
(* Every seated client is in one of the phases.                            *)

Phase(p) ==
    \/ Nudged(p) \/ Reminds(p) \/ HasMoved(p) \/ Leaves(p) \/ Waves(p) \/ Parts(p)
    \/ Prods(p) \/ Joins(p) \/ Informed(p) \/ InformedLate(p) \/ Plays(p)

LEMMA RestPhases ==
    ASSUME NEW p
    PROVE  /\ AtRest(p) => Phase(p)
           /\ Due(p) => Phase(p)
           /\ InRound(p) => Phase(p)
           /\ InBroadcast(p) => Phase(p)
BY DEF AtRest, Settled, Calls, Due, InRound, InBroadcast, Waiting, Phase

LEMMA SeatedPhases ==
    ASSUME ServerTypeOK, SessionInv, NEW p \in Seated
    PROVE  Phase(p)
<1> USE DEF SessionInv
<1>1. pc \in Places /\ ret \in Returns /\ ~Stopped
  BY DEF ServerTypeOK
<1>2. CASE pc \in {"select", "accept", "loop"}
  BY <1>2, RestPhases DEF RestOK
<1>3. CASE pc = "received"
  BY <1>3, RestPhases DEF ReceivedOK
<1>4. CASE pc \in {"bcast", "bcasted"} \/ InCall("bcasted")
  BY <1>4, RestPhases DEF BroadcastingOK, InCall, Phase
<1>5. CASE InCall("received")
  BY <1>5 DEF JoiningOK, Phase, Waiting
<1>6. CASE pc = "receipt" \/ InCall("receipted")
  BY <1>6, RestPhases DEF RoundOK, Served, InCall
<1>7. CASE pc = "receipted"
  BY <1>7, RestPhases DEF RoundOK, Served, Answerable, Dismissed, Phase
<1>8. CASE pc = "finchk"
  BY <1>8, RestPhases DEF RoundOK, Served, Dismissed, Phase
<1>9. CASE pc = "unicasted"
  BY <1>9, RestPhases DEF RoundOK
<1>10. CASE InCall("unicasted")
  BY <1>10, RestPhases DEF RoundOK, InCall, Phase
<1>11. CASE InCall("receipt")
  BY <1>11, RestPhases DEF RoundOK, InCall, Phase
<1> QED
  BY <1>1, <1>2, <1>3, <1>4, <1>5, <1>6, <1>7, <1>8, <1>9, <1>10, <1>11
  DEF Places, Returns, Stopped, InCall

LEMMA PhaseAlive ==
    ASSUME NEW p, Phase(p)
    PROVE  cpc[addr[p]] \in Waits \cup {"turn"}
<1> USE DEF Stays, Heard, Waits
<1>1. Nudged(p) \/ Reminds(p) => cpc[addr[p]] = "w_game"
  BY DEF Nudged, Reminds
<1>2. HasMoved(p) => cpc[addr[p]] \in {"w_ack", "w_game"}
  BY DEF HasMoved, Moved
<1>3. Leaves(p) \/ Waves(p) => cpc[addr[p]] = "w_finack"
  BY DEF Leaves, Left, Waves
<1>4. Parts(p) => cpc[addr[p]] \in {"w_finack", "w_fin", "w_linger"}
  BY DEF Parts, Parting
<1>5. Prods(p) \/ Joins(p) => cpc[addr[p]] \in {"w_game", "w_synack"}
  BY DEF Prods, Prodded, Joins, Joining
<1>6. ASSUME NEW q, NEW k, NEW f, NEW g, Offered(p, q, k, f, g)
      PROVE  cpc[addr[p]] \in {"w_game", "w_ack", "w_finack", "turn"}
  BY <1>6 DEF Offered, OnItsWay, Answered, Left, HasTurn
<1>7. ASSUME NEW q, Told(p, q)
      PROVE  cpc[addr[p]] \in {"w_game", "w_ack", "w_finack", "turn"}
  BY <1>6, <1>7 DEF Told
<1>8. Informed(p) \/ InformedLate(p) \/ Plays(p)
        => cpc[addr[p]] \in {"w_game", "w_ack", "w_finack", "turn"}
  BY <1>7 DEF Informed, InformedLate, Plays, HasTurn
<1> QED
  BY <1>1, <1>2, <1>3, <1>4, <1>5, <1>8 DEF Phase

LEMMA SeatedLinked ==
    ASSUME IInv, SessionInv, Undisturbed, NEW p \in Seated
    PROVE  Linked(p) /\ Phase(p) /\ addr[p] # NoAddr
<1>1. Phase(p)
  BY SeatedPhases DEF IInv, TypeOK
<1>2. cpc[addr[p]] \notin {"start", "exit"}
  BY <1>1, PhaseAlive DEF Waits
<1>3. p \in Ports /\ addr[p] \in Clients /\ addr[p] # NoAddr
  BY ListEntries DEF IInv, TypeOK, ServerTypeOK, ServerInv, ListOK
<1>4. p \in bound
  BY <1>3 DEF IInv, ServerInv, SocketsOK, SessionInv, ServerSockets, Seated
<1>5. addr[p] \in bound
  BY <1>2, <1>3 DEF SessionInv, ClientsOK
<1> QED
  BY <1>1, <1>3, <1>4, <1>5 DEF Linked, IInv

-----------------------------------------------------------------------------
(* What a step of the server leaves alone.                                 *)

\* The record of p, what waits for it and what waits for its client may change.
Touches(p) ==
    /\ UNCHANGED <<conns, addr, bound, signalled, clientVars>>
    /\ \A e \in Endpoints \ {p, addr[p]} : net'[e] = net[e]
    /\ \A q \in Ports \ {p} : SameRecord(q)

\* Nothing changes but the server's place and what it remembers of the round.
Still ==
    /\ UNCHANGED <<conns, addr, netVars, signalled, clientVars>>
    /\ \A q \in Ports : SameRecord(q)

LEMMA TouchesOne ==
    ASSUME IInv, SessionInv, Undisturbed, NEW p \in Seated, Touches(p)
    PROVE  /\ ClientsOK'
           /\ Seated' = Seated /\ signalled' = "no"
           /\ \A q \in Seated \ {p} : SameLink(q) /\ SameRecord(q)
<1>1. /\ conns' = conns /\ addr' = addr /\ bound' = bound /\ signalled' = signalled
      /\ cpc' = cpc /\ cs_packet' = cs_packet /\ cr_seq' = cr_seq /\ view' = view
      /\ peer' = peer /\ running' = running /\ tv_sec' = tv_sec /\ num_to' = num_to
  BY DEF Touches, clientVars
<1>2. /\ Linked(p) /\ p \in Ports /\ addr[p] \in Clients /\ addr[p] # NoAddr
      /\ Seated \subseteq Ports
  BY SeatedLinked, ListEntries DEF Linked, IInv, TypeOK
<1>3. /\ SingleSeats /\ ClientsOK /\ signalled = "no"
  BY DEF SessionInv, ClientsOK
<1>4. /\ Clients \cap Ports = {} /\ Main \notin Ports \cup Clients
      /\ \A c \in Clients : c \in Endpoints
      /\ \A q \in Ports : q \in Endpoints
      /\ Main \in Endpoints
      /\ \A q \in Ports : addr[q] \in Clients \cup {NoAddr}
  BY EndpointKinds DEF Endpoints, IInv, TypeOK, ServerTypeOK, Ports, Main
<1>5. \A c \in Clients \ {addr[p]} : net'[c] = net[c]
  BY <1>2, <1>4 DEF Touches
<1>6. \A q \in Ports \ {p} : net'[q] = net[q] /\ SameRecord(q) /\ r_packet'[q] = r_packet[q]
  BY <1>2, <1>4 DEF Touches, SameRecord
<1>7. net'[Main] = net[Main]
  BY <1>2, <1>4 DEF Touches
<1>8. \A q \in Ports \ {p} : addr[q] # addr[p]
  BY <1>2, <1>3 DEF SingleSeats
<1>9. Seated' = Seated
  BY <1>1 DEF Seated
<1>10. \A q \in Seated \ {p} : SameLink(q) /\ SameRecord(q)
  <2> SUFFICES ASSUME NEW q \in Seated, q # p PROVE SameLink(q) /\ SameRecord(q)
    OBVIOUS
  <2>1. addr[q] \in Clients /\ addr[q] # addr[p] /\ q \in Ports
    BY <1>2, <1>8, SeatedLinked DEF Linked
  <2> QED
    BY <1>1, <1>5, <1>6, <2>1 DEF SameLink
<1>11. SingleSeats'
  BY <1>1, <1>3 DEF SingleSeats
<1>12. \A c \in Clients : (\A q \in Ports : addr'[q] # c) => Outside(c)'
  BY <1>1, <1>2, <1>3, <1>5 DEF ClientsOK, Outside
<1>13. \A q \in Ports : addr'[q] # NoAddr /\ q \notin Seated' => Gone(q)'
  <2> SUFFICES ASSUME NEW q \in Ports, addr[q] # NoAddr, q \notin Seated PROVE Gone(q)'
    BY <1>1, <1>9
  <2>1. Gone(q) /\ addr[q] \in Clients /\ addr[q] # addr[p]
    BY <1>3, <1>4, <1>8 DEF ClientsOK
  <2> QED
    BY <1>1, <1>5, <2>1 DEF Gone
<1>14. \A q \in Ports : q \notin Seated' => net'[q] = <<>> /\ r_packet'[q] = NoReceipt
  BY <1>3, <1>6, <1>9 DEF ClientsOK
<1> QED
  BY <1>1, <1>3, <1>7, <1>9, <1>10, <1>11, <1>12, <1>13, <1>14 DEF ClientsOK

LEMMA StaysStill ==
    ASSUME IInv, SessionInv, Undisturbed, Still
    PROVE  /\ ClientsOK'
           /\ Seated' = Seated /\ signalled' = "no"
           /\ \A q \in Seated : SameLink(q) /\ SameRecord(q)
<1>1. /\ conns' = conns /\ addr' = addr /\ net' = net /\ bound' = bound
      /\ signalled' = signalled
      /\ cpc' = cpc /\ cs_packet' = cs_packet /\ cr_seq' = cr_seq /\ view' = view
      /\ peer' = peer /\ running' = running /\ tv_sec' = tv_sec /\ num_to' = num_to
  BY DEF Still, netVars, clientVars
<1>2. \A q \in Ports : SameRecord(q) /\ r_packet'[q] = r_packet[q]
  BY DEF Still, SameRecord
<1>3. Seated' = Seated /\ Seated \subseteq Ports
  BY <1>1, ListEntries DEF Seated, IInv, TypeOK
<1>4. ClientsOK'
  BY <1>1, <1>2, <1>3 DEF SessionInv, ClientsOK, SingleSeats, Outside, Gone
<1> QED
  BY <1>1, <1>2, <1>3, <1>4 DEF SessionInv, SameLink

\* The list and the game stay as well.
LEMMA RestFrame ==
    ASSUME NEW p, SameLink(p), SameRecord(p), conns' = conns, game' = game
    PROVE  /\ KeepsPlain(p) /\ KeepsGame(p)
           /\ WaitsHere(p) => WaitsHere(p)'
           /\ Settled(p) => Settled(p)'
           /\ Calls(p) => Calls(p)'
           /\ AtRest(p) => AtRest(p)'
           /\ Due(p) => Due(p)'
<1>1. KeepsPlain(p) /\ KeepsGame(p)
  BY PlainFrame, GameFrame
<1>2. /\ BroadcastFlags(p)' = BroadcastFlags(p) /\ Over' = Over /\ Opponents' = Opponents
      /\ s_packet'[p].flags = s_packet[p].flags
  BY DEF BroadcastFlags, Position, Over, Opponents, SameRecord
<1>3. WaitsHere(p) => WaitsHere(p)'
  BY <1>2 DEF WaitsHere
<1>4. Settled(p) => Settled(p)'
  BY <1>1, <1>2, <1>3 DEF Settled, KeepsPlain, KeepsGame
<1>5. Calls(p) => Calls(p)'
  BY <1>1, <1>2, <1>3 DEF Calls, KeepsPlain
<1>6. Due(p) => Due(p)'
  BY <1>1, <1>2 DEF Due, KeepsPlain
<1> QED
  BY <1>1, <1>3, <1>4, <1>5, <1>6 DEF AtRest

-----------------------------------------------------------------------------
(* The steps of the server that send and receive nothing.                  *)

Good == IInv /\ SessionInv /\ Undisturbed

LEMMA GoodFacts ==
    ASSUME Good
    PROVE  /\ ServerTypeOK /\ ListOK /\ MAX_CLIENTS = 2 /\ NetTypeOK /\ ClientTypeOK
           /\ ServerInv /\ signalled = "no" /\ ~Stopped /\ TableOK /\ ~Interrupted
           /\ RestOK /\ JoiningOK /\ ReceivedOK /\ BroadcastingOK /\ RoundOK
           /\ Seated \subseteq Ports /\ 0 \notin Seated
BY ListEntries DEF Good, IInv, TypeOK, ServerInv, SessionInv, Undisturbed, Interrupted

\* A round's obligations survive a step elsewhere.
LEMMA RoundFrame ==
    ASSUME NEW p, SameLink(p), SameRecord(p), UNCHANGED <<conns, game, do_broadcast>>,
           InRound(p), ToVisit(p) => ToVisit(p)'
    PROVE  InRound(p)'
<1>1. /\ KeepsPlain(p) /\ (Settled(p) => Settled(p)') /\ (Calls(p) => Calls(p)')
  BY RestFrame
<1> QED
  BY <1>1 DEF InRound, KeepsPlain

LEMMA BroadcastFrame ==
    ASSUME NEW p, SameLink(p), SameRecord(p), UNCHANGED <<conns, game, curr>>, InBroadcast(p)
    PROVE  InBroadcast(p)'
<1>1. /\ AtRest(p) => AtRest(p)'
      /\ Due(p) => Due(p)'
  BY RestFrame
<1>2. Passed(p)' = Passed(p)
  BY DEF Passed, NextInList, Position
<1> QED
  BY <1>1, <1>2 DEF InBroadcast
LEMMA SelectKeeps ==
    ASSUME Good, Select, UNCHANGED clientVars
    PROVE  SessionInv'
<1>0. /\ ServerTypeOK /\ ListOK /\ MAX_CLIENTS = 2 /\ TableOK /\ RestOK
      /\ IInv /\ SessionInv /\ Undisturbed /\ Seated \subseteq Ports
  BY GoodFacts DEF Good
<1>1. /\ pc = "select" /\ readfds' = Readable /\ do_broadcast' = FALSE /\ do_unicast' = FALSE
      /\ curr' = First /\ pc' \in {"accept", "receipt"}
      /\ UNCHANGED <<netVars, conns, addr, s_packet, r_packet, game, signalled>>
  BY DEF Select, Goto
<1>2. Still
  BY <1>1 DEF Still, SameRecord
<1>3. /\ ClientsOK' /\ Seated' = Seated /\ signalled' = "no"
      /\ \A p \in Seated : SameLink(p) /\ SameRecord(p)
  BY <1>0, <1>2, StaysStill
<1>4. ASSUME NEW p \in Seated
      PROVE  AtRest(p)' /\ (Settled(p)' \/ (Calls(p)' /\ net[p] # <<>>))
  <2>1. AtRest(p)
    BY <1>0, <1>1 DEF RestOK
  <2>2. Calls(p) => net[p] # <<>>
    BY Queues DEF Calls, Leaves, Left, Reminds, Heard
  <2>3. /\ AtRest(p) => AtRest(p)'
        /\ Settled(p) => Settled(p)'
        /\ Calls(p) => Calls(p)'
    BY <1>1, <1>3, RestFrame
  <2> QED
    BY <2>1, <2>2, <2>3 DEF AtRest
<1>5. TableOK'
  <2>1. ~RoundPlace
    BY <1>1 DEF RoundPlace, InCall
  <2>2. game.turn \in Marks /\ (~Opponents => game = ResetGame)
    BY <1>0, <1>1, <2>1 DEF TableOK
  <2> QED
    BY <1>1, <2>2 DEF TableOK, Opponents
<1>6. CASE pc' = "accept"
  BY <1>3, <1>4, <1>5, <1>6 DEF SessionInv, Stopped, RestOK, JoiningOK, ReceivedOK,
     BroadcastingOK, RoundOK, RoundPlace, InCall
<1>7. CASE pc' = "receipt"
  <2>1. ASSUME NEW p \in Seated PROVE InRound(p)'
    <3>1. CASE Settled(p)'
      BY <1>1, <3>1 DEF InRound
    <3>2. CASE Calls(p)' /\ net[p] # <<>>
      <4>1. p \in readfds'
        BY <1>1, <3>2 DEF Readable, ServerSockets, Seated
      <4>2. /\ curr' # 0
            /\ p = curr' \/ p = NextInList(First)
        BY <1>0, <1>1, TwoSeats, Neighbours
      <4>3. NextInList(First) = NextInList(curr)'
        BY <1>1 DEF NextInList, Position
      <4>4. ToVisit(p)'
        BY <1>7, <4>1, <4>2, <4>3 DEF ToVisit
      <4> QED
        BY <1>1, <3>2, <4>4 DEF InRound
    <3> QED
      BY <1>4, <3>1, <3>2
  <2>2. \A p \in Seated \cap readfds' : net'[p] # <<>>
    BY <1>1 DEF Readable, netVars
  <2> QED
    BY <1>1, <1>3, <1>5, <1>7, <2>1, <2>2 DEF SessionInv, Stopped, RestOK, JoiningOK, ReceivedOK,
     BroadcastingOK, RoundOK, RoundPlace, InCall
<1> QED
  BY <1>1, <1>6, <1>7

LEMMA AfterReceiptKeeps ==
    ASSUME Good, AfterReceipt, UNCHANGED clientVars
    PROVE  SessionInv'
<1>0. /\ ServerTypeOK /\ ListOK /\ MAX_CLIENTS = 2 /\ TableOK /\ ReceivedOK /\ ~Interrupted
      /\ IInv /\ SessionInv /\ Undisturbed /\ Seated \subseteq Ports /\ 0 \notin Seated
  BY GoodFacts DEF Good
<1>1. /\ pc = "received"
      /\ UNCHANGED <<netVars, conns, addr, s_packet, r_packet, game, signalled>>
      /\ IF Opponents /\ do_broadcast
         THEN payload' = game /\ curr' = First /\ pc' = "bcast"
         ELSE pc' = "loop"
  BY <1>0 DEF AfterReceipt, Goto, Opponents
<1>2. Still
  BY <1>1 DEF Still, SameRecord
<1>3. /\ ClientsOK' /\ Seated' = Seated /\ signalled' = "no"
      /\ \A p \in Seated : SameLink(p) /\ SameRecord(p)
  BY <1>0, <1>2, StaysStill
<1>4. ASSUME NEW p \in Seated
      PROVE  /\ AtRest(p) => AtRest(p)'
             /\ Due(p) => Due(p)'
  BY <1>1, <1>3, RestFrame
<1>5. /\ ~RoundPlace /\ game.turn \in Marks
      /\ ~Opponents => game = ResetGame \/ (Over /\ conns = <<>>)
      /\ Opponents' = Opponents /\ Over' = Over
  BY <1>0, <1>1 DEF TableOK, RoundPlace, InCall, Opponents, Over
<1>6. CASE Opponents /\ do_broadcast
  <2>1. TableOK' /\ pc' = "bcast"
    BY <1>1, <1>5, <1>6 DEF TableOK
  <2>2. ASSUME NEW p \in Seated PROVE InBroadcast(p)'
    <3>1. Due(p)'
      BY <1>0, <1>1, <1>4, <1>6 DEF ReceivedOK
    <3>2. p = curr' \/ p = NextInList(curr)'
      <4>1. p = First \/ p = NextInList(First)
        BY <1>0, Neighbours
      <4>2. NextInList(First) = NextInList(curr)'
        BY <1>1, <1>6 DEF NextInList, Position
      <4> QED
        BY <1>1, <1>6, <4>1, <4>2
    <3>3. curr' # 0
      BY <1>0, <1>1, <1>6, TwoSeats
    <3> QED
      BY <3>1, <3>2, <3>3 DEF InBroadcast, Passed
  <2> QED
    BY <1>1, <1>3, <1>5, <1>6, <2>1, <2>2 DEF SessionInv, Stopped, RestOK, JoiningOK, ReceivedOK,
     BroadcastingOK, RoundOK, RoundPlace, InCall
<1>7. CASE ~(Opponents /\ do_broadcast)
  <2>1. TableOK' /\ pc' = "loop"
    BY <1>1, <1>5, <1>7 DEF TableOK
  <2>2. ASSUME NEW p \in Seated PROVE AtRest(p)'
    BY <1>0, <1>1, <1>4, <1>7 DEF ReceivedOK
  <2> QED
    BY <1>1, <1>3, <2>1, <2>2 DEF SessionInv, Stopped, RestOK, JoiningOK, ReceivedOK,
     BroadcastingOK, RoundOK, RoundPlace, InCall
<1> QED
  BY <1>6, <1>7

LEMMA EndLoopKeeps ==
    ASSUME Good, EndLoop, UNCHANGED clientVars
    PROVE  SessionInv'
<1>0. /\ ServerTypeOK /\ ListOK /\ MAX_CLIENTS = 2 /\ TableOK /\ RestOK /\ signalled = "no"
      /\ IInv /\ SessionInv /\ Undisturbed /\ Seated \subseteq Ports
  BY GoodFacts DEF Good
<1>1. /\ pc = "loop" /\ pc' = "select"
      /\ UNCHANGED <<netVars, conns, addr, s_packet, r_packet, signalled>>
      /\ game' = IF Opponents THEN game ELSE ResetGame
  <2>1. Opponents <=> ~(Len(conns) < MAX_CLIENTS)
    BY <1>0, TwoSeats DEF Opponents
  <2>2. pc = "loop" /\ UNCHANGED <<faults, conns, addr, s_packet, r_packet, signalled>>
    BY DEF EndLoop
  <2>3. game' = IF Len(conns) < MAX_CLIENTS THEN ResetGame ELSE game
    BY DEF EndLoop
  <2>4. pc' = "select" /\ UNCHANGED <<bound, net>>
    BY <1>0 DEF EndLoop, Goto
  <2> QED
    BY <2>1, <2>2, <2>3, <2>4 DEF netVars
<1>2. Still
  BY <1>1 DEF Still, SameRecord
<1>3. /\ ClientsOK' /\ Seated' = Seated /\ signalled' = "no"
      /\ \A p \in Seated : SameLink(p) /\ SameRecord(p)
  BY <1>0, <1>2, StaysStill
<1>4. game' = game \/ Seated = {}
  <2>1. ~RoundPlace
    BY <1>1 DEF RoundPlace, InCall
  <2>2. Opponents \/ game = ResetGame \/ conns = <<>>
    BY <1>0, <1>1, <2>1 DEF TableOK
  <2> QED
    BY <1>0, <1>1, <2>2, TwoSeats
<1>5. ASSUME NEW p \in Seated PROVE AtRest(p)'
  <2>1. AtRest(p)
    BY <1>0, <1>1 DEF RestOK
  <2> QED
    BY <1>1, <1>3, <1>4, <2>1, RestFrame
<1>6. TableOK'
  BY <1>0, <1>1 DEF TableOK, Opponents, ResetGame, Marks
<1> QED
  BY <1>1, <1>3, <1>5, <1>6 DEF SessionInv, Stopped, RestOK, JoiningOK, ReceivedOK,
     BroadcastingOK, RoundOK, RoundPlace, InCall
LEMMA ReceiptRecvKeeps ==
    ASSUME Good, ReceiptRecv, UNCHANGED clientVars
    PROVE  SessionInv'
<1>0. /\ ServerTypeOK /\ ListOK /\ MAX_CLIENTS = 2 /\ TableOK /\ RoundOK /\ ServerInv
      /\ IInv /\ SessionInv /\ Undisturbed /\ Seated \subseteq Ports
  BY GoodFacts DEF Good
<1>1. /\ pc = "receipt" /\ pc' = "recv" /\ rx' = curr /\ ret' = "receipted"
      /\ curr # 0 /\ curr \in readfds
      /\ UNCHANGED <<netVars, curr, readfds, conns, addr, s_packet, r_packet, game,
                     do_broadcast, do_unicast, signalled>>
  BY DEF ReceiptRecv, Goto, RecvFrom
<1>2. Still
  BY <1>1 DEF Still, SameRecord
<1>3. /\ ClientsOK' /\ Seated' = Seated /\ signalled' = "no"
      /\ \A p \in Seated : SameLink(p) /\ SameRecord(p)
  BY <1>0, <1>2, StaysStill
<1>4. RoundPlace /\ RoundPlace'
  BY <1>1 DEF RoundPlace, InCall
<1>5. TableOK'
  BY <1>0, <1>1, <1>4 DEF TableOK, Opponents, Over
<1>6. ASSUME NEW p \in Seated PROVE InRound(p)'
  <2>1. InRound(p)
    BY <1>0, <1>1 DEF RoundOK
  <2>2. ToVisit(p) => ToVisit(p)'
    BY <1>1 DEF ToVisit, NextInList, Position
  <2> QED
    BY <1>1, <1>3, <2>1, <2>2, RoundFrame
<1>7. /\ do_broadcast' => Opponents'
      /\ \A p \in Seated \cap readfds' : net'[p] # <<>>
      /\ do_unicast' => do_broadcast'
  BY <1>0, <1>1, <1>4 DEF RoundOK, Opponents, netVars
<1>8. \A p \in Seated : Served(p)'
  BY <1>6, <1>7 DEF Served
<1> QED
  BY <1>1, <1>3, <1>5, <1>7, <1>8 DEF SessionInv, Stopped, RestOK, JoiningOK, ReceivedOK,
     BroadcastingOK, RoundOK, RoundPlace, InCall

LEMMA ReceiptSkipKeeps ==
    ASSUME Good, ReceiptSkip, UNCHANGED clientVars
    PROVE  SessionInv'
<1>0. /\ ServerTypeOK /\ ListOK /\ MAX_CLIENTS = 2 /\ TableOK /\ RoundOK /\ ServerInv
      /\ ~Interrupted /\ do_broadcast \in BOOLEAN
      /\ IInv /\ SessionInv /\ Undisturbed /\ Seated \subseteq Ports /\ 0 \notin Seated
  BY GoodFacts DEF Good, ServerTypeOK
<1>1. /\ pc = "receipt" /\ curr \notin readfds
      /\ pc' = IF curr = 0 THEN "received" ELSE "receipted"
      /\ UNCHANGED <<netVars, curr, readfds, conns, addr, s_packet, r_packet, game,
                     do_broadcast, do_unicast, signalled>>
  BY <1>0 DEF ReceiptSkip, Goto
<1>2. Still
  BY <1>1 DEF Still, SameRecord
<1>3. /\ ClientsOK' /\ Seated' = Seated /\ signalled' = "no"
      /\ \A p \in Seated : SameLink(p) /\ SameRecord(p)
  BY <1>0, <1>2, StaysStill
<1>4. RoundPlace
  BY <1>1 DEF RoundPlace
<1>5. /\ \A p \in Seated : InRound(p)
      /\ do_broadcast => Opponents
      /\ \A p \in Seated \cap readfds : net[p] # <<>>
      /\ do_unicast => do_broadcast
  BY <1>0, <1>1, <1>4 DEF RoundOK
<1>6. CASE curr = 0
  <2>1. \A p \in Seated : ~ToVisit(p)
    BY <1>6 DEF ToVisit
  <2>2. ASSUME NEW p \in Seated
        PROVE  IF do_broadcast THEN Due(p) ELSE Settled(p)
    BY <1>5, <2>1 DEF InRound, Due
  <2>3. ASSUME NEW p \in Seated
        PROVE  IF do_broadcast' /\ Opponents' THEN Due(p)' ELSE AtRest(p)'
    <3>1. /\ Due(p) => Due(p)'
          /\ AtRest(p) => AtRest(p)'
          /\ Opponents' = Opponents
      BY <1>1, <1>3, RestFrame DEF Opponents
    <3> QED
      BY <1>1, <1>5, <2>2, <3>1 DEF AtRest
  <2>4. TableOK'
    <3>1. game.turn \in Marks /\ (Opponents \/ game = ResetGame \/ Over)
      BY <1>0 DEF TableOK
    <3>2. Over /\ ~Opponents => conns = <<>>
      <4>1. ASSUME NEW p \in Seated, Over, ~Opponents PROVE FALSE
        BY <1>5, <2>2, <4>1 DEF Settled
      <4> QED
        BY <1>0, <4>1, TwoSeats
    <3> QED
      BY <1>1, <1>6, <3>1, <3>2 DEF TableOK, Opponents, Over
  <2> QED
    BY <1>1, <1>3, <1>6, <2>3, <2>4 DEF SessionInv, Stopped, RestOK, JoiningOK, ReceivedOK,
       BroadcastingOK, RoundOK, RoundPlace, InCall
<1>7. CASE curr # 0
  <2>1. curr \in Seated
    BY <1>0, <1>1, <1>7 DEF ServerInv, PointersOK
  <2>2. RoundPlace' /\ pc' = "receipted"
    BY <1>1, <1>7 DEF RoundPlace
  <2>3. TableOK'
    BY <1>0, <1>1, <1>4, <2>2 DEF TableOK, Opponents, Over
  <2>4. ASSUME NEW p \in Seated PROVE InRound(p)'
    <3>1. ToVisit(p) => ToVisit(p)'
      BY <1>1 DEF ToVisit, NextInList, Position
    <3> QED
      BY <1>1, <1>3, <1>5, <3>1, RoundFrame
  <2>5. Served(curr)'
    BY <1>1, <1>5, <2>1, <2>4 DEF Served
  <2>6. (do_broadcast' => Opponents') /\ \A p \in Seated \cap readfds' : net'[p] # <<>>
    BY <1>1, <1>5 DEF Opponents, netVars
  <2> QED
    BY <1>1, <1>3, <2>1, <2>2, <2>3, <2>4, <2>5, <2>6 DEF SessionInv, Stopped, RestOK, JoiningOK,
       ReceivedOK, BroadcastingOK, RoundOK, RoundPlace, InCall
<1> QED
  BY <1>6, <1>7

\* The record the loop goes on with is in the list.
LEMMA NoUseAfterFree ==
    ASSUME Good
    PROVE  ~UseAfterFree
BY GoodFacts DEF UseAfterFree, IsFree, Seated, RoundOK, BroadcastingOK

\* Only pc and do_unicast change, from receipted or unicasted to finchk.
LEMMA ToFinCheck ==
    ASSUME Good, pc \in {"receipted", "unicasted"}, pc' = "finchk", curr \in Seated,
           Still, UNCHANGED <<curr, readfds, game, do_broadcast>>,
           \/ (do_unicast' => do_broadcast') /\ InRound(curr)
           \/ ~do_unicast' /\ Dismissed(curr),
           \A p \in Seated \ {curr} : InRound(p)
    PROVE  SessionInv'
<1>0. /\ ServerTypeOK /\ ListOK /\ MAX_CLIENTS = 2 /\ TableOK /\ RoundOK /\ ServerInv
      /\ IInv /\ SessionInv /\ Undisturbed /\ Seated \subseteq Ports
  BY GoodFacts DEF Good
<1>1. conns' = conns /\ net' = net
  BY DEF Still, netVars
<1>2. /\ ClientsOK' /\ Seated' = Seated /\ signalled' = "no"
      /\ \A p \in Seated : SameLink(p) /\ SameRecord(p)
  BY <1>0, StaysStill
<1>3. RoundPlace /\ RoundPlace'
  BY DEF RoundPlace
<1>4. TableOK'
  BY <1>0, <1>1, <1>3 DEF TableOK, Opponents, Over
<1>5. (do_broadcast' => Opponents') /\ \A p \in Seated \cap readfds' : net'[p] # <<>>
  BY <1>0, <1>1, <1>3 DEF RoundOK, Opponents
<1>6. ASSUME NEW p \in Seated, InRound(p) PROVE InRound(p)'
  <2>1. ToVisit(p) => ToVisit(p)'
    BY <1>1 DEF ToVisit, NextInList, Position
  <2> QED
    BY <1>1, <1>2, <1>6, <2>1, RoundFrame
<1>7. PICK x : x = curr
  OBVIOUS
<1>8. ASSUME Dismissed(x), ~do_unicast' PROVE Dismissed(x)'
  <2>1. Waves(x)'
    BY <1>1, <1>2, <1>7, <1>8, RestFrame DEF Dismissed, KeepsPlain
  <2> QED
    BY <1>8, <2>1 DEF Dismissed, Over
<1>9. Served(curr)' \/ Dismissed(curr)'
  <2>1. CASE (do_unicast' => do_broadcast') /\ InRound(x)
    BY <1>6, <1>7, <2>1 DEF Served
  <2>2. CASE ~do_unicast' /\ Dismissed(x)
    BY <1>7, <1>8, <2>2
  <2> QED
    BY <1>7, <2>1, <2>2
<1> QED
  BY <1>2, <1>4, <1>5, <1>6, <1>9 DEF SessionInv, Stopped, RestOK, JoiningOK,
     ReceivedOK, BroadcastingOK, RoundOK, RoundPlace, InCall

LEMMA NoUnicastKeeps ==
    ASSUME Good, NoUnicast, UNCHANGED clientVars
    PROVE  SessionInv'
<1>0. /\ RoundOK /\ ~Interrupted /\ do_broadcast \in BOOLEAN /\ do_unicast \in BOOLEAN
      /\ Good
  BY GoodFacts DEF ServerTypeOK
<1>1. /\ pc = "receipted" /\ pc' = "finchk" /\ ~WantsUnicast
      /\ UNCHANGED <<netVars, curr, readfds, conns, addr, s_packet, r_packet, game,
                     do_broadcast, do_unicast, signalled>>
  BY DEF NoUnicast, Goto
<1>2. Still
  BY <1>1 DEF Still, SameRecord
<1>3. /\ curr \in Seated
      /\ \A p \in Seated \ {curr} : InRound(p)
      /\ Answerable(curr) \/ Served(curr) \/ Dismissed(curr)
  BY <1>0, <1>1 DEF RoundOK
<1>4. ~Answerable(curr)
  BY <1>0, <1>1 DEF Answerable, WantsUnicast
<1> QED
  BY <1>0, <1>1, <1>2, <1>3, <1>4, ToFinCheck DEF Served, Dismissed

LEMMA UnicastedKeeps ==
    ASSUME Good, Unicasted, UNCHANGED clientVars
    PROVE  SessionInv'
<1>0. RoundOK /\ ServerTypeOK /\ Good
  BY GoodFacts
<1>1. /\ pc = "unicasted" /\ pc' = "finchk" /\ do_unicast' = FALSE
      /\ s_packet' = [s_packet EXCEPT ![curr] = FreePayload(@)]
      /\ UNCHANGED <<netVars, curr, readfds, conns, addr, r_packet, game,
                     do_broadcast, signalled>>
  BY DEF Unicasted, Goto
<1>2. Still
  <2>1. ASSUME NEW q \in Ports PROVE SameRecord(q)
    <3>1. s_packet'[q] = s_packet[q] \/ s_packet'[q] = [s_packet[q] EXCEPT !.payload = Freed]
      BY <1>0, <1>1 DEF ServerTypeOK, FreePayload
    <3>2. s_packet[q] \in StoredPackets
      BY <1>0 DEF ServerTypeOK
    <3> QED
      BY <1>1, <3>1, <3>2 DEF SameRecord, StoredPackets
  <2> QED
    BY <1>1, <2>1 DEF Still
<1>3. /\ curr \in Seated
      /\ \A p \in Seated : InRound(p)
  BY <1>0, <1>1 DEF RoundOK
<1> QED
  BY <1>0, <1>1, <1>2, <1>3, ToFinCheck

\* curr moves on.
LEMMA NextClientKeeps ==
    ASSUME Good, NextClient, UNCHANGED clientVars
    PROVE  SessionInv'
<1>0. /\ ServerTypeOK /\ ListOK /\ MAX_CLIENTS = 2 /\ TableOK /\ RoundOK /\ ServerInv
      /\ IInv /\ SessionInv /\ Undisturbed /\ Seated \subseteq Ports /\ 0 \notin Seated
      /\ do_broadcast \in BOOLEAN
  BY GoodFacts DEF Good, ServerTypeOK
<1>1. /\ pc = "finchk" /\ pc' = "receipt" /\ r_packet[curr].flags # "FIN"
      /\ curr' = NextInList(curr)
      /\ UNCHANGED <<netVars, readfds, conns, addr, s_packet, r_packet, game,
                     do_broadcast, do_unicast, signalled>>
  BY DEF NextClient, Goto
<1>2. Still
  BY <1>1 DEF Still, SameRecord
<1>3. /\ ClientsOK' /\ Seated' = Seated /\ signalled' = "no"
      /\ \A p \in Seated : SameLink(p) /\ SameRecord(p)
  BY <1>0, <1>2, StaysStill
<1>4. RoundPlace /\ RoundPlace'
  BY <1>1 DEF RoundPlace
<1>5. TableOK'
  BY <1>0, <1>1, <1>4 DEF TableOK, Opponents, Over
<1>6. (do_broadcast' => Opponents') /\ \A p \in Seated \cap readfds' : net'[p] # <<>>
  BY <1>0, <1>1, <1>4 DEF RoundOK, Opponents, netVars
<1>7. /\ curr \in Seated /\ Served(curr)
      /\ \A p \in Seated \ {curr} : InRound(p)
  BY <1>0, <1>1 DEF RoundOK, Dismissed, Waves, ServerInv, PointersOK
<1>8. ASSUME NEW p \in Seated PROVE InRound(p)'
  <2>1. InRound(p)
    BY <1>7 DEF Served
  <2>2. NextInList(curr) # curr
    BY <1>0, <1>7, TwoSeats
  <2>3. ToVisit(p) => p = curr'
    BY <1>1, <2>2 DEF ToVisit
  <2>4. ToVisit(p) => ToVisit(p)'
    BY <1>0, <1>1, <2>3 DEF ToVisit
  <2> QED
    BY <1>1, <1>3, <2>1, <2>4, RoundFrame
<1>9. do_unicast' => do_broadcast'
  BY <1>1, <1>7 DEF Served
<1> QED
  BY <1>1, <1>3, <1>5, <1>6, <1>8, <1>9 DEF SessionInv, Stopped, RestOK, JoiningOK,
     ReceivedOK, BroadcastingOK, RoundOK, RoundPlace, InCall

LEMMA BroadcastNextKeeps ==
    ASSUME Good, BroadcastNext, UNCHANGED clientVars
    PROVE  SessionInv'
<1>0. /\ ServerTypeOK /\ ListOK /\ MAX_CLIENTS = 2 /\ TableOK /\ BroadcastingOK
      /\ IInv /\ SessionInv /\ Undisturbed /\ Seated \subseteq Ports /\ 0 \notin Seated
      /\ ~Interrupted
  BY GoodFacts DEF Good
<1>1. /\ pc = "bcasted" /\ pc' = "bcast"
      /\ curr' = NextInList(curr)
      /\ UNCHANGED <<netVars, readfds, conns, addr, s_packet, r_packet, game, payload,
                     do_broadcast, do_unicast, signalled>>
  BY <1>0 DEF BroadcastNext, Goto
<1>2. Still
  BY <1>1 DEF Still, SameRecord
<1>3. /\ ClientsOK' /\ Seated' = Seated /\ signalled' = "no"
      /\ \A p \in Seated : SameLink(p) /\ SameRecord(p)
  BY <1>0, <1>2, StaysStill
<1>4. /\ curr \in Seated /\ AtRest(curr) /\ payload = game /\ Opponents
      /\ \A p \in Seated \ {curr} : InBroadcast(p)
  BY <1>0, <1>1 DEF BroadcastingOK
<1>5. TableOK'
  BY <1>0, <1>1, <1>4 DEF TableOK, Opponents
<1>6. ASSUME NEW p \in Seated PROVE InBroadcast(p)'
  <2>1. /\ AtRest(p) => AtRest(p)'
        /\ Due(p) => Due(p)'
    BY <1>1, <1>3, RestFrame
  <2>2. Passed(p)' = (NextInList(curr) = 0 \/ (p # NextInList(curr)
                        /\ p # NextInList(NextInList(curr))))
    BY <1>1 DEF Passed, NextInList, Position
  <2>3. CASE p = curr
    <3>1. NextInList(curr) = 0 \/ (p # NextInList(curr) /\ NextInList(NextInList(curr)) = 0)
      BY <1>0, <1>4, <2>3, TwoSeats, Neighbours
    <3> QED
      BY <1>0, <1>4, <2>1, <2>2, <2>3, <3>1 DEF InBroadcast
  <2>4. CASE p # curr /\ p = NextInList(curr)
    <3>1. Due(p)
      BY <1>0, <1>4, <2>4 DEF InBroadcast, Passed
    <3> QED
      BY <1>0, <2>1, <2>2, <2>4, <3>1 DEF InBroadcast
  <2>5. CASE p # curr /\ p # NextInList(curr)
    <3>1. NextInList(curr) = 0
      BY <1>0, <1>4, <2>5, Neighbours
    <3>2. AtRest(p)
      BY <1>4, <2>5 DEF InBroadcast, Passed
    <3> QED
      BY <2>1, <2>2, <3>1, <3>2 DEF InBroadcast
  <2> QED
    BY <2>3, <2>4, <2>5
<1> QED
  BY <1>1, <1>3, <1>4, <1>5, <1>6 DEF SessionInv, Stopped, RestOK, JoiningOK,
     ReceivedOK, BroadcastingOK, RoundOK, RoundPlace, InCall, Opponents

LEMMA BroadcastEndKeeps ==
    ASSUME Good, BroadcastEnd, UNCHANGED clientVars
    PROVE  SessionInv'
<1>0. /\ ServerTypeOK /\ TableOK /\ BroadcastingOK
      /\ IInv /\ SessionInv /\ Undisturbed /\ Seated \subseteq Ports
  BY GoodFacts DEF Good
<1>1. /\ pc = "bcast" /\ pc' = "loop" /\ curr = 0
      /\ s_packet' = [p \in Ports |-> FreePayload(s_packet[p])]
      /\ UNCHANGED <<netVars, conns, addr, r_packet, game, signalled>>
  BY DEF BroadcastEnd, Goto
<1>2. Still
  <2>1. ASSUME NEW q \in Ports PROVE SameRecord(q)
    <3>1. s_packet'[q] = s_packet[q] \/ s_packet'[q] = [s_packet[q] EXCEPT !.payload = Freed]
      BY <1>0, <1>1 DEF FreePayload
    <3>2. s_packet[q] \in StoredPackets
      BY <1>0 DEF ServerTypeOK
    <3> QED
      BY <1>1, <3>1, <3>2 DEF SameRecord, StoredPackets
  <2> QED
    BY <1>1, <2>1 DEF Still
<1>3. /\ ClientsOK' /\ Seated' = Seated /\ signalled' = "no"
      /\ \A p \in Seated : SameLink(p) /\ SameRecord(p)
  BY <1>0, <1>2, StaysStill
<1>4. ASSUME NEW p \in Seated PROVE AtRest(p)'
  <2>1. AtRest(p)
    BY <1>0, <1>1 DEF BroadcastingOK, InBroadcast, Passed
  <2> QED
    BY <1>1, <1>3, <2>1, RestFrame
<1>5. Opponents
  BY <1>0, <1>1 DEF BroadcastingOK
<1>6. TableOK'
  BY <1>0, <1>1, <1>5 DEF TableOK, Opponents
<1> QED
  BY <1>1, <1>3, <1>4, <1>6 DEF SessionInv, Stopped, RestOK, JoiningOK,
     ReceivedOK, BroadcastingOK, RoundOK, RoundPlace, InCall

-----------------------------------------------------------------------------
(* The steps of the server that send.                                      *)

\* What create_packet and sv_sendto do for a seated client.
LEMMA Delivered ==
    ASSUME Good, NEW p \in Seated, NEW pkt, Transmit(p, pkt), Two(net[addr[p]])
    PROVE  /\ net'[addr[p]] = Append(net[addr[p]], To(p, pkt))
           /\ \A e \in Endpoints \ {addr[p]} : net'[e] = net[e]
           /\ net'[p] = net[p]
           /\ s_packet'[p] = pkt
           /\ \A q \in Ports \ {p} : s_packet'[q] = s_packet[q]
<1>1. /\ Linked(p) /\ p \in Ports /\ ServerTypeOK
  BY SeatedLinked, GoodFacts DEF Good, Linked
<1>2. PICK c : c = addr[p]
  OBVIOUS
<1>3. /\ p \in Endpoints /\ c \in Endpoints /\ c # p /\ c \in bound
      /\ DOMAIN net = Endpoints /\ SockBuf \in Nat /\ SockBuf >= 3
  BY <1>1, <1>2, LinkFacts DEF Linked
<1>4. Len(net[c]) < SockBuf
  BY <1>2, <1>3, ShortQueues
<1>5. net' = Sent(net, p, c, pkt)
  BY <1>2 DEF Transmit
<1>6. /\ net'[c] = Append(net[c], Datagram(p, pkt))
      /\ \A e \in Endpoints \ {c} : net'[e] = net[e]
  BY <1>3, <1>4, <1>5 DEF Sent
<1> QED
  BY <1>1, <1>2, <1>3, <1>6 DEF To, Transmit, ServerTypeOK

\* The other clients in a round.
LEMMA OthersInRound ==
    ASSUME Good, NEW x, \A q \in Seated \ {x} : SameLink(q) /\ SameRecord(q) /\ InRound(q),
           UNCHANGED <<conns, game, do_broadcast>>,
           \A q \in Seated \ {x} : ToVisit(q) => ToVisit(q)'
    PROVE  \A q \in Seated \ {x} : InRound(q)'
BY RoundFrame

LEMMA HandleUnicastKeeps ==
    ASSUME Good, HandleUnicast, UNCHANGED clientVars
    PROVE  SessionInv'
<1>0. /\ ServerTypeOK /\ ListOK /\ MAX_CLIENTS = 2 /\ TableOK /\ RoundOK /\ ServerInv
      /\ IInv /\ SessionInv /\ Undisturbed /\ Seated \subseteq Ports /\ 0 \notin Seated
      /\ ~Interrupted /\ do_broadcast \in BOOLEAN /\ do_unicast \in BOOLEAN
  BY GoodFacts DEF Good, ServerTypeOK
<1>1. PICK x, f, k : x = curr /\ f = s_packet[x].flags /\ k = NextSeq(r_packet[x].seq)
  OBVIOUS
<1>2. /\ pc = "receipted" /\ pc' = "recv" /\ rx' = x /\ ret' = "unicasted"
      /\ ~do_broadcast /\ do_unicast
      /\ Transmit(x, Packet(f, k, game))
      /\ UNCHANGED <<bound, curr, readfds, conns, addr, r_packet, game,
                     do_broadcast, do_unicast, signalled>>
  BY <1>1 DEF HandleUnicast, Goto, RecvFrom, WantsUnicast
<1>3. /\ x \in Seated /\ Answerable(x)
      /\ \A p \in Seated \ {x} : InRound(p)
  BY <1>0, <1>1, <1>2 DEF RoundOK, Served, Dismissed
<1>4. /\ ~Over /\ WaitsHere(x) /\ r_packet[x].flags = "ACK" /\ Heard(x, <<>>, r_packet[x].seq)
  BY <1>3 DEF Answerable, Nudged
<1>5. /\ net[addr[x]] = <<>> /\ net[x] = <<>> /\ cpc[addr[x]] = "w_game" /\ running[addr[x]]
      /\ cs_packet[addr[x]] = Ack(r_packet[x].seq) /\ tv_sec[addr[x]] = BASE_TIMEOUT
  BY <1>4 DEF Heard, Stays
<1>6. PICK pkt : pkt = Packet(f, k, game)
  OBVIOUS
<1>7. /\ net'[addr[x]] = <<To(x, pkt)>> /\ net'[x] = <<>>
      /\ \A e \in Endpoints \ {addr[x]} : net'[e] = net[e]
      /\ s_packet'[x] = pkt
      /\ \A q \in Ports \ {x} : s_packet'[q] = s_packet[q]
  <2>1. Two(net[addr[x]]) /\ Transmit(x, pkt)
    BY <1>2, <1>5, <1>6, ShortQueues
  <2>2. Append(net[addr[x]], To(x, pkt)) = <<To(x, pkt)>>
    BY <1>5, Queues
  <2> QED
    BY <1>0, <1>3, <1>5, <2>1, <2>2, Delivered DEF Good
<1>8. Touches(x)
  BY <1>2, <1>7 DEF Touches, SameRecord
<1>9. /\ ClientsOK' /\ Seated' = Seated /\ signalled' = "no"
      /\ \A q \in Seated \ {x} : SameLink(q) /\ SameRecord(q)
  BY <1>0, <1>3, <1>8, TouchesOne
<1>10. \A q \in Seated \ {x} : InRound(q)'
  <2>1. \A q \in Seated \ {x} : ToVisit(q) => ToVisit(q)'
    BY <1>1, <1>2 DEF ToVisit, NextInList, Position
  <2> QED
    BY <1>2, <1>3, <1>9, <2>1, OthersInRound
<1>11. RoundPlace /\ RoundPlace'
  BY <1>2 DEF RoundPlace, InCall
<1>12. TableOK'
  BY <1>0, <1>2, <1>11 DEF TableOK, Opponents, Over
<1>13. /\ do_broadcast' => Opponents'
       /\ \A p \in Seated \cap readfds' : net'[p] # <<>>
  <2>1. ASSUME NEW p \in Seated \cap readfds PROVE net'[p] # <<>>
    <3>1. net[p] # <<>>
      BY <1>0, <1>11 DEF RoundOK
    <3>2. p # addr[x] /\ p \in Endpoints
      BY <1>0, <1>3, SeatedLinked, EndpointKinds DEF Linked, Endpoints
    <3> QED
      BY <1>7, <3>1, <3>2
  <2> QED
    BY <1>2, <2>1
<1>14. /\ addr'[x] = addr[x] /\ r_packet'[x] = r_packet[x]
       /\ cpc' = cpc /\ running' = running /\ cs_packet' = cs_packet /\ tv_sec' = tv_sec
       /\ pkt.flags = f /\ pkt.seq = k
  BY <1>2, <1>6 DEF clientVars, Packet
<1>15. CASE Opponents
  <2>1. f = "PSH" /\ BroadcastFlags(x) = "PSH"
    BY <1>1, <1>4, <1>15 DEF WaitsHere
  <2>2. WaitsHere(x)'
    BY <1>2, <1>7, <1>14, <1>15, <2>1 DEF WaitsHere, BroadcastFlags, Position, Opponents
  <2>3. NextSeq(cs_packet[addr[x]].seq) = k
    BY <1>1, <1>5 DEF Ack, Bare, Packet
  <2>4. OnItsWay(x, <<>>, k, f, game)'
    BY <1>1, <1>2, <1>5, <1>6, <1>7, <1>14, <2>3 DEF OnItsWay, To
  <2>5. Informed(x)'
    BY <1>1, <1>2, <1>4, <1>7, <1>14, <2>1, <2>4 DEF Informed, Told, Offered, HasPSH
  <2> QED
    BY <1>1, <1>2, <1>4, <1>9, <1>10, <1>12, <1>13, <1>14, <1>15, <2>2, <2>5
    DEF SessionInv, Stopped, RestOK, JoiningOK,
     ReceivedOK, BroadcastingOK, RoundOK, RoundPlace, InCall, Over, Opponents
<1>16. CASE ~Opponents
  <2>1. f = "SYN/ACK"
    BY <1>1, <1>4, <1>16 DEF WaitsHere
  <2>2. \E j \in SeqNums, g \in Games : net'[addr[x]] = <<To(x, Packet("SYN/ACK", j, g))>>
    <3>1. r_packet[x].seq \in SeqNums
      BY <1>0, <1>3 DEF ServerTypeOK, Receipts
    <3>2. k \in SeqNums /\ game \in Games
      BY <1>0, <1>1, <3>1, NextSeqType DEF ServerTypeOK
    <3> QED
      BY <1>6, <1>7, <2>1, <3>2
  <2>3. Prods(x)'
    BY <1>4, <1>5, <1>7, <1>14, <2>1, <2>2 DEF Prods, Prodded, To
  <2> QED
    BY <1>1, <1>2, <1>4, <1>9, <1>10, <1>12, <1>13, <1>16, <2>3
    DEF SessionInv, Stopped, RestOK, JoiningOK,
     ReceivedOK, BroadcastingOK, RoundOK, RoundPlace, InCall, Over, Opponents
<1> QED
  BY <1>15, <1>16

\* FIN/ACK and FIN.
LEMMA SvDisconnectKeeps ==
    ASSUME Good, SvDisconnect, UNCHANGED clientVars
    PROVE  SessionInv'
<1>0. /\ ServerTypeOK /\ ListOK /\ MAX_CLIENTS = 2 /\ TableOK /\ RoundOK /\ ServerInv
      /\ IInv /\ SessionInv /\ Undisturbed /\ Seated \subseteq Ports /\ 0 \notin Seated
      /\ ~Interrupted /\ do_broadcast \in BOOLEAN /\ do_unicast \in BOOLEAN
  BY GoodFacts DEF Good, ServerTypeOK
<1>1. PICK x : x = curr
  OBVIOUS
<1> DEFINE first == Sent(net, x, addr[x], FinAck)
<1>2. /\ pc = "finchk" /\ r_packet[x].flags = "FIN"
      /\ pc' = "recv" /\ rx' = x /\ ret' = "receipt" /\ curr' = NextInList(x)
      /\ s_packet' = [s_packet EXCEPT ![x] = Fin]
      /\ net' = Sent(first, x, addr[x], Fin)
      /\ UNCHANGED <<bound, readfds, conns, addr, r_packet, game,
                     do_broadcast, do_unicast, signalled>>
  BY <1>0, <1>1 DEF SvDisconnect, Goto, RecvFrom, Fin, FinAck
<1>3. /\ x \in Seated
      /\ \A p \in Seated \ {x} : InRound(p)
      /\ Served(x) \/ Dismissed(x)
  BY <1>0, <1>1, <1>2 DEF RoundOK, ServerInv, PointersOK
<1>4. ~ToVisit(x)
  BY <1>0, <1>1, <1>2, <1>3, TwoSeats DEF ToVisit
<1>5. Dismissed(x)
  BY <1>2, <1>3, <1>4 DEF Served, InRound, HasMoved, Nudged, Settled, Waiting, Plays
<1>6. /\ ~do_unicast /\ ~do_broadcast /\ Over
      /\ cpc[addr[x]] = "w_finack" /\ net[addr[x]] = <<>> /\ net[x] = <<>>
      /\ cs_packet[addr[x]] = Fin
  BY <1>5 DEF Dismissed, Waves, Stays
<1>7. PICK c : c = addr[x]
  OBVIOUS
<1>8. /\ x \in Endpoints /\ c \in Endpoints /\ c # x /\ c \in bound /\ c \in Clients
      /\ DOMAIN net = Endpoints /\ SockBuf \in Nat /\ SockBuf >= 3
  BY <1>0, <1>3, <1>7, SeatedLinked, LinkFacts DEF Linked
<1>9. /\ DOMAIN first = Endpoints /\ first[c] = <<To(x, FinAck)>>
      /\ \A e \in Endpoints \ {c} : first[e] = net[e]
  <2>1. PICK pkt : pkt = FinAck
    OBVIOUS
  <2>2. Sent(net, x, c, pkt) = [net EXCEPT ![c] = <<Datagram(x, pkt)>>]
    <3>1. /\ c \in Endpoints /\ c \in bound /\ net[c] = <<>>
          /\ SockBuf \in Nat /\ SockBuf >= 3
      BY <1>6, <1>7, <1>8
    <3> QED
      BY <3>1, FirstSent
  <2> QED
    BY <1>7, <1>8, <2>1, <2>2 DEF To
<1> HIDE DEF first
<1>10. /\ net'[c] = <<To(x, FinAck), To(x, Fin)>>
       /\ \A e \in Endpoints \ {c} : net'[e] = net[e]
  <2>1. PICK d, pkt : d = To(x, FinAck) /\ pkt = Fin
    OBVIOUS
  <2>2. Len(first[c]) < SockBuf
    <3>1. Two(first[c])
      BY <1>9 DEF Two, One
    <3> QED
      BY <1>8, <3>1, ShortQueues
  <2>3. Append(first[c], Datagram(x, pkt)) = <<d, Datagram(x, pkt)>>
    <3>1. PICK e : e = Datagram(x, pkt)
      OBVIOUS
    <3>2. Append(<<d>>, e) = <<d, e>>
      BY Queues
    <3> QED
      BY <1>9, <2>1, <3>1, <3>2
  <2>4. net' = Sent(first, x, c, pkt)
    BY <1>2, <1>7, <2>1
  <2>5. net'[c] = Append(first[c], Datagram(x, pkt)) /\ \A e \in Endpoints \ {c} : net'[e] = first[e]
    BY <1>8, <1>9, <2>2, <2>4 DEF Sent
  <2> QED
    BY <1>9, <2>1, <2>3, <2>5 DEF To
<1>11. Touches(x)
  <2>1. \A q \in Ports \ {x} : s_packet'[q] = s_packet[q]
    BY <1>0, <1>2 DEF ServerTypeOK
  <2> QED
    BY <1>2, <1>7, <1>10, <2>1 DEF Touches, SameRecord
<1>12. /\ ClientsOK' /\ Seated' = Seated /\ signalled' = "no"
       /\ \A q \in Seated \ {x} : SameLink(q) /\ SameRecord(q)
  BY <1>0, <1>3, <1>11, TouchesOne
<1>13. \A q \in Seated \ {x} : InRound(q)'
  <2>1. \A q \in Seated \ {x} : ToVisit(q) => ToVisit(q)'
    BY <1>0, <1>1, <1>2 DEF ToVisit
  <2> QED
    BY <1>2, <1>3, <1>12, <2>1, OthersInRound
<1>14. RoundPlace /\ RoundPlace'
  BY <1>2 DEF RoundPlace, InCall
<1>15. TableOK'
  BY <1>0, <1>2, <1>14 DEF TableOK, Opponents, Over
<1>16. /\ do_broadcast' => Opponents'
       /\ \A p \in Seated \cap readfds' : net'[p] # <<>>
  <2>1. ASSUME NEW p \in Seated \cap readfds PROVE net'[p] # <<>>
    <3>1. net[p] # <<>>
      BY <1>0, <1>14 DEF RoundOK
    <3>2. p # c /\ p \in Endpoints
      BY <1>0, <1>8, EndpointKinds DEF Endpoints
    <3> QED
      BY <1>10, <3>1, <3>2
  <2> QED
    BY <1>2, <1>6, <2>1
<1>17. Parts(x)'
  <2>1. /\ addr'[x] = c /\ r_packet'[x] = r_packet[x]
        /\ cpc'[c] = "w_finack" /\ cs_packet'[c] = Fin
    BY <1>2, <1>6, <1>7 DEF clientVars
  <2> QED
    BY <1>2, <1>6, <1>8, <1>10, <2>1 DEF Parts, Parting, To
<1> QED
  BY <1>1, <1>2, <1>6, <1>12, <1>13, <1>15, <1>16, <1>17
  DEF SessionInv, Stopped, RestOK, JoiningOK,
     ReceivedOK, BroadcastingOK, RoundOK, RoundPlace, InCall, Over

\* The others in a broadcast.
LEMMA OthersInBroadcast ==
    ASSUME NEW x, \A q \in Seated \ {x} : SameLink(q) /\ SameRecord(q) /\ InBroadcast(q),
           UNCHANGED <<conns, game, curr>>
    PROVE  \A q \in Seated \ {x} : InBroadcast(q)'
BY BroadcastFrame

\* The game is offered to one that moved, waits or repeats itself.
LEMMA BroadcastStepKeeps ==
    ASSUME Good, BroadcastStep, UNCHANGED clientVars
    PROVE  SessionInv'
<1>0. /\ ServerTypeOK /\ ListOK /\ MAX_CLIENTS = 2 /\ TableOK /\ BroadcastingOK /\ ServerInv
      /\ IInv /\ SessionInv /\ Undisturbed /\ Seated \subseteq Ports /\ 0 \notin Seated
  BY GoodFacts DEF Good
<1>1. PICK x, f, k : x = curr /\ f = BroadcastFlags(x) /\ k = NextSeq(r_packet[x].seq)
  OBVIOUS
<1>2. /\ payload = game /\ Opponents /\ pc = "bcast" /\ x \in Seated /\ InBroadcast(x)
      /\ \A p \in Seated \ {x} : InBroadcast(p)
  BY <1>0, <1>1 DEF BroadcastStep, BroadcastingOK, ServerInv, PointersOK
<1>3. /\ pc' = "recv" /\ rx' = x /\ ret' = "bcasted"
      /\ Transmit(x, Packet(f, k, game))
      /\ UNCHANGED <<bound, curr, readfds, conns, addr, r_packet, game, payload,
                     do_broadcast, do_unicast, signalled>>
  BY <1>1, <1>2 DEF BroadcastStep, Goto, RecvFrom
<1>4. Due(x)
  <2>1. ~Passed(x)
    BY <1>0, <1>1, <1>2 DEF Passed
  <2> QED
    BY <1>2, <2>1 DEF InBroadcast
<1>5. PICK pkt : pkt = Packet(f, k, game)
  OBVIOUS
<1>6. /\ net[addr[x]] = <<>> \/ net[addr[x]] = <<To(x, Ack(r_packet[x].seq))>>
  BY <1>4 DEF Due, HasMoved, Moved, Nudged, Reminds, Heard, Stays
<1>7. /\ net'[addr[x]] = Append(net[addr[x]], To(x, pkt))
      /\ \A e \in Endpoints \ {addr[x]} : net'[e] = net[e]
      /\ net'[x] = net[x]
      /\ s_packet'[x] = pkt
      /\ \A q \in Ports \ {x} : s_packet'[q] = s_packet[q]
  <2>1. Two(net[addr[x]]) /\ Transmit(x, pkt)
    BY <1>3, <1>5, <1>6 DEF Two, One
  <2> QED
    BY <1>0, <1>2, <2>1, Delivered DEF Good
<1>8. Touches(x)
  BY <1>3, <1>7 DEF Touches, SameRecord
<1>9. /\ ClientsOK' /\ Seated' = Seated /\ signalled' = "no"
      /\ \A q \in Seated \ {x} : SameLink(q) /\ SameRecord(q)
  BY <1>0, <1>2, <1>8, TouchesOne
<1>10. \A q \in Seated \ {x} : InBroadcast(q)'
  BY <1>2, <1>3, <1>9, OthersInBroadcast
<1>11. TableOK'
  BY <1>0, <1>2, <1>3 DEF TableOK, Opponents
<1>12. /\ addr'[x] = addr[x] /\ r_packet'[x] = r_packet[x]
       /\ cpc' = cpc /\ running' = running /\ cs_packet' = cs_packet /\ tv_sec' = tv_sec
       /\ pkt.flags = f /\ pkt.seq = k
  BY <1>3, <1>5 DEF clientVars, Packet
<1>13. /\ HasPSH(f) /\ BroadcastFlags(x)' = f /\ Over' = Over /\ Opponents' = Opponents
  BY <1>1, <1>3, FlagsOfBroadcast DEF HasPSH, BroadcastFlags, Position, Over, Opponents
<1>14. ASSUME NEW q, q' = q, OnItsWay(x, q, k, f, game)' PROVE Told(x, q)'
  <2>1. Offered(x, q, k, f, game)'
    BY <1>14 DEF Offered
  <2> QED
    BY <1>1, <1>3, <1>7, <1>12, <1>13, <1>14, <2>1 DEF Told
<1>15. net[addr[x]] = <<>> => net'[addr[x]] = <<To(x, pkt)>>
  BY <1>7, Queues
<1>16. ASSUME NEW j, net[addr[x]] = <<To(x, Ack(j))>>
       PROVE  net'[addr[x]] = <<To(x, Ack(j)), To(x, pkt)>>
  <2>1. PICK d, e : d = To(x, Ack(j)) /\ e = To(x, pkt)
    OBVIOUS
  <2>2. Append(<<d>>, e) = <<d, e>>
    BY Queues
  <2> QED
    BY <1>7, <1>16, <2>1, <2>2
<1>17. Informed(x)' \/ InformedLate(x)'
  <2>1. CASE HasMoved(x)
    <3>1. PICK j : j = r_packet[x].seq
      OBVIOUS
    <3>2. /\ net[x] = <<>> /\ running[addr[x]] /\ cs_packet[addr[x]].seq = j
          /\ \/ cpc[addr[x]] = "w_ack" /\ net[addr[x]] = <<To(x, Ack(j))>>
             \/ cpc[addr[x]] = "w_game" /\ net[addr[x]] = <<>>
      BY <2>1, <3>1 DEF HasMoved, Moved, Stays
    <3>3. OnItsWay(x, <<>>, k, f, game)'
      BY <1>1, <1>3, <1>5, <1>7, <1>12, <1>15, <1>16, <3>1, <3>2 DEF OnItsWay, To
    <3> QED
      BY <1>12, <1>14, <2>1, <3>3 DEF HasMoved, Informed
  <2>2. CASE Nudged(x)
    <3>1. OnItsWay(x, <<>>, k, f, game)'
      BY <1>1, <1>3, <1>5, <1>7, <1>12, <1>15, <2>2
         DEF OnItsWay, Nudged, Heard, Stays, To, Ack, Bare, Packet
    <3> QED
      BY <1>12, <1>14, <2>2, <3>1 DEF Nudged, Informed
  <2>3. CASE Reminds(x) /\ f = "PSH/TRN" /\ ~Over
    <3>1. PICK q : q = <<From(x, Ack(r_packet[x].seq))>>
      OBVIOUS
    <3>2. q = <<From(x, Ack(r_packet[x].seq))>>'
      BY <1>12, <3>1 DEF From
    <3>3. OnItsWay(x, q, k, f, game)'
      BY <1>1, <1>3, <1>5, <1>7, <1>12, <1>15, <2>3, <3>1
         DEF OnItsWay, Reminds, Heard, Stays, To, Ack, Bare, Packet
    <3>4. Told(x, q)'
      BY <1>14, <3>3
    <3>5. s_packet'[x].flags = f
      BY <1>7, <1>12
    <3> QED
      BY <1>12, <1>13, <2>3, <3>2, <3>4, <3>5 DEF Reminds, InformedLate, HasTRN
  <2> QED
    BY <1>1, <1>4, <2>1, <2>2, <2>3 DEF Due
<1> QED
  BY <1>1, <1>2, <1>3, <1>7, <1>9, <1>10, <1>11, <1>12, <1>13, <1>17
  DEF SessionInv, Stopped, RestOK, JoiningOK,
     ReceivedOK, BroadcastingOK, RoundOK, RoundPlace, InCall

-----------------------------------------------------------------------------
(* What sv_recvfrom makes of the datagram it takes.                        *)

\* One datagram of the client at x is gone, and the call returns.
Received(x) ==
    /\ x \in Seated /\ pc = "recv" /\ pc' = ret /\ readfds' = readfds \ {x}
    /\ UNCHANGED <<ret, rx, curr, conns, addr, payload, clientVars>>
    /\ net'[x] = Tail(net[x])
    /\ \A e \in Endpoints \ {x, addr[x]} : net'[e] = net[e]
    /\ ClientsOK' /\ Seated' = Seated /\ signalled' = "no"
    /\ \A q \in Seated \ {x} : SameLink(q) /\ SameRecord(q)

\* The code looks at flags and number.
LEMMA Outcomes ==
    ASSUME Good, SvReceive, NEW x, x = rx, NEW pkt, Head(net[x]) = From(x, pkt)
    PROVE  /\ x \in Seated /\ pc = "recv" /\ net[x] # <<>>
           /\ Arrived = pkt /\ Head(net[x]).src = addr[x]
           /\ Linked(x) /\ x \in Endpoints /\ addr[x] \in Endpoints /\ addr[x] # x
           /\ DOMAIN Taken(x) = Endpoints /\ Taken(x)[x] = Tail(net[x])
           /\ \A e \in Endpoints \ {x} : Taken(x)[e] = net[e]
<1>1. pc = "recv" /\ net[x] # <<>>
  BY DEF SvReceive, RecvDuplicate, RecvBadAck, RecvMove, RecvOther, RecvFinAck, Receives
<1>2. x \in Seated
  BY <1>1, GoodFacts DEF ServerInv, PointersOK
<1>3. /\ Linked(x) /\ x \in Endpoints /\ addr[x] \in Endpoints /\ addr[x] # x /\ NetTypeOK
  BY <1>2, SeatedLinked, LinkFacts, GoodFacts DEF Good
<1>4. /\ DOMAIN Taken(x) = Endpoints /\ Taken(x)[x] = Tail(net[x])
      /\ \A e \in Endpoints \ {x} : Taken(x)[e] = net[e]
  BY <1>3, TakenFrom
<1> QED
  BY <1>1, <1>2, <1>3, <1>4 DEF Arrived, From, Datagram

LEMMA DuplicateReceived ==
    ASSUME Good, SvReceive, UNCHANGED clientVars, NEW x, x = rx, NEW pkt,
           Head(net[x]) = From(x, pkt),
           r_packet[x].flags = pkt.flags, r_packet[x].seq = pkt.seq
    PROVE  /\ Received(x) /\ do_unicast' = TRUE /\ net'[addr[x]] = net[addr[x]]
           /\ UNCHANGED <<game, do_broadcast, s_packet, r_packet>>
<1>1. /\ x \in Seated /\ pc = "recv" /\ net[x] # <<>>
      /\ Arrived = pkt /\ Head(net[x]).src = addr[x]
      /\ Linked(x) /\ x \in Endpoints /\ addr[x] \in Endpoints /\ addr[x] # x
      /\ DOMAIN Taken(x) = Endpoints /\ Taken(x)[x] = Tail(net[x])
      /\ \A e \in Endpoints \ {x} : Taken(x)[e] = net[e]
  BY Outcomes
<1>2. IsDuplicate
  BY <1>1 DEF IsDuplicate
<1>3. RecvDuplicate
  BY <1>2 DEF SvReceive, RecvBadAck, RecvMove, RecvOther, RecvFinAck, IsBadAck, IsMove
<1>4. /\ addr' = [addr EXCEPT ![x] = addr[x]] /\ readfds' = readfds \ {x}
      /\ UNCHANGED <<faults, ret, curr, rx, payload, signalled>>
      /\ do_unicast' = TRUE /\ net' = Taken(x) /\ pc' = ret
      /\ UNCHANGED <<bound, conns, s_packet, r_packet, game, do_broadcast>>
  BY <1>1, <1>3 DEF RecvDuplicate, Receives, Goto
<1>5. addr' = addr
  BY <1>4, GoodFacts DEF ServerTypeOK
<1>6. Touches(x)
  BY <1>1, <1>4, <1>5 DEF Touches, SameRecord
<1>7. /\ ClientsOK' /\ Seated' = Seated /\ signalled' = "no"
      /\ \A q \in Seated \ {x} : SameLink(q) /\ SameRecord(q)
  BY <1>1, <1>6, TouchesOne DEF Good
<1> QED
  BY <1>1, <1>4, <1>5, <1>7 DEF Received

LEMMA OtherReceived ==
    ASSUME Good, SvReceive, UNCHANGED clientVars, NEW x, x = rx, NEW pkt,
           Head(net[x]) = From(x, pkt),
           r_packet[x].flags # pkt.flags \/ r_packet[x].seq # pkt.seq,
           pkt.flags = "FIN" \/ (pkt.flags = "ACK" /\ pkt.seq = s_packet[x].seq)
    PROVE  /\ Received(x) /\ net'[addr[x]] = net[addr[x]]
           /\ r_packet'[x] = [flags |-> pkt.flags, seq |-> pkt.seq]
           /\ do_broadcast' = (do_broadcast \/ (pkt.flags = "ACK" /\ pkt.seq = MAX_SEQ))
           /\ UNCHANGED <<game, do_unicast, s_packet>>
<1>1. /\ x \in Seated /\ pc = "recv" /\ net[x] # <<>>
      /\ Arrived = pkt /\ Head(net[x]).src = addr[x]
      /\ Linked(x) /\ x \in Endpoints /\ addr[x] \in Endpoints /\ addr[x] # x
      /\ DOMAIN Taken(x) = Endpoints /\ Taken(x)[x] = Tail(net[x])
      /\ \A e \in Endpoints \ {x} : Taken(x)[e] = net[e]
  BY Outcomes
<1>2. ~IsDuplicate /\ ~IsBadAck /\ ~IsMove /\ pkt.flags # "FIN/ACK"
  BY <1>1 DEF IsDuplicate, IsBadAck, IsMove, HasPSH
<1>3. RecvOther
  BY <1>1, <1>2 DEF SvReceive, RecvBadAck, RecvMove, RecvDuplicate, RecvFinAck
<1>4. /\ addr' = [addr EXCEPT ![x] = addr[x]] /\ readfds' = readfds \ {x}
      /\ UNCHANGED <<faults, ret, curr, rx, payload, signalled>>
      /\ net' = Taken(x) /\ pc' = ret
      /\ r_packet' = [r_packet EXCEPT ![x] = [flags |-> pkt.flags, seq |-> pkt.seq]]
      /\ do_broadcast' = (do_broadcast \/ (pkt.flags = "ACK" /\ pkt.seq = MAX_SEQ))
      /\ UNCHANGED <<bound, conns, s_packet, game, do_unicast>>
  BY <1>1, <1>3 DEF RecvOther, Receives, Goto
<1>5. /\ addr' = addr /\ x \in Ports
      /\ r_packet'[x] = [flags |-> pkt.flags, seq |-> pkt.seq]
      /\ \A q \in Ports \ {x} : r_packet'[q] = r_packet[q]
  BY <1>1, <1>4, GoodFacts DEF ServerTypeOK
<1>6. Touches(x)
  BY <1>1, <1>4, <1>5 DEF Touches, SameRecord
<1>7. /\ ClientsOK' /\ Seated' = Seated /\ signalled' = "no"
      /\ \A q \in Seated \ {x} : SameLink(q) /\ SameRecord(q)
  BY <1>1, <1>6, TouchesOne DEF Good
<1> QED
  BY <1>1, <1>4, <1>5, <1>7 DEF Received

\* An input changes whose turn it is between the marks.
LEMMA TurnsAreMarks ==
    ASSUME game.turn \in Marks, game \in Games, NEW input \in Inputs,
           LET moved == [game EXCEPT !.cursor = input.cursor]
           IN  game' = IF input.btn THEN UpdateBoard(moved) ELSE moved
    PROVE  game'.turn \in Marks
<1> DEFINE moved == [game EXCEPT !.cursor = input.cursor]
<1>1. moved.turn = game.turn /\ moved \in Games
  BY DEF Games, Inputs
<1>2. game' = IF input.btn THEN UpdateBoard(moved) ELSE moved
  OBVIOUS
<1> HIDE DEF moved
<1> QED
  BY <1>1, <1>2 DEF UpdateBoard, Opponent, Marks, Games

LEMMA MoveReceived ==
    ASSUME Good, SvReceive, UNCHANGED clientVars, NEW x, x = rx, NEW pkt,
           Head(net[x]) = From(x, pkt),
           r_packet[x].flags = "ACK", pkt.flags = "PSH",
           pkt.seq = NextSeq(s_packet[x].seq), net[addr[x]] = <<>>
    PROVE  /\ Received(x)
           /\ net'[addr[x]] = <<To(x, Ack(pkt.seq))>>
           /\ r_packet'[x] = [flags |-> "PSH", seq |-> pkt.seq]
           /\ do_broadcast' = TRUE
           /\ UNCHANGED do_unicast
           /\ game'.turn \in Marks
<1>1. /\ x \in Seated /\ pc = "recv" /\ net[x] # <<>>
      /\ Arrived = pkt /\ Head(net[x]).src = addr[x]
      /\ Linked(x) /\ x \in Endpoints /\ addr[x] \in Endpoints /\ addr[x] # x
      /\ DOMAIN Taken(x) = Endpoints /\ Taken(x)[x] = Tail(net[x])
      /\ \A e \in Endpoints \ {x} : Taken(x)[e] = net[e]
  BY Outcomes
<1>2. ~IsDuplicate /\ IsMove
  BY <1>1 DEF IsDuplicate, IsMove, HasPSH
<1>3. RecvMove
  BY <1>1, <1>2 DEF SvReceive, RecvBadAck, IsBadAck, RecvOther, RecvDuplicate, RecvFinAck
<1>4. PICK ack : ack = Ack(pkt.seq)
  OBVIOUS
<1>5. /\ addr' = [addr EXCEPT ![x] = addr[x]] /\ readfds' = readfds \ {x}
      /\ UNCHANGED <<faults, ret, curr, rx, payload, signalled>>
      /\ net' = Sent(Taken(x), x, addr[x], ack) /\ pc' = ret
      /\ r_packet' = [r_packet EXCEPT ![x] = [flags |-> "PSH", seq |-> pkt.seq]]
      /\ s_packet' = [s_packet EXCEPT ![x] = ack]
      /\ do_broadcast' = TRUE
      /\ UNCHANGED <<bound, conns, do_unicast>>
  BY <1>1, <1>3, <1>4 DEF RecvMove, Receives, Goto, Ack
<1>6. /\ addr' = addr /\ x \in Ports
      /\ r_packet'[x] = [flags |-> "PSH", seq |-> pkt.seq]
      /\ \A q \in Ports \ {x} : r_packet'[q] = r_packet[q] /\ s_packet'[q] = s_packet[q]
  BY <1>1, <1>5, GoodFacts DEF ServerTypeOK
<1>7. /\ net'[addr[x]] = <<To(x, ack)>> /\ net'[x] = Tail(net[x])
      /\ \A e \in Endpoints \ {x, addr[x]} : net'[e] = net[e]
  <2>1. PICK buf, c : buf = Taken(x) /\ c = addr[x]
    OBVIOUS
  <2>2. /\ c \in Endpoints /\ c \in bound /\ buf[c] = <<>>
        /\ SockBuf \in Nat /\ SockBuf >= 3
    BY <1>1, <2>1, LinkFacts DEF Linked
  <2>3. Sent(buf, x, c, ack) = [buf EXCEPT ![c] = <<Datagram(x, ack)>>]
    BY <2>2, FirstSent
  <2>4. net' = [buf EXCEPT ![c] = <<To(x, ack)>>]
    BY <1>5, <2>1, <2>3 DEF To
  <2> QED
    BY <1>1, <2>1, <2>2, <2>4
<1>8. Touches(x)
  BY <1>1, <1>5, <1>6, <1>7 DEF Touches, SameRecord
<1>9. /\ ClientsOK' /\ Seated' = Seated /\ signalled' = "no"
      /\ \A q \in Seated \ {x} : SameLink(q) /\ SameRecord(q)
  BY <1>1, <1>8, TouchesOne DEF Good
<1>10. game'.turn \in Marks
  <2>1. game.turn \in Marks /\ game \in Games /\ Safe
    BY GoodFacts DEF TableOK, ServerTypeOK, Safe
  <2>2. Readings(Arrived.payload) \subseteq Inputs
    BY <1>1, <1>2, <2>1, ReceiptFacts, ReadingsType DEF IsMove
  <2>3. PICK input \in Inputs :
          LET moved == [game EXCEPT !.cursor = input.cursor]
          IN  game' = IF input.btn THEN UpdateBoard(moved) ELSE moved
    BY <1>3, <2>2 DEF RecvMove
  <2> QED
    BY <2>1, <2>3, TurnsAreMarks
<1> QED
  BY <1>1, <1>4, <1>5, <1>6, <1>7, <1>9, <1>10 DEF Received

-----------------------------------------------------------------------------
(* sv_recvfrom by its callers.                                             *)

\* A client is heard and nothing else is on its way.
LEMMA HeardOnce ==
    ASSUME NEW p, NEW n, Heard(p, <<From(p, Ack(n))>>, n),
           net'[p] = Tail(net[p]), net'[addr[p]] = net[addr[p]], addr'[p] = addr[p],
           UNCHANGED clientVars
    PROVE  /\ Head(net[p]) = From(p, Ack(n))
           /\ Heard(p, <<>>, n)'
           /\ Unhurried(p) => Unhurried(p)'
<1>1. PICK d : d = From(p, Ack(n))
  OBVIOUS
<1>2. net[p] = <<d>>
  BY <1>1 DEF Heard
<1>3. Head(net[p]) = d /\ Tail(net[p]) = <<>>
  BY <1>2, Queues
<1>4. /\ cpc' = cpc /\ running' = running /\ cs_packet' = cs_packet /\ tv_sec' = tv_sec
      /\ peer' = peer /\ num_to' = num_to
  BY DEF clientVars
<1>5. Heard(p, <<>>, n)'
  BY <1>3, <1>4 DEF Heard, Stays
<1> QED
  BY <1>1, <1>3, <1>4, <1>5 DEF Unhurried

\* The acknowledgement of the handshake.
LEMMA JoinReceived ==
    ASSUME Good, SvReceive, UNCHANGED clientVars, ret = "received"
    PROVE  SessionInv'
<1>0. /\ ServerTypeOK /\ ListOK /\ MAX_CLIENTS = 2 /\ TableOK /\ JoiningOK /\ ServerInv
      /\ IInv /\ SessionInv /\ Undisturbed /\ Seated \subseteq Ports /\ 0 \notin Seated
      /\ do_broadcast \in BOOLEAN
  BY GoodFacts DEF Good, ServerTypeOK
<1>1. PICK x : x = rx
  OBVIOUS
<1>2. /\ pc = "recv" /\ net[x] # <<>> /\ x \in Seated
  BY <1>0, <1>1 DEF SvReceive, RecvDuplicate, RecvBadAck, RecvMove, RecvOther, RecvFinAck,
     Receives, ServerInv, PointersOK
<1>3. /\ game = ResetGame /\ Position(x) = Len(conns) /\ Joins(x)
      /\ \A p \in Seated \ {x} : s_packet[p].flags = "SYN/ACK" /\ (Waiting(p) \/ Reminds(p))
  BY <1>0, <1>1, <1>2 DEF JoiningOK, InCall
<1>4. /\ s_packet[x].flags = "SYN/ACK" /\ s_packet[x].seq = MAX_SEQ /\ r_packet[x] = NoReceipt
      /\ Heard(x, <<From(x, Ack(MAX_SEQ))>>, MAX_SEQ) /\ Unhurried(x)
  BY <1>2, <1>3 DEF Joins, Joining
<1>5. PICK pkt : pkt = Ack(MAX_SEQ)
  OBVIOUS
<1>6. pkt.flags = "ACK" /\ pkt.seq = MAX_SEQ
  BY <1>5 DEF Ack, Bare, Packet
<1>7. Head(net[x]) = From(x, pkt)
  <2>1. PICK d : d = From(x, pkt)
    OBVIOUS
  <2> QED
    BY <1>4, <1>5, <2>1, Queues DEF Heard
<1>8. /\ Received(x) /\ net'[addr[x]] = net[addr[x]]
      /\ r_packet'[x] = [flags |-> pkt.flags, seq |-> pkt.seq]
      /\ do_broadcast' = TRUE
      /\ UNCHANGED <<game, do_unicast, s_packet>>
  <2>1. r_packet[x].flags # pkt.flags
    BY <1>4, <1>6 DEF NoReceipt
  <2>2. /\ Received(x) /\ net'[addr[x]] = net[addr[x]]
        /\ r_packet'[x] = [flags |-> pkt.flags, seq |-> pkt.seq]
        /\ do_broadcast' = (do_broadcast \/ (pkt.flags = "ACK" /\ pkt.seq = MAX_SEQ))
        /\ UNCHANGED <<game, do_unicast, s_packet>>
    BY <1>1, <1>4, <1>6, <1>7, <2>1, OtherReceived
  <2> QED
    BY <1>0, <1>6, <2>2
<1>9. Waiting(x)'
  <2>1. Heard(x, <<>>, MAX_SEQ)' /\ Unhurried(x)'
    BY <1>4, <1>8, HeardOnce DEF Received
  <2> QED
    BY <1>6, <1>8, <2>1 DEF Waiting, Nudged, Heard
<1>10. /\ pc' = "received" /\ conns' = conns /\ Seated' = Seated /\ signalled' = "no" /\ ClientsOK'
       /\ game' = ResetGame /\ Opponents' = Opponents /\ ~Over' /\ ~Over
  <2>1. ~Over /\ game' = game
    BY <1>3, <1>8, NewGameIsOpen DEF Over
  <2> QED
    BY <1>3, <1>8, <2>1 DEF Received, Opponents, Over
<1>11. \A p \in Seated \ {x} :
          /\ SameRecord(p)
          /\ s_packet'[p].flags = "SYN/ACK"
          /\ Waiting(p) => Waiting(p)'
          /\ Reminds(p) => Reminds(p)'
          /\ BroadcastFlags(p)' = BroadcastFlags(p)
  BY <1>3, <1>8, PlainFrame DEF Received, KeepsPlain, BroadcastFlags, Position
<1>12. TableOK'
  BY <1>3, <1>10 DEF TableOK, ResetGame, Marks
<1>13. CASE Opponents
  <2>1. ASSUME NEW p \in Seated \ {x} PROVE BroadcastFlags(p) = "PSH/TRN"
    <3>1. Position(x) = 2 /\ Position(p) \in {1, 2} /\ Position(p) # Position(x)
      BY <1>0, <1>2, <1>3, <1>13, TwoSeats, Neighbours
    <3>2. TurnIndex(game.turn) = 0
      BY <1>0, <1>3, TurnIndices DEF ResetGame
    <3> QED
      BY <3>1, <3>2 DEF BroadcastFlags
  <2>2. ASSUME NEW p \in Seated PROVE Due(p)'
    BY <1>3, <1>9, <1>10, <1>11, <2>1 DEF Due, Waiting
  <2> QED
    BY <1>8, <1>10, <1>12, <1>13, <2>2 DEF SessionInv, Stopped, RestOK, JoiningOK,
       ReceivedOK, BroadcastingOK, RoundOK, RoundPlace, InCall
<1>14. CASE ~Opponents
  <2>1. Seated = {x}
    BY <1>0, <1>2, <1>14, Neighbours
  <2>2. AtRest(x)'
    BY <1>4, <1>8, <1>9, <1>10, <1>14 DEF AtRest, Settled, WaitsHere
  <2> QED
    BY <1>10, <1>12, <1>14, <2>1, <2>2 DEF SessionInv, Stopped, RestOK, JoiningOK,
       ReceivedOK, BroadcastingOK, RoundOK, RoundPlace, InCall
<1> QED
  BY <1>13, <1>14

\* The acknowledgement of a game is read, and what is behind it stays.
LEMMA AnswerRead ==
    ASSUME NEW p, Told(p, <<>>), net[p] # <<>>, NEW k, k = s_packet[p].seq,
           net'[p] = Tail(net[p]), net'[addr[p]] = net[addr[p]], addr'[p] = addr[p],
           UNCHANGED clientVars, NEW g, g = game
    PROVE  /\ Head(net[p]) = From(p, Ack(k))
           /\ IF Over THEN Left(p, <<>>)'
              ELSE IF HasTRN(s_packet[p].flags) THEN HasTurn(p, <<>>, k, g)'
              ELSE Heard(p, <<>>, k)' /\ Unhurried(p)'
<1>1. PICK d, f : d = From(p, Ack(k)) /\ f = s_packet[p].flags
  OBVIOUS
<1>2. Answered(p, <<d>>, k, f, g)
  <2>1. Append(<<>>, d) = <<d>>
    BY Queues
  <2>2. Offered(p, <<>>, k, f, g)
    BY <1>1 DEF Told
  <2> QED
    BY <1>1, <2>1, <2>2 DEF Offered, OnItsWay
<1>3. /\ cpc' = cpc /\ running' = running /\ cs_packet' = cs_packet /\ tv_sec' = tv_sec
      /\ peer' = peer /\ num_to' = num_to /\ view' = view /\ cr_seq' = cr_seq
  BY DEF clientVars
<1>4. Head(<<d>>) = d /\ Tail(<<d>>) = <<>>
  BY Queues
<1>5. ASSUME NEW e, net[p] = Append(<<d>>, e)
      PROVE  Head(net[p]) = d /\ net'[p] = Append(<<>>, e)
  <2>1. Append(<<d>>, e) = <<d, e>>
    BY Queues
  <2>2. Head(<<d, e>>) = d /\ Tail(<<d, e>>) = <<e>>
    BY Queues
  <2>3. Append(<<>>, e) = <<e>>
    BY Queues
  <2> QED
    BY <1>5, <2>1, <2>2, <2>3
<1>6. CASE Over
  <2>1. Left(p, <<d>>)
    BY <1>2, <1>6 DEF Answered, Over
  <2>2. PICK e : e = From(p, Fin)
    OBVIOUS
  <2>3. net[p] = Append(<<d>>, e) /\ cpc[addr[p]] = "w_finack" /\ net[addr[p]] = <<>>
        /\ cs_packet[addr[p]] = Fin
    BY <2>1, <2>2 DEF Left, Stays
  <2>4. Left(p, <<>>)'
    BY <1>3, <1>5, <2>2, <2>3 DEF Left, Stays, From
  <2> QED
    BY <1>1, <1>5, <1>6, <2>3, <2>4
<1>7. CASE ~Over /\ HasTRN(f)
  <2>1. HasTurn(p, <<d>>, k, g)
    BY <1>2, <1>7 DEF Answered, Over
  <2>2. PICK e : e = From(p, cs_packet[addr[p]])
    OBVIOUS
  <2>3. CASE net[p] = <<d>> /\ Stays(p, "turn") /\ view[addr[p]] = g /\ cr_seq[addr[p]] = k
    <3>1. HasTurn(p, <<>>, k, g)'
      BY <1>3, <1>4, <2>1, <2>3 DEF HasTurn, Stays
    <3> QED
      BY <1>1, <1>4, <1>7, <2>3, <3>1
  <2>4. CASE net[p] = Append(<<d>>, e) /\ Stays(p, "w_ack")
             /\ cs_packet[addr[p]].flags = "PSH" /\ cs_packet[addr[p]].seq = NextSeq(k)
    <3>1. HasTurn(p, <<>>, k, g)'
      BY <1>3, <1>5, <2>1, <2>2, <2>4 DEF HasTurn, Stays, From
    <3> QED
      BY <1>1, <1>5, <1>7, <2>4, <3>1
  <2> QED
    BY <2>1, <2>2, <2>3, <2>4 DEF HasTurn
<1>8. CASE ~Over /\ ~HasTRN(f)
  <2>1. Heard(p, <<d>>, k) /\ Unhurried(p)
    BY <1>2, <1>8 DEF Answered, Over
  <2>2. net[p] = <<From(p, Ack(k))>>
    BY <1>1, <2>1 DEF Heard
  <2>3. Heard(p, <<From(p, Ack(k))>>, k)
    BY <1>1, <2>1
  <2> QED
    BY <1>1, <1>8, <2>1, <2>3, HeardOnce
<1> QED
  BY <1>1, <1>6, <1>7, <1>8

\* The repeated acknowledgement in front of it is read.
LEMMA LateAnswerRead ==
    ASSUME NEW p, InformedLate(p), NEW n, n = r_packet[p].seq,
           net'[p] = Tail(net[p]), net'[addr[p]] = net[addr[p]], addr'[p] = addr[p],
           SameRecord(p), game' = game, UNCHANGED clientVars
    PROVE  Head(net[p]) = From(p, Ack(n)) /\ Told(p, <<>>)'
<1>1. PICK a, d, e, k, f, g : /\ a = From(p, Ack(n)) /\ k = s_packet[p].seq /\ f = s_packet[p].flags
                              /\ d = From(p, Ack(k)) /\ e = From(p, cs_packet[addr[p]]) /\ g = game
  OBVIOUS
<1>2. Offered(p, <<a>>, k, f, g) /\ ~IsGameOver(g.trackGame) /\ HasTRN(f)
  BY <1>1 DEF InformedLate, Told, Over
<1>3. /\ cpc' = cpc /\ running' = running /\ cs_packet' = cs_packet /\ tv_sec' = tv_sec
      /\ peer' = peer /\ num_to' = num_to /\ view' = view /\ cr_seq' = cr_seq
  BY DEF clientVars
<1>4. /\ Head(<<a>>) = a /\ Tail(<<a>>) = <<>>
      /\ Append(<<a>>, d) = <<a, d>> /\ Append(<<a, d>>, e) = <<a, d, e>>
      /\ Append(<<>>, d) = <<d>> /\ Append(<<d>>, e) = <<d, e>>
      /\ Head(<<a, d>>) = a /\ Tail(<<a, d>>) = <<d>>
      /\ Head(<<a, d, e>>) = a /\ Tail(<<a, d, e>>) = <<d, e>>
  <2>1. Head(<<a>>) = a /\ Tail(<<a>>) = <<>>
    BY Queues
  <2>2. Append(<<a>>, d) = <<a, d>>
    BY Queues
  <2>3. Append(<<a, d>>, e) = <<a, d, e>>
    BY AppendThree
  <2>4. Append(<<>>, d) = <<d>>
    BY Queues
  <2>5. Append(<<d>>, e) = <<d, e>>
    BY Queues
  <2>6. Head(<<a, d>>) = a /\ Tail(<<a, d>>) = <<d>>
    BY Queues
  <2>7. Head(<<a, d, e>>) = a /\ Tail(<<a, d, e>>) = <<d, e>>
    BY Queues
  <2> QED
    BY <2>1, <2>2, <2>3, <2>4, <2>5, <2>6, <2>7
<1>5. Head(net[p]) = a /\ Offered(p, <<>>, k, f, g)'
  <2>1. CASE OnItsWay(p, <<a>>, k, f, g)
    <3>1. net[p] = <<a>>
      BY <2>1 DEF OnItsWay
    <3>2. OnItsWay(p, <<>>, k, f, g)'
      BY <1>3, <1>4, <2>1, <3>1 DEF OnItsWay, To
    <3>3. Offered(p, <<>>, k, f, g)'
      BY <3>2 DEF Offered
    <3>4. Head(net[p]) = a
      BY <1>4, <3>1
    <3> QED
      BY <3>3, <3>4
  <2>2. CASE HasTurn(p, Append(<<a>>, d), k, g)
    <3>1. HasTurn(p, <<a, d>>, k, g)
      BY <1>4, <2>2
    <3>2. ASSUME net[p] = <<a, d>>, Stays(p, "turn"), view[addr[p]] = g, cr_seq[addr[p]] = k
          PROVE  HasTurn(p, <<d>>, k, g)' /\ Head(net[p]) = a
      <4>1. Head(net[p]) = a
        BY <1>4, <3>2
      <4>2. net'[p] = <<d>>
        BY <1>4, <3>2
      <4>3. HasTurn(p, <<d>>, k, g)'
        BY <1>3, <3>1, <3>2, <4>2 DEF HasTurn, Stays
      <4> QED
        BY <4>1, <4>3
    <3>3. ASSUME net[p] = Append(<<a, d>>, e), Stays(p, "w_ack"),
                 cs_packet[addr[p]].flags = "PSH", cs_packet[addr[p]].seq = NextSeq(k)
          PROVE  HasTurn(p, <<d>>, k, g)' /\ Head(net[p]) = a
      <4>1. net[p] = <<a, d, e>>
        BY <1>4, <3>3
      <4>2. net'[p] = Append(<<d>>, e) /\ Head(net[p]) = a
        BY <1>4, <4>1
      <4>3. HasTurn(p, <<d>>, k, g)'
        BY <1>1, <1>3, <3>1, <3>3, <4>2 DEF HasTurn, Stays, From
      <4> QED
        BY <4>2, <4>3
    <3>4. HasTurn(p, <<d>>, k, g)' /\ Head(net[p]) = a
      BY <1>1, <3>1, <3>2, <3>3 DEF HasTurn
    <3>5. HasTurn(p, Append(<<>>, d), k, g)'
      BY <1>4, <3>4
    <3>6. d = From(p, Ack(k))'
      BY <1>1 DEF From
    <3>7. Answered(p, Append(<<>>, From(p, Ack(k))), k, f, g)'
      BY <1>2, <3>5, <3>6 DEF Answered
    <3>8. Offered(p, <<>>, k, f, g)'
      BY <3>7 DEF Offered
    <3> QED
      BY <3>4, <3>8
  <2>3. HasTurn(p, Append(<<a>>, d), k, g) \/ OnItsWay(p, <<a>>, k, f, g)
    BY <1>1, <1>2 DEF Offered, Answered
  <2> QED
    BY <2>1, <2>2, <2>3
<1>6. Told(p, <<>>)'
  <2>1. s_packet[p].seq = NextSeq(r_packet[p].seq) /\ HasPSH(s_packet[p].flags)
    BY DEF InformedLate, Told
  <2> QED
    BY <1>1, <1>5, <2>1 DEF Told, SameRecord
<1> QED
  BY <1>1, <1>5, <1>6

\* One reception in the round over the clients.
LEMMA RoundReceived ==
    ASSUME Good, NEW x, x = rx, InCall("receipted"), Received(x),
           game' = game \/ (Opponents /\ game'.turn \in Marks), do_broadcast' => Opponents,
           \A q \in Seated \ {x} : InRound(q)',
           Answerable(x)' \/ Served(x)' \/ Dismissed(x)'
    PROVE  SessionInv'
<1>1. /\ ServerTypeOK /\ TableOK /\ RoundOK /\ SessionInv /\ Seated \subseteq Ports
      /\ IInv /\ Undisturbed
  BY GoodFacts DEF Good
<1>2. /\ pc = "recv" /\ pc' = "receipted" /\ readfds' = readfds \ {x} /\ curr' = x /\ x \in Seated
      /\ conns' = conns /\ Seated' = Seated /\ signalled' = "no" /\ ClientsOK'
      /\ \A q \in Seated \ {x} : SameLink(q)
  BY <1>1 DEF Received, InCall, RoundOK
<1>3. RoundPlace /\ RoundPlace'
  BY <1>2 DEF RoundPlace, InCall
<1>4. TableOK'
  <2>1. game'.turn \in Marks
    BY <1>1 DEF TableOK
  <2>2. CASE game' = game
    BY <1>1, <1>2, <1>3, <2>2 DEF TableOK, Opponents, Over
  <2>3. CASE Opponents
    BY <1>2, <2>1, <2>3 DEF TableOK, Opponents
  <2> QED
    BY <2>2, <2>3
<1>5. /\ do_broadcast' => Opponents'
      /\ \A p \in Seated \cap readfds' : net'[p] # <<>>
  BY <1>1, <1>2, <1>3 DEF RoundOK, SameLink, Opponents
<1> QED
  BY <1>2, <1>4, <1>5 DEF SessionInv, Stopped, RestOK, JoiningOK,
     ReceivedOK, BroadcastingOK, RoundOK, RoundPlace, InCall

\* What select reported of the others stays unread.
LEMMA StillToVisit ==
    ASSUME NEW x, InCall("receipted"), Received(x), curr = x, x # 0
    PROVE  \A q \in Seated \ {x} : ToVisit(q) => ToVisit(q)'
BY DEF InCall, Received, ToVisit, NextInList, Position

\* A client that leaves is read.
LEMMA FarewellReceived ==
    ASSUME Good, SvReceive, UNCHANGED clientVars, NEW x, x = rx, x \in Seated,
           Leaves(x), ~do_broadcast, ~do_unicast, Over
    PROVE  /\ Received(x) /\ Dismissed(x)'
           /\ UNCHANGED <<game, do_broadcast>>
<1>1. /\ r_packet[x].flags = "ACK" /\ Stays(x, "w_finack") /\ cs_packet[addr[x]] = Fin
      /\ net[x] = Append(<<>>, From(x, Fin))
  BY DEF Leaves, Left
<1>2. PICK pkt, d : pkt = Fin /\ d = From(x, pkt)
  OBVIOUS
<1>3. pkt.flags = "FIN" /\ pkt.seq = MAX_SEQ
  BY <1>2 DEF Fin, Bare, Packet
<1>4. net[x] = <<d>> /\ Head(net[x]) = d /\ Tail(net[x]) = <<>>
  <2>1. Append(<<>>, d) = <<d>>
    BY Queues
  <2>2. Head(<<d>>) = d /\ Tail(<<d>>) = <<>>
    BY Queues
  <2> QED
    BY <1>1, <1>2, <2>1, <2>2
<1>5. /\ Received(x) /\ net'[addr[x]] = net[addr[x]]
      /\ r_packet'[x] = [flags |-> pkt.flags, seq |-> pkt.seq]
      /\ do_broadcast' = (do_broadcast \/ (pkt.flags = "ACK" /\ pkt.seq = MAX_SEQ))
      /\ UNCHANGED <<game, do_unicast, s_packet>>
  BY <1>1, <1>2, <1>3, <1>4, OtherReceived
<1>6. do_broadcast' = FALSE /\ do_broadcast = FALSE
  BY <1>3, <1>5, GoodFacts DEF ServerTypeOK
<1>7. Waves(x)'
  BY <1>1, <1>3, <1>4, <1>5 DEF Waves, Stays, Received, clientVars
<1> QED
  BY <1>5, <1>6, <1>7 DEF Dismissed, Over

\* A repeated acknowledgement is read.
LEMMA ReminderReceived ==
    ASSUME Good, SvReceive, UNCHANGED clientVars, NEW x, x = rx, x \in Seated, Reminds(x)
    PROVE  /\ Received(x) /\ do_unicast' = TRUE /\ Nudged(x)' /\ SameRecord(x)
           /\ UNCHANGED <<game, do_broadcast, s_packet, r_packet>>
<1>1. PICK n, pkt, d : n = r_packet[x].seq /\ pkt = Ack(n) /\ d = From(x, pkt)
  OBVIOUS
<1>2. r_packet[x].flags = "ACK" /\ Heard(x, <<From(x, Ack(n))>>, n)
  BY <1>1 DEF Reminds
<1>3. pkt.flags = "ACK" /\ pkt.seq = n
  BY <1>1 DEF Ack, Bare, Packet
<1>4. Head(net[x]) = From(x, pkt)
  <2>1. Head(<<d>>) = d
    BY Queues
  <2> QED
    BY <1>1, <1>2, <2>1 DEF Heard
<1>5. /\ Received(x) /\ do_unicast' = TRUE /\ net'[addr[x]] = net[addr[x]]
      /\ UNCHANGED <<game, do_broadcast, s_packet, r_packet>>
  BY <1>1, <1>2, <1>3, <1>4, DuplicateReceived
<1>6. Heard(x, <<>>, n)'
  BY <1>2, <1>5, HeardOnce DEF Received
<1> QED
  BY <1>1, <1>2, <1>5, <1>6 DEF Nudged, SameRecord

\* A turn is read.
LEMMA TurnReceived ==
    ASSUME Good, SvReceive, UNCHANGED clientVars, NEW x, x = rx, x \in Seated,
           r_packet[x].flags = "ACK", HasTurn(x, <<>>, s_packet[x].seq, game), net[x] # <<>>
    PROVE  /\ Received(x) /\ HasMoved(x)' /\ do_broadcast' = TRUE /\ UNCHANGED do_unicast
           /\ game'.turn \in Marks
<1>1. PICK pkt, d : pkt = cs_packet[addr[x]] /\ d = From(x, pkt)
  OBVIOUS
<1>2. Append(<<>>, d) = <<d>> /\ Head(<<d>>) = d /\ Tail(<<d>>) = <<>>
  <2>1. Append(<<>>, d) = <<d>>
    BY Queues
  <2>2. Head(<<d>>) = d /\ Tail(<<d>>) = <<>>
    BY Queues
  <2> QED
    BY <2>1, <2>2
<1>3. /\ net[x] = <<d>> /\ Stays(x, "w_ack") /\ running[addr[x]]
      /\ pkt.flags = "PSH" /\ pkt.seq = NextSeq(s_packet[x].seq)
  BY <1>1, <1>2 DEF HasTurn
<1>4. net[addr[x]] = <<>> /\ cpc[addr[x]] = "w_ack"
  BY <1>3 DEF Stays
<1>5. Head(net[x]) = From(x, pkt)
  BY <1>1, <1>2, <1>3
<1>6. /\ Received(x)
      /\ net'[addr[x]] = <<To(x, Ack(pkt.seq))>>
      /\ r_packet'[x] = [flags |-> "PSH", seq |-> pkt.seq]
      /\ do_broadcast' = TRUE
      /\ UNCHANGED do_unicast
      /\ game'.turn \in Marks
  BY <1>3, <1>4, <1>5, MoveReceived
<1>7. PICK j : j = pkt.seq
  OBVIOUS
<1>8. /\ net'[x] = <<>> /\ addr' = addr /\ cpc' = cpc /\ running' = running /\ cs_packet' = cs_packet
  BY <1>2, <1>3, <1>6 DEF Received, clientVars
<1>9. HasMoved(x)'
  BY <1>1, <1>3, <1>4, <1>6, <1>7, <1>8 DEF HasMoved, Moved, To
<1> QED
  BY <1>6, <1>9

\* The acknowledgement of a game is read.
LEMMA AnswerReceived ==
    ASSUME Good, NoWrap, SvReceive, UNCHANGED clientVars, NEW x, x = rx, x \in Seated,
           Informed(x), net[x] # <<>>
    PROVE  /\ Received(x)
           /\ r_packet'[x].flags = "ACK"
           /\ UNCHANGED <<game, do_broadcast, do_unicast, s_packet>>
           /\ Over => Leaves(x)'
           /\ ~Over /\ HasTRN(s_packet[x].flags) => Plays(x)'
           /\ ~Over /\ ~HasTRN(s_packet[x].flags) => Waiting(x)'
<1>1. PICK k, g, pkt : k = s_packet[x].seq /\ g = game /\ pkt = Ack(k)
  OBVIOUS
<1>2. /\ Told(x, <<>>) /\ k = NextSeq(r_packet[x].seq) /\ HasPSH(s_packet[x].flags)
      /\ x \in Ports /\ r_packet[x].seq \in SeqNums /\ do_broadcast \in BOOLEAN
  BY <1>1, GoodFacts DEF Informed, Told, ServerTypeOK, Receipts
<1>3. k # r_packet[x].seq /\ k # MAX_SEQ
  BY <1>1, <1>2, NextSeqDiffers DEF NoWrap
<1>4. pkt.flags = "ACK" /\ pkt.seq = k
  BY <1>1 DEF Ack, Bare, Packet
<1>5. PICK d : d = Head(net[x])
  OBVIOUS
<1>6. Head(net[x]) = From(x, pkt)
  <2>1. PICK e : e = From(x, pkt)
    OBVIOUS
  <2>2. Answered(x, Append(<<>>, e), k, s_packet[x].flags, g)
    BY <1>1, <1>2, <2>1 DEF Told, Offered, OnItsWay
  <2>3. Append(<<>>, e) = <<e>> /\ Head(<<e>>) = e
    BY Queues
  <2>4. ASSUME NEW f PROVE Head(Append(<<e>>, f)) = e
    <3>1. Append(<<e>>, f) = <<e, f>>
      BY Queues
    <3>2. Head(<<e, f>>) = e
      BY Queues
    <3> QED
      BY <3>1, <3>2
  <2> QED
    BY <2>1, <2>2, <2>3, <2>4 DEF Answered, Left, HasTurn, Heard
<1>7. /\ Received(x) /\ net'[addr[x]] = net[addr[x]]
      /\ r_packet'[x] = [flags |-> "ACK", seq |-> k]
      /\ UNCHANGED <<game, do_broadcast, do_unicast, s_packet>>
  <2>1. /\ Received(x) /\ net'[addr[x]] = net[addr[x]]
        /\ r_packet'[x] = [flags |-> pkt.flags, seq |-> pkt.seq]
        /\ do_broadcast' = (do_broadcast \/ (pkt.flags = "ACK" /\ pkt.seq = MAX_SEQ))
        /\ UNCHANGED <<game, do_unicast, s_packet>>
    <3>1. /\ r_packet[x].flags # pkt.flags \/ r_packet[x].seq # pkt.seq
          /\ pkt.flags = "ACK" /\ pkt.seq = s_packet[x].seq
          /\ Head(net[x]) = From(x, pkt)
      BY <1>1, <1>2, <1>3, <1>4, <1>6
    <3> QED
      BY <1>1, <3>1, OtherReceived
  <2>2. pkt.seq # MAX_SEQ
    BY <1>3, <1>4
  <2>3. do_broadcast' = do_broadcast
    BY <1>2, <2>1, <2>2
  <2> QED
    BY <1>4, <2>1, <2>3
<1>8. IF Over THEN Left(x, <<>>)'
      ELSE IF HasTRN(s_packet[x].flags) THEN HasTurn(x, <<>>, k, g)'
      ELSE Heard(x, <<>>, k)' /\ Unhurried(x)'
  BY <1>1, <1>2, <1>7, AnswerRead DEF Received
<1>9. Over => Leaves(x)'
  BY <1>7, <1>8 DEF Leaves
<1>10. ~Over /\ HasTRN(s_packet[x].flags) => Plays(x)'
  BY <1>1, <1>7, <1>8 DEF Plays, Over
<1>11. ~Over /\ ~HasTRN(s_packet[x].flags) => Waiting(x)'
  BY <1>7, <1>8 DEF Waiting, Nudged
<1> QED
  BY <1>7, <1>9, <1>10, <1>11

\* What the loop over the clients reads.
LEMMA RoundReceiptKeeps ==
    ASSUME Good, NoWrap, SvReceive, UNCHANGED clientVars, ret = "receipted"
    PROVE  SessionInv'
<1>0. /\ ServerTypeOK /\ ListOK /\ MAX_CLIENTS = 2 /\ TableOK /\ RoundOK /\ ServerInv
      /\ IInv /\ SessionInv /\ Undisturbed /\ Seated \subseteq Ports /\ 0 \notin Seated
      /\ do_broadcast \in BOOLEAN /\ do_unicast \in BOOLEAN /\ game \in Games
  BY GoodFacts DEF Good, ServerTypeOK
<1>1. PICK x : x = rx
  OBVIOUS
<1>2. /\ pc = "recv" /\ net[x] # <<>> /\ x \in Seated /\ x \in Ports
  BY <1>0, <1>1 DEF SvReceive, RecvDuplicate, RecvBadAck, RecvMove, RecvOther, RecvFinAck,
     Receives, ServerInv, PointersOK
<1>3. InCall("receipted") /\ RoundPlace
  BY <1>2 DEF InCall, RoundPlace
<1>4. /\ curr = x /\ x \in readfds
      /\ \A p \in Seated : Served(p)
      /\ do_broadcast => Opponents
  BY <1>0, <1>1, <1>3 DEF RoundOK
<1>5. Served(x) /\ \A q \in Seated \ {x} : InRound(q)
  BY <1>2, <1>4 DEF Served
<1>6. ASSUME Received(x), UNCHANGED <<game, do_broadcast>>
      PROVE  \A q \in Seated \ {x} : InRound(q)'
  <2>1. \A q \in Seated \ {x} : ToVisit(q) => ToVisit(q)'
    BY <1>0, <1>2, <1>3, <1>4, <1>6, StillToVisit
  <2> QED
    BY <1>5, <1>6, <2>1, OthersInRound DEF Received
<1>7. CASE do_broadcast
  <2>1. Reminds(x)
    BY <1>2, <1>5, <1>7 DEF Served, InRound, HasMoved, Moved, Nudged, Heard
  <2>2. /\ Received(x) /\ Nudged(x)' /\ UNCHANGED <<game, do_broadcast>>
    BY <1>1, <1>2, <2>1, ReminderReceived
  <2>3. Served(x)'
    BY <1>7, <2>2 DEF Served, InRound
  <2> QED
    BY <1>1, <1>3, <1>4, <1>6, <2>2, <2>3, RoundReceived
<1>8. CASE ~do_broadcast
  <2>1. ~do_unicast /\ (Settled(x) \/ Calls(x))
    BY <1>5, <1>8 DEF Served, InRound
  <2>2. CASE Calls(x) /\ Over
    <3>1. Received(x) /\ Dismissed(x)' /\ UNCHANGED <<game, do_broadcast>>
      BY <1>1, <1>2, <1>8, <2>1, <2>2, FarewellReceived DEF Calls
    <3> QED
      BY <1>1, <1>3, <1>4, <1>6, <3>1, RoundReceived
  <2>3. CASE Calls(x) /\ ~Over
    <3>1. WaitsHere(x) /\ Reminds(x)
      BY <2>3 DEF Calls
    <3>2. /\ Received(x) /\ do_unicast' = TRUE /\ Nudged(x)' /\ SameRecord(x)
          /\ UNCHANGED <<game, do_broadcast, s_packet, r_packet>>
      BY <1>1, <1>2, <3>1, ReminderReceived
    <3>3. WaitsHere(x)'
      BY <3>1, <3>2 DEF Received, WaitsHere, Opponents, BroadcastFlags, Position
    <3>4. Answerable(x)'
      BY <1>8, <2>3, <3>2, <3>3 DEF Answerable, Over
    <3> QED
      BY <1>1, <1>3, <1>4, <1>6, <3>2, <3>4, RoundReceived
  <2>4. CASE Settled(x)
    <3>1. ~Over /\ Opponents /\ BroadcastFlags(x) = "PSH/TRN" /\ Plays(x)
      BY <1>2, <2>4 DEF Settled, Waiting, Nudged, Heard
    <3>2. r_packet[x].flags = "ACK" /\ HasTRN(s_packet[x].flags)
      BY <3>1 DEF Plays
    <3>3. CASE Told(x, <<>>)
      <4>1. Informed(x)
        BY <3>2, <3>3 DEF Informed
      <4>2. Received(x) /\ Plays(x)' /\ UNCHANGED <<game, do_broadcast, do_unicast>>
        BY <1>1, <1>2, <3>1, <3>2, <4>1, AnswerReceived
      <4>3. Served(x)'
        <5>1. Opponents' /\ ~Over' /\ BroadcastFlags(x)' = "PSH/TRN"
          BY <3>1, <4>2 DEF Received, Opponents, Over, BroadcastFlags, Position
        <5> QED
          BY <1>8, <2>1, <4>2, <5>1 DEF Served, InRound, Settled
      <4> QED
        BY <1>1, <1>3, <1>4, <1>6, <4>2, <4>3, RoundReceived
    <3>4. CASE HasTurn(x, <<>>, s_packet[x].seq, game)
      <4>1. /\ Received(x) /\ HasMoved(x)' /\ do_broadcast' = TRUE /\ game'.turn \in Marks
        BY <1>1, <1>2, <3>2, <3>4, TurnReceived
      <4>2. Served(x)'
        BY <4>1 DEF Served, InRound
      <4>3. ASSUME NEW q \in Seated \ {x} PROVE InRound(q)'
        <5>1. BroadcastFlags(q) # "PSH/TRN"
          BY <1>0, <1>2, <3>1, TurnGoesToOne
        <5>2. Waiting(q) \/ (Reminds(q) /\ ToVisit(q))
          BY <1>5, <1>8, <3>1, <5>1 DEF InRound, Settled, Calls
        <5>3. KeepsPlain(q)
          BY <4>1, PlainFrame DEF Received
        <5>4. ToVisit(q) => ToVisit(q)'
          BY <1>0, <1>2, <1>3, <1>4, <4>1, StillToVisit
        <5>5. Nudged(q)' \/ (Reminds(q)' /\ ToVisit(q)')
          BY <5>2, <5>3, <5>4 DEF KeepsPlain, Waiting
        <5> QED
          BY <4>1, <5>5 DEF InRound
      <4> QED
        BY <1>1, <1>3, <3>1, <4>1, <4>2, <4>3, RoundReceived
    <3> QED
      BY <3>1, <3>3, <3>4 DEF Plays
  <2> QED
    BY <2>1, <2>2, <2>3, <2>4
<1> QED
  BY <1>7, <1>8

\* The answer to a unicast.
LEMMA UnicastReceiptKeeps ==
    ASSUME Good, NoWrap, SvReceive, UNCHANGED clientVars, ret = "unicasted"
    PROVE  SessionInv'
<1>0. /\ ServerTypeOK /\ ListOK /\ MAX_CLIENTS = 2 /\ TableOK /\ RoundOK /\ ServerInv
      /\ IInv /\ SessionInv /\ Undisturbed /\ Seated \subseteq Ports /\ 0 \notin Seated
      /\ do_broadcast \in BOOLEAN /\ do_unicast \in BOOLEAN /\ game \in Games
  BY GoodFacts DEF Good, ServerTypeOK
<1>1. PICK x : x = rx
  OBVIOUS
<1>2. /\ pc = "recv" /\ net[x] # <<>> /\ x \in Seated /\ x \in Ports
  BY <1>0, <1>1 DEF SvReceive, RecvDuplicate, RecvBadAck, RecvMove, RecvOther, RecvFinAck,
     Receives, ServerInv, PointersOK
<1>3. InCall("unicasted") /\ RoundPlace
  BY <1>2 DEF InCall, RoundPlace
<1>4. /\ curr = x /\ ~do_broadcast /\ ~Over
      /\ IF Opponents THEN WaitsHere(x) /\ r_packet[x].flags = "ACK" /\ Informed(x)
                      ELSE Prods(x)
      /\ \A p \in Seated \ {x} : InRound(p)
      /\ \A p \in Seated \cap readfds : net[p] # <<>>
  BY <1>0, <1>1, <1>3 DEF RoundOK
<1>5. /\ Received(x) /\ UNCHANGED <<game, do_broadcast, s_packet>> /\ Waiting(x)'
  <2>1. CASE Opponents
    <3>1. Informed(x) /\ ~HasTRN(s_packet[x].flags)
      BY <1>4, <2>1 DEF WaitsHere, HasTRN
    <3> QED
      BY <1>1, <1>2, <1>4, <3>1, AnswerReceived
  <2>2. CASE ~Opponents
    <3>1. r_packet[x].flags = "ACK" /\ Prodded(x, r_packet[x].seq)
      BY <1>4, <2>2 DEF Prods
    <3>2. Heard(x, <<From(x, Ack(r_packet[x].seq))>>, r_packet[x].seq) /\ Unhurried(x)
      BY <1>2, <3>1 DEF Prodded
    <3>3. Reminds(x)
      BY <3>1, <3>2 DEF Reminds
    <3>4. /\ Received(x) /\ Nudged(x)' /\ UNCHANGED <<game, do_broadcast, s_packet>>
      BY <1>1, <1>2, <3>3, ReminderReceived
    <3>5. Unhurried(x)'
      BY <3>2, <3>4 DEF Unhurried, Received, clientVars
    <3> QED
      BY <3>4, <3>5 DEF Waiting
  <2> QED
    BY <2>1, <2>2
<1>6. /\ pc' = "unicasted" /\ readfds' = readfds \ {x} /\ curr' = x
      /\ conns' = conns /\ Seated' = Seated /\ signalled' = "no" /\ ClientsOK'
      /\ \A q \in Seated \ {x} : SameLink(q) /\ SameRecord(q)
      /\ ~do_broadcast' /\ ~Over' /\ Opponents' = Opponents /\ game' = game
  BY <1>4, <1>5 DEF Received, Over, Opponents
<1>7. InRound(x)'
  <2>1. WaitsHere(x)'
    BY <1>4, <1>5, <1>6 DEF WaitsHere, Prods, BroadcastFlags, Position
  <2> QED
    BY <1>5, <1>6, <2>1 DEF InRound, Settled
<1>8. \A q \in Seated \ {x} : InRound(q)'
  <2>1. \A q \in Seated \ {x} : ToVisit(q) => ToVisit(q)'
    BY <1>2, <1>4, <1>6 DEF ToVisit, NextInList, Position
  <2> QED
    BY <1>4, <1>5, <1>6, <2>1, OthersInRound
<1>9. TableOK'
  BY <1>0, <1>3, <1>4, <1>6 DEF TableOK, Opponents
<1>10. \A p \in Seated \cap readfds' : net'[p] # <<>>
  BY <1>4, <1>6 DEF SameLink
<1> QED
  BY <1>2, <1>6, <1>7, <1>8, <1>9, <1>10 DEF SessionInv, Stopped, RestOK, JoiningOK,
     ReceivedOK, BroadcastingOK, RoundOK, RoundPlace, InCall

\* The answer to a broadcast.
LEMMA BroadcastReceiptKeeps ==
    ASSUME Good, NoWrap, SvReceive, UNCHANGED clientVars, ret = "bcasted"
    PROVE  SessionInv'
<1>0. /\ ServerTypeOK /\ ListOK /\ MAX_CLIENTS = 2 /\ TableOK /\ BroadcastingOK /\ ServerInv
      /\ IInv /\ SessionInv /\ Undisturbed /\ Seated \subseteq Ports /\ 0 \notin Seated
      /\ game \in Games
  BY GoodFacts DEF Good, ServerTypeOK
<1>1. PICK x : x = rx
  OBVIOUS
<1>2. /\ pc = "recv" /\ net[x] # <<>> /\ x \in Seated /\ x \in Ports
  BY <1>0, <1>1 DEF SvReceive, RecvDuplicate, RecvBadAck, RecvMove, RecvOther, RecvFinAck,
     Receives, ServerInv, PointersOK
<1>3. /\ curr = x /\ payload = game /\ Opponents
      /\ s_packet[x].flags = BroadcastFlags(x)
      /\ Informed(x) \/ InformedLate(x)
      /\ \A p \in Seated \ {x} : InBroadcast(p)
  BY <1>0, <1>1, <1>2 DEF BroadcastingOK, InCall
<1>4. ASSUME Informed(x) PROVE Received(x) /\ AtRest(x)' /\ game' = game
  <2>1. /\ Received(x)
        /\ UNCHANGED <<game, do_broadcast, do_unicast, s_packet>>
        /\ Over => Leaves(x)'
        /\ ~Over /\ HasTRN(s_packet[x].flags) => Plays(x)'
        /\ ~Over /\ ~HasTRN(s_packet[x].flags) => Waiting(x)'
    BY <1>1, <1>2, <1>4, AnswerReceived
  <2>2. /\ Opponents' /\ Over' = Over /\ s_packet'[x] = s_packet[x]
        /\ BroadcastFlags(x)' = BroadcastFlags(x)
    BY <1>3, <2>1 DEF Received, Opponents, Over, BroadcastFlags, Position
  <2>3. BroadcastFlags(x) \in {"PSH", "PSH/TRN"}
    BY FlagsOfBroadcast
  <2>4. AtRest(x)'
    <3>1. CASE Over
      BY <2>1, <2>2, <3>1 DEF AtRest, Calls
    <3>2. CASE ~Over /\ HasTRN(s_packet[x].flags)
      BY <1>3, <2>1, <2>2, <3>2 DEF AtRest, Settled, HasTRN
    <3>3. CASE ~Over /\ ~HasTRN(s_packet[x].flags)
      BY <1>3, <2>1, <2>2, <2>3, <3>3 DEF AtRest, Settled, HasTRN, WaitsHere
    <3> QED
      BY <3>1, <3>2, <3>3
  <2> QED
    BY <2>1, <2>4
<1>5. ASSUME InformedLate(x) PROVE Received(x) /\ AtRest(x)' /\ game' = game
  <2>1. PICK n, a, pkt : n = r_packet[x].seq /\ a = From(x, Ack(n)) /\ pkt = Ack(n)
    OBVIOUS
  <2>2. /\ r_packet[x].flags = "ACK" /\ ~Over /\ HasTRN(s_packet[x].flags)
        /\ pkt.flags = "ACK" /\ pkt.seq = n
    BY <1>5, <2>1 DEF InformedLate, Ack, Bare, Packet
  <2>3. Head(net[x]) = a
    <3>1. PICK k, d, e : /\ k = s_packet[x].seq /\ d = From(x, Ack(k))
                         /\ e = From(x, cs_packet[addr[x]])
      OBVIOUS
    <3>2. OnItsWay(x, <<a>>, k, s_packet[x].flags, game) \/ HasTurn(x, Append(<<a>>, d), k, game)
      BY <1>5, <2>1, <2>2, <3>1 DEF InformedLate, Told, Offered, Answered, Over
    <3>3. net[x] = <<a>> \/ net[x] = Append(<<a>>, d) \/ net[x] = Append(Append(<<a>>, d), e)
      BY <3>1, <3>2 DEF OnItsWay, HasTurn
    <3>4. Head(<<a>>) = a
      BY Queues
    <3>5. Append(<<a>>, d) = <<a, d>>
      BY Queues
    <3>6. Append(<<a, d>>, e) = <<a, d, e>>
      BY AppendThree
    <3>7. Head(<<a, d>>) = a
      BY Queues
    <3>8. Head(<<a, d, e>>) = a
      BY Queues
    <3> QED
      BY <3>3, <3>4, <3>5, <3>6, <3>7, <3>8
  <2>4. /\ Received(x) /\ net'[addr[x]] = net[addr[x]]
        /\ UNCHANGED <<game, do_broadcast, s_packet, r_packet>>
    BY <1>1, <2>1, <2>2, <2>3, DuplicateReceived
  <2>5. Told(x, <<>>)'
    BY <1>5, <2>1, <2>4, LateAnswerRead DEF Received, SameRecord
  <2>6. Plays(x)'
    BY <2>2, <2>4, <2>5 DEF Plays, Over
  <2>7. AtRest(x)'
    BY <1>3, <2>2, <2>4, <2>6 DEF AtRest, Settled, HasTRN, Received, Opponents, Over,
       BroadcastFlags, Position
  <2> QED
    BY <2>4, <2>7
<1>6. Received(x) /\ AtRest(x)' /\ game' = game
  BY <1>3, <1>4, <1>5
<1>7. /\ pc' = "bcasted" /\ payload' = game' /\ Opponents' /\ curr' = x /\ Seated' = Seated
      /\ signalled' = "no" /\ ClientsOK' /\ UNCHANGED <<conns, game, curr>>
      /\ \A q \in Seated \ {x} : SameLink(q) /\ SameRecord(q)
  BY <1>2, <1>3, <1>6 DEF Received, Opponents, InCall
<1>8. \A q \in Seated \ {x} : InBroadcast(q)'
  BY <1>3, <1>7, OthersInBroadcast
<1>9. TableOK'
  BY <1>0, <1>7 DEF TableOK
<1> QED
  BY <1>2, <1>6, <1>7, <1>8, <1>9 DEF SessionInv, Stopped, RestOK, JoiningOK,
     ReceivedOK, BroadcastingOK, RoundOK, RoundPlace, InCall

\* The client's FIN/ACK: the server removes it.
LEMMA FarewellKeeps ==
    ASSUME Good, SvReceive, UNCHANGED clientVars, ret = "receipt"
    PROVE  SessionInv'
<1>0. /\ ServerTypeOK /\ ListOK /\ MAX_CLIENTS = 2 /\ TableOK /\ RoundOK /\ ServerInv
      /\ IInv /\ SessionInv /\ Undisturbed /\ Seated \subseteq Ports /\ 0 \notin Seated
      /\ ClientsOK /\ NetTypeOK
  BY GoodFacts DEF Good, SessionInv
<1>1. PICK x : x = rx
  OBVIOUS
<1>2. /\ pc = "recv" /\ net[x] # <<>> /\ x \in Seated /\ x \in Ports
      /\ curr \in {0} \cup (Seated \ {x})
  BY <1>0, <1>1 DEF SvReceive, RecvDuplicate, RecvBadAck, RecvMove, RecvOther, RecvFinAck,
     Receives, ServerInv, PointersOK
<1>3. /\ ~do_broadcast /\ ~do_unicast /\ Over /\ Parts(x)
      /\ \A p \in Seated \ {x} : InRound(p)
      /\ \A p \in Seated \cap readfds : net[p] # <<>>
  BY <1>0, <1>1, <1>2 DEF RoundOK, InCall, RoundPlace
<1>4. /\ r_packet[x].flags = "FIN" /\ cpc[addr[x]] = "w_linger" /\ net[addr[x]] = <<>>
      /\ net[x] = <<From(x, FinAck)>> /\ peer[addr[x]] = x
  BY <1>2, <1>3 DEF Parts, Parting, Stays
<1>5. PICK pkt, d : pkt = FinAck /\ d = From(x, pkt)
  OBVIOUS
<1>6. pkt.flags = "FIN/ACK" /\ Head(net[x]) = d
  <2>1. Head(<<d>>) = d
    BY Queues
  <2> QED
    BY <1>4, <1>5, <2>1 DEF FinAck, Bare, Packet
<1>7. Arrived.flags = "FIN/ACK" /\ Arrived.flags # r_packet[rx].flags
  BY <1>1, <1>4, <1>5, <1>6, Outcomes
<1>8. RecvFinAck
  BY <1>7 DEF SvReceive, RecvDuplicate, IsDuplicate, RecvBadAck, IsBadAck, RecvMove, IsMove,
     HasPSH, RecvOther
<1>9. /\ conns' = RemoveAt(conns, Position(x)) /\ bound' = bound \ {x}
      /\ net' = Closed(net, {x})
      /\ r_packet' = [r_packet EXCEPT ![x] = NoReceipt]
      /\ s_packet' = [s_packet EXCEPT ![x] = ZeroPacket]
      /\ readfds' = readfds \ {x} /\ pc' = "receipt"
      /\ UNCHANGED <<curr, addr, game, do_broadcast, do_unicast, signalled>>
  BY <1>1, <1>8 DEF RecvFinAck, Goto
<1>10. /\ cpc' = cpc /\ cs_packet' = cs_packet /\ cr_seq' = cr_seq /\ view' = view
       /\ peer' = peer /\ running' = running /\ tv_sec' = tv_sec /\ num_to' = num_to
  BY DEF clientVars
<1>11. Seated' = Seated \ {x}
  <2>1. Position(x) \in 1 .. Len(conns) /\ conns[Position(x)] = x
    BY <1>0, <1>2, PositionOf
  <2>2. conns \in Seq(Ports) /\ IsInjective(conns)
    BY <1>0 DEF ServerTypeOK, ListOK
  <2> QED
    BY <1>9, <2>1, <2>2, RemoveOne DEF Seated
<1>12. /\ net'[x] = <<>> /\ \A e \in Endpoints \ {x} : net'[e] = net[e]
       /\ r_packet'[x] = NoReceipt
       /\ \A q \in Ports \ {x} : s_packet'[q] = s_packet[q] /\ r_packet'[q] = r_packet[q]
  BY <1>0, <1>2, <1>9 DEF Closed, Endpoints, ServerTypeOK
<1>13. /\ Clients \cap Ports = {} /\ Main \notin Ports \cup Clients
       /\ \A c \in Clients : c \in Endpoints
       /\ \A q \in Ports : q \in Endpoints
       /\ Main \in Endpoints
       /\ \A q \in Ports : addr[q] \in Clients \cup {NoAddr}
       /\ addr[x] \in Clients
  BY <1>0, <1>2, EndpointKinds, SeatedLinked DEF Endpoints, ServerTypeOK, Linked
<1>14. \A c \in Clients : net'[c] = net[c] /\ (c \in bound' <=> c \in bound)
  BY <1>2, <1>9, <1>12, <1>13
<1>15. ClientsOK'
  <2>1. SingleSeats'
    BY <1>0, <1>9 DEF ClientsOK, SingleSeats
  <2>2. \A c \in Clients : c \in bound' <=> cpc'[c] \notin {"start", "exit"}
    BY <1>0, <1>10, <1>14 DEF ClientsOK
  <2>3. \A c \in Clients : (\A q \in Ports : addr'[q] # c) => Outside(c)'
    <3> SUFFICES ASSUME NEW c \in Clients, \A q \in Ports : addr[q] # c PROVE Outside(c)'
      BY <1>9
    <3>1. Outside(c)
      BY <1>0 DEF ClientsOK
    <3> QED
      BY <1>10, <1>14, <3>1 DEF Outside
  <2>4. \A q \in Ports : addr'[q] # NoAddr /\ q \notin Seated' => Gone(q)'
    <3> SUFFICES ASSUME NEW q \in Ports, addr[q] # NoAddr, q \notin Seated' PROVE Gone(q)'
      BY <1>9
    <3>1. addr[q] \in Clients /\ net'[addr[q]] = net[addr[q]]
      BY <1>13, <1>14
    <3>2. Gone(q)
      BY <1>0, <1>4, <1>11 DEF ClientsOK, Gone
    <3> QED
      BY <1>9, <1>10, <3>1, <3>2 DEF Gone
  <2>5. \A q \in Ports : q \notin Seated' => net'[q] = <<>> /\ r_packet'[q] = NoReceipt
    BY <1>0, <1>11, <1>12, <1>13 DEF ClientsOK
  <2>6. \A i \in DOMAIN net'[Main] : Asks(net'[Main][i]) =>
           /\ cpc'[net'[Main][i].src] = "w_synack"
           /\ \A p \in Ports : addr'[p] # net'[Main][i].src
           /\ \A j \in DOMAIN net'[Main] :
                 Asks(net'[Main][j]) /\ net'[Main][i].src = net'[Main][j].src => i = j
    <3>1. PICK m : m = net[Main]
      OBVIOUS
    <3>2. \A i \in DOMAIN m : Asks(m[i]) =>
             /\ cpc[m[i].src] = "w_synack"
             /\ \A p \in Ports : addr[p] # m[i].src
             /\ \A j \in DOMAIN m : Asks(m[j]) /\ m[i].src = m[j].src => i = j
      BY <1>0, <3>1 DEF ClientsOK
    <3>3. net'[Main] = m /\ cpc' = cpc /\ addr' = addr
      BY <1>2, <1>9, <1>10, <1>12, <1>13, <3>1
    <3> QED
      BY <3>2, <3>3
  <2> QED
    BY <2>1, <2>2, <2>3, <2>4, <2>5, <2>6 DEF ClientsOK
<1>16. TableOK'
  BY <1>0, <1>3, <1>9 DEF TableOK, RoundPlace, Over
<1>17. \A p \in Seated' : InRound(p)'
  <2> SUFFICES ASSUME NEW p \in Seated, p # x PROVE InRound(p)'
    BY <1>11
  <2>1. SameLink(p) /\ SameRecord(p)
    <3>1. p \in Ports /\ addr[p] \in Clients
      BY <1>0, SeatedLinked DEF Linked
    <3> QED
      BY <1>9, <1>10, <1>12, <1>13, <1>14, <3>1 DEF SameLink, SameRecord
  <2>2. Leaves(p) /\ ToVisit(p)
    BY <1>3 DEF InRound, Settled, Calls
  <2>3. Leaves(p)'
    BY <2>1, <2>2, PlainFrame DEF KeepsPlain
  <2>4. ToVisit(p)'
    <3>1. curr = p
      BY <1>0, <1>2, <2>2, Neighbours DEF ToVisit
    <3> QED
      BY <1>9, <2>2, <3>1 DEF ToVisit
  <2> QED
    BY <1>3, <1>9, <2>3, <2>4 DEF InRound, Calls, Over
<1>18. \A p \in Seated' \cap readfds' : net'[p] # <<>>
  BY <1>0, <1>3, <1>9, <1>11, <1>12, <1>13
<1> QED
  BY <1>0, <1>3, <1>9, <1>15, <1>16, <1>17, <1>18 DEF SessionInv, Stopped, RestOK, JoiningOK,
     ReceivedOK, BroadcastingOK, RoundOK, RoundPlace, InCall

\* Whatever the server reads.
LEMMA SvReceiveKeeps ==
    ASSUME Good, NoWrap, SvReceive, UNCHANGED clientVars
    PROVE  SessionInv'
<1>1. ret \in Returns
  BY GoodFacts DEF ServerTypeOK
<1> QED
  BY <1>1, JoinReceived, RoundReceiptKeeps, UnicastReceiptKeeps, FarewellKeeps,
     BroadcastReceiptKeeps DEF Returns

\* What is behind the first datagram for the listening socket.
LEMMA TailOfRequests ==
    ASSUME NetTypeOK, ClientsOK, net[Main] # <<>>, NEW m, m = net[Main], NEW t, t = Tail(m)
    PROVE  \A i \in DOMAIN t : Asks(t[i]) =>
              /\ cpc[t[i].src] = "w_synack"
              /\ \A p \in Ports : addr[p] # t[i].src
              /\ Asks(Head(m)) => t[i].src # Head(m).src
              /\ \A j \in DOMAIN t : Asks(t[j]) /\ t[i].src = t[j].src => i = j
<1>1. m \in Seq(DatagramsTo(Main)) /\ m # <<>>
  BY DEF NetTypeOK, Endpoints
<1>2. PICK l : l = Len(m)
  OBVIOUS
<1>3. /\ l \in Nat \ {0} /\ DOMAIN m = 1 .. l
      /\ t \in Seq(DatagramsTo(Main)) /\ Len(t) = l - 1
      /\ \A i \in 1 .. (l - 1) : t[i] = m[i + 1]
      /\ Head(m) = m[1]
  BY <1>1, <1>2, HeadTailProperties, LenProperties, EmptySeq
<1>4. DOMAIN t = 1 .. (l - 1)
  BY <1>3, LenProperties
<1>5. \A i \in DOMAIN m : Asks(m[i]) =>
         /\ cpc[m[i].src] = "w_synack"
         /\ \A p \in Ports : addr[p] # m[i].src
         /\ \A j \in DOMAIN m : Asks(m[j]) /\ m[i].src = m[j].src => i = j
  BY DEF ClientsOK
<1> QED
  <2> SUFFICES ASSUME NEW i \in DOMAIN t, Asks(t[i])
               PROVE  /\ cpc[t[i].src] = "w_synack"
                      /\ \A p \in Ports : addr[p] # t[i].src
                      /\ Asks(Head(m)) => t[i].src # Head(m).src
                      /\ \A j \in DOMAIN t : Asks(t[j]) /\ t[i].src = t[j].src => i = j
    OBVIOUS
  <2>1. i + 1 \in DOMAIN m /\ i + 1 # 1 /\ 1 \in DOMAIN m /\ t[i] = m[i + 1] /\ i \in Nat
    BY <1>3, <1>4
  <2>2. /\ cpc[t[i].src] = "w_synack"
        /\ \A p \in Ports : addr[p] # t[i].src
        /\ \A j \in DOMAIN m : Asks(m[j]) /\ t[i].src = m[j].src => i + 1 = j
    BY <1>5, <2>1
  <2>3. Asks(Head(m)) => t[i].src # Head(m).src
    BY <1>3, <2>1, <2>2
  <2>4. ASSUME NEW j \in DOMAIN t, Asks(t[j]), t[i].src = t[j].src PROVE i = j
    <3>1. j + 1 \in DOMAIN m /\ t[j] = m[j + 1] /\ j \in Nat
      BY <1>3, <1>4
    <3>2. i + 1 = j + 1
      BY <2>2, <2>4, <3>1
    <3> QED
      BY <2>1, <3>1, <3>2
  <2> QED
    BY <2>2, <2>3, <2>4

\* A denied or unwanted datagram is dropped.
LEMMA SvDenyKeeps ==
    ASSUME Good, SvDeny, UNCHANGED clientVars
    PROVE  SessionInv'
<1>0. /\ ServerTypeOK /\ TableOK /\ RestOK /\ ServerInv /\ IInv /\ SessionInv /\ Undisturbed
      /\ Seated \subseteq Ports /\ ClientsOK /\ NetTypeOK /\ signalled = "no"
  BY GoodFacts DEF Good, SessionInv
<1>1. /\ pc = "accept" /\ pc' = "received" /\ net' = Taken(Main) /\ net[Main] # <<>>
      /\ UNCHANGED <<bound, conns, addr, s_packet, r_packet, game, do_broadcast, signalled>>
  BY <1>0 DEF SvDeny, Goto, ServerInv, AcceptOK
<1>2. /\ Main \in Endpoints /\ net'[Main] = Tail(net[Main])
      /\ \A e \in Endpoints \ {Main} : net'[e] = net[e]
  BY <1>0, <1>1, TakenFrom DEF Endpoints
<1>3. /\ cpc' = cpc /\ cs_packet' = cs_packet /\ cr_seq' = cr_seq /\ view' = view
      /\ peer' = peer /\ running' = running /\ tv_sec' = tv_sec /\ num_to' = num_to
  BY DEF clientVars
<1>4. /\ \A q \in Ports : net'[q] = net[q]
      /\ \A c \in Clients : net'[c] = net[c]
      /\ \A q \in Ports : addr[q] \in Clients \cup {NoAddr}
  BY <1>0, <1>2, EndpointKinds DEF Endpoints, ServerTypeOK
<1>5. Seated' = Seated
  BY <1>1 DEF Seated
<1>6. ClientsOK'
  <2>1. SingleSeats'
    BY <1>0, <1>1 DEF ClientsOK, SingleSeats
  <2>2. \A c \in Clients : c \in bound' <=> cpc'[c] \notin {"start", "exit"}
    BY <1>0, <1>1, <1>3 DEF ClientsOK
  <2>3. \A c \in Clients : (\A q \in Ports : addr'[q] # c) => Outside(c)'
    BY <1>0, <1>1, <1>3, <1>4 DEF ClientsOK, Outside
  <2>4. \A q \in Ports : addr'[q] # NoAddr /\ q \notin Seated' => Gone(q)'
    BY <1>0, <1>1, <1>3, <1>4, <1>5 DEF ClientsOK, Gone
  <2>5. \A q \in Ports : q \notin Seated' => net'[q] = <<>> /\ r_packet'[q] = NoReceipt
    BY <1>0, <1>1, <1>4, <1>5 DEF ClientsOK
  <2>6. \A i \in DOMAIN net'[Main] : Asks(net'[Main][i]) =>
           /\ cpc'[net'[Main][i].src] = "w_synack"
           /\ \A p \in Ports : addr'[p] # net'[Main][i].src
           /\ \A j \in DOMAIN net'[Main] :
                 Asks(net'[Main][j]) /\ net'[Main][i].src = net'[Main][j].src => i = j
    <3>1. PICK m, t : m = net[Main] /\ t = Tail(m)
      OBVIOUS
    <3>2. \A i \in DOMAIN t : Asks(t[i]) =>
             /\ cpc[t[i].src] = "w_synack"
             /\ \A p \in Ports : addr[p] # t[i].src
             /\ \A j \in DOMAIN t : Asks(t[j]) /\ t[i].src = t[j].src => i = j
      BY <1>0, <1>1, <3>1, TailOfRequests
    <3>3. net'[Main] = t /\ cpc' = cpc /\ addr' = addr
      BY <1>1, <1>2, <1>3, <3>1
    <3> QED
      BY <3>2, <3>3
  <2> QED
    BY <2>1, <2>2, <2>3, <2>4, <2>5, <2>6 DEF ClientsOK
<1>7. ASSUME NEW p \in Seated PROVE AtRest(p)'
  <2>1. AtRest(p)
    BY <1>0, <1>1 DEF RestOK
  <2>2. SameLink(p) /\ SameRecord(p)
    <3>1. p \in Ports /\ addr[p] \in Clients
      BY <1>0, SeatedLinked DEF Linked
    <3> QED
      BY <1>1, <1>3, <1>4, <3>1 DEF SameLink, SameRecord
  <2> QED
    BY <1>1, <2>1, <2>2, RestFrame
<1>8. TableOK' /\ ~do_broadcast'
  BY <1>0, <1>1 DEF TableOK, Opponents, RoundPlace, InCall
<1> QED
  BY <1>0, <1>1, <1>5, <1>6, <1>7, <1>8 DEF SessionInv, Stopped, RestOK, JoiningOK,
     ReceivedOK, BroadcastingOK, RoundOK, RoundPlace, InCall

\* The position of the client that was added last.
LEMMA LastPosition ==
    ASSUME ServerTypeOK, ListOK, NEW x \in Ports, x \notin Seated, conns' = Append(conns, x)
    PROVE  /\ Seated' = Seated \cup {x} /\ Len(conns') = Len(conns) + 1
           /\ Position(x)' = Len(conns')
<1>1. conns \in Seq(Ports) /\ IsInjective(conns) /\ x \notin ToSet(conns)
  BY DEF ServerTypeOK, ListOK, Seated
<1>2. /\ conns' \in Seq(Ports) /\ Len(conns') = Len(conns) + 1
      /\ ToSet(conns') = ToSet(conns) \cup {x} /\ IsInjective(conns')
  BY <1>1, AppendNew
<1>3. PICK l, t : l = Len(conns) /\ t = conns'
  OBVIOUS
<1>4. l \in Nat /\ DOMAIN t = 1 .. (l + 1) /\ t[l + 1] = x
  BY <1>1, <1>2, <1>3, LenProperties, AppendProperties
<1>5. \A i, j \in DOMAIN t : t[i] = t[j] => i = j
  BY <1>2, <1>3 DEF IsInjective
<1>6. (CHOOSE i \in DOMAIN t : t[i] = x) = l + 1
  BY <1>4, <1>5
<1> QED
  BY <1>2, <1>3, <1>6 DEF Position, Seated

\* A client is seated: nobody sits at its place, and it waits for its answer.
LEMMA SvAcceptKeeps ==
    ASSUME Good, SvAccept, UNCHANGED clientVars
    PROVE  SessionInv'
<1>0. /\ ServerTypeOK /\ ListOK /\ TableOK /\ RestOK /\ ServerInv /\ IInv /\ SessionInv
      /\ Undisturbed /\ MAX_CLIENTS = 2
      /\ Seated \subseteq Ports /\ ClientsOK /\ NetTypeOK /\ signalled = "no"
  BY GoodFacts DEF Good, SessionInv
<1>1. PICK c, synack, m : /\ c = Head(net[Main]).src /\ synack = Bare("SYN/ACK", MAX_SEQ)
                          /\ m = net[Main]
  OBVIOUS
<1>2. PICK x \in Ports :
         /\ addr[x] = NoAddr
         /\ conns' = Append(conns, x)
         /\ addr' = [addr EXCEPT ![x] = c]
         /\ bound' = bound \cup {x}
         /\ s_packet' = [s_packet EXCEPT ![x] = synack]
         /\ net' = Sent(Taken(Main), x, c, synack)
         /\ pc' = "recv" /\ rx' = x /\ ret' = "received"
  BY <1>1 DEF SvAccept, RecvFrom, Goto, IsNextPort
<1>3. /\ pc = "accept" /\ Len(conns) < 2 /\ Asks(Head(m)) /\ m # <<>>
      /\ UNCHANGED <<curr, r_packet, game, do_broadcast, signalled>>
  BY <1>0, <1>1 DEF SvAccept, HasRoom, Asks, ServerInv, AcceptOK
<1>4. x \notin Seated /\ net[x] = <<>> /\ r_packet[x] = NoReceipt
  BY <1>0, <1>2 DEF ListOK, ClientsOK
<1>5. /\ cpc[c] = "w_synack" /\ \A p \in Ports : addr[p] # c
      /\ c \in Clients
  <2>1. m \in Seq(DatagramsTo(Main))
    BY <1>0, <1>1 DEF NetTypeOK, Endpoints
  <2>2. Head(m) \in DatagramsTo(Main) /\ Head(m) = m[1] /\ 1 \in DOMAIN m
    BY <1>3, <2>1, HeadTailProperties, LenProperties, EmptySeq
  <2>3. c \in Clients
    BY <1>1, <2>2, EndpointKinds DEF DatagramsTo
  <2> QED
    BY <1>0, <1>1, <1>3, <2>2, <2>3 DEF ClientsOK
<1>6. /\ c \in bound /\ net[c] = <<>> /\ running[c] /\ cs_packet[c] = Bare("SYN", MAX_SEQ)
  BY <1>0, <1>5 DEF ClientsOK, Outside
<1>7. /\ Clients \cap Ports = {} /\ Main \notin Ports \cup Clients /\ NoAddr \notin Clients
      /\ \A d \in Clients : d \in Endpoints
      /\ \A q \in Ports : q \in Endpoints
      /\ Main \in Endpoints
      /\ \A q \in Ports : addr[q] \in Clients \cup {NoAddr}
  BY <1>0, EndpointKinds DEF Endpoints, ServerTypeOK
<1>8. /\ net'[Main] = Tail(m) /\ net'[c] = <<To(x, synack)>>
      /\ \A e \in Endpoints \ {Main, c} : net'[e] = net[e]
  <2>1. PICK n : n = Taken(Main)
    OBVIOUS
  <2>2. DOMAIN n = Endpoints /\ n[Main] = Tail(m) /\ \A e \in Endpoints \ {Main} : n[e] = net[e]
    BY <1>0, <1>1, <1>7, <2>1, TakenFrom
  <2>3. Sent(n, x, c, synack) = [n EXCEPT ![c] = <<Datagram(x, synack)>>]
    <3>1. /\ c \in Endpoints /\ c \in bound /\ n[c] = <<>> /\ SockBuf \in Nat /\ SockBuf >= 3
      BY <1>0, <1>5, <1>6, <1>7, <2>2, NetworkAssumption DEF Undisturbed
    <3> QED
      BY <3>1, FirstSent
  <2>4. net' = [n EXCEPT ![c] = <<Datagram(x, synack)>>]
    BY <1>2, <2>1, <2>3
  <2>5. Main # c /\ c \in Endpoints
    BY <1>5, <1>7
  <2> QED
    BY <1>7, <2>2, <2>4, <2>5 DEF To
<1>9. /\ cpc' = cpc /\ cs_packet' = cs_packet /\ cr_seq' = cr_seq /\ view' = view
      /\ peer' = peer /\ running' = running /\ tv_sec' = tv_sec /\ num_to' = num_to
  BY DEF clientVars
<1>10. /\ addr'[x] = c /\ \A q \in Ports \ {x} : addr'[q] = addr[q]
       /\ s_packet'[x] = synack /\ \A q \in Ports \ {x} : s_packet'[q] = s_packet[q]
       /\ \A q \in Ports : net'[q] = net[q] /\ r_packet'[q] = r_packet[q]
       /\ \A d \in Clients \ {c} : net'[d] = net[d]
  <2>1. /\ addr'[x] = c /\ \A q \in Ports \ {x} : addr'[q] = addr[q]
        /\ s_packet'[x] = synack /\ \A q \in Ports \ {x} : s_packet'[q] = s_packet[q]
    BY <1>0, <1>2, <1>3 DEF ServerTypeOK
  <2>2. \A q \in Ports : net'[q] = net[q] /\ r_packet'[q] = r_packet[q]
    BY <1>3, <1>5, <1>7, <1>8
  <2>3. \A d \in Clients \ {c} : net'[d] = net[d]
    BY <1>5, <1>7, <1>8
  <2> QED
    BY <2>1, <2>2, <2>3
<1>11. /\ Seated' = Seated \cup {x} /\ Len(conns') = Len(conns) + 1
       /\ Position(x)' = Len(conns')
  <2>1. /\ ServerTypeOK /\ ListOK /\ x \in Ports /\ x \notin Seated
        /\ conns' = Append(conns, x)
    BY <1>0, <1>2, <1>4
  <2> QED
    BY <2>1, LastPosition
<1>12. game = ResetGame /\ ~Opponents /\ ~Over
  <2>1. ~Opponents
    BY <1>0, <1>3 DEF Opponents
  <2>2. game = ResetGame
    BY <1>0, <1>3, <2>1 DEF TableOK, RoundPlace, InCall
  <2> QED
    BY <2>1, <2>2, NewGameIsOpen DEF Over
<1>13. ClientsOK'
  <2>1. SingleSeats'
    BY <1>0, <1>5, <1>10 DEF ClientsOK, SingleSeats
  <2>2. \A d \in Clients : d \in bound' <=> cpc'[d] \notin {"start", "exit"}
    BY <1>0, <1>2, <1>7, <1>9 DEF ClientsOK
  <2>3. \A d \in Clients : (\A q \in Ports : addr'[q] # d) => Outside(d)'
    <3> SUFFICES ASSUME NEW d \in Clients, \A q \in Ports : addr'[q] # d PROVE Outside(d)'
      OBVIOUS
    <3>1. d # c /\ \A q \in Ports : addr[q] # d
      BY <1>2, <1>7, <1>10
    <3> QED
      BY <1>0, <1>9, <1>10, <3>1 DEF ClientsOK, Outside
  <2>4. \A q \in Ports : addr'[q] # NoAddr /\ q \notin Seated' => Gone(q)'
    <3> SUFFICES ASSUME NEW q \in Ports, addr'[q] # NoAddr, q \notin Seated' PROVE Gone(q)'
      OBVIOUS
    <3>1. q # x /\ addr'[q] = addr[q] /\ addr[q] \in Clients /\ addr[q] # c /\ Gone(q)
      BY <1>0, <1>5, <1>7, <1>10, <1>11 DEF ClientsOK
    <3> QED
      BY <1>9, <1>10, <3>1 DEF Gone
  <2>5. \A q \in Ports : q \notin Seated' => net'[q] = <<>> /\ r_packet'[q] = NoReceipt
    BY <1>0, <1>10, <1>11 DEF ClientsOK
  <2>6. \A i \in DOMAIN net'[Main] : Asks(net'[Main][i]) =>
           /\ cpc'[net'[Main][i].src] = "w_synack"
           /\ \A p \in Ports : addr'[p] # net'[Main][i].src
           /\ \A j \in DOMAIN net'[Main] :
                 Asks(net'[Main][j]) /\ net'[Main][i].src = net'[Main][j].src => i = j
    <3>1. PICK t : t = Tail(m)
      OBVIOUS
    <3>2. \A i \in DOMAIN t : Asks(t[i]) =>
             /\ cpc[t[i].src] = "w_synack"
             /\ \A p \in Ports : addr[p] # t[i].src
             /\ t[i].src # c
             /\ \A j \in DOMAIN t : Asks(t[j]) /\ t[i].src = t[j].src => i = j
      <4>1. \A i \in DOMAIN t : Asks(t[i]) =>
               /\ cpc[t[i].src] = "w_synack"
               /\ \A p \in Ports : addr[p] # t[i].src
               /\ Asks(Head(m)) => t[i].src # Head(m).src
               /\ \A j \in DOMAIN t : Asks(t[j]) /\ t[i].src = t[j].src => i = j
        <5>1. NetTypeOK /\ ClientsOK /\ net[Main] # <<>> /\ m = net[Main] /\ t = Tail(m)
          BY <1>0, <1>1, <1>3, <3>1
        <5> QED
          BY <5>1, TailOfRequests
      <4>2. Asks(Head(m)) /\ Head(m).src = c
        BY <1>1, <1>3
      <4> QED
        BY <4>1, <4>2
    <3>3. net'[Main] = t /\ cpc' = cpc
      BY <1>8, <1>9, <3>1
    <3>4. \A i \in DOMAIN t : Asks(t[i]) => \A p \in Ports : addr'[p] # t[i].src
      BY <1>10, <3>2
    <3> QED
      BY <3>2, <3>3, <3>4
  <2> QED
    BY <2>1, <2>2, <2>3, <2>4, <2>5, <2>6 DEF ClientsOK
<1>14. Joins(x)'
  BY <1>1, <1>4, <1>5, <1>6, <1>8, <1>9, <1>10
  DEF Joins, Joining, To, Bare, Packet
<1>15. ASSUME NEW p \in Seated
       PROVE  s_packet'[p].flags = "SYN/ACK" /\ (Waiting(p)' \/ Reminds(p)')
  <2>1. p \in Ports /\ addr[p] \in Clients /\ p # x /\ addr[p] # c
    BY <1>0, <1>4, <1>5, SeatedLinked DEF Linked
  <2>2. SameLink(p) /\ SameRecord(p)
    BY <1>9, <1>10, <2>1 DEF SameLink, SameRecord
  <2>3. AtRest(p)
    BY <1>0, <1>3 DEF RestOK
  <2>4. s_packet[p].flags = "SYN/ACK" /\ (Waiting(p) \/ Reminds(p))
    BY <1>12, <2>3 DEF AtRest, Settled, Calls, WaitsHere
  <2> QED
    BY <2>2, <2>4, PlainFrame DEF KeepsPlain, SameRecord
<1>16. TableOK'
  BY <1>0, <1>2, <1>3, <1>12 DEF TableOK, Opponents
<1>17. JoiningOK'
  BY <1>2, <1>3, <1>11, <1>12, <1>14, <1>15 DEF JoiningOK, InCall
<1> QED
  BY <1>0, <1>2, <1>3, <1>13, <1>16, <1>17 DEF SessionInv, Stopped, RestOK,
     ReceivedOK, BroadcastingOK, RoundOK, RoundPlace, InCall

\* Every step of the server.
LEMMA ServerKeeps ==
    ASSUME Good, NoWrap, ServerStep, UNCHANGED clientVars
    PROVE  SessionInv'
BY SelectKeeps, SvAcceptKeeps, SvDenyKeeps, AfterReceiptKeeps, EndLoopKeeps, SvReceiveKeeps,
   ReceiptRecvKeeps, ReceiptSkipKeeps, NoUseAfterFree, HandleUnicastKeeps, NoUnicastKeeps,
   UnicastedKeeps, NextClientKeeps, SvDisconnectKeeps, BroadcastStepKeeps, BroadcastNextKeeps,
   BroadcastEndKeeps
   DEF ServerStep, HandleReceipt, HandleBroadcast

-----------------------------------------------------------------------------
(* The steps of a client.                                                  *)

LEMMA AppendedNotEmpty ==
    ASSUME NEW q, Two(q), NEW a
    PROVE  Append(q, a) # <<>>
<1>1. CASE q = <<>>
  BY <1>1, Queues
<1>2. ASSUME NEW b, q = <<b>> PROVE Append(q, a) # <<>>
  <2>1. Append(<<b>>, a) = <<b, a>>
    BY Queues
  <2>2. <<b, a>> # <<>>
    BY Queues
  <2> QED
    BY <1>2, <2>1, <2>2
<1>3. ASSUME NEW b, NEW d, q = <<b, d>> PROVE Append(q, a) # <<>>
  <2>1. Append(<<b, d>>, a) = <<b, d, a>>
    BY AppendThree
  <2>2. <<b, d, a>> # <<>>
    BY Queues
  <2> QED
    BY <1>3, <2>1, <2>2
<1> QED
  BY <1>1, <1>2, <1>3 DEF Two, One

\* A game that was sent is somewhere between the two.
LEMMA OfferedUnread ==
    ASSUME NEW p, NEW q, One(q), NEW k, NEW f, NEW g, Offered(p, q, k, f, g)
    PROVE  net[p] # <<>> \/ net[addr[p]] # <<>>
<1>1. CASE OnItsWay(p, q, k, f, g)
  <2>1. \A a, b : <<a>> # <<>> /\ <<a, b>> # <<>>
    BY Queues
  <2> QED
    BY <1>1, <2>1 DEF OnItsWay
<1>2. CASE Answered(p, Append(q, From(p, Ack(k))), k, f, g)
  <2>1. PICK d, u, e, h : /\ d = From(p, Ack(k)) /\ u = Append(q, d)
                          /\ e = From(p, Fin) /\ h = From(p, cs_packet[addr[p]])
    OBVIOUS
  <2>2. Two(u) /\ u # <<>>
    <3>1. Two(Append(q, d)) /\ Two(q)
      BY LongerQueue, ShortQueues
    <3>2. Append(q, d) # <<>>
      BY <3>1, AppendedNotEmpty
    <3> QED
      BY <2>1, <3>1, <3>2
  <2>3. Append(u, e) # <<>>
    BY <2>2, AppendedNotEmpty
  <2>4. Append(u, h) # <<>>
    BY <2>2, AppendedNotEmpty
  <2>5. net[p] = u \/ net[p] = Append(u, e) \/ net[p] = Append(u, h)
    BY <1>2, <2>1 DEF Answered, Left, HasTurn, Heard
  <2> QED
    BY <2>2, <2>3, <2>4, <2>5
<1> QED
  BY <1>1, <1>2 DEF Offered

\* A server that waits in vain waits in select.
LEMMA QuietServer ==
    ASSUME Good, Quiet
    PROVE  pc = "select" /\ Readable = {}
<1>0. /\ ServerTypeOK /\ ServerInv /\ RoundOK /\ JoiningOK /\ BroadcastingOK /\ ~Stopped
      /\ IInv /\ SessionInv /\ Undisturbed
  BY GoodFacts DEF Good
<1> SUFFICES ASSUME pc = "recv", net[rx] = <<>> PROVE FALSE
  BY <1>0 DEF Quiet, ServerBlocked
<1>1. PICK x : x = rx
  OBVIOUS
<1>2. x \in Seated /\ net[x] = <<>>
  BY <1>0, <1>1 DEF ServerInv, PointersOK
<1>3. net[addr[x]] = <<>>
  BY <1>0, <1>2, SeatedLinked DEF Linked, Quiet
<1>4. \A a, b : <<a>> # <<>> /\ <<a, b>> # <<>>
  BY Queues
<1>5. ~Joins(x) /\ ~Parts(x) /\ ~Prods(x)
  BY <1>2, <1>3, <1>4 DEF Joins, Joining, Parts, Parting, Prods, Prodded, Heard
<1>6. ~Informed(x) /\ ~InformedLate(x)
  <2>1. One(<<>>) /\ One(<<From(x, Ack(r_packet[x].seq))>>)
    BY DEF One
  <2>2. ~Told(x, <<>>)
    BY <1>2, <1>3, <2>1, OfferedUnread DEF Told
  <2>3. ~Told(x, <<From(x, Ack(r_packet[x].seq))>>)
    BY <1>2, <1>3, <2>1, OfferedUnread DEF Told
  <2> QED
    BY <2>2, <2>3 DEF Informed, InformedLate
<1>7. ret \in Returns
  BY <1>0 DEF ServerTypeOK
<1>8. ret # "received" /\ ret # "bcasted"
  BY <1>0, <1>1, <1>5, <1>6 DEF JoiningOK, BroadcastingOK, InCall
<1>9. ret # "receipted" /\ ret # "receipt" /\ ret # "unicasted"
  BY <1>0, <1>1, <1>2, <1>5, <1>6 DEF RoundOK, InCall, RoundPlace
<1> QED
  BY <1>7, <1>8, <1>9 DEF Returns

\* What the server knows stays true when each client keeps its phase.
LEMMA ContextsKept ==
    ASSUME Good, UNCHANGED serverVars, ClientsOK',
           \A p \in Seated : KeepsPlain(p) /\ KeepsGame(p) /\ (net[p] # <<>> => net'[p] # <<>>)
    PROVE  SessionInv'
<1>0. /\ TableOK /\ ServerTypeOK /\ RoundOK /\ JoiningOK /\ BroadcastingOK /\ RestOK /\ ReceivedOK
      /\ ServerInv /\ SessionInv
  BY GoodFacts DEF Good
<1>1. /\ pc' = pc /\ ret' = ret /\ curr' = curr /\ rx' = rx /\ readfds' = readfds
      /\ conns' = conns /\ addr' = addr /\ s_packet' = s_packet /\ r_packet' = r_packet
      /\ game' = game /\ payload' = payload /\ do_broadcast' = do_broadcast
      /\ do_unicast' = do_unicast /\ signalled' = signalled
  BY DEF serverVars
<1>2. /\ Seated' = Seated /\ Over' = Over /\ Opponents' = Opponents
      /\ RoundPlace' = RoundPlace
      /\ \A place : InCall(place)' = InCall(place)
  BY <1>1 DEF Seated, Over, Opponents, RoundPlace, InCall
<1>3. ASSUME NEW p \in Seated
      PROVE  /\ Settled(p) => Settled(p)'
             /\ Calls(p) => Calls(p)'
             /\ Due(p) => Due(p)'
             /\ ToVisit(p)' = ToVisit(p) /\ Passed(p)' = Passed(p)
             /\ WaitsHere(p)' = WaitsHere(p)
             /\ BroadcastFlags(p)' = BroadcastFlags(p)
  <2>1. /\ ToVisit(p)' = ToVisit(p) /\ Passed(p)' = Passed(p)
        /\ WaitsHere(p)' = WaitsHere(p)
        /\ BroadcastFlags(p)' = BroadcastFlags(p)
    BY <1>1 DEF ToVisit, Passed, WaitsHere, BroadcastFlags, NextInList, Position, Opponents
  <2>2. /\ Settled(p) => Settled(p)'
        /\ Calls(p) => Calls(p)'
        /\ Due(p) => Due(p)'
    BY <1>2, <2>1 DEF KeepsPlain, KeepsGame, Settled, Calls, Due
  <2> QED
    BY <2>1, <2>2
<1>4. ASSUME NEW p \in Seated
      PROVE  /\ AtRest(p) => AtRest(p)'
             /\ InRound(p) => InRound(p)'
             /\ InBroadcast(p) => InBroadcast(p)'
             /\ Served(p) => Served(p)'
             /\ Answerable(p) => Answerable(p)'
             /\ Dismissed(p) => Dismissed(p)'
  <2>1. /\ AtRest(p) => AtRest(p)'
        /\ InRound(p) => InRound(p)'
        /\ InBroadcast(p) => InBroadcast(p)'
    BY <1>1, <1>3 DEF KeepsPlain, AtRest, InRound, InBroadcast
  <2>2. /\ Served(p) => Served(p)'
        /\ Answerable(p) => Answerable(p)'
        /\ Dismissed(p) => Dismissed(p)'
    BY <1>1, <1>2, <1>3, <2>1 DEF KeepsPlain, Served, Answerable, Dismissed
  <2> QED
    BY <2>1, <2>2
<1>5. /\ pc = "recv" => rx \in Seated
      /\ pc = "finchk" => curr \in Seated
  BY <1>0 DEF ServerInv, PointersOK
<1>6. signalled' = "no" /\ ~Stopped' /\ TableOK' /\ RestOK' /\ ReceivedOK'
  BY <1>0, <1>1, <1>2, <1>4, <1>3 DEF SessionInv, Stopped, TableOK, RestOK, ReceivedOK
<1>7. JoiningOK'
  <2> SUFFICES ASSUME InCall("received") PROVE JoiningOK'
    BY <1>2 DEF JoiningOK
  <2>1. PICK x : x = rx
    OBVIOUS
  <2>2. /\ game = ResetGame /\ Position(x) = Len(conns) /\ Joins(x) /\ x \in Seated
        /\ \A p \in Seated \ {x} :
              s_packet[p].flags = "SYN/ACK" /\ (Waiting(p) \/ Reminds(p))
    BY <1>0, <1>5, <2>1 DEF JoiningOK, InCall
  <2>3. Position(x)' = Len(conns') /\ game' = ResetGame /\ rx' = x
    BY <1>1, <2>1, <2>2 DEF Position
  <2>4. /\ Joins(x)'
        /\ \A p \in Seated \ {x} :
              s_packet'[p].flags = "SYN/ACK" /\ (Waiting(p)' \/ Reminds(p)')
    BY <1>1, <2>2 DEF KeepsPlain
  <2> QED
    BY <1>2, <2>3, <2>4 DEF JoiningOK
<1>8. BroadcastingOK'
  <2>1. (pc \in {"bcast", "bcasted"} \/ InCall("bcasted") => payload = game /\ Opponents)'
    BY <1>0, <1>1, <1>2 DEF BroadcastingOK
  <2>2. (pc = "bcast" => \A p \in Seated : InBroadcast(p))'
    BY <1>0, <1>1, <1>2, <1>4 DEF BroadcastingOK
  <2>3. (pc = "bcasted" =>
          /\ curr \in Seated
          /\ AtRest(curr)
          /\ \A p \in Seated \ {curr} : InBroadcast(p))'
    <3> SUFFICES ASSUME pc = "bcasted"
                 PROVE  curr' \in Seated' /\ AtRest(curr)'
                        /\ \A p \in Seated \ {curr} : InBroadcast(p)'
      BY <1>1, <1>2
    <3>1. PICK x : x = curr
      OBVIOUS
    <3>2. x \in Seated /\ AtRest(x) /\ \A p \in Seated \ {x} : InBroadcast(p)
      BY <1>0, <3>1 DEF BroadcastingOK
    <3>3. AtRest(x)' /\ \A p \in Seated \ {x} : InBroadcast(p)'
      BY <1>4, <3>2
    <3>4. curr' = x
      BY <1>1, <3>1
    <3> QED
      BY <1>2, <3>1, <3>2, <3>3, <3>4
  <2>4. (InCall("bcasted") =>
          /\ rx = curr
          /\ s_packet[rx].flags = BroadcastFlags(rx)
          /\ Informed(rx) \/ InformedLate(rx)
          /\ \A p \in Seated \ {rx} : InBroadcast(p))'
    <3> SUFFICES ASSUME InCall("bcasted")
                 PROVE  (/\ rx = curr
                         /\ s_packet[rx].flags = BroadcastFlags(rx)
                         /\ Informed(rx) \/ InformedLate(rx)
                         /\ \A p \in Seated \ {rx} : InBroadcast(p))'
      BY <1>2
    <3>1. PICK x : x = rx
      OBVIOUS
    <3>2. /\ x \in Seated /\ x = curr /\ s_packet[x].flags = BroadcastFlags(x)
          /\ Informed(x) \/ InformedLate(x)
          /\ \A p \in Seated \ {x} : InBroadcast(p)
      BY <1>0, <1>5, <3>1 DEF BroadcastingOK, InCall
    <3>3. /\ s_packet'[x].flags = BroadcastFlags(x)'
          /\ Informed(x)' \/ InformedLate(x)'
          /\ \A p \in Seated \ {x} : InBroadcast(p)'
      BY <1>1, <1>3, <1>4, <3>2 DEF KeepsGame
    <3>4. rx' = x /\ curr' = x
      BY <1>1, <3>1, <3>2
    <3> QED
      BY <1>2, <3>3, <3>4
  <2> QED
    BY <2>1, <2>2, <2>3, <2>4 DEF BroadcastingOK
<1>9. RoundOK'
  <2>1. (RoundPlace =>
          /\ do_broadcast => Opponents
          /\ \A p \in Seated \cap readfds : net[p] # <<>>)'
    BY <1>0, <1>1, <1>2 DEF RoundOK
  <2>2. (pc = "receipt" =>
          /\ do_unicast => do_broadcast
          /\ \A p \in Seated : InRound(p))'
    BY <1>0, <1>1, <1>2, <1>4 DEF RoundOK
  <2>3. (InCall("receipted") =>
          /\ rx = curr /\ curr \in readfds
          /\ \A p \in Seated : Served(p))'
    BY <1>0, <1>1, <1>2, <1>4 DEF RoundOK
  <2>4. PICK x, y : x = curr /\ y = rx
    OBVIOUS
  <2>5. curr' = x /\ rx' = y
    BY <1>1, <2>4
  <2>6. ASSUME pc = "receipted"
        PROVE  /\ x \in Seated
               /\ \A p \in Seated \ {x} : InRound(p)'
               /\ Answerable(x)' \/ Served(x)' \/ Dismissed(x)'
    <3>1. /\ x \in Seated
          /\ \A p \in Seated \ {x} : InRound(p)
          /\ Answerable(x) \/ Served(x) \/ Dismissed(x)
      BY <1>0, <2>4, <2>6 DEF RoundOK
    <3> QED
      BY <1>4, <3>1
  <2>7. ASSUME InCall("unicasted")
        PROVE  /\ y = x /\ ~do_broadcast' /\ ~Over'
               /\ IF Opponents' THEN WaitsHere(y)' /\ r_packet'[y].flags = "ACK" /\ Informed(y)'
                                ELSE Prods(y)'
               /\ \A p \in Seated \ {x} : InRound(p)'
    <3>1. /\ y = x /\ ~do_broadcast /\ ~Over /\ y \in Seated
          /\ IF Opponents THEN WaitsHere(y) /\ r_packet[y].flags = "ACK" /\ Informed(y)
                          ELSE Prods(y)
          /\ \A p \in Seated \ {x} : InRound(p)
      BY <1>0, <1>5, <2>4, <2>7 DEF RoundOK, InCall
    <3> QED
      BY <1>1, <1>2, <1>3, <1>4, <3>1 DEF KeepsPlain, KeepsGame
  <2>8. ASSUME pc = "unicasted"
        PROVE  x \in Seated /\ ~do_broadcast' /\ \A p \in Seated : InRound(p)'
    BY <1>0, <1>1, <1>4, <2>4, <2>8 DEF RoundOK
  <2>9. ASSUME pc = "finchk"
        PROVE  /\ Served(x)' \/ Dismissed(x)'
               /\ \A p \in Seated \ {x} : InRound(p)'
    <3>1. /\ x \in Seated /\ (Served(x) \/ Dismissed(x))
          /\ \A p \in Seated \ {x} : InRound(p)
      BY <1>0, <1>5, <2>4, <2>9 DEF RoundOK
    <3> QED
      BY <1>4, <3>1
  <2>10. ASSUME InCall("receipt")
         PROVE  /\ ~do_broadcast' /\ ~do_unicast' /\ Over'
                /\ Parts(y)'
                /\ \A p \in Seated \ {y} : InRound(p)'
    <3>1. /\ ~do_broadcast /\ ~do_unicast /\ Over /\ y \in Seated
          /\ Parts(y)
          /\ \A p \in Seated \ {y} : InRound(p)
      BY <1>0, <1>5, <2>4, <2>10 DEF RoundOK, InCall
    <3> QED
      BY <1>1, <1>2, <1>4, <3>1 DEF KeepsPlain
  <2> QED
    BY <1>1, <1>2, <2>1, <2>2, <2>3, <2>5, <2>6, <2>7, <2>8, <2>9, <2>10 DEF RoundOK
<1> QED
  BY <1>6, <1>7, <1>8, <1>9 DEF SessionInv

\* The client of a seat writes to its socket only: nothing else changes.
LEMMA SeatedWrites ==
    ASSUME Good, UNCHANGED serverVars, NEW p \in Seated, NEW c, c = addr[p],
           OthersStay(c), cpc'[c] \notin {"start", "exit"}, bound' = bound,
           \A e \in Endpoints \ {c, p} : net'[e] = net[e]
    PROVE  /\ ClientsOK'
           /\ \A q \in Seated \ {p} : SameLink(q) /\ SameRecord(q)
<1>0. /\ ClientsOK /\ ServerTypeOK /\ Seated \subseteq Ports /\ IInv /\ SessionInv /\ Undisturbed
      /\ p \in Ports
  BY GoodFacts DEF Good, SessionInv
<1>1. /\ addr' = addr /\ conns' = conns /\ r_packet' = r_packet /\ s_packet' = s_packet
      /\ Seated' = Seated
  BY DEF serverVars, Seated
<1>2. /\ c \in Clients /\ c # NoAddr /\ c \in bound /\ \A q \in Ports \ {p} : addr[q] # c
  BY <1>0, SeatedLinked DEF Linked, ClientsOK, SingleSeats
<1>3. /\ Clients \cap Ports = {} /\ Main \notin Ports \cup Clients
      /\ \A d \in Clients : d \in Endpoints
      /\ \A q \in Ports : q \in Endpoints
      /\ Main \in Endpoints
      /\ \A q \in Ports : addr[q] \in Clients \cup {NoAddr}
  BY <1>0, EndpointKinds DEF Endpoints, ServerTypeOK
<1>4. /\ net'[Main] = net[Main]
      /\ \A d \in Clients \ {c} : net'[d] = net[d]
      /\ \A q \in Ports \ {p} : net'[q] = net[q]
  BY <1>0, <1>2, <1>3
<1>5. \A q \in Seated \ {p} : SameLink(q) /\ SameRecord(q)
  <2> SUFFICES ASSUME NEW q \in Seated, q # p PROVE SameLink(q) /\ SameRecord(q)
    OBVIOUS
  <2>1. q \in Ports /\ addr[q] \in Clients /\ addr[q] # c
    BY <1>0, <1>2, SeatedLinked DEF Linked
  <2> QED
    BY <1>1, <1>4, <2>1 DEF SameLink, SameRecord, OthersStay
<1>6. SingleSeats'
  BY <1>0, <1>1 DEF ClientsOK, SingleSeats
<1>7. \A d \in Clients : d \in bound' <=> cpc'[d] \notin {"start", "exit"}
  BY <1>0, <1>2 DEF ClientsOK, OthersStay
<1>8. \A d \in Clients : (\A q \in Ports : addr'[q] # d) => Outside(d)'
  <2> SUFFICES ASSUME NEW d \in Clients, \A q \in Ports : addr[q] # d PROVE Outside(d)'
    BY <1>1
  <2>1. d # c /\ Outside(d)
    BY <1>0 DEF ClientsOK
  <2> QED
    BY <1>4, <2>1 DEF Outside, OthersStay
<1>9. \A q \in Ports : addr'[q] # NoAddr /\ q \notin Seated' => Gone(q)'
  <2> SUFFICES ASSUME NEW q \in Ports, addr[q] # NoAddr, q \notin Seated PROVE Gone(q)'
    BY <1>1
  <2>1. Gone(q) /\ addr[q] \in Clients /\ addr[q] # c
    BY <1>0, <1>2, <1>3 DEF ClientsOK
  <2> QED
    BY <1>1, <1>4, <2>1 DEF Gone, OthersStay
<1>10. \A q \in Ports : q \notin Seated' => net'[q] = <<>> /\ r_packet'[q] = NoReceipt
  BY <1>0, <1>1, <1>4 DEF ClientsOK
<1>11. \A i \in DOMAIN net'[Main] : Asks(net'[Main][i]) =>
           /\ cpc'[net'[Main][i].src] = "w_synack"
           /\ \A q \in Ports : addr'[q] # net'[Main][i].src
           /\ \A j \in DOMAIN net'[Main] :
                 Asks(net'[Main][j]) /\ net'[Main][i].src = net'[Main][j].src => i = j
  <2>1. PICK m : m = net[Main]
    OBVIOUS
  <2>2. \A i \in DOMAIN m : Asks(m[i]) =>
           /\ cpc[m[i].src] = "w_synack"
           /\ \A q \in Ports : addr[q] # m[i].src
           /\ \A j \in DOMAIN m : Asks(m[j]) /\ m[i].src = m[j].src => i = j
    BY <1>0, <2>1 DEF ClientsOK
  <2>3. \A i \in DOMAIN m : m[i].src \in Clients
    <3>1. m \in Seq(DatagramsTo(Main))
      BY <1>3, <2>1, GoodFacts DEF NetTypeOK
    <3>2. \A i \in DOMAIN m : m[i] \in DatagramsTo(Main)
      BY <3>1, ElementOfSeq, LenProperties
    <3> QED
      BY <1>3, <3>2 DEF DatagramsTo
  <2>4. \A i \in DOMAIN m : Asks(m[i]) => cpc'[m[i].src] = "w_synack"
    BY <2>2, <2>3, <1>0 DEF OthersStay
  <2> QED
    BY <1>1, <1>4, <2>1, <2>2, <2>4
<1> QED
  BY <1>5, <1>6, <1>7, <1>8, <1>9, <1>10, <1>11 DEF ClientsOK

\* It is still there after a step that keeps its phase.
LEMMA PhaseAliveNext ==
    ASSUME NEW p, Phase(p)'
    PROVE  cpc'[addr'[p]] \in Waits \cup {"turn"}
<1> USE DEF Stays, Heard, Waits
<1>1. Nudged(p)' \/ Reminds(p)' => cpc'[addr'[p]] = "w_game"
  BY DEF Nudged, Reminds
<1>2. HasMoved(p)' => cpc'[addr'[p]] \in {"w_ack", "w_game"}
  BY DEF HasMoved, Moved
<1>3. Leaves(p)' \/ Waves(p)' => cpc'[addr'[p]] = "w_finack"
  BY DEF Leaves, Left, Waves
<1>4. Parts(p)' => cpc'[addr'[p]] \in {"w_finack", "w_fin", "w_linger"}
  BY DEF Parts, Parting
<1>5. Prods(p)' \/ Joins(p)' => cpc'[addr'[p]] \in {"w_game", "w_synack"}
  BY DEF Prods, Prodded, Joins, Joining
<1>7. Informed(p)' => cpc'[addr'[p]] \in {"w_game", "w_ack", "w_finack", "turn"}
  BY DEF Informed, Told, Offered, OnItsWay, Answered, Left, HasTurn
<1>8. InformedLate(p)' => cpc'[addr'[p]] \in {"w_game", "w_ack", "w_finack", "turn"}
  BY DEF InformedLate, Told, Offered, OnItsWay, Answered, Left, HasTurn
<1>9. Plays(p)' => cpc'[addr'[p]] \in {"w_game", "w_ack", "w_finack", "turn"}
  BY DEF Plays, Told, Offered, OnItsWay, Answered, Left, HasTurn
<1> QED
  BY <1>1, <1>2, <1>3, <1>4, <1>5, <1>7, <1>8, <1>9 DEF Phase

\* A client that has the turn has it from its seat.
LEMMA TurnFromSeat ==
    ASSUME NEW p, Phase(p), cpc[addr[p]] = "turn"
    PROVE  peer[addr[p]] = p
<1> USE DEF Stays, Heard
<1>1. ~Nudged(p) /\ ~Reminds(p) /\ ~HasMoved(p) /\ ~Leaves(p) /\ ~Waves(p)
  BY DEF Nudged, Reminds, HasMoved, Moved, Leaves, Left, Waves
<1>2. ~Parts(p) /\ ~Prods(p) /\ ~Joins(p)
  BY DEF Parts, Parting, Prods, Prodded, Joins, Joining
<1>3. ASSUME NEW q, Told(p, q) PROVE peer[addr[p]] = p
  BY <1>3 DEF Told, Offered, OnItsWay, Answered, Left, HasTurn
<1> QED
  BY <1>1, <1>2, <1>3 DEF Phase, Informed, InformedLate, Plays, HasTurn

\* A seated client reads, or takes its turn.
LEMMA SeatedStepKeeps ==
    ASSUME Good, AddressesOK, UNCHANGED serverVars, NEW p \in Seated, NEW c, c = addr[p],
           ProperStep(c)
    PROVE  SessionInv'
<1>0. /\ ServerTypeOK /\ Seated \subseteq Ports /\ IInv /\ SessionInv /\ Undisturbed
      /\ ClientsOK /\ NetTypeOK /\ ClientTypeOK /\ TypeOK /\ p \in Ports
  BY GoodFacts DEF Good, SessionInv, IInv
<1>1. Linked(p) /\ Phase(p) /\ c # NoAddr /\ c \in Clients
  BY <1>0, SeatedLinked DEF Linked
<1>2. KeepsPlain(p) /\ KeepsGame(p)
  BY <1>1, ProperKeeps
<1>3. addr' = addr /\ conns' = conns
  BY DEF serverVars
<1>4. cpc[c] \in Waits \cup {"turn"} /\ cpc'[c] \in Waits \cup {"turn"}
  <2>1. Phase(p)'
    BY <1>1, <1>2 DEF Phase, KeepsPlain, KeepsGame
  <2> QED
    BY <1>1, <1>3, <2>1, PhaseAlive, PhaseAliveNext
<1>5. cpc[c] # "start" /\ cpc'[c] \notin {"start", "exit"}
  BY <1>4 DEF Waits
<1>6. ClientStep(c) /\ ~Connect(c)
  BY <1>5 DEF ProperStep, ClientStep, Connect
<1>7. /\ OthersStay(c)
      /\ ClientRecv(c) => net[c] # <<>> /\ peer'[c] = Sender(c)
      /\ Reaches(c, net, net', peer'[c])
  BY <1>0, <1>1, <1>5, <1>6, ClientReach DEF WritesTo
<1>8. peer'[c] = p
  <2>1. CASE ClientRecv(c)
    <3>1. Head(net[c]) \in ToSet(net[c]) /\ Head(net[c]) \in DatagramsTo(c)
      BY <1>0, <1>1, <1>7, <2>1, HeadIsElement DEF Endpoints
    <3>2. Sender(c) \in Ports /\ addr[Sender(c)] = c
      BY <1>1, <3>1 DEF AddressesOK, DatagramsTo, Sender
    <3> QED
      BY <1>0, <1>1, <1>7, <2>1, <3>2 DEF ClientsOK, SingleSeats
  <2>2. CASE TakeTurn(c)
    BY <1>1, <2>2, TurnFromSeat DEF TakeTurn
  <2> QED
    BY <1>6, <2>1, <2>2 DEF ProperStep
<1>9. bound' = bound
  <2>1. CASE TakeTurn(c)
    BY <2>1 DEF TakeTurn
  <2>2. CASE RecvLastFin(c)
    BY <1>0, <1>1, <1>5, <2>2 DEF RecvLastFin, Quit, ClientTypeOK
  <2> QED
    BY <1>6, <2>1, <2>2 DEF ProperStep, ClientRecv, RecvSynAck, RecvGame, RecvAck,
       RecvDisconnectAck, RecvFin, RecvUnexpected
<1>10. \A e \in Endpoints \ {c, p} : net'[e] = net[e]
  BY <1>7, <1>8 DEF Reaches
<1>11. /\ ClientsOK'
       /\ \A q \in Seated \ {p} : SameLink(q) /\ SameRecord(q)
  BY <1>1, <1>5, <1>7, <1>9, <1>10, SeatedWrites
<1>12. ASSUME NEW q \in Seated
       PROVE  KeepsPlain(q) /\ KeepsGame(q) /\ (net[q] # <<>> => net'[q] # <<>>)
  <2>1. q \in Endpoints \ {c}
    BY <1>0, <1>1, EndpointKinds DEF Endpoints
  <2>2. net[q] # <<>> => net'[q] # <<>>
    BY <1>7, <2>1 DEF Reaches
  <2>3. game' = game
    BY DEF serverVars
  <2>4. CASE q # p
    BY <1>11, <2>2, <2>3, <2>4, PlainFrame, GameFrame
  <2>5. CASE q = p
    BY <1>2, <2>2, <2>5
  <2> QED
    BY <2>4, <2>5
<1> QED
  BY <1>11, <1>12, ContextsKept

\* A timer that expires is that of a client that waits for the other's move, and
\* makes it repeat its acknowledgement.
LEMMA OnlyReminders ==
    ASSUME Good, NEW p \in Seated, NEW c, c = addr[p], Timer(c)
    PROVE  /\ pc = "select" /\ ~Over /\ WaitsHere(p)
           /\ r_packet[p].flags = "ACK" /\ cpc[c] = "w_game" /\ cs_packet[c] = Ack(r_packet[p].seq)
           /\ peer[c] = p /\ running[c] /\ net[c] = <<>> /\ net[p] = <<>>
           /\ UNCHANGED <<bound, cpc, cs_packet, cr_seq, view, peer, running, turns>>
           /\ tv_sec'[c] = BASE_TIMEOUT
           /\ OthersStay(c)
           /\ net'[p] = <<From(p, Ack(r_packet[p].seq))>>
           /\ \A e \in Endpoints \ {p} : net'[e] = net[e]
<1>0. /\ ServerTypeOK /\ Seated \subseteq Ports /\ IInv /\ SessionInv /\ Undisturbed
      /\ ClientsOK /\ NetTypeOK /\ ClientTypeOK /\ p \in Ports /\ RestOK /\ TableOK /\ ~Stopped
  BY GoodFacts DEF Good, SessionInv
<1>1. Quiet
  BY <1>0 DEF Timer, Undisturbed
<1>2. pc = "select" /\ Readable = {}
  BY <1>1, QuietServer
<1>3. Linked(p) /\ c \in Clients /\ c \in Endpoints /\ p \in Endpoints /\ c # p /\ p \in bound
  BY <1>0, SeatedLinked, LinkFacts DEF Linked
<1>4. net[p] = <<>> /\ net[c] = <<>>
  BY <1>1, <1>2, <1>3 DEF Readable, Quiet, ServerSockets, Seated
<1>5. AtRest(p)
  BY <1>0, <1>2 DEF RestOK
<1>6. cpc[c] \in Waits
  BY DEF Timer, TimeoutResend, TimerRuns, GiveUp, GiveUpConnect, GiveUpGame, GiveUpAck,
     GiveUpFinAck, GiveUpFin, GiveUpLinger, Expires
<1>7. ~Over /\ WaitsHere(p) /\ Waiting(p)
  <2>1. ~Leaves(p)
    <3>1. \A d : Append(<<>>, d) # <<>>
      BY AppendedNotEmpty, ShortQueues
    <3> QED
      BY <1>4, <3>1 DEF Leaves, Left
  <2>2. ~Reminds(p)
    <3>1. \A d : <<d>> # <<>>
      BY Queues
    <3> QED
      BY <1>4, <3>1 DEF Reminds, Heard
  <2>3. ~Plays(p)
    <3>1. ~HasTurn(p, <<>>, s_packet[p].seq, game)
      <4>1. \A d : Append(<<>>, d) # <<>>
        BY AppendedNotEmpty, ShortQueues
      <4> QED
        BY <1>4, <1>6, <4>1 DEF HasTurn, Stays, Waits
    <3>2. ~Told(p, <<>>)
      <4>1. One(<<>>)
        BY ShortQueues
      <4> QED
        BY <1>4, <4>1, OfferedUnread DEF Told
    <3> QED
      BY <3>1, <3>2 DEF Plays
  <2> QED
    BY <1>5, <2>1, <2>2, <2>3 DEF AtRest, Settled, Calls
<1>8. /\ r_packet[p].flags = "ACK" /\ cpc[c] = "w_game" /\ cs_packet[c] = Ack(r_packet[p].seq)
      /\ peer[c] = p /\ running[c] /\ tv_sec[c] = BASE_TIMEOUT /\ num_to[c] = 0
  BY <1>7 DEF Waiting, Nudged, Heard, Stays, Unhurried
<1>9. NextTv(c) = BASE_TIMEOUT /\ ~Halves(c) /\ BASE_TIMEOUT >= MIN_TIMEOUT
  <2>1. /\ MAX_NUM_TIMEOUTS \in Nat /\ MAX_NUM_TIMEOUTS >= 2
        /\ BASE_TIMEOUT \in Nat /\ MIN_TIMEOUT \in Nat /\ BASE_TIMEOUT >= MIN_TIMEOUT
    BY <1>0, ClientAssumption DEF Undisturbed
  <2> QED
    BY <1>8, <2>1 DEF NextTv, Halves
<1>10. TimeoutResend(c)
  <2>1. ~(NextTv(c) < MIN_TIMEOUT)
    BY <1>9, ClientAssumption
  <2> QED
    BY <2>1 DEF Timer, GiveUp, GiveUpConnect, GiveUpGame, GiveUpAck, GiveUpFinAck, GiveUpFin,
       GiveUpLinger, Expires
<1>11. /\ UNCHANGED <<bound, cpc, cs_packet, cr_seq, view, peer, running, turns>>
       /\ tv_sec'[c] = BASE_TIMEOUT
       /\ net' = Sent(net, c, p, cs_packet[c])
  BY <1>0, <1>3, <1>8, <1>9, <1>10 DEF TimeoutResend, ClientTypeOK
<1>12. OthersStay(c)
  BY <1>0, <1>3, <1>10 DEF TimeoutResend, OthersStay, ClientTypeOK
<1>13. net' = [net EXCEPT ![p] = <<From(p, Ack(r_packet[p].seq))>>]
  <2>1. PICK pkt : pkt = cs_packet[c]
    OBVIOUS
  <2>2. Sent(net, c, p, pkt) = [net EXCEPT ![p] = <<Datagram(c, pkt)>>]
    <3>1. p \in Endpoints /\ p \in bound /\ net[p] = <<>> /\ SockBuf \in Nat /\ SockBuf >= 3
      BY <1>0, <1>3, <1>4, NetworkAssumption DEF Undisturbed
    <3> QED
      BY <3>1, FirstSent
  <2> QED
    BY <1>8, <1>11, <2>1, <2>2 DEF From
<1>14. /\ net'[p] = <<From(p, Ack(r_packet[p].seq))>>
       /\ \A e \in Endpoints \ {p} : net'[e] = net[e]
  BY <1>0, <1>3, <1>13 DEF NetTypeOK
<1> QED
  BY <1>2, <1>4, <1>7, <1>8, <1>11, <1>12, <1>14

LEMMA ReminderKeeps ==
    ASSUME Good, UNCHANGED serverVars, NEW p \in Seated, NEW c, c = addr[p], Timer(c)
    PROVE  SessionInv'
<1>0. /\ Seated \subseteq Ports /\ IInv /\ SessionInv /\ Undisturbed
      /\ RestOK /\ TableOK /\ ~Stopped
  BY GoodFacts DEF Good, SessionInv
<1>1. Linked(p) /\ c \in Clients /\ c \in Endpoints /\ p \in Endpoints /\ c # p
  BY <1>0, SeatedLinked, LinkFacts DEF Linked
<1>2. /\ pc = "select" /\ ~Over /\ WaitsHere(p)
      /\ r_packet[p].flags = "ACK" /\ cpc[c] = "w_game" /\ cs_packet[c] = Ack(r_packet[p].seq)
      /\ peer[c] = p /\ running[c] /\ net[c] = <<>>
      /\ UNCHANGED <<bound, cpc, cs_packet, cr_seq, view, peer, running>>
      /\ tv_sec'[c] = BASE_TIMEOUT
      /\ OthersStay(c)
      /\ net'[p] = <<From(p, Ack(r_packet[p].seq))>>
      /\ \A e \in Endpoints \ {p} : net'[e] = net[e]
  BY OnlyReminders
<1>3. /\ ClientsOK'
      /\ \A q \in Seated \ {p} : SameLink(q) /\ SameRecord(q)
  <2>1. cpc'[c] \notin {"start", "exit"} /\ bound' = bound
    BY <1>2
  <2> QED
    BY <1>2, <2>1, SeatedWrites
<1>4. /\ addr' = addr /\ conns' = conns /\ game' = game /\ r_packet' = r_packet
      /\ s_packet' = s_packet /\ pc' = pc /\ signalled' = signalled
      /\ do_broadcast' = do_broadcast
  BY DEF serverVars
<1>5. AtRest(p)'
  <2>1. Reminds(p)'
    BY <1>1, <1>2, <1>4 DEF Reminds, Heard, Stays, From
  <2>2. WaitsHere(p)' /\ ~Over'
    BY <1>2, <1>4 DEF WaitsHere, Over, Opponents, BroadcastFlags, Position
  <2> QED
    BY <2>1, <2>2 DEF AtRest, Calls
<1>6. \A q \in Seated : AtRest(q)'
  <2> SUFFICES ASSUME NEW q \in Seated, q # p PROVE AtRest(q)'
    BY <1>5
  <2>1. AtRest(q)
    BY <1>0, <1>2 DEF RestOK
  <2> QED
    BY <1>3, <1>4, <2>1, RestFrame
<1>7. TableOK' /\ Seated' = Seated
  BY <1>0, <1>2, <1>4 DEF TableOK, Opponents, Over, RoundPlace, InCall, Seated
<1> QED
  BY <1>0, <1>2, <1>3, <1>4, <1>6, <1>7 DEF SessionInv, Stopped, RestOK, JoiningOK,
     ReceivedOK, BroadcastingOK, RoundOK, RoundPlace, InCall

\* A step of a client without a seat changes nothing for the seated ones.
LEMMA UnseatedStep ==
    ASSUME Good, UNCHANGED serverVars, NEW c \in Clients, \A q \in Seated : addr[q] # c,
           OthersStay(c), \A e \in Endpoints \ {c, Main} : net'[e] = net[e], ClientsOK'
    PROVE  SessionInv'
<1>1. /\ addr' = addr /\ r_packet' = r_packet /\ s_packet' = s_packet /\ game' = game
  BY DEF serverVars
<1>2. IInv /\ SessionInv /\ Undisturbed
  BY DEF Good
<1>3. ASSUME NEW q \in Seated
      PROVE  KeepsPlain(q) /\ KeepsGame(q) /\ (net[q] # <<>> => net'[q] # <<>>)
  <2>1. q \in Endpoints /\ addr[q] \in Endpoints /\ q \in Ports /\ addr[q] \in Clients /\ addr[q] # c
    BY <1>2, SeatedLinked, LinkFacts DEF Linked
  <2>2. net'[q] = net[q] /\ net'[addr[q]] = net[addr[q]]
    BY <2>1, EndpointKinds
  <2>3. SameLink(q) /\ SameRecord(q)
    BY <1>1, <2>1, <2>2 DEF SameLink, SameRecord, OthersStay
  <2> QED
    BY <1>1, <2>2, <2>3, PlainFrame, GameFrame
<1> QED
  BY <1>3, ContextsKept

\* A client that is no longer seated waits for nothing but its end.
LEMMA GoneKeeps ==
    ASSUME Good, UNCHANGED serverVars, NEW p \in Ports, p \notin Seated, NEW c \in Clients,
           c = addr[p], ClientStep(c)
    PROVE  SessionInv'
<1>0. /\ ServerTypeOK /\ Seated \subseteq Ports /\ IInv /\ SessionInv /\ Undisturbed /\ ServerInv
      /\ ClientsOK /\ NetTypeOK /\ ClientTypeOK /\ ~Stopped
  BY GoodFacts DEF Good, SessionInv
<1>1. c # NoAddr /\ \A q \in Ports \ {p} : addr[q] # c
  BY <1>0, EndpointKinds DEF ClientsOK, SingleSeats, Endpoints
<1>2. cpc[c] \in {"w_linger", "exit"} /\ net[c] = <<>> /\ peer[c] = p
  BY <1>0, <1>1 DEF ClientsOK, Gone
<1>3. Timer(c)
  <2>1. ~ProperStep(c)
    BY <1>2, StillClient
  <2>2. ClientStep(c) => ProperStep(c) \/ Timer(c)
    BY <1>0 DEF ClientStep, ProperStep, Undisturbed
  <2> QED
    BY <2>1, <2>2
<1>4. TimeoutResend(c) \/ GiveUpLinger(c)
  BY <1>2, <1>3 DEF Timer, GiveUp, GiveUpConnect, GiveUpGame, GiveUpAck, GiveUpFinAck, GiveUpFin,
     Expires
<1>5. cpc[c] = "w_linger"
  BY <1>2, <1>4 DEF TimeoutResend, TimerRuns, Waits, GiveUpLinger, Expires
<1>6. p \notin bound
  BY <1>0, EndpointKinds DEF ServerInv, SocketsOK, ServerSockets, Seated
<1>7. /\ OthersStay(c) /\ peer' = peer
      /\ \A e \in Endpoints : net'[e] = net[e]
      /\ cpc'[c] \in {"w_linger", "exit"}
      /\ c \in bound' <=> cpc'[c] # "exit"
      /\ bound' \ {c} = bound \ {c}
  <2>1. CASE TimeoutResend(c)
    <3>1. net' = net
      BY <1>2, <1>6, <2>1, SentNowhere DEF TimeoutResend
    <3>2. OthersStay(c) /\ peer' = peer /\ cpc' = cpc /\ bound' = bound
      BY <1>0, <2>1 DEF TimeoutResend, OthersStay, ClientTypeOK
    <3> QED
      BY <1>0, <1>5, <3>1, <3>2 DEF ClientsOK
  <2>2. CASE GiveUpLinger(c)
    <3>1. OthersStay(c) /\ peer' = peer /\ cpc'[c] = "exit" /\ bound' = bound \ {c}
          /\ net' = Closed(net, {c})
      BY <1>0, <2>2 DEF GiveUpLinger, Expires, Quit, OthersStay, ClientTypeOK
    <3>2. \A e \in Endpoints : net'[e] = net[e]
      BY <1>2, <3>1 DEF Closed
    <3> QED
      BY <3>1, <3>2
  <2> QED
    BY <1>4, <2>1, <2>2
<1>8. /\ addr' = addr /\ r_packet' = r_packet /\ Seated' = Seated
  BY DEF serverVars, Seated
<1>9. /\ Main \in Endpoints
      /\ \A d \in Clients : d \in Endpoints
      /\ \A q \in Ports : q \in Endpoints
      /\ \A q \in Ports : addr[q] \in Clients \cup {NoAddr}
  BY <1>0 DEF Endpoints, ServerTypeOK
<1>10. ClientsOK'
  <2>1. SingleSeats'
    BY <1>0, <1>8 DEF ClientsOK, SingleSeats
  <2>2. \A d \in Clients : d \in bound' <=> cpc'[d] \notin {"start", "exit"}
    <3> SUFFICES ASSUME NEW d \in Clients PROVE d \in bound' <=> cpc'[d] \notin {"start", "exit"}
      OBVIOUS
    <3>1. CASE d = c
      BY <1>7, <3>1
    <3>2. CASE d # c
      BY <1>0, <1>7, <3>2 DEF ClientsOK, OthersStay
    <3> QED
      BY <3>1, <3>2
  <2>3. \A d \in Clients : (\A q \in Ports : addr'[q] # d) => Outside(d)'
    <3> SUFFICES ASSUME NEW d \in Clients, \A q \in Ports : addr[q] # d PROVE Outside(d)'
      BY <1>8
    <3>1. d # c /\ Outside(d)
      BY <1>0 DEF ClientsOK
    <3> QED
      BY <1>7, <1>9, <3>1 DEF Outside, OthersStay
  <2>4. \A q \in Ports : addr'[q] # NoAddr /\ q \notin Seated' => Gone(q)'
    <3> SUFFICES ASSUME NEW q \in Ports, addr[q] # NoAddr, q \notin Seated PROVE Gone(q)'
      BY <1>8
    <3>1. CASE q = p
      BY <1>2, <1>7, <1>8, <1>9, <3>1 DEF Gone
    <3>2. CASE q # p
      <4>1. Gone(q) /\ addr[q] \in Clients /\ addr[q] # c
        BY <1>0, <1>1, <1>9, <3>2 DEF ClientsOK
      <4> QED
        BY <1>7, <1>8, <1>9, <4>1 DEF Gone, OthersStay
    <3> QED
      BY <3>1, <3>2
  <2>5. \A q \in Ports : q \notin Seated' => net'[q] = <<>> /\ r_packet'[q] = NoReceipt
    BY <1>0, <1>7, <1>8, <1>9 DEF ClientsOK
  <2>6. \A i \in DOMAIN net'[Main] : Asks(net'[Main][i]) =>
           /\ cpc'[net'[Main][i].src] = "w_synack"
           /\ \A q \in Ports : addr'[q] # net'[Main][i].src
           /\ \A j \in DOMAIN net'[Main] :
                 Asks(net'[Main][j]) /\ net'[Main][i].src = net'[Main][j].src => i = j
    <3>1. PICK m : m = net[Main]
      OBVIOUS
    <3>2. \A i \in DOMAIN m : Asks(m[i]) =>
             /\ cpc[m[i].src] = "w_synack"
             /\ \A q \in Ports : addr[q] # m[i].src
             /\ \A j \in DOMAIN m : Asks(m[j]) /\ m[i].src = m[j].src => i = j
      BY <1>0, <3>1 DEF ClientsOK
    <3>3. \A i \in DOMAIN m : m[i].src \in Clients
      <4>1. m \in Seq(DatagramsTo(Main))
        BY <1>0, <1>9, <3>1 DEF NetTypeOK
      <4>2. \A i \in DOMAIN m : m[i] \in DatagramsTo(Main)
        BY <4>1, ElementOfSeq, LenProperties
      <4> QED
        BY <4>2, EndpointKinds DEF DatagramsTo
    <3>4. \A i \in DOMAIN m : Asks(m[i]) => cpc'[m[i].src] = "w_synack"
      BY <1>5, <1>7, <3>2, <3>3 DEF OthersStay
    <3>5. net'[Main] = m
      BY <1>7, <1>9, <3>1
    <3> QED
      BY <1>8, <3>2, <3>4, <3>5
  <2> QED
    BY <2>1, <2>2, <2>3, <2>4, <2>5, <2>6 DEF ClientsOK
<1>11. \A q \in Seated : addr[q] # c
  BY <1>0, <1>1
<1> QED
  BY <1>7, <1>10, <1>11, UnseatedStep

\* No request among what is waiting for the listening socket.
Silent(n) == \A d \in ToSet(n[Main]) : ~Asks(d)

LEMMA SilentSend ==
    ASSUME NetTypeOK, NEW c \in Clients, NEW n, Buffers(n), Silent(n), NEW pkt \in ClientPackets,
           pkt.flags # "SYN"
    PROVE  Silent(Sent(n, c, Main, pkt)) /\ Buffers(Sent(n, c, Main, pkt))
<1>1. Datagram(c, pkt) \in DatagramsTo(Main) /\ ~Asks(Datagram(c, pkt))
  BY ClientDatagram DEF Datagram, Asks
<1>2. bound \subseteq Endpoints /\ Main \in Endpoints
  BY DEF NetTypeOK, Endpoints
<1> DEFINE m == Sent(n, c, Main, pkt)
<1>3. /\ Buffers(m)
      /\ \A e \in Endpoints : \A d \in ToSet(m[e]) :
            d \in ToSet(n[e]) \/ (e = Main /\ d = Datagram(c, pkt))
  BY <1>1, <1>2, SentReach
<1> HIDE DEF m
<1>4. Silent(m)
  BY <1>1, <1>2, <1>3 DEF Silent
<1> QED
  BY <1>3, <1>4 DEF m

\* What a client without a seat does, at its listening place or at its end.
LEMMA OutsideMoves ==
    ASSUME Good, NEW c \in Clients, \A p \in Ports : addr[p] # c, ClientStep(c)
    PROVE  /\ OthersStay(c) /\ peer'[c] = Main
           /\ Reaches(c, net, net', Main)
           /\ \/ Connect(c)
              \/ Timer(c) /\ net[Main] = <<>>
<1>0. /\ IInv /\ SessionInv /\ Undisturbed /\ ClientsOK /\ NetTypeOK /\ ClientTypeOK /\ TypeOK
  BY GoodFacts DEF Good, SessionInv, IInv
<1>1. net[c] = <<>> /\ peer[c] = Main /\ cpc[c] \notin {"turn", "w_ack"}
  BY <1>0 DEF ClientsOK, Outside
<1>2. OthersStay(c) /\ peer'[c] = Main /\ Reaches(c, net, net', Main)
  BY <1>0, <1>1, ClientReach DEF WritesTo
<1>3. Connect(c) \/ Timer(c)
  <2>1. ~ClientRecv(c)
    BY <1>0, <1>1, ClientReach
  <2>2. ~TakeTurn(c)
    BY <1>1 DEF TakeTurn
  <2> QED
    BY <1>0, <2>1, <2>2 DEF ClientStep, Undisturbed
<1>4. Timer(c) => net[Main] = <<>>
  <2> SUFFICES ASSUME Timer(c) PROVE net[Main] = <<>>
    OBVIOUS
  <2>1. Readable = {}
    BY <1>0, QuietServer DEF Timer, Undisturbed
  <2> QED
    BY <2>1 DEF Readable, ServerSockets
<1> QED
  BY <1>2, <1>3, <1>4

\* Its own record after the step.
LEMMA OutsideStays ==
    ASSUME Good, NEW c \in Clients, \A p \in Ports : addr[p] # c, ClientStep(c)
    PROVE  /\ Outside(c)'
           /\ c \in bound' <=> cpc'[c] \notin {"start", "exit"}
           /\ bound' \ {c} = bound \ {c}
           /\ \/ cpc'[c] = "w_synack"
              \/ cpc'[c] # "w_synack" /\ Silent(net')
<1>0. /\ IInv /\ SessionInv /\ Undisturbed /\ ClientsOK /\ NetTypeOK /\ ClientTypeOK
      /\ Buffers(net) /\ cs_packet[c] \in ClientPackets /\ cr_seq[c] \in SeqNums
      /\ MAX_SEQ \in SeqNums
  BY GoodFacts, PacketAssumption DEF Good, SessionInv, NetTypeOK, Buffers, ClientTypeOK, SeqNums
<1>1. /\ OthersStay(c) /\ peer'[c] = Main
      /\ Reaches(c, net, net', Main)
      /\ Connect(c) \/ (Timer(c) /\ net[Main] = <<>>)
  BY OutsideMoves
<1>2. /\ peer[c] = Main /\ net[c] = <<>>
      /\ cpc[c] \notin {"turn", "w_ack"}
      /\ cs_packet[c].flags = "SYN" => cpc[c] \in {"start", "w_synack"}
      /\ cpc[c] \in {"start", "w_synack"} => running[c] /\ cs_packet[c] = Bare("SYN", MAX_SEQ)
      /\ c \in bound <=> cpc[c] \notin {"start", "exit"}
      /\ c \in Endpoints /\ c # Main /\ Main \in Endpoints
  BY <1>0, EndpointKinds DEF ClientsOK, Outside, Endpoints
<1>3. /\ Bare("ACK", MAX_SEQ) \in ClientPackets /\ Bare("ACK", cr_seq[c]) \in ClientPackets
      /\ Bare("FIN", MAX_SEQ) \in ClientPackets /\ Bare("FIN/ACK", MAX_SEQ) \in ClientPackets
  BY <1>0, BareClientPacket
<1>4. \A f, s : Bare(f, s).flags = f
  BY DEF Bare, Packet
<1>5. \A d : Sent(net, c, Main, d)[c] = <<>>
  BY <1>0, <1>2 DEF Sent, Buffers
<1>6. CASE Connect(c)
  <2>1. /\ cpc[c] = "start" /\ cpc'[c] = "w_synack" /\ cs_packet'[c] = Bare("SYN", MAX_SEQ)
        /\ running'[c] = running[c] /\ bound' = bound \cup {c}
        /\ net' = Sent(net, c, Main, Bare("SYN", MAX_SEQ))
    BY <1>0, <1>6 DEF Connect, SendThen, ClientTypeOK
  <2> QED
    BY <1>1, <1>2, <1>5, <2>1 DEF Outside
<1>7. ASSUME Timer(c), net[Main] = <<>>
      PROVE  /\ Outside(c)'
             /\ c \in bound' <=> cpc'[c] \notin {"start", "exit"}
             /\ bound' \ {c} = bound \ {c}
             /\ \/ cpc'[c] = "w_synack"
                \/ cpc'[c] # "w_synack" /\ Silent(net')
  <2>0. Silent(net)
    BY <1>7 DEF Silent, ToSet
  <2>1. ASSUME NEW pkt \in ClientPackets, pkt.flags # "SYN"
        PROVE  Silent(Sent(net, c, Main, pkt)) /\ Buffers(Sent(net, c, Main, pkt))
    BY <1>0, <2>0, <2>1, SilentSend
  <2>2. CASE TimeoutResend(c)
    <3>1. /\ cpc' = cpc /\ cs_packet' = cs_packet /\ running' = running /\ bound' = bound
          /\ net' = Sent(net, c, Main, cs_packet[c])
          /\ cpc[c] \in Waits
      BY <1>2, <2>2 DEF TimeoutResend, TimerRuns
    <3>2. cpc[c] # "w_synack" => Silent(net')
      BY <1>0, <1>2, <2>1, <3>1 DEF Waits
    <3> QED
      BY <1>1, <1>2, <1>5, <3>1, <3>2 DEF Outside
  <2>3. CASE GiveUpConnect(c)
    <3>1. /\ cpc'[c] = "w_game" /\ cs_packet'[c] = Bare("ACK", MAX_SEQ) /\ bound' = bound
          /\ net' = Sent(net, c, Main, Bare("ACK", MAX_SEQ)) /\ cpc[c] = "w_synack"
      BY <1>0, <1>2, <2>3 DEF GiveUpConnect, Expires, SendThen, ClientTypeOK
    <3>2. Silent(net')
      BY <1>3, <1>4, <2>1, <3>1
    <3> QED
      BY <1>1, <1>2, <1>4, <1>5, <3>1, <3>2 DEF Outside
  <2>4. CASE GiveUpGame(c)
    <3>1. PICK n : n = Sent(net, c, Main, Bare("ACK", cr_seq[c]))
      OBVIOUS
    <3>2. /\ cpc'[c] = "w_finack" /\ cs_packet'[c] = Bare("FIN", MAX_SEQ) /\ bound' = bound
          /\ net' = Sent(n, c, Main, Bare("FIN", MAX_SEQ)) /\ cpc[c] = "w_game"
      BY <1>0, <1>2, <2>4, <3>1 DEF GiveUpGame, Expires, Leave, SendThen, ClientTypeOK
    <3>3. Silent(n) /\ Buffers(n)
      BY <1>3, <1>4, <2>1, <3>1
    <3>4. Silent(net')
      BY <1>0, <1>3, <1>4, <3>2, <3>3, SilentSend
    <3>5. net'[c] = <<>>
      BY <1>2, <1>5, <3>1, <3>2, <3>3 DEF Sent, Buffers
    <3> QED
      BY <1>1, <1>2, <1>4, <3>2, <3>4, <3>5 DEF Outside
  <2>5. CASE GiveUpFinAck(c)
    <3>1. /\ cpc'[c] = "w_fin" /\ cs_packet'[c] = FreePayload(cs_packet[c]) /\ bound' = bound
          /\ net' = net /\ cpc[c] = "w_finack"
      BY <1>0, <2>5 DEF GiveUpFinAck, Expires, WaitFor, ClientTypeOK
    <3>2. cs_packet'[c].flags = cs_packet[c].flags
      BY <1>0, <3>1 DEF FreePayload, ClientPackets
    <3> QED
      BY <1>1, <1>2, <2>0, <3>1, <3>2 DEF Outside
  <2>6. CASE GiveUpFin(c)
    <3>1. /\ cpc'[c] = "w_linger" /\ cs_packet'[c] = Bare("FIN/ACK", MAX_SEQ) /\ bound' = bound
          /\ net' = Sent(net, c, Main, Bare("FIN/ACK", MAX_SEQ)) /\ cpc[c] = "w_fin"
      BY <1>0, <1>2, <2>6 DEF GiveUpFin, Expires, SendThen, ClientTypeOK
    <3>2. Silent(net')
      BY <1>3, <1>4, <2>1, <3>1
    <3> QED
      BY <1>1, <1>2, <1>4, <1>5, <3>1, <3>2 DEF Outside
  <2>7. CASE GiveUpLinger(c)
    <3>1. /\ cpc'[c] = "exit" /\ cs_packet' = cs_packet /\ bound' = bound \ {c}
          /\ net' = Closed(net, {c}) /\ cpc[c] = "w_linger"
      BY <1>0, <2>7 DEF GiveUpLinger, Expires, Quit, ClientTypeOK
    <3>2. net'[c] = <<>> /\ net'[Main] = net[Main]
      BY <1>2, <3>1 DEF Closed
    <3> QED
      BY <1>1, <1>2, <2>0, <3>1, <3>2 DEF Outside, Silent
  <2>8. ~GiveUpAck(c)
    BY <1>2 DEF GiveUpAck, Expires
  <2> QED
    BY <1>7, <2>2, <2>3, <2>4, <2>5, <2>6, <2>7, <2>8 DEF Timer, GiveUp
<1> QED
  BY <1>1, <1>6, <1>7

\* Whoever still asks for a seat has just asked, at its start or once nothing was
\* left to read.
LEMMA OutsideAsks ==
    ASSUME Good, NEW c \in Clients, \A p \in Ports : addr[p] # c, ClientStep(c),
           cpc'[c] = "w_synack"
    PROVE  /\ \E pkt : net' = Sent(net, c, Main, pkt)
           /\ cpc[c] = "start" \/ net[Main] = <<>>
<1>0. /\ ClientsOK /\ ClientTypeOK
  BY GoodFacts DEF Good, SessionInv
<1>1. Connect(c) \/ (Timer(c) /\ net[Main] = <<>>)
  BY OutsideMoves
<1>2. peer[c] = Main
  BY <1>0 DEF ClientsOK, Outside
<1>3. CASE Connect(c)
  BY <1>3 DEF Connect, SendThen
<1>4. ASSUME Timer(c), net[Main] = <<>> PROVE \E pkt : net' = Sent(net, c, Main, pkt)
  <2>1. CASE TimeoutResend(c)
    BY <1>2, <2>1 DEF TimeoutResend
  <2>2. ~GiveUpConnect(c) /\ ~GiveUpGame(c) /\ ~GiveUpAck(c)
    BY <1>0 DEF GiveUpConnect, GiveUpGame, GiveUpAck, Expires, Leave, SendThen, WaitFor,
       ClientTypeOK
  <2>3. ~GiveUpFinAck(c) /\ ~GiveUpFin(c) /\ ~GiveUpLinger(c)
    BY <1>0 DEF GiveUpFinAck, GiveUpFin, GiveUpLinger, Expires, SendThen, WaitFor, Quit,
       ClientTypeOK
  <2> QED
    BY <1>4, <2>1, <2>2, <2>3 DEF Timer, GiveUp
<1> QED
  BY <1>1, <1>3, <1>4

\* The requests at the listening socket are one for each client that waits to be seated.
RequestsOK(m) ==
    \A i \in DOMAIN m : Asks(m[i]) =>
        /\ cpc[m[i].src] = "w_synack"
        /\ \A p \in Ports : addr[p] # m[i].src
        /\ \A j \in DOMAIN m : Asks(m[j]) /\ m[i].src = m[j].src => i = j

LEMMA OutsideRequests ==
    ASSUME Good, UNCHANGED serverVars, NEW c \in Clients, \A p \in Ports : addr[p] # c,
           ClientStep(c)
    PROVE  RequestsOK(net[Main])'
<1>0. /\ ClientsOK /\ NetTypeOK /\ ClientTypeOK /\ Main \in Endpoints /\ addr' = addr
  BY GoodFacts DEF Good, SessionInv, Endpoints, serverVars
<1>1. OthersStay(c)
  BY OutsideMoves
<1>2. PICK m : m = net[Main]
  OBVIOUS
<1>3. PICK w : w = net'[Main]
  OBVIOUS
<1>4. RequestsOK(m)
  BY <1>0, <1>2 DEF ClientsOK, RequestsOK
<1>5. \A i \in DOMAIN m : m[i].src \in Clients
  <2>1. m \in Seq(DatagramsTo(Main))
    BY <1>0, <1>2 DEF NetTypeOK
  <2>2. \A i \in DOMAIN m : m[i] \in DatagramsTo(Main)
    BY <2>1, ElementOfSeq, LenProperties
  <2> QED
    BY <2>2, EndpointKinds DEF DatagramsTo
<1> SUFFICES \A i \in DOMAIN w : Asks(w[i]) =>
                /\ cpc'[w[i].src] = "w_synack"
                /\ \A p \in Ports : addr[p] # w[i].src
                /\ \A j \in DOMAIN w : Asks(w[j]) /\ w[i].src = w[j].src => i = j
  BY <1>0, <1>3 DEF RequestsOK, Asks
<1>6. CASE cpc'[c] # "w_synack" /\ Silent(net')
  <2>1. \A i \in DOMAIN w : w[i] \in ToSet(w)
    BY DEF ToSet
  <2>2. \A d \in ToSet(w) : ~Asks(d)
    BY <1>3, <1>6 DEF Silent, Asks
  <2> QED
    BY <2>1, <2>2
<1>7. CASE cpc'[c] = "w_synack"
  <2>1. PICK pkt : net' = Sent(net, c, Main, pkt)
    BY <1>7, OutsideAsks
  <2>2. cpc[c] = "start" \/ m = <<>>
    BY <1>2, <1>7, OutsideAsks
  <2>3. \A i \in DOMAIN m : Asks(m[i]) => m[i].src # c /\ cpc'[m[i].src] = "w_synack"
    <3>1. CASE cpc[c] = "start"
      BY <1>1, <1>4, <1>5, <3>1 DEF RequestsOK, OthersStay
    <3>2. CASE m = <<>>
      BY <3>2
    <3> QED
      BY <2>2, <3>1, <3>2
  <2>4. PICK x : x = Datagram(c, pkt)
    OBVIOUS
  <2>5. w = m \/ w = Append(m, x)
    BY <1>0, <1>2, <1>3, <2>1, <2>4 DEF Sent, NetTypeOK
  <2>6. x.src = c
    BY <2>4 DEF Datagram
  <2>7. CASE w = m
    BY <1>4, <2>3, <2>7 DEF RequestsOK
  <2>8. CASE w = Append(m, x)
    <3>1. PICK l : l = Len(m)
      OBVIOUS
    <3>2. /\ l \in Nat /\ DOMAIN m = 1 .. l /\ DOMAIN w = 1 .. l + 1
          /\ \A i \in 1 .. l : w[i] = m[i]
          /\ w[l + 1] = x
      <4>1. m \in Seq(DatagramsTo(Main))
        BY <1>0, <1>2 DEF NetTypeOK
      <4> HIDE DEF DatagramsTo
      <4>2. x \in DatagramsTo(Main) \cup {x} /\ m \in Seq(DatagramsTo(Main) \cup {x})
        BY <4>1
      <4> QED
        BY <2>8, <3>1, <4>2, AppendProperties, LenProperties
    <3>3. \A i \in DOMAIN w : i # l + 1 => i \in 1 .. l
      BY <3>2
    <3> QED
      BY <1>4, <1>7, <2>3, <2>6, <3>2, <3>3 DEF RequestsOK
  <2> QED
    BY <2>5, <2>7, <2>8
<1> QED
  BY <1>6, <1>7, OutsideStays

\* A client without a seat asks for one, or ends.
LEMMA OutsideKeeps ==
    ASSUME Good, UNCHANGED serverVars, NEW c \in Clients, \A p \in Ports : addr[p] # c,
           ClientStep(c)
    PROVE  SessionInv'
<1>0. /\ ServerTypeOK /\ Seated \subseteq Ports /\ IInv /\ SessionInv /\ Undisturbed /\ ServerInv
      /\ ClientsOK /\ NetTypeOK /\ ClientTypeOK /\ ~Stopped
  BY GoodFacts DEF Good, SessionInv
<1>1. /\ addr' = addr /\ r_packet' = r_packet /\ Seated' = Seated
  BY DEF serverVars, Seated
<1>2. OthersStay(c) /\ Reaches(c, net, net', Main)
  BY OutsideMoves
<1>3. /\ Main \in Endpoints
      /\ \A d \in Clients : d \in Endpoints /\ d # Main
      /\ \A q \in Ports : q \in Endpoints /\ q # Main /\ q # c
      /\ \A q \in Ports : addr[q] \in Clients \cup {NoAddr}
  BY <1>0, EndpointKinds DEF Endpoints, ServerTypeOK
<1>4. /\ \A e \in Endpoints \ {c, Main} : net'[e] = net[e]
      /\ Outside(c)'
      /\ c \in bound' <=> cpc'[c] \notin {"start", "exit"}
      /\ bound' \ {c} = bound \ {c}
  BY <1>2, OutsideStays DEF Reaches
<1>5. ClientsOK'
  <2>1. SingleSeats'
    BY <1>0, <1>1 DEF ClientsOK, SingleSeats
  <2>2. \A d \in Clients : d \in bound' <=> cpc'[d] \notin {"start", "exit"}
    <3> SUFFICES ASSUME NEW d \in Clients PROVE d \in bound' <=> cpc'[d] \notin {"start", "exit"}
      OBVIOUS
    <3>1. CASE d = c
      BY <1>4, <3>1
    <3>2. CASE d # c
      BY <1>0, <1>2, <1>4, <3>2 DEF ClientsOK, OthersStay
    <3> QED
      BY <3>1, <3>2
  <2>3. \A d \in Clients : (\A q \in Ports : addr'[q] # d) => Outside(d)'
    <3> SUFFICES ASSUME NEW d \in Clients, \A q \in Ports : addr[q] # d, d # c PROVE Outside(d)'
      BY <1>1, <1>4
    <3>1. Outside(d)
      BY <1>0 DEF ClientsOK
    <3>2. net'[d] = net[d]
      BY <1>3, <1>4
    <3> QED
      BY <1>2, <3>1, <3>2 DEF Outside, OthersStay
  <2>4. \A q \in Ports : addr'[q] # NoAddr /\ q \notin Seated' => Gone(q)'
    <3> SUFFICES ASSUME NEW q \in Ports, addr[q] # NoAddr, q \notin Seated PROVE Gone(q)'
      BY <1>1
    <3>1. Gone(q) /\ addr[q] \in Clients /\ addr[q] # c
      BY <1>0, <1>3 DEF ClientsOK
    <3>2. net'[addr[q]] = net[addr[q]]
      BY <1>3, <1>4, <3>1
    <3> QED
      BY <1>1, <1>2, <3>1, <3>2 DEF Gone, OthersStay
  <2>5. \A q \in Ports : q \notin Seated' => net'[q] = <<>> /\ r_packet'[q] = NoReceipt
    BY <1>0, <1>1, <1>3, <1>4 DEF ClientsOK
  <2>6. RequestsOK(net[Main])'
    BY OutsideRequests
  <2> QED
    BY <2>1, <2>2, <2>3, <2>4, <2>5, <2>6 DEF ClientsOK, RequestsOK
<1>6. \A q \in Seated : addr[q] # c
  BY <1>0
<1> QED
  BY <1>2, <1>4, <1>5, <1>6, UnseatedStep

\* A step of any client.
LEMMA ClientKeeps ==
    ASSUME Good, AddressesOK, UNCHANGED serverVars, NEW c \in Clients, ClientStep(c)
    PROVE  SessionInv'
<1>1. CASE \E p \in Seated : addr[p] = c
  <2>1. PICK p \in Seated : c = addr[p]
    BY <1>1
  <2>2. ProperStep(c) \/ Timer(c)
    BY DEF Good, ClientStep, ProperStep, Undisturbed
  <2> QED
    BY <2>1, <2>2, SeatedStepKeeps, ReminderKeeps
<1>2. CASE \E p \in Ports : p \notin Seated /\ addr[p] = c
  BY <1>2, GoneKeeps
<1>3. CASE \A p \in Ports : addr[p] # c
  BY <1>3, OutsideKeeps
<1> QED
  BY <1>1, <1>2, <1>3

-----------------------------------------------------------------------------
(* Every step of the system.                                               *)

LEMMA NextKeeps ==
    IInv /\ AddressesOK /\ SessionInv /\ Undisturbed /\ NoWrap /\ [Next]_vars => SessionInv'
<1> SUFFICES ASSUME IInv, AddressesOK, SessionInv, Undisturbed, NoWrap, [Next]_vars
             PROVE  SessionInv'
  OBVIOUS
<1>1. Good
  BY DEF Good
<1>2. CASE ServerStep /\ UNCHANGED clientVars
  BY <1>1, <1>2, ServerKeeps
<1>3. CASE \E c \in Clients : ClientStep(c) /\ UNCHANGED serverVars
  BY <1>1, <1>3, ClientKeeps
<1>4. \A e \in Endpoints : ~NetworkFault(e)
  BY DEF Undisturbed, NetworkFault, Lose, Duplicate, Reorder, Fault
<1>5. CASE UNCHANGED vars
  <2>1. UNCHANGED <<pc, ret, curr, rx, readfds, conns, addr, s_packet, r_packet, game, payload,
                    do_broadcast, do_unicast, signalled, net, bound>>
    BY <1>5 DEF vars, serverVars, netVars
  <2>2. UNCHANGED <<cpc, cs_packet, cr_seq, view, peer, running, tv_sec, num_to>>
    BY <1>5 DEF vars, clientVars
  <2>3. UNCHANGED serverVars
    BY <1>5 DEF vars
  <2>4. /\ Seated' = Seated /\ ClientsOK' /\ Opponents' = Opponents /\ Over' = Over
        /\ RoundPlace' = RoundPlace
    BY <2>1, <2>2 DEF SessionInv, ClientsOK, Seated, SingleSeats, Outside, Gone, Opponents, Over,
       RoundPlace, InCall
  <2>5. ASSUME NEW q \in Seated
        PROVE  KeepsPlain(q) /\ KeepsGame(q) /\ (net[q] # <<>> => net'[q] # <<>>)
    <3>1. SameLink(q) /\ SameRecord(q)
      BY <2>1, <2>2 DEF SameLink, SameRecord
    <3> QED
      BY <2>1, <3>1, PlainFrame, GameFrame
  <2> QED
    BY <1>1, <2>3, <2>4, <2>5, ContextsKept
<1> QED
  BY <1>2, <1>3, <1>4, <1>5 DEF Next, Undisturbed

LEMMA SessionBegins == Init => SessionInv
<1> SUFFICES ASSUME Init PROVE SessionInv
  OBVIOUS
<1>1. /\ pc = "select" /\ ret = "received" /\ conns = <<>> /\ signalled = "no" /\ game = ResetGame
      /\ \A p \in Ports : addr[p] = NoAddr /\ r_packet[p] = NoReceipt
  BY DEF Init, ServerInit
<1>2. /\ \A e \in Endpoints : net[e] = <<>>
      /\ \A c \in Clients : /\ cpc[c] = "start" /\ peer[c] = Main /\ running[c]
                            /\ cs_packet[c] = Bare("SYN", MAX_SEQ)
      /\ \A c \in Clients : c \notin bound
      /\ Main \in Endpoints
      /\ \A c \in Clients : c \in Endpoints
      /\ \A p \in Ports : p \in Endpoints
  BY EndpointKinds DEF Init, NetInit, ClientInit, Endpoints
<1>3. Seated = {}
  BY <1>1 DEF Seated, ToSet
<1>4. TableOK
  BY <1>1 DEF TableOK, ResetGame, Marks
<1>5. ClientsOK
  <2>1. \A c \in Clients : Outside(c)
    BY <1>2 DEF Outside
  <2>2. DOMAIN net[Main] = {}
    BY <1>2
  <2>3. \A p \in Ports : ~(addr[p] # NoAddr)
    BY <1>1
  <2> QED
    BY <1>1, <1>2, <2>1, <2>2, <2>3 DEF ClientsOK, SingleSeats
<1> QED
  BY <1>1, <1>3, <1>4, <1>5 DEF SessionInv, Stopped, RestOK, JoiningOK, ReceivedOK,
     BroadcastingOK, RoundOK, RoundPlace, InCall

\* Where every client is in its exchange with the server, as long as no game gets
\* the number that stands for the handshake.
THEOREM SessionHolds ==
    ASSUME Undisturbed
    PROVE  Spec /\ []NoWrap => []SessionInv
<1>1. IInv /\ AddressesOK /\ SessionInv /\ NoWrap /\ [Next]_vars => SessionInv'
  BY NextKeeps
<1> QED
  BY <1>1, SessionBegins, Inductive, AddressesNeverMix, PTL DEF Spec

-----------------------------------------------------------------------------
(* The turn.                                                               *)

\* The phases in which a client holds the controller.
LEMMA TurnPhases ==
    ASSUME NEW p, cpc[addr[p]] = "turn"
    PROVE  /\ ~Nudged(p) /\ ~Reminds(p) /\ ~HasMoved(p) /\ ~Leaves(p) /\ ~Waves(p)
           /\ ~Parts(p) /\ ~Prods(p) /\ ~Joins(p)
           /\ Informed(p) \/ InformedLate(p) =>
                 view[addr[p]] = game /\ HasTRN(s_packet[p].flags)
           /\ Plays(p) => view[addr[p]] = game
<1> USE DEF Stays, Heard
<1>1. ~Nudged(p) /\ ~Reminds(p) /\ ~HasMoved(p) /\ ~Leaves(p) /\ ~Waves(p)
  BY DEF Nudged, Reminds, HasMoved, Moved, Leaves, Left, Waves
<1>2. ~Parts(p) /\ ~Prods(p) /\ ~Joins(p)
  BY DEF Parts, Parting, Prods, Prodded, Joins, Joining
<1>3. ASSUME NEW q, Told(p, q) PROVE view[addr[p]] = game /\ HasTRN(s_packet[p].flags)
  BY <1>3 DEF Told, Offered, OnItsWay, Answered, Left, HasTurn
<1>4. Informed(p) \/ InformedLate(p) => view[addr[p]] = game /\ HasTRN(s_packet[p].flags)
  BY <1>3 DEF Informed, InformedLate
<1>5. Plays(p) => view[addr[p]] = game
  BY <1>3 DEF Plays, HasTurn
<1> QED
  BY <1>1, <1>2, <1>4, <1>5

\* Whoever holds the controller is the one the server's table waits for.
LEMMA TurnHolder ==
    ASSUME IInv, SessionInv, Undisturbed, NEW p \in Seated, cpc[addr[p]] = "turn"
    PROVE  view[addr[p]] = game /\ BroadcastFlags(p) = "PSH/TRN" /\ peer[addr[p]] = p
<1>1. /\ pc \in Places /\ ret \in Returns /\ ~Stopped
      /\ RestOK /\ JoiningOK /\ ReceivedOK /\ BroadcastingOK /\ RoundOK
  BY DEF IInv, TypeOK, ServerTypeOK, SessionInv
<1>2. peer[addr[p]] = p
  BY SeatedLinked, TurnFromSeat
<1>3. /\ ~Nudged(p) /\ ~Reminds(p) /\ ~HasMoved(p) /\ ~Leaves(p) /\ ~Waves(p)
      /\ ~Parts(p) /\ ~Prods(p) /\ ~Joins(p)
      /\ Informed(p) \/ InformedLate(p) => view[addr[p]] = game /\ HasTRN(s_packet[p].flags)
      /\ Plays(p) => view[addr[p]] = game
  BY TurnPhases
<1> DEFINE Holds == view[addr[p]] = game /\ BroadcastFlags(p) = "PSH/TRN"
<1>4. Settled(p) \/ AtRest(p) => Holds
  BY <1>3 DEF Settled, AtRest, Calls, Waiting
<1>5. ~Due(p)
  BY <1>3 DEF Due
<1>6. InRound(p) => Holds
  BY <1>3, <1>4 DEF InRound, Calls
<1>7. InBroadcast(p) => Holds
  BY <1>4, <1>5 DEF InBroadcast
<1>8. Served(p) => Holds
  BY <1>6 DEF Served
<1>9. ~Answerable(p) /\ ~Dismissed(p)
  BY <1>3 DEF Answerable, Dismissed
<1> SUFFICES Holds
  BY <1>2
<1> HIDE DEF Holds
<1>10. CASE pc \in {"select", "accept", "loop"}
  BY <1>1, <1>4, <1>10 DEF RestOK
<1>11. CASE InCall("received")
  BY <1>1, <1>3, <1>11 DEF JoiningOK, Waiting
<1>12. CASE pc = "received"
  BY <1>1, <1>4, <1>5, <1>12 DEF ReceivedOK
<1>13. CASE pc = "bcast"
  BY <1>1, <1>7, <1>13 DEF BroadcastingOK
<1>14. CASE InCall("bcasted")
  <2>1. /\ s_packet[rx].flags = BroadcastFlags(rx)
        /\ Informed(rx) \/ InformedLate(rx)
        /\ \A q \in Seated \ {rx} : InBroadcast(q)
    BY <1>1, <1>14 DEF BroadcastingOK
  <2>2. CASE p = rx
    BY <1>3, <2>1, <2>2 DEF HasTRN, Holds
  <2> QED
    BY <1>7, <2>1, <2>2
<1>15. CASE pc = "bcasted"
  BY <1>1, <1>4, <1>7, <1>15 DEF BroadcastingOK
<1>16. CASE pc = "receipt" \/ InCall("receipted")
  BY <1>1, <1>6, <1>8, <1>16 DEF RoundOK, InCall
<1>17. CASE pc = "receipted"
  BY <1>1, <1>6, <1>8, <1>9, <1>17 DEF RoundOK
<1>18. CASE InCall("unicasted")
  <2>1. /\ rx = curr
        /\ IF Opponents THEN WaitsHere(rx) /\ Informed(rx) ELSE Prods(rx)
        /\ \A q \in Seated \ {curr} : InRound(q)
    BY <1>1, <1>18 DEF RoundOK
  <2>2. CASE p = rx
    <3>1. Opponents /\ WaitsHere(rx) /\ Informed(rx)
      BY <1>3, <2>1, <2>2
    <3> QED
      BY <1>3, <2>2, <3>1 DEF WaitsHere, HasTRN
  <2> QED
    BY <1>6, <2>1, <2>2
<1>19. CASE pc = "unicasted"
  BY <1>1, <1>6, <1>19 DEF RoundOK
<1>20. CASE pc = "finchk"
  BY <1>1, <1>6, <1>8, <1>9, <1>20 DEF RoundOK
<1>21. CASE InCall("receipt")
  BY <1>1, <1>3, <1>6, <1>21 DEF RoundOK
<1> QED
  BY <1>1, <1>10, <1>11, <1>12, <1>13, <1>14, <1>15, <1>16, <1>17, <1>18, <1>19, <1>20, <1>21
  DEF Places, Returns, Stopped, InCall

\* It has a seat.
LEMMA TurnIsSeated ==
    ASSUME IInv, SessionInv, Undisturbed, NEW c \in Clients, InTurn(c)
    PROVE  \E p \in Seated : /\ c = addr[p] /\ peer[c] = p /\ view[c] = game
                             /\ Position(p) - 1 = TurnIndex(game.turn)
<1>1. ClientsOK /\ cpc[c] = "turn"
  BY DEF SessionInv, InTurn
<1>2. PICK p \in Ports : addr[p] = c
  BY <1>1 DEF ClientsOK, Outside
<1>3. p \in Seated
  <2>1. NoAddr \notin Clients
    BY EndpointKinds DEF Endpoints
  <2>2. addr[p] # NoAddr
    BY <1>2, <2>1
  <2> QED
    BY <1>1, <1>2, <2>2 DEF ClientsOK, Gone
<1>4. view[c] = game /\ BroadcastFlags(p) = "PSH/TRN" /\ peer[c] = p
  BY <1>1, <1>2, <1>3, TurnHolder
<1> QED
  BY <1>2, <1>3, <1>4 DEF BroadcastFlags

\* The first datagram of a queue that starts with an acknowledgement.
LEMMA OfferedHead ==
    ASSUME NEW p, NEW q, NEW k, NEW f, NEW g, Offered(p, q, k, f, g), net[p] # <<>>,
           q # <<>> => \E n : q = <<From(p, Ack(n))>>, One(q)
    PROVE  Head(net[p]).pkt.flags = "ACK"
<1>1. PICK d, e, x : d = From(p, Ack(k)) /\ e = From(p, cs_packet[addr[p]]) /\ x = From(p, Fin)
  OBVIOUS
<1>2. \A n : From(p, Ack(n)).pkt.flags = "ACK"
  BY DEF From, Ack, Bare, Packet, Datagram
<1>3. d.pkt.flags = "ACK"
  BY <1>1, <1>2
<1>4. \/ net[p] = q
      \/ net[p] = Append(q, d)
      \/ net[p] = Append(Append(q, d), e)
      \/ net[p] = Append(Append(q, d), x)
  BY <1>1 DEF Offered, OnItsWay, Answered, Left, HasTurn, Heard
<1>5. CASE q = <<>>
  <2>1. Append(<<>>, d) = <<d>> /\ Head(<<d>>) = d
    BY Queues
  <2>2. Append(<<d>>, e) = <<d, e>> /\ Append(<<d>>, x) = <<d, x>>
    BY AppendTwo
  <2>3. Head(<<d, e>>) = d /\ Head(<<d, x>>) = d
    BY Queues
  <2>4. Head(net[p]) = d
    BY <1>4, <1>5, <2>1, <2>2, <2>3
  <2> QED
    BY <1>3, <2>4
<1>6. ASSUME NEW n, q = <<From(p, Ack(n))>> PROVE Head(net[p]).pkt.flags = "ACK"
  <2>1. PICK a : a = From(p, Ack(n))
    OBVIOUS
  <2>2. a.pkt.flags = "ACK" /\ q = <<a>>
    BY <1>2, <1>6, <2>1
  <2>3. Head(<<a>>) = a
    BY Queues
  <2>4. Append(<<a>>, d) = <<a, d>>
    BY AppendTwo
  <2>5. Append(<<a, d>>, e) = <<a, d, e>>
    BY AppendThree
  <2>6. Append(<<a, d>>, x) = <<a, d, x>>
    BY AppendThree
  <2>7. Head(<<a, d>>) = a /\ Head(<<a, d, e>>) = a /\ Head(<<a, d, x>>) = a
    OBVIOUS
  <2>8. Head(net[p]) = a
    BY <1>4, <2>2, <2>3, <2>4, <2>5, <2>6, <2>7
  <2> QED
    BY <2>2, <2>8
<1> QED
  BY <1>5, <1>6

\* The phases in which an input is the next to be read.
LEMMA InputPhases ==
    ASSUME NEW p, net[p] # <<>>, HasPSH(Head(net[p]).pkt.flags)
    PROVE  /\ ~Nudged(p) /\ ~Reminds(p) /\ ~HasMoved(p) /\ ~Leaves(p) /\ ~Waves(p)
           /\ ~Parts(p) /\ ~Prods(p) /\ ~Joins(p) /\ ~Informed(p) /\ ~InformedLate(p)
<1>1. /\ \A n : From(p, Ack(n)).pkt.flags = "ACK"
      /\ From(p, Fin).pkt.flags = "FIN" /\ From(p, FinAck).pkt.flags = "FIN/ACK"
  BY DEF From, Ack, Fin, FinAck, Bare, Packet, Datagram
<1>2. ASSUME NEW n, net[p] = <<From(p, Ack(n))>> PROVE FALSE
  <2>1. PICK a : a = From(p, Ack(n))
    OBVIOUS
  <2>2. Head(<<a>>) = a
    BY Queues
  <2> QED
    BY <1>1, <1>2, <2>1, <2>2 DEF HasPSH
<1>3. ~Nudged(p) /\ ~HasMoved(p) /\ ~Waves(p)
  BY DEF Nudged, Heard, HasMoved, Moved, Waves
<1>4. ~Reminds(p) /\ ~Prods(p) /\ ~Joins(p)
  BY <1>2 DEF Reminds, Prods, Prodded, Joins, Joining, Heard
<1>5. ~Leaves(p)
  <2>1. PICK a : a = From(p, Fin)
    OBVIOUS
  <2>2. Append(<<>>, a) = <<a>> /\ Head(<<a>>) = a
    BY Queues
  <2>3. net[p] # Append(<<>>, a)
    BY <1>1, <2>1, <2>2 DEF HasPSH
  <2> QED
    BY <2>1, <2>3 DEF Leaves, Left
<1>6. ~Parts(p)
  <2>1. PICK a : a = From(p, FinAck)
    OBVIOUS
  <2>2. Head(<<a>>) = a
    BY Queues
  <2>3. net[p] # <<a>>
    BY <1>1, <2>1, <2>2 DEF HasPSH
  <2> QED
    BY <2>1, <2>3 DEF Parts, Parting
<1>7. ASSUME NEW q, Told(p, q), One(q), q # <<>> => \E n : q = <<From(p, Ack(n))>> PROVE FALSE
  BY <1>7, OfferedHead DEF Told, HasPSH
<1>8. ~Informed(p)
  BY <1>7, ShortQueues DEF Informed
<1>9. ~InformedLate(p)
  <2>1. PICK q, n : q = <<From(p, Ack(n))>> /\ n = r_packet[p].seq
    OBVIOUS
  <2>2. One(q)
    BY <2>1 DEF One
  <2> QED
    BY <1>7, <2>1, <2>2 DEF InformedLate
<1> QED
  BY <1>3, <1>4, <1>5, <1>6, <1>8, <1>9

\* An input that is read comes from a client that plays, while everybody does, and
\* nothing is behind it.
LEMMA InputByPlayer ==
    ASSUME Good, pc = "recv", net[rx] # <<>>, HasPSH(Arrived.flags)
    PROVE  /\ ret = "receipted" /\ Opponents /\ ~Over /\ rx \in Seated
           /\ Position(rx) - 1 = TurnIndex(game.turn)
           /\ net[rx] = <<From(rx, cs_packet[addr[rx]])>>
           /\ IsMove
           /\ \A p \in Seated : InRound(p)
<1>0. /\ JoiningOK /\ BroadcastingOK /\ RoundOK /\ ret \in Returns /\ rx \in Seated
  BY GoodFacts DEF ServerInv, PointersOK, ServerTypeOK
<1>1. /\ ~Nudged(rx) /\ ~Reminds(rx) /\ ~HasMoved(rx) /\ ~Leaves(rx)
      /\ ~Parts(rx) /\ ~Prods(rx) /\ ~Joins(rx) /\ ~Informed(rx) /\ ~InformedLate(rx)
  BY <1>0, InputPhases DEF Arrived
<1>2. ret = "receipted"
  BY <1>0, <1>1 DEF JoiningOK, BroadcastingOK, RoundOK, InCall, Returns
<1>3. \A p \in Seated : InRound(p)
  BY <1>0, <1>2 DEF RoundOK, InCall, Served
<1>4. Settled(rx)
  BY <1>0, <1>1, <1>3 DEF InRound, Calls
<1>5. Plays(rx) /\ Opponents /\ ~Over /\ BroadcastFlags(rx) = "PSH/TRN"
  BY <1>1, <1>4 DEF Settled, Waiting
<1>6. ~Told(rx, <<>>)
  <2>1. ~Informed(rx)
    BY <1>1
  <2> QED
    BY <1>5, <2>1 DEF Plays, Informed
<1>7. r_packet[rx].flags = "ACK" /\ HasTurn(rx, <<>>, s_packet[rx].seq, game)
  BY <1>5, <1>6 DEF Plays
<1>8. PICK pkt, d : pkt = cs_packet[addr[rx]] /\ d = From(rx, pkt)
  OBVIOUS
<1>9. net[rx] = <<d>> /\ pkt.flags = "PSH" /\ pkt.seq = NextSeq(s_packet[rx].seq)
  BY <1>7, <1>8, Queues DEF HasTurn
<1>10. Arrived = pkt
  <2>1. Head(<<d>>) = d /\ d.pkt = pkt
    BY <1>8, Queues DEF From, Datagram
  <2> QED
    BY <1>9, <2>1 DEF Arrived
<1>11. IsMove
  BY <1>7, <1>9, <1>10 DEF IsMove, IsDuplicate, HasPSH
<1> QED
  BY <1>0, <1>2, <1>3, <1>5, <1>8, <1>9, <1>11 DEF BroadcastFlags

-----------------------------------------------------------------------------
(* The end of a game, as the clients see it.                              *)

\* A client that leaves goes on leaving, and only a game changes what it sees.
LEMMA LeavingStays ==
    ASSUME TypeOK, NEW c \in Clients, ClientStep(c), SignalClients = {}
    PROVE  /\ cpc[c] \in Leaving => cpc'[c] \in Leaving
           /\ view'[c] = view[c] \/ RecvGame(c)
<1> USE DEF TypeOK, ClientTypeOK
<1>1. CASE Connect(c) \/ TakeTurn(c)
  BY <1>1 DEF Connect, TakeTurn, Leaving
<1>2. CASE ClientRecv(c)
  BY <1>2 DEF ClientRecv, RecvSynAck, RecvGame, RecvAck, RecvDisconnectAck, RecvFin, RecvLastFin,
     RecvUnexpected, Gets, Leaving, SendThen, WaitFor, Quit
<1>3. CASE Timer(c)
  BY <1>3 DEF Timer, TimeoutResend, GiveUp, GiveUpConnect, GiveUpGame, GiveUpAck, GiveUpFinAck,
     GiveUpFin, GiveUpLinger, Expires, Leaving, Leave, SendThen, WaitFor, Quit
<1> QED
  BY <1>1, <1>2, <1>3 DEF ClientStep

\* A game that is read is the game of the server.
LEMMA GameIsCurrent ==
    ASSUME NEW p, Phase(p), NEW c, c = addr[p], cpc[c] = "w_game", net[c] # <<>>,
           HasPSH(Incoming(c).flags)
    PROVE  Incoming(c).payload = game
<1> USE DEF Stays, Heard
<1>1. /\ ~Nudged(p) /\ ~Reminds(p) /\ ~HasMoved(p) /\ ~Leaves(p) /\ ~Waves(p) /\ ~Parts(p)
      /\ ~Joins(p)
  BY DEF Nudged, Reminds, HasMoved, Moved, Leaves, Left, Waves, Parts, Parting, Joins, Joining
<1>2. ~Prods(p)
  <2>1. ASSUME NEW k, NEW g, net[c] = <<To(p, Packet("SYN/ACK", k, g))>> PROVE FALSE
    <3>1. PICK d : d = To(p, Packet("SYN/ACK", k, g))
      OBVIOUS
    <3>2. Head(<<d>>) = d
      BY Queues
    <3>3. d.pkt.flags = "SYN/ACK"
      BY <3>1 DEF To, Datagram, Packet
    <3> QED
      BY <2>1, <3>1, <3>2, <3>3 DEF Incoming, HasPSH
  <2> QED
    BY <2>1 DEF Prods, Prodded
<1>3. ASSUME NEW q, Told(p, q) PROVE Incoming(c).payload = game
  <2>1. PICK k, f, d : k = s_packet[p].seq /\ f = s_packet[p].flags /\ d = To(p, Packet(f, k, game))
    OBVIOUS
  <2>2. net[c] = <<d>>
    BY <1>3, <2>1 DEF Told, Offered, OnItsWay, Answered, Left, HasTurn
  <2>3. Head(<<d>>) = d
    BY Queues
  <2> QED
    BY <2>1, <2>2, <2>3 DEF Incoming, To, Datagram, Packet
<1> QED
  BY <1>1, <1>2, <1>3 DEF Phase, Informed, InformedLate, Plays, HasTurn

LEMMA GameReader ==
    ASSUME Good, NEW c \in Clients, RecvGame(c)
    PROVE  Incoming(c).payload = game
<1>1. cpc[c] = "w_game" /\ net[c] # <<>> /\ HasPSH(Incoming(c).flags)
  BY DEF RecvGame, Gets, Accepts, FlagSet, HasPSH
<1>2. ClientsOK /\ IInv /\ SessionInv /\ Undisturbed /\ c # NoAddr
  BY EndpointKinds DEF Good, SessionInv, Endpoints
<1>3. PICK p \in Seated : c = addr[p]
  BY <1>1, <1>2 DEF ClientsOK, Outside, Gone
<1> QED
  BY <1>1, <1>2, <1>3, SeatedLinked, GameIsCurrent

\* A client's step.
LEMMA EndsAgreeOnClients ==
    ASSUME Good, EndsAgree, UNCHANGED serverVars, NEW c \in Clients, ClientStep(c)
    PROVE  EndsAgree'
<1>1. TypeOK /\ SignalClients = {} /\ game' = game /\ ClientTypeOK
  BY DEF Good, IInv, Undisturbed, serverVars, TypeOK
<1>2. \A d \in Clients \ {c} : cpc'[d] = cpc[d] /\ view'[d] = view[d]
  BY <1>1, ClientReach DEF OthersStay
<1>3. cpc[c] \in Leaving => cpc'[c] \in Leaving
  BY <1>1, LeavingStays
<1>4. CASE view'[c] = view[c]
  <2>1. \A d \in Clients : view'[d] = view[d] /\ (cpc[d] \in Leaving => cpc'[d] \in Leaving)
    BY <1>2, <1>3, <1>4
  <2> QED
    BY <1>1, <2>1 DEF EndsAgree, SeenAndLeft, AgreeOnTheEnd, SawTheEnd, Over
<1>5. CASE RecvGame(c)
  <2>1. Incoming(c).payload = game
    BY <1>5, GameReader
  <2>2. view'[c] = Judged(game) /\ (Over => cpc'[c] \in Leaving)
    BY <1>1, <1>5, <2>1 DEF RecvGame, ClientTypeOK, Leave, SendThen, Over, Leaving
  <2>3. game \in Games /\ Judged(game).trackGame = game.trackGame
    BY <1>1 DEF TypeOK, ServerTypeOK, Judged, Games
  <2>4. SawTheEnd(c)' <=> Over
    BY <2>2, <2>3 DEF SawTheEnd, Over
  <2>5. \A d \in Clients : SawTheEnd(d)' /\ Over' => view'[d] = Judged(game)
    BY <1>1, <1>2, <2>2 DEF EndsAgree, SeenAndLeft, SawTheEnd, Over
  <2>6. \A d \in Clients : SawTheEnd(d)' => cpc'[d] \in Leaving
    BY <1>2, <2>2, <2>4 DEF EndsAgree, SeenAndLeft, SawTheEnd
  <2>7. AgreeOnTheEnd'
    <3> SUFFICES ASSUME NEW d \in Clients, NEW e \in Clients, SawTheEnd(d)', SawTheEnd(e)'
                 PROVE  view'[d] = view'[e]
      BY DEF AgreeOnTheEnd, SawTheEnd
    <3>1. CASE Over
      BY <1>1, <2>5, <3>1 DEF Over
    <3>2. CASE ~Over
      BY <1>2, <2>4, <3>2 DEF EndsAgree, SeenAndLeft, AgreeOnTheEnd, SawTheEnd
    <3> QED
      BY <3>1, <3>2
  <2> QED
    BY <1>1, <2>5, <2>6, <2>7 DEF EndsAgree, SeenAndLeft
<1> QED
  BY <1>1, <1>4, <1>5, LeavingStays

\* Who plays a game that goes on has not left it.
LEMMA PlayersStay ==
    ASSUME NEW p, InRound(p), ~Over
    PROVE  cpc[addr[p]] \notin Leaving
<1> USE DEF Stays, Heard, Leaving
<1>1. Nudged(p) \/ Reminds(p) \/ HasMoved(p) => cpc[addr[p]] \notin Leaving
  BY DEF Nudged, Reminds, HasMoved, Moved
<1>2. Plays(p) => cpc[addr[p]] \notin Leaving
  BY DEF Plays, Told, Offered, OnItsWay, Answered, HasTurn, Over
<1> QED
  BY <1>1, <1>2 DEF InRound, Settled, Calls, Waiting

\* With a full lobby, both of two clients have a seat.
LEMMA BothSeated ==
    ASSUME Good, TwoClients, Opponents, NEW c \in Clients
    PROVE  \E p \in Seated : addr[p] = c
<1>0. ServerTypeOK /\ ListOK /\ MAX_CLIENTS = 2 /\ ClientsOK
  BY GoodFacts DEF Good, SessionInv
<1>1. PICK p, q \in Seated : p # q
  <2>1. Len(conns) = 2
    BY <1>0 DEF Opponents
  <2>2. conns \in Seq(Ports) /\ DOMAIN conns = 1 .. 2
    BY <1>0, <2>1, LenProperties DEF ServerTypeOK
  <2>3. conns[1] \in Seated /\ conns[2] \in Seated /\ conns[1] # conns[2]
    BY <1>0, <2>2 DEF ListOK, IsInjective, Seated, ToSet
  <2> QED
    BY <2>3
<1>2. /\ addr[p] \in Clients /\ addr[q] \in Clients /\ p \in Ports /\ q \in Ports
      /\ addr[p] # NoAddr
  BY SeatedLinked DEF Good, Linked
<1>3. addr[p] # addr[q]
  BY <1>0, <1>1, <1>2 DEF ClientsOK, SingleSeats
<1> QED
  BY <1>1, <1>2, <1>3 DEF TwoClients

\* A step of the server.
LEMMA EndsAgreeOnServer ==
    ASSUME Good, TwoClients, EndsAgree, ServerStep, UNCHANGED clientVars
    PROVE  EndsAgree'
<1>1. cpc' = cpc /\ view' = view
  BY DEF clientVars
<1>2. CASE game' = game
  BY <1>1, <1>2 DEF EndsAgree, SeenAndLeft, AgreeOnTheEnd, SawTheEnd, Over
<1>3. CASE game' = ResetGame
  BY <1>1, <1>3, NewGameIsOpen DEF EndsAgree, SeenAndLeft, AgreeOnTheEnd, SawTheEnd, Over
<1>4. CASE RecvMove
  <2>0. pc = "recv" /\ net[rx] # <<>> /\ HasPSH(Arrived.flags)
    BY <1>4 DEF RecvMove, Receives, IsMove
  <2>1. ASSUME NEW c \in Clients PROVE ~SawTheEnd(c)
    <3>1. PICK p \in Seated : addr[p] = c
      BY <2>0, InputByPlayer, BothSeated
    <3>2. cpc[addr[p]] \notin Leaving
      BY <2>0, InputByPlayer, PlayersStay
    <3> QED
      BY <3>1, <3>2 DEF EndsAgree, SeenAndLeft
  <2> QED
    BY <1>1, <2>1 DEF EndsAgree, SeenAndLeft, AgreeOnTheEnd, SawTheEnd
<1> QED
  BY <1>2, <1>3, <1>4 DEF ServerStep, SvReceive, HandleReceipt,
         HandleBroadcast, Select, SvAccept, SvDeny, AfterReceipt, RecvDuplicate, RecvBadAck,
         RecvFinAck, RecvOther, ReceiptRecv, ReceiptSkip, UseAfterFree, HandleUnicast,
         NoUnicast, Unicasted, NextClient, SvDisconnect, BroadcastStep, BroadcastNext,
         BroadcastEnd, EndLoop

-----------------------------------------------------------------------------
(* The inputs that wait for the server.                                    *)

LEMMA InputsAppended ==
    ASSUME NEW S, NEW q \in Seq(S), NEW d \in S
    PROVE  /\ ~HasPSH(d.pkt.flags) => InputsIn(Append(q, d)) = InputsIn(q)
           /\ HasPSH(d.pkt.flags) => InputsIn(Append(q, d)) = InputsIn(q) \cup {d}
<1>1. ToSet(Append(q, d)) = ToSet(q) \cup {d}
  BY ElementsOf
<1> QED
  BY <1>1 DEF InputsIn

LEMMA InputsTaken ==
    ASSUME NEW S, NEW q \in Seq(S), q # <<>>, ~HasPSH(Head(q).pkt.flags)
    PROVE  InputsIn(Tail(q)) = InputsIn(q)
<1> DEFINE t == Tail(q)
           h == Head(q)
<1>1. /\ t \in Seq(S) /\ Len(t) = Len(q) - 1 /\ h = q[1] /\ Len(q) \in Nat
      /\ \A i \in 1 .. Len(t) : t[i] = q[i + 1]
      /\ DOMAIN q = 1 .. Len(q)
  BY HeadTailProperties, LenProperties
<1>2. DOMAIN t = 1 .. Len(q) - 1
  BY <1>1, LenProperties
<1> HIDE DEF t, h
<1>3. ToSet(t) \subseteq ToSet(q)
  <2>1. ASSUME NEW i \in 1 .. Len(q) - 1 PROVE i + 1 \in DOMAIN q /\ t[i] = q[i + 1]
    BY <1>1, <1>2
  <2> QED
    BY <1>2, <2>1 DEF ToSet
<1>4. ToSet(q) \subseteq ToSet(t) \cup {h}
  <2> SUFFICES ASSUME NEW i \in 1 .. Len(q) PROVE q[i] \in ToSet(t) \cup {h}
    BY <1>1 DEF ToSet
  <2>1. CASE i = 1
    BY <1>1, <2>1
  <2>2. CASE i # 1
    <3>1. i - 1 \in DOMAIN t /\ t[i - 1] = q[i]
      BY <1>1, <1>2, <2>2
    <3> QED
      BY <3>1 DEF ToSet
  <2> QED
    BY <2>1, <2>2
<1>5. ~HasPSH(h.pkt.flags)
  BY DEF h
<1>6. InputsIn(t) = InputsIn(q)
  BY <1>3, <1>4, <1>5 DEF InputsIn
<1> QED
  BY <1>6 DEF t

LEMMA NoInputs == InputsIn(<<>>) = {}
BY DEF InputsIn, ToSet

\* The buffers n hold the inputs of the moment.
SameInputs(n) == Buffers(n) /\ \A p \in Ports : InputsIn(n[p]) = Unread(p)

\* What is sent and is no input, by either side.
LEMMA SilentWrite ==
    ASSUME NetTypeOK, NEW n, SameInputs(n), NEW from, NEW to, NEW pkt, ~HasPSH(pkt.flags),
           to \in bound => Datagram(from, pkt) \in DatagramsTo(to)
    PROVE  SameInputs(Sent(n, from, to, pkt))
<1>0. Buffers(n) /\ bound \subseteq Endpoints
  BY DEF SameInputs, NetTypeOK
<1>1. Buffers(Sent(n, from, to, pkt))
  BY <1>0, SentBuffers
<1>2. CASE to \in bound /\ Len(n[to]) < SockBuf
  <2> DEFINE d == Datagram(from, pkt)
  <2>1. /\ n[to] \in Seq(DatagramsTo(to)) /\ d \in DatagramsTo(to) /\ ~HasPSH(d.pkt.flags)
    BY <1>0, <1>2 DEF Buffers, Datagram
  <2>2. Sent(n, from, to, pkt) = [n EXCEPT ![to] = Append(n[to], d)]
    BY <1>2 DEF Sent
  <2> HIDE DEF d
  <2>3. InputsIn(Append(n[to], d)) = InputsIn(n[to])
    BY <2>1, InputsAppended
  <2>4. \A p \in Ports : InputsIn(Sent(n, from, to, pkt)[p]) = InputsIn(n[p])
    BY <1>0, <2>2, <2>3 DEF Buffers, Endpoints
  <2> QED
    BY <1>1, <2>4 DEF SameInputs
<1>3. CASE ~(to \in bound /\ Len(n[to]) < SockBuf)
  BY <1>3 DEF Sent
<1> QED
  BY <1>2, <1>3

LEMMA SilentRead ==
    ASSUME NetTypeOK, NEW e \in Endpoints, net[e] # <<>>,
           e \in Ports => ~HasPSH(Head(net[e]).pkt.flags)
    PROVE  SameInputs(Taken(e))
<1>1. Buffers(net) /\ net[e] \in Seq(DatagramsTo(e))
  BY DEF NetTypeOK, Buffers
<1>2. Buffers(Taken(e)) /\ Taken(e)[e] = Tail(net[e]) /\ \A o \in Endpoints \ {e} : Taken(e)[o] = net[o]
  BY <1>1, TakenBuffers, TakenFrom
<1>3. e \in Ports => InputsIn(Tail(net[e])) = InputsIn(net[e])
  BY <1>1, InputsTaken
<1>4. Ports \subseteq Endpoints
  BY DEF Endpoints
<1> QED
  BY <1>2, <1>3, <1>4 DEF SameInputs, Unread

\* A client that is seated and neither takes its turn nor repeats one.
LEMMA ReadsSilently ==
    ASSUME TypeOK, NEW c \in Clients, ClientRecv(c),
           RecvUnexpected(c) => ~HasPSH(cs_packet[c].flags)
    PROVE  SameInputs(net')
<1> DEFINE rest == Taken(c)
           to == Sender(c)
<1>0. /\ NetTypeOK /\ ClientTypeOK /\ net[c] # <<>> /\ c \in Endpoints /\ c \notin Ports
      /\ MAX_SEQ \in SeqNums
  BY PacketAssumption, EndpointKinds DEF TypeOK, ClientRecv, RecvSynAck, RecvGame, RecvAck,
     RecvDisconnectAck, RecvFin, RecvLastFin, RecvUnexpected, Gets, Endpoints, SeqNums
<1>1. Incoming(c).seq \in SeqNums /\ to \in {Main} \cup Ports /\ cs_packet[c] \in ClientPackets
  BY <1>0, ReceivedType DEF ServerPackets, ClientTypeOK
<1>2. SameInputs(rest)
  BY <1>0, SilentRead
<1> HIDE DEF rest, to
<1>3. ASSUME NEW n, SameInputs(n), NEW pkt \in ClientPackets, ~HasPSH(pkt.flags)
      PROVE  SameInputs(Sent(n, c, to, pkt))
  <2>1. Datagram(c, pkt) \in DatagramsTo(to)
    BY <1>1, ClientDatagram
  <2> QED
    BY <1>0, <1>3, <2>1, SilentWrite
<1>4. ASSUME NEW s \in SeqNums, NEW f \in {"ACK", "FIN", "FIN/ACK"}
      PROVE  Bare(f, s) \in ClientPackets /\ ~HasPSH(Bare(f, s).flags)
  BY BareClientPacket DEF Bare, Packet, HasPSH
<1>5. CASE RecvGame(c)
  <2> DEFINE n == Sent(rest, c, to, Bare("ACK", Incoming(c).seq))
  <2>1. SameInputs(n)
    BY <1>1, <1>2, <1>3, <1>4
  <2>2. net' = n \/ net' = Sent(n, c, to, Bare("FIN", MAX_SEQ))
    BY <1>5 DEF RecvGame, Leave, SendThen, rest, to
  <2> HIDE DEF n
  <2> QED
    BY <1>0, <1>3, <1>4, <2>1, <2>2
<1>6. CASE RecvLastFin(c)
  <2>1. net' = Closed(net, {c}) /\ Buffers(net)
    BY <1>0, <1>6 DEF RecvLastFin, Quit, NetTypeOK, Buffers
  <2>2. Buffers(net') /\ \A o \in Endpoints \ {c} : net'[o] = net[o]
    BY <2>1, ClosedBuffers
  <2> QED
    BY <1>0, <2>2 DEF SameInputs, Unread, Endpoints
<1>7. CASE net' = rest
  BY <1>2, <1>7
<1>8. CASE RecvSynAck(c) \/ RecvFin(c) \/ RecvUnexpected(c) \/ RecvAck(c) \/ RecvDisconnectAck(c)
  <2>1. net' = rest \/ \E pkt \in ClientPackets : ~HasPSH(pkt.flags) /\ net' = Sent(rest, c, to, pkt)
    BY <1>0, <1>1, <1>4, <1>8 DEF RecvSynAck, RecvFin, RecvUnexpected, RecvAck, RecvDisconnectAck,
       Leave, SendThen, WaitFor, rest, to
  <2> QED
    BY <1>2, <1>3, <2>1
<1> QED
  BY <1>5, <1>6, <1>8 DEF ClientRecv

\* Queues of what is no input.
LEMMA SilentQueues ==
    ASSUME NEW a, NEW d, NEW e,
           ~HasPSH(a.pkt.flags), ~HasPSH(d.pkt.flags), ~HasPSH(e.pkt.flags)
    PROVE  /\ InputsIn(<<a>>) = {} /\ InputsIn(Append(<<>>, a)) = {}
           /\ InputsIn(Append(<<a>>, d)) = {} /\ InputsIn(Append(Append(<<>>, a), d)) = {}
           /\ InputsIn(Append(Append(<<a>>, d), e)) = {}
<1>1. PICK S, o, q, r : /\ S = {a, d, e} /\ o = <<>> /\ q = Append(o, a) /\ r = Append(q, d)
  OBVIOUS
<1>2. a \in S /\ d \in S /\ e \in S
  BY <1>1, Zenon
<1>3. o \in Seq(S) /\ InputsIn(o) = {} /\ q = <<a>>
  BY <1>1, NoInputs, Queues
<1>4. q \in Seq(S) /\ r \in Seq(S)
  BY <1>1, <1>2, <1>3, AppendProperties
<1>5. InputsIn(Append(o, a)) = InputsIn(o)
  BY <1>2, <1>3, InputsAppended
<1>6. InputsIn(Append(q, d)) = InputsIn(q)
  BY <1>2, <1>4, InputsAppended
<1>7. InputsIn(Append(r, e)) = InputsIn(r)
  BY <1>2, <1>4, InputsAppended
<1> QED
  BY <1>1, <1>3, <1>5, <1>6, <1>7

\* An input waits only while its client waits for the acknowledgement, and there
\* is room for it before.
LEMMA NoInputYet ==
    ASSUME NEW p, Phase(p), cpc[addr[p]] # "w_ack"
    PROVE  Unread(p) = {} /\ (cpc[addr[p]] = "turn" => Two(net[p]))
<1> USE DEF Stays, Heard, Unread
<1>1. \A n : ~HasPSH(From(p, Ack(n)).pkt.flags)
  BY DEF From, Ack, Bare, Packet, Datagram, HasPSH
<1>2. ~HasPSH(From(p, Fin).pkt.flags) /\ ~HasPSH(From(p, FinAck).pkt.flags)
  BY DEF From, Fin, FinAck, Bare, Packet, Datagram, HasPSH
<1>3. ASSUME NEW x, ~HasPSH(x.pkt.flags), net[p] = <<>> \/ net[p] = <<x>> \/ net[p] = Append(<<>>, x)
      PROVE  Unread(p) = {}
  BY <1>3, NoInputs, SilentQueues
<1>4. CASE Nudged(p) \/ Reminds(p) \/ HasMoved(p) \/ Leaves(p) \/ Waves(p) \/ Parts(p)
           \/ Prods(p) \/ Joins(p)
  <2>1. \E x : ~HasPSH(x.pkt.flags)
               /\ (net[p] = <<>> \/ net[p] = <<x>> \/ net[p] = Append(<<>>, x))
    <3>1. CASE Nudged(p) \/ Reminds(p)
      BY <1>1, <3>1 DEF Nudged, Reminds
    <3>2. CASE HasMoved(p) \/ Leaves(p) \/ Waves(p) \/ Parts(p)
      BY <1>1, <1>2, <3>2 DEF HasMoved, Moved, Leaves, Left, Waves, Parts, Parting
    <3>3. CASE Prods(p) \/ Joins(p)
      BY <1>1, <3>3 DEF Prods, Prodded, Joins, Joining
    <3> QED
      BY <1>4, <3>1, <3>2, <3>3
  <2>2. cpc[addr[p]] # "turn"
    BY <1>4, TurnPhases
  <2> QED
    BY <1>3, <2>1, <2>2
<1>5. ASSUME NEW q, NEW n, q = <<>> \/ q = <<From(p, Ack(n))>>, Told(p, q)
      PROVE  Unread(p) = {} /\ (cpc[addr[p]] = "turn" => Two(net[p]))
  <2>1. PICK a, d, e : /\ a = From(p, Ack(n)) /\ d = From(p, Ack(s_packet[p].seq))
                       /\ e = From(p, Fin)
    OBVIOUS
  <2>2. ~HasPSH(a.pkt.flags) /\ ~HasPSH(d.pkt.flags) /\ ~HasPSH(e.pkt.flags)
    BY <1>1, <1>2, <2>1
  <2>3. /\ net[p] \in {q, Append(q, d), Append(Append(q, d), e)}
        /\ cpc[addr[p]] = "turn" => net[p] = Append(q, d)
    BY <1>5, <2>1 DEF Told, Offered, OnItsWay, Answered, Left, HasTurn
  <2>4. Unread(p) = {}
    <3>1. CASE q = <<>>
      <4>1. InputsIn(q) = {} /\ InputsIn(Append(q, d)) = {} /\ InputsIn(Append(Append(q, d), e)) = {}
        BY <2>2, <3>1, NoInputs, SilentQueues
      <4> QED
        BY <2>3, <4>1
    <3>2. CASE q = <<a>>
      <4>1. InputsIn(q) = {} /\ InputsIn(Append(q, d)) = {} /\ InputsIn(Append(Append(q, d), e)) = {}
        BY <2>2, <3>2, SilentQueues
      <4> QED
        BY <2>3, <4>1
    <3> QED
      BY <1>5, <2>1, <3>1, <3>2
  <2>5. Two(Append(q, d))
    <3>1. One(q)
      BY <1>5 DEF One
    <3> QED
      BY <3>1, LongerQueue
  <2> QED
    BY <2>3, <2>4, <2>5
<1>6. CASE Informed(p) \/ InformedLate(p)
  BY <1>5, <1>6 DEF Informed, InformedLate
<1>7. CASE Plays(p)
  <2>1. CASE Told(p, <<>>)
    BY <1>5, <2>1
  <2>2. CASE HasTurn(p, <<>>, s_packet[p].seq, game)
    <3>1. net[p] = <<>>
      BY <2>2 DEF HasTurn
    <3> QED
      BY <3>1, NoInputs, ShortQueues
  <2> QED
    BY <1>7, <2>1, <2>2 DEF Plays
<1> QED
  BY <1>4, <1>6, <1>7 DEF Phase

\* No input is sent twice: what makes a client repeat itself never meets one that
\* waits for the acknowledgement of its input.
LEMMA NoRepeatedInput ==
    ASSUME NEW p, Phase(p), NEW c, c = addr[p], RecvUnexpected(c)
    PROVE  ~HasPSH(cs_packet[c].flags)
<1> USE DEF Stays, Heard
<1>0. net[c] # <<>> /\ ~Accepts(c, Incoming(c))
  BY DEF RecvUnexpected
<1>1. /\ \A n : ~HasPSH(Ack(n).flags)
      /\ ~HasPSH(Fin.flags) /\ ~HasPSH(Bare("SYN", MAX_SEQ).flags)
  BY DEF Ack, Fin, Bare, Packet, HasPSH
<1>2. ASSUME NEW d, NEW f, NEW k, NEW g, d = To(p, Packet(f, k, g)), Head(net[c]) = d
      PROVE  Incoming(c).flags = f /\ Incoming(c).seq = k
  BY <1>2 DEF Incoming, To, Datagram, Packet
<1>3. \A d, x : Head(<<d>>) = d /\ Head(<<d, x>>) = d
  BY Queues
<1>4. ~HasMoved(p)
  <2> SUFFICES ASSUME HasMoved(p) PROVE FALSE
    OBVIOUS
  <2>1. PICK j, d : j = r_packet[p].seq /\ d = To(p, Packet("ACK", j, NoPayload))
    OBVIOUS
  <2>2. cs_packet[c].seq = j /\ cpc[c] = "w_ack" /\ net[c] = <<d>>
    BY <1>0, <2>1 DEF HasMoved, Moved, Ack, Bare
  <2>3. Incoming(c).flags = "ACK" /\ Incoming(c).seq = j
    BY <1>2, <1>3, <2>1, <2>2
  <2> QED
    BY <1>0, <2>2, <2>3 DEF Accepts, FlagSet, AwaitedSeq
<1>5. ASSUME NEW q PROVE ~Told(p, q)
  <2> SUFFICES ASSUME Told(p, q) PROVE FALSE
    OBVIOUS
  <2>1. PICK k, f, d, a : /\ k = s_packet[p].seq /\ f = s_packet[p].flags
                          /\ d = To(p, Packet(f, k, game))
                          /\ a = To(p, Packet("ACK", cs_packet[c].seq, NoPayload))
    OBVIOUS
  <2>2. OnItsWay(p, q, k, f, game) /\ HasPSH(f)
    BY <1>0, <2>1 DEF Told, Offered, Answered, Left, HasTurn
  <2>3. NextSeq(cs_packet[c].seq) = k
    BY <2>2 DEF OnItsWay
  <2>4. CASE cpc[c] = "w_game" /\ net[c] = <<d>>
    <3>1. Incoming(c).flags = f /\ Incoming(c).seq = k
      BY <1>2, <1>3, <2>1, <2>4
    <3> QED
      BY <1>0, <2>2, <2>3, <2>4, <3>1 DEF Accepts, FlagSet, AwaitedSeq, HasPSH
  <2>5. CASE cpc[c] = "w_ack" /\ net[c] = <<a, d>>
    <3>1. Incoming(c).flags = "ACK" /\ Incoming(c).seq = cs_packet[c].seq
      BY <1>2, <1>3, <2>1, <2>5
    <3> QED
      BY <1>0, <2>5, <3>1 DEF Accepts, FlagSet, AwaitedSeq
  <2> QED
    BY <2>1, <2>2, <2>4, <2>5 DEF OnItsWay, Ack, Bare
<1>6. CASE Prods(p) \/ Joins(p)
  BY <1>0, <1>1, <1>6 DEF Prods, Prodded, Joins, Joining
<1>7. CASE Leaves(p) \/ Waves(p) \/ Parts(p)
  BY <1>0, <1>1, <1>7 DEF Leaves, Left, Waves, Parts, Parting
<1>8. ~Nudged(p) /\ ~Reminds(p)
  BY <1>0 DEF Nudged, Reminds
<1> QED
  BY <1>0, <1>4, <1>5, <1>6, <1>7, <1>8 DEF Phase, Informed, InformedLate, Plays, HasTurn

\* A step that leaves the inputs alone.
LEMMA CountFrame ==
    ASSUME TurnsCounted, addr' = addr, applied' = applied, turns' = turns,
           \A p \in Ports : InputsIn(net'[p]) = Unread(p)
    PROVE  TurnsCounted'
BY DEF TurnsCounted, Balanced, Unread

\* A client takes its turn: its input is the only one on its way.
LEMMA TurnCounted ==
    ASSUME Good, TurnsCounted, UNCHANGED serverVars, NEW c \in Clients, TakeTurn(c)
    PROVE  TurnsCounted'
<1>0. /\ IInv /\ SessionInv /\ Undisturbed /\ ClientsOK /\ NetTypeOK /\ ClientTypeOK
      /\ addr' = addr /\ applied' = applied
  BY GoodFacts DEF Good, SessionInv, serverVars
<1>1. PICK p \in Seated : c = addr[p] /\ peer[c] = p
  BY <1>0, TurnIsSeated DEF InTurn, TakeTurn
<1>2. /\ Linked(p) /\ Phase(p) /\ c # NoAddr
      /\ p \in Ports /\ p \in Endpoints /\ c \in Endpoints /\ c # p /\ p \in bound
      /\ SockBuf \in Nat /\ SockBuf >= 3 /\ Buffers(net)
  BY <1>0, <1>1, SeatedLinked, LinkFacts DEF Linked, NetTypeOK, Buffers
<1>3. Unread(p) = {} /\ Two(net[p])
  BY <1>1, <1>2, NoInputYet DEF TakeTurn
<1>4. applied[p] = turns[c]
  BY <1>1, <1>2, <1>3 DEF TurnsCounted, Balanced
<1>5. \E input, k :
        /\ input \in Inputs
        /\ input.id = turns[c] + 1
        /\ net' = Sent(net, c, p, Packet("PSH", k, input))
  <2>1. PICK cell \in Reach[view[c].cursor] \cup {view[c].cursor}, btn \in BOOLEAN :
          net' = Sent(net, c, p, Packet("PSH", NextSeq(cr_seq[c]),
                          [cursor |-> cell, btn |-> btn, id |-> turns[c] + 1]))
    BY <1>1 DEF TakeTurn, SendThen
  <2>2. cell \in Cells /\ turns[c] + 1 \in 0 .. MaxTurns
    BY <1>0, ClientAssumption, PacketAssumption DEF ClientTypeOK, Games, TakeTurn
  <2> DEFINE input == [cursor |-> cell, btn |-> btn, id |-> turns[c] + 1]
  <2>3. input \in Inputs /\ input.id = turns[c] + 1
    BY <2>2 DEF Inputs
  <2> QED
    BY <2>1, <2>3
<1>6. PICK input, k, d :
        /\ input \in Inputs
        /\ input.id = turns[c] + 1
        /\ net' = Sent(net, c, p, Packet("PSH", k, input))
        /\ d = Datagram(c, Packet("PSH", k, input))
  BY <1>5
<1>7. /\ HasPSH(d.pkt.flags) /\ d.pkt.payload = input /\ input # Freed
  BY <1>6, PayloadAssumption DEF Datagram, Packet, HasPSH
<1>8. /\ net'[p] = Append(net[p], d)
      /\ \A e \in Endpoints \ {p} : net'[e] = net[e]
  <2>1. Len(net[p]) < SockBuf
    BY <1>2, <1>3, ShortQueues
  <2>2. PICK n, pkt : n = net /\ pkt = Packet("PSH", k, input)
    OBVIOUS
  <2>3. DOMAIN n = Endpoints /\ p \in bound /\ Len(n[p]) < SockBuf
    BY <1>2, <2>1, <2>2 DEF Buffers
  <2>4. /\ Sent(n, c, p, pkt)[p] = Append(n[p], Datagram(c, pkt))
        /\ \A e \in Endpoints \ {p} : Sent(n, c, p, pkt)[e] = n[e]
    BY <1>2, <2>3 DEF Sent
  <2> QED
    BY <1>6, <2>2, <2>4
<1>9. InputsIn(net'[p]) = {d}
  <2>1. PICK S : S = DatagramsTo(p) \cup {d}
    OBVIOUS
  <2>2. net[p] \in Seq(S) /\ d \in S
    <3>1. net[p] \in Seq(DatagramsTo(p))
      BY <1>2 DEF Buffers
    <3> HIDE DEF DatagramsTo
    <3> QED
      BY <2>1, <3>1
  <2> QED
    BY <1>3, <1>7, <1>8, <2>2, InputsAppended DEF Unread
<1>10. /\ turns'[c] = turns[c] + 1
       /\ \A e \in Clients \ {c} : turns'[e] = turns[e]
  BY <1>0 DEF TakeTurn, ClientTypeOK
<1>11. \A q \in Ports \ {p} : /\ addr[q] # c /\ InputsIn(net'[q]) = Unread(q)
                              /\ addr[q] \in Clients \cup {NoAddr}
  BY <1>0, <1>1, <1>2, <1>8, GoodFacts DEF ClientsOK, SingleSeats, Endpoints, Unread, ServerTypeOK
<1>12. Balanced(p)'
  BY <1>0, <1>1, <1>4, <1>6, <1>7, <1>9, <1>10 DEF Balanced, Unread
<1>13. \A e \in Clients : (\A q \in Ports : addr'[q] # e) => turns'[e] = 0
  BY <1>0, <1>1, <1>2, <1>10 DEF TurnsCounted
<1>14. \A q \in Ports : IF addr'[q] = NoAddr THEN applied'[q] = 0 ELSE Balanced(q)'
  <2> SUFFICES ASSUME NEW q \in Ports, q # p
               PROVE  IF addr'[q] = NoAddr THEN applied'[q] = 0 ELSE Balanced(q)'
    BY <1>0, <1>1, <1>2, <1>12
  <2>1. CASE addr[q] = NoAddr
    BY <1>0, <2>1 DEF TurnsCounted
  <2>2. CASE addr[q] # NoAddr
    <3>1. turns'[addr'[q]] = turns[addr[q]] /\ Unread(q)' = Unread(q) /\ Balanced(q)
      BY <1>0, <1>10, <1>11, <2>2 DEF Unread, TurnsCounted
    <3> QED
      BY <1>0, <2>2, <3>1 DEF Balanced
  <2> QED
    BY <2>1, <2>2
<1> QED
  BY <1>13, <1>14 DEF TurnsCounted

\* An input is read: it is the next one of its client.
LEMMA InputCounted ==
    ASSUME Good, AddressesOK, TurnsCounted, RecvMove, UNCHANGED clientVars
    PROVE  /\ TurnsCounted'
           /\ applied'[rx] = applied[rx] + 1
           /\ \A q \in Ports \ {rx} : applied'[q] = applied[q] /\ s_packet'[q] = s_packet[q]
<1>0. /\ IInv /\ SessionInv /\ Undisturbed /\ NetTypeOK /\ ServerTypeOK
      /\ turns' = turns /\ Seated \subseteq Ports
      /\ pc = "recv" /\ net[rx] # <<>> /\ HasPSH(Arrived.flags)
  BY GoodFacts DEF Good, clientVars, RecvMove, Receives, IsMove
<1>1. PICK x, c, d : x = rx /\ c = addr[x] /\ d = From(x, cs_packet[c])
  OBVIOUS
<1>2. net[x] = <<d>> /\ x \in Seated
  BY <1>0, <1>1, InputByPlayer
<1>3. /\ Linked(x) /\ c # NoAddr /\ c \in Clients /\ x \in Ports
      /\ x \in Endpoints /\ c \in Endpoints /\ c # x /\ c \notin Ports
  BY <1>0, <1>1, <1>2, SeatedLinked, LinkFacts, EndpointKinds DEF Linked
<1>4. Head(net[x]) = d /\ Tail(net[x]) = <<>> /\ Arrived = d.pkt /\ d.src = c
  BY <1>1, <1>2, Queues DEF Arrived, From, Datagram
<1>5. Unread(x) = {d}
  <2>1. ToSet(<<d>>) = {d}
    <3>1. DOMAIN <<d>> = {1} /\ <<d>>[1] = d
      OBVIOUS
    <3> QED
      BY <3>1 DEF ToSet
  <2> QED
    BY <1>0, <1>2, <1>4, <2>1 DEF Unread, InputsIn
<1>6. /\ applied[x] + 1 = turns[c]
      /\ d.pkt.payload # Freed /\ d.pkt.payload.id = turns[c]
  BY <1>1, <1>3, <1>5 DEF TurnsCounted, Balanced
<1>7. /\ addr' = addr
      /\ \E input \in Readings(d.pkt.payload) : applied' = [applied EXCEPT ![x] = input.id]
      /\ \E ack : /\ net' = Sent(Taken(x), x, c, ack)
                  /\ s_packet' = [s_packet EXCEPT ![x] = ack]
  BY <1>0, <1>1, <1>4 DEF RecvMove, Receives, ServerTypeOK
<1>8. applied' = [applied EXCEPT ![x] = turns[c]]
  BY <1>6, <1>7 DEF Readings
<1>9. /\ applied'[x] = turns[c]
      /\ \A q \in Ports \ {x} : applied'[q] = applied[q] /\ s_packet'[q] = s_packet[q]
  BY <1>0, <1>3, <1>7, <1>8 DEF ServerTypeOK
<1>10. net'[x] = <<>> /\ \A q \in Ports \ {x} : net'[q] = net[q]
  <2>1. PICK n, ack : n = Taken(x) /\ net' = Sent(n, x, c, ack)
    BY <1>7
  <2>2. DOMAIN n = Endpoints /\ n[x] = <<>> /\ \A o \in Endpoints \ {x} : n[o] = net[o]
    BY <1>0, <1>3, <1>4, <2>1, TakenFrom
  <2>3. \A q \in Endpoints \ {c} : net'[q] = n[q]
    BY <1>3, <2>1, <2>2 DEF Sent
  <2> QED
    BY <1>3, <2>2, <2>3 DEF Endpoints
<1>11. Unread(x)' = {}
  BY <1>10, NoInputs DEF Unread
<1>12. \A q \in Ports : IF addr'[q] = NoAddr THEN applied'[q] = 0 ELSE Balanced(q)'
  <2> SUFFICES ASSUME NEW q \in Ports
               PROVE  IF addr'[q] = NoAddr THEN applied'[q] = 0 ELSE Balanced(q)'
    OBVIOUS
  <2>1. CASE q = x
    BY <1>0, <1>1, <1>3, <1>7, <1>9, <1>11, <2>1 DEF Balanced
  <2>2. CASE q # x
    <3>1. Unread(q)' = Unread(q)
      BY <1>10, <2>2 DEF Unread
    <3> QED
      BY <1>0, <1>7, <1>9, <2>2, <3>1 DEF TurnsCounted, Balanced
  <2> QED
    BY <2>1, <2>2
<1>13. \A e \in Clients : (\A q \in Ports : addr'[q] # e) => turns'[e] = 0
  BY <1>0, <1>7 DEF TurnsCounted
<1>14. TurnsCounted'
  BY <1>12, <1>13 DEF TurnsCounted
<1>15. applied'[x] = applied[x] + 1
  BY <1>6, <1>9
<1> QED
  BY <1>1, <1>9, <1>14, <1>15

\* The server reads something else.
LEMMA OthersCounted ==
    ASSUME Good, SessionInv', AddressesOK, TurnsCounted, SvReceive, ~RecvMove,
           UNCHANGED clientVars
    PROVE  TurnsCounted'
<1>0. /\ IInv /\ SessionInv /\ Undisturbed /\ NetTypeOK /\ ServerTypeOK /\ ServerInv
      /\ turns' = turns /\ cpc' = cpc /\ applied' = applied /\ Seated \subseteq Ports
      /\ pc = "recv" /\ net[rx] # <<>> /\ rx \in Seated
  BY GoodFacts DEF Good, clientVars, SvReceive, RecvDuplicate, RecvBadAck, RecvFinAck, RecvOther,
     Receives, ServerInv, PointersOK
<1>1. PICK x, c : x = rx /\ c = addr[x]
  OBVIOUS
<1>2. /\ Linked(x) /\ Phase(x) /\ c # NoAddr /\ c \in Clients /\ x \in Ports
      /\ x \in Endpoints /\ c \in Endpoints /\ c # x /\ c \notin Ports
  BY <1>0, <1>1, SeatedLinked, LinkFacts, EndpointKinds DEF Linked
<1>3. Head(net[x]).src = c
  BY <1>0, <1>1, <1>2, HeadIsElement DEF AddressesOK
<1>4. addr' = addr
  BY <1>0, <1>1, <1>3 DEF SvReceive, RecvDuplicate, RecvBadAck, RecvFinAck, RecvOther, Receives,
     ServerTypeOK
<1>5. CASE RecvFinAck
  <2>1. conns' = RemoveAt(conns, Position(x)) /\ net' = Closed(net, {x})
    BY <1>1, <1>5 DEF RecvFinAck
  <2>2. x \notin Seated'
    <3>1. conns \in Seq(Ports) /\ IsInjective(conns)
      BY <1>0 DEF ServerTypeOK, ServerInv, ListOK
    <3>2. Position(x) \in 1 .. Len(conns) /\ conns[Position(x)] = x
      BY <1>0, <1>1, <3>1, PositionOf
    <3>3. ToSet(RemoveAt(conns, Position(x))) = ToSet(conns) \ {x}
      BY <3>1, <3>2, RemoveOne
    <3> QED
      BY <2>1, <3>3 DEF Seated
  <2>3. Gone(x)'
    BY <1>1, <1>2, <1>4, <2>2 DEF SessionInv, ClientsOK
  <2>4. cpc[c] # "w_ack"
    BY <1>0, <1>1, <1>4, <2>3 DEF Gone
  <2>5. Unread(x) = {}
    BY <1>1, <1>2, <2>4, NoInputYet
  <2>6. net'[x] = <<>> /\ \A q \in Ports \ {x} : net'[q] = net[q]
    BY <1>2, <2>1 DEF Closed, Endpoints
  <2>7. \A q \in Ports : InputsIn(net'[q]) = Unread(q)
    BY <2>5, <2>6, NoInputs DEF Unread
  <2> QED
    BY <1>0, <1>4, <2>7, CountFrame
<1>6. CASE ~RecvFinAck
  <2>1. ~HasPSH(Arrived.flags)
    <3> SUFFICES ASSUME HasPSH(Arrived.flags) PROVE FALSE
      OBVIOUS
    <3>1. IsMove
      BY <1>0, InputByPlayer
    <3> QED
      BY <1>6, <3>1 DEF IsMove, IsDuplicate, IsBadAck, HasPSH, SvReceive, RecvDuplicate,
         RecvBadAck, RecvOther
  <2>2. net' = Taken(x) \/ \E pkt : net' = Sent(Taken(x), x, c, pkt)
    <3>1. CASE RecvBadAck
      <4>1. pc' # "crashed"
        BY DEF SessionInv, Stopped
      <4> QED
        BY <1>1, <1>3, <3>1, <4>1 DEF RecvBadAck, Exit, Goto
    <3> QED
      BY <1>1, <1>6, <3>1 DEF SvReceive, RecvDuplicate, RecvOther
  <2>3. SameInputs(Taken(x))
    BY <1>0, <1>1, <1>2, <2>1, SilentRead DEF Arrived
  <2>4. \A q \in Ports : net'[q] = Taken(x)[q]
    <3>1. PICK n : n = Taken(x)
      OBVIOUS
    <3>2. DOMAIN n = Endpoints
      BY <1>0, <1>2, <3>1, TakenFrom
    <3>3. \A pkt : \A q \in Ports : Sent(n, x, c, pkt)[q] = n[q]
      BY <1>2, <3>2 DEF Sent, Endpoints
    <3> QED
      BY <2>2, <3>1, <3>3
  <2>5. \A q \in Ports : InputsIn(net'[q]) = Unread(q)
    BY <2>3, <2>4 DEF SameInputs
  <2> QED
    BY <1>0, <1>4, <2>5, CountFrame
<1> QED
  BY <1>5, <1>6

\* A client is seated: it has sent nothing but its request.
LEMMA NewcomerCounted ==
    ASSUME Good, TurnsCounted, SvAccept, UNCHANGED clientVars
    PROVE  TurnsCounted'
<1>0. /\ IInv /\ SessionInv /\ Undisturbed /\ NetTypeOK /\ ServerTypeOK /\ ServerInv /\ ListOK
      /\ ClientsOK /\ turns' = turns /\ applied' = applied /\ Main \in Endpoints
      /\ net[Main] # <<>> /\ Main \notin Ports
  BY GoodFacts, EndpointKinds DEF Good, SessionInv, clientVars, SvAccept, ServerInv, AcceptOK,
     Endpoints, Main, Ports
<1>1. PICK p, c, pkt :
        /\ p \in Ports
        /\ c = Head(net[Main]).src /\ addr[p] = NoAddr /\ addr' = [addr EXCEPT ![p] = c]
        /\ net' = Sent(Taken(Main), p, c, pkt) /\ Asks(Head(net[Main]))
  BY DEF SvAccept, IsNextPort, Asks
<1>2. c \in Clients /\ c \in Endpoints /\ c \notin Ports /\ c # NoAddr
  BY <1>0, <1>1, HeadIsElement, EndpointKinds DEF DatagramsTo, Endpoints
<1>3. \A q \in Ports : addr[q] # c
  <2>1. PICK m : m = net[Main]
    OBVIOUS
  <2>2. m \in Seq(DatagramsTo(Main)) /\ m # <<>>
    BY <1>0, <2>1 DEF NetTypeOK
  <2>3. 1 \in DOMAIN m /\ Head(m) = m[1]
    BY <2>2, HeadTailProperties, LenProperties, EmptySeq
  <2> QED
    BY <1>0, <1>1, <2>1, <2>3 DEF ClientsOK
<1>4. turns[c] = 0
  BY <1>2, <1>3 DEF TurnsCounted
<1>5. \A q \in Ports : net'[q] = net[q]
  <2>1. PICK n : n = Taken(Main)
    OBVIOUS
  <2>2. DOMAIN n = Endpoints /\ \A o \in Endpoints \ {Main} : n[o] = net[o]
    BY <1>0, <2>1, TakenFrom
  <2>3. \A q \in Ports : Sent(n, p, c, pkt)[q] = n[q]
    BY <1>2, <2>2 DEF Sent, Endpoints
  <2> QED
    BY <1>0, <1>1, <2>1, <2>2, <2>3 DEF Endpoints
<1>6. addr'[p] = c /\ \A q \in Ports \ {p} : addr'[q] = addr[q]
  BY <1>0, <1>1 DEF ServerTypeOK
<1>7. Balanced(p)'
  <2>1. p \notin Seated
    BY <1>0, <1>1 DEF ListOK
  <2>2. p \in Ports /\ net[p] = <<>> /\ applied[p] = 0
    BY <1>0, <1>1, <2>1 DEF ClientsOK, TurnsCounted
  <2>3. Unread(p)' = {}
    BY <1>5, <2>2, NoInputs DEF Unread
  <2> QED
    BY <1>0, <1>4, <1>6, <2>2, <2>3 DEF Balanced
<1>8. \A q \in Ports : IF addr'[q] = NoAddr THEN applied'[q] = 0 ELSE Balanced(q)'
  <2> SUFFICES ASSUME NEW q \in Ports, q # p
               PROVE  IF addr'[q] = NoAddr THEN applied'[q] = 0 ELSE Balanced(q)'
    BY <1>2, <1>6, <1>7
  <2>1. Unread(q)' = Unread(q)
    BY <1>5 DEF Unread
  <2> QED
    BY <1>0, <1>6, <2>1 DEF TurnsCounted, Balanced
<1>9. \A e \in Clients : (\A q \in Ports : addr'[q] # e) => turns'[e] = 0
  <2> SUFFICES ASSUME NEW e \in Clients, \A q \in Ports : addr'[q] # e PROVE turns[e] = 0
    BY <1>0
  <2>1. e # NoAddr
    BY EndpointKinds DEF Endpoints
  <2>2. \A q \in Ports : addr[q] # e
    BY <1>1, <1>6, <2>1
  <2> QED
    BY <2>2 DEF TurnsCounted
<1> QED
  BY <1>8, <1>9 DEF TurnsCounted

\* The rest of the server writes to clients only.
LEMMA SilentServer ==
    ASSUME Good, TurnsCounted, ServerStep, ~SvReceive, ~SvAccept, UNCHANGED clientVars
    PROVE  TurnsCounted'
<1>0. /\ IInv /\ SessionInv /\ Undisturbed /\ NetTypeOK /\ ServerTypeOK /\ ServerInv
      /\ turns' = turns /\ signalled = "no" /\ ~Interrupted /\ ~UseAfterFree
      /\ DOMAIN net = Endpoints /\ Main \in Endpoints /\ Main \notin Ports
      /\ Ports \subseteq Endpoints
  BY GoodFacts, NoUseAfterFree DEF Good, clientVars, NetTypeOK, Endpoints, Main, Ports
<1>1. addr' = addr /\ applied' = applied
  BY <1>0 DEF ServerStep, HandleReceipt, HandleBroadcast, Select, SvDeny, AfterReceipt, EndLoop,
     ReceiptRecv, ReceiptSkip, HandleUnicast, NoUnicast, Unicasted, NextClient, SvDisconnect,
     BroadcastStep, BroadcastNext, BroadcastEnd
<1>2. CASE SvDeny
  <2>1. \A o \in Endpoints \ {Main} : net'[o] = net[o]
    BY <1>0, <1>2, TakenFrom DEF SvDeny
  <2> QED
    BY <1>0, <1>1, <2>1, CountFrame DEF Unread
<1>3. CASE HandleUnicast \/ BroadcastStep \/ SvDisconnect
  <2>1. PICK p, c : p = curr /\ c = addr[p]
    OBVIOUS
  <2>2. p \in Seated
    BY <1>0, <1>3, <2>1 DEF HandleUnicast, IsFree, Seated, BroadcastStep, SvDisconnect, ServerInv,
       PointersOK
  <2>3. c \notin Ports
    BY <1>0, <2>1, <2>2, SeatedLinked, EndpointKinds DEF Linked
  <2>4. \A n, pkt : DOMAIN n = Endpoints =>
           /\ DOMAIN Sent(n, p, c, pkt) = Endpoints
           /\ \A q \in Ports : Sent(n, p, c, pkt)[q] = n[q]
    BY <1>0, <2>3 DEF Sent
  <2>5. \/ \E pkt : net' = Sent(net, p, c, pkt)
        \/ \E pkt, pkt2 : net' = Sent(Sent(net, p, c, pkt), p, c, pkt2)
    BY <1>3, <2>1 DEF HandleUnicast, BroadcastStep, SvDisconnect, Transmit
  <2>6. \A q \in Ports : net'[q] = net[q]
    BY <1>0, <2>4, <2>5
  <2> QED
    BY <1>0, <1>1, <2>6, CountFrame DEF Unread
<1>4. CASE net' = net
  BY <1>0, <1>1, <1>4, CountFrame DEF Unread
<1> QED
  BY <1>0, <1>2, <1>3, <1>4 DEF ServerStep, HandleReceipt, HandleBroadcast, Select, AfterReceipt,
     EndLoop, ReceiptRecv, ReceiptSkip, NoUnicast, Unicasted, NextClient,
     BroadcastNext, BroadcastEnd, netVars

\* Only a turn counts.
LEMMA TurnsStay ==
    ASSUME NEW c \in Clients, ClientStep(c), ~TakeTurn(c), SignalClients = {}
    PROVE  turns' = turns
BY DEF ClientStep, Connect, ClientRecv, RecvSynAck, RecvGame, RecvAck, RecvDisconnectAck,
   RecvFin, RecvLastFin, RecvUnexpected, Gets, Timer, TimeoutResend, GiveUp, GiveUpConnect,
   GiveUpGame, GiveUpAck, GiveUpFinAck, GiveUpFin, GiveUpLinger, Expires

\* The other steps of a client.
LEMMA StepCounted ==
    ASSUME Good, SessionInv', TurnsCounted, UNCHANGED serverVars, NEW c \in Clients,
           ClientStep(c), ~TakeTurn(c)
    PROVE  TurnsCounted'
<1>0. /\ IInv /\ SessionInv /\ Undisturbed /\ TypeOK /\ NetTypeOK /\ ServerTypeOK /\ ClientsOK
      /\ addr' = addr /\ applied' = applied /\ conns' = conns /\ Seated' = Seated
      /\ Ports \subseteq Endpoints /\ c \notin Ports /\ Main \notin Ports /\ c # NoAddr
  BY GoodFacts, EndpointKinds DEF Good, SessionInv, serverVars, Endpoints, Seated, IInv
<1>1. turns' = turns
  BY <1>0, TurnsStay DEF Undisturbed
<1> SUFFICES \A q \in Ports : InputsIn(net'[q]) = Unread(q)
  BY <1>0, <1>1, CountFrame
<1>2. CASE \A q \in Ports : addr[q] # c
  <2>1. Reaches(c, net, net', Main)
    BY <1>2, OutsideMoves
  <2>2. \A q \in Ports : net'[q] = net[q]
    BY <1>0, <2>1 DEF Reaches
  <2> QED
    BY <2>2 DEF Unread
<1>3. ASSUME NEW p \in Ports, p \notin Seated, c = addr[p]
      PROVE  \A q \in Ports : InputsIn(net'[q]) = Unread(q)
  <2>1. Gone(p)
    BY <1>0, <1>3 DEF ClientsOK
  <2>2. cpc[c] # "start" /\ net[c] = <<>> /\ peer[c] = p
    BY <1>3, <2>1 DEF Gone
  <2>3. Reaches(c, net, net', p)
    <3>1. /\ peer'[c] = peer[c] \/ (net[c] # <<>> /\ peer'[c] = Sender(c))
          /\ Reaches(c, net, net', WritesTo(c))
      BY <1>0, ClientReach
    <3> QED
      BY <2>2, <3>1 DEF WritesTo
  <2>4. \A q \in Ports \ {p} : net'[q] = net[q]
    BY <1>0, <2>3 DEF Reaches
  <2>5. net[p] = <<>> /\ net'[p] = <<>>
    <3>1. ClientsOK'
      BY DEF SessionInv
    <3> QED
      BY <1>0, <1>3, <3>1 DEF ClientsOK
  <2> QED
    BY <2>4, <2>5 DEF Unread
<1>4. ASSUME NEW p \in Seated, c = addr[p]
      PROVE  \A q \in Ports : InputsIn(net'[q]) = Unread(q)
  <2>1. Phase(p) /\ p \in Ports
    BY <1>0, <1>4, SeatedLinked DEF Linked
  <2>2. cpc[c] # "start"
    BY <1>4, <2>1, PhaseAlive DEF Waits
  <2>3. CASE ClientRecv(c)
    <3>1. RecvUnexpected(c) => ~HasPSH(cs_packet[c].flags)
      BY <1>4, <2>1, NoRepeatedInput
    <3>2. SameInputs(net')
      BY <1>0, <2>3, <3>1, ReadsSilently
    <3> QED
      BY <3>2 DEF SameInputs
  <2>4. CASE Timer(c)
    <3>1. PICK a : a = From(p, Ack(r_packet[p].seq))
      OBVIOUS
    <3>2. /\ net[p] = <<>> /\ net'[p] = <<a>>
          /\ \A e \in Endpoints \ {p} : net'[e] = net[e]
      BY <1>4, <2>4, <3>1, OnlyReminders
    <3>3. ~HasPSH(a.pkt.flags)
      BY <3>1 DEF From, Ack, Bare, Packet, Datagram, HasPSH
    <3>4. InputsIn(<<a>>) = {}
      BY <3>3, SilentQueues
    <3> QED
      BY <1>0, <3>2, <3>4, NoInputs DEF Unread
  <2> QED
    BY <1>0, <2>2, <2>3, <2>4 DEF ClientStep, Connect, Undisturbed
<1> QED
  BY <1>2, <1>3, <1>4

LEMMA TurnsCountedKept ==
    ASSUME Undisturbed
    PROVE  IInv /\ SessionInv /\ SessionInv' /\ AddressesOK /\ TurnsCounted /\ [Next]_vars
             => TurnsCounted'
<1> SUFFICES ASSUME IInv, SessionInv, SessionInv', AddressesOK, TurnsCounted, [Next]_vars
             PROVE  TurnsCounted'
  OBVIOUS
<1>1. Good
  BY DEF Good
<1>2. CASE ServerStep /\ UNCHANGED clientVars
  BY <1>1, <1>2, InputCounted, OthersCounted, NewcomerCounted, SilentServer
<1>3. CASE \E c \in Clients : ClientStep(c) /\ UNCHANGED serverVars
  BY <1>1, <1>3, TurnCounted, StepCounted
<1>4. \A e \in Endpoints : ~NetworkFault(e)
  BY DEF Undisturbed, NetworkFault, Lose, Duplicate, Reorder, Fault
<1>5. CASE UNCHANGED vars
  BY <1>5, CountFrame DEF vars, netVars, serverVars, clientVars, Unread
<1> QED
  BY <1>2, <1>3, <1>4, <1>5 DEF Next, Undisturbed

LEMMA NothingSentYet == Init => TurnsCounted
<1> SUFFICES ASSUME Init PROVE TurnsCounted
  OBVIOUS
<1>1. \A p \in Ports : addr[p] = NoAddr /\ applied[p] = 0
  BY DEF Init, ServerInit
<1>2. \A c \in Clients : turns[c] = 0
  BY DEF Init, ClientInit
<1> QED
  BY <1>1, <1>2 DEF TurnsCounted

-----------------------------------------------------------------------------
(* What the players rely on.                                               *)

\* Whatever is read, the records of the clients and the payloads that the server
\* uses are alive: UseAfterFree and the freed payload of RecvBadAck are out of
\* reach (server.c handle_receipt, handle_unicast and sv_process).
THEOREM NothingDeadIsUsed ==
    ASSUME Undisturbed
    PROVE  Spec /\ []NoWrap => []NoDeadMemory
<1>1. SessionInv => NoDeadMemory
  BY DEF SessionInv, Stopped, NoDeadMemory
<1> QED
  BY <1>1, SessionHolds, PTL

\* handle_broadcast gives the controller to one client at a time, and takes the
\* next round only once its input came back.
THEOREM OneHoldsTheTurn ==
    ASSUME Undisturbed
    PROVE  Spec /\ []NoWrap => []OneTurnHolder
<1>1. IInv /\ SessionInv => OneTurnHolder
  <2> SUFFICES ASSUME IInv, SessionInv, NEW c \in Clients, NEW d \in Clients,
                      InTurn(c), InTurn(d)
               PROVE  c = d
    BY DEF OneTurnHolder
  <2>1. PICK p \in Seated : c = addr[p] /\ Position(p) - 1 = TurnIndex(game.turn)
    BY TurnIsSeated
  <2>2. PICK q \in Seated : d = addr[q] /\ Position(q) - 1 = TurnIndex(game.turn)
    BY TurnIsSeated
  <2>3. Good /\ ServerTypeOK /\ ListOK /\ MAX_CLIENTS = 2
    BY GoodFacts DEF Good
  <2>4. /\ Position(p) \in {1, 2} /\ Position(q) \in {1, 2}
        /\ Position(p) = Position(q) => p = q
    BY <2>3, TwoSeats
  <2> QED
    BY <2>1, <2>2, <2>4
<1> QED
  BY <1>1, SessionHolds, Inductive, PTL

\* The board that the client decides on is the server's, and the mark that
\* sv_process will set for it is its own.
THEOREM TheTurnIsCurrent ==
    ASSUME Undisturbed
    PROVE  Spec /\ []NoWrap => []TurnHolderUpToDate
<1>1. IInv /\ SessionInv => TurnHolderUpToDate
  BY TurnIsSeated DEF TurnHolderUpToDate, Seated
<1> QED
  BY <1>1, SessionHolds, Inductive, PTL

\* sv_process applies an input for the player whose turn it is, though it never
\* asks who sent it.
THEOREM InputsAreInTurn ==
    ASSUME Undisturbed
    PROVE  Spec /\ []NoWrap => OnlyTurnHolderMoves
<1>1. IInv /\ SessionInv /\ [Next]_vars =>
        [\A p \in Ports : applied'[p] # applied[p] =>
             Position(p) - 1 = TurnIndex(game.turn)]_vars
  <2> SUFFICES ASSUME IInv, SessionInv, [Next]_vars, NEW p \in Ports, applied'[p] # applied[p]
               PROVE  Position(p) - 1 = TurnIndex(game.turn)
    OBVIOUS
  <2>1. Good
    BY DEF Good
  <2>2. RecvMove
    BY DEF Next, vars, serverVars, ServerStep, SvReceive, HandleReceipt,
       HandleBroadcast, Select, SvAccept, SvDeny, AfterReceipt, RecvDuplicate, RecvBadAck,
       RecvFinAck, RecvOther, ReceiptRecv, ReceiptSkip, UseAfterFree, HandleUnicast,
       NoUnicast, Unicasted, NextClient, SvDisconnect, BroadcastStep, BroadcastNext,
       BroadcastEnd, SvSignal, SignalInCall, SignalBetweenCalls, EndLoop, Receives
  <2>3. /\ pc = "recv" /\ net[rx] # <<>> /\ HasPSH(Arrived.flags)
        /\ \E i : applied' = [applied EXCEPT ![rx] = i]
    BY <2>2 DEF RecvMove, Receives, IsMove
  <2>4. p = rx
    BY <2>3 DEF IInv, TypeOK, ServerTypeOK
  <2> QED
    BY <2>1, <2>3, <2>4, InputByPlayer
<1> QED
  BY <1>1, SessionHolds, Inductive, PTL DEF Spec, OnlyTurnHolderMoves

\* Nobody marks a cell of a game that is over, though only the clients ask
\* isGameOver: a step of the system is a step of fair play, or changes neither
\* board nor turn.
THEOREM PlaysFair ==
    ASSUME Undisturbed
    PROVE  Spec /\ []NoWrap => ImplementsFairPlay
<1>1. IInv /\ SessionInv /\ [Next]_vars => [T!FairPlayNext]_T!gameVars
  <2> SUFFICES ASSUME IInv, SessionInv, [Next]_vars
               PROVE  T!FairPlayNext \/ UNCHANGED T!gameVars
    OBVIOUS
  <2>1. CASE RecvMove
    <3>1. pc = "recv" /\ net[rx] # <<>> /\ HasPSH(Arrived.flags)
      BY <2>1 DEF RecvMove, Receives, IsMove
    <3>2. ~Over
      BY <3>1, InputByPlayer DEF Good
    <3>3. T!Next \/ UNCHANGED T!gameVars
      BY <2>1, MoveRefines
    <3>4. T!IsGameOver(game.trackGame) <=> IsGameOver(game.trackGame)
      BY DEF T!IsGameOver, IsGameOver, T!CompleteLines, CompleteLines, T!CompletedBy,
         CompletedBy, T!IsGridFull, IsGridFull, T!Blank, Blank
    <3> QED
      BY <3>2, <3>3, <3>4 DEF T!Next, T!FairPlayNext, Over
  <2>2. CASE EndLoop /\ game' = ResetGame
    BY <2>2, ResetRefines DEF T!FairPlayNext
  <2>3. CASE ~RecvMove /\ ~(EndLoop /\ game' = ResetGame)
    <3>1. game' = game
      BY <2>3 DEF Next, vars, serverVars, ServerStep, SvReceive, HandleReceipt,
         HandleBroadcast, Select, SvAccept, SvDeny, AfterReceipt, RecvDuplicate, RecvBadAck,
         RecvFinAck, RecvOther, ReceiptRecv, ReceiptSkip, UseAfterFree, HandleUnicast,
         NoUnicast, Unicasted, NextClient, SvDisconnect, BroadcastStep, BroadcastNext,
         BroadcastEnd, SvSignal, SignalInCall, SignalBetweenCalls, EndLoop
    <3> QED
      BY <3>1 DEF T!gameVars
  <2> QED
    BY <2>1, <2>2, <2>3
<1> QED
  BY <1>1, InitRefines, SessionHolds, Inductive, PTL DEF Spec, ImplementsFairPlay, T!FairPlay

\* What is known of the ends that were seen is inductive in a session.
LEMMA EndsKnown ==
    ASSUME Undisturbed, TwoClients
    PROVE  Spec /\ []NoWrap => []EndsAgree
<1>1. Init => EndsAgree
  <2> SUFFICES ASSUME Init, NEW c \in Clients PROVE ~SawTheEnd(c)
    BY DEF EndsAgree, SeenAndLeft, AgreeOnTheEnd, SawTheEnd
  <2> QED
    BY NewGameIsOpen DEF Init, ClientInit, SawTheEnd
<1>2. IInv /\ SessionInv /\ EndsAgree /\ [Next]_vars => EndsAgree'
  <2> SUFFICES ASSUME IInv, SessionInv, EndsAgree, [Next]_vars PROVE EndsAgree'
    OBVIOUS
  <2>1. Good
    BY DEF Good
  <2>2. CASE ServerStep /\ UNCHANGED clientVars
    BY <2>1, <2>2, EndsAgreeOnServer
  <2>3. CASE \E c \in Clients : ClientStep(c) /\ UNCHANGED serverVars
    BY <2>1, <2>3, EndsAgreeOnClients
  <2>4. \A e \in Endpoints : ~NetworkFault(e)
    BY DEF Undisturbed, NetworkFault, Lose, Duplicate, Reorder, Fault
  <2>5. CASE UNCHANGED vars
    BY <2>5 DEF vars, clientVars, serverVars, EndsAgree, SeenAndLeft, AgreeOnTheEnd,
       SawTheEnd, Over
  <2> QED
    BY <2>2, <2>3, <2>4, <2>5 DEF Next, Undisturbed
<1> QED
  BY <1>1, <1>2, SessionHolds, Inductive, PTL DEF Spec

\* Two players that saw an end saw the same one: whatever the server goes on to
\* play, it starts once both have left (server.c:216, cl_messaging).
THEOREM PlayersAgree ==
    ASSUME Undisturbed, TwoClients
    PROVE  Spec /\ []NoWrap => []AgreeOnTheEnd
<1>1. EndsAgree => AgreeOnTheEnd
  BY DEF EndsAgree
<1> QED
  BY <1>1, EndsKnown, PTL

\* A client that saw the end of a game is on its way out, and as long as the
\* server's board is over, it is the one that was seen (client.c:445,
\* server.c:240).
THEOREM EndsAreFinal ==
    ASSUME Undisturbed, TwoClients
    PROVE  Spec /\ []NoWrap => []SeenAndLeft
<1>1. EndsAgree => SeenAndLeft
  BY DEF EndsAgree
<1> QED
  BY <1>1, EndsKnown, PTL

\* The inputs of a session are counted: what a client sent is what the server
\* applied, but for the one input that waits for it.
THEOREM InputsCounted ==
    ASSUME Undisturbed
    PROVE  Spec /\ []NoWrap => []TurnsCounted
BY TurnsCountedKept, NothingSentYet, SessionHolds, Inductive, AddressesNeverMix, PTL DEF Spec

\* A client that has the acknowledgement of its input has had it applied: only
\* then does it leave take_turn (client.c take_turn, server.c sv_process).
THEOREM AcknowledgedIsApplied ==
    ASSUME Undisturbed
    PROVE  Spec /\ []NoWrap => []AckMeansApplied
<1>1. IInv /\ SessionInv /\ TurnsCounted => AckMeansApplied
  <2> SUFFICES ASSUME IInv, SessionInv, TurnsCounted, NEW c \in Clients,
                      turns[c] > 0, cpc[c] \in {"w_game", "turn"}
               PROVE  \E p \in Ports : addr[p] = c /\ applied[p] = turns[c]
    BY DEF AckMeansApplied
  <2>1. ClientTypeOK /\ ClientsOK /\ NetTypeOK
    BY DEF IInv, TypeOK, SessionInv
  <2>2. PICK p \in Ports : addr[p] = c
    <3>1. turns[c] # 0
      BY <2>1 DEF ClientTypeOK
    <3> QED
      BY <3>1 DEF TurnsCounted
  <2>3. c # NoAddr
    BY EndpointKinds DEF Endpoints
  <2>4. Unread(p) = {}
    <3>1. p \in Seated
      BY <2>1, <2>2, <2>3 DEF ClientsOK, Gone
    <3> QED
      BY <2>2, <3>1, SeatedLinked, NoInputYet
  <2> QED
    BY <2>2, <2>3, <2>4 DEF TurnsCounted, Balanced
<1> QED
  BY <1>1, InputsCounted, SessionHolds, Inductive, PTL

\* Every acknowledgement of an input that sv_process creates is that of the next
\* input of the client.
THEOREM InputsOnceInOrder ==
    ASSUME Undisturbed
    PROVE  Spec /\ []NoWrap => AppliedInOrder
<1>1. IInv /\ SessionInv /\ SessionInv' /\ AddressesOK /\ TurnsCounted /\ [Next]_vars =>
        [pc = "recv" => \A p \in Ports :
            (/\ s_packet'[p] # s_packet[p] /\ s_packet'[p].flags = "ACK"
             /\ r_packet[p].flags # "FIN"
             /\ SingleSeats)
                => applied'[p] = applied[p] + 1]_vars
  <2> SUFFICES ASSUME IInv, SessionInv, SessionInv', AddressesOK, TurnsCounted, [Next]_vars,
                      pc = "recv", NEW p \in Ports,
                      s_packet'[p] # s_packet[p], s_packet'[p].flags = "ACK"
               PROVE  applied'[p] = applied[p] + 1
    OBVIOUS
  <2>1. Good /\ ServerTypeOK
    BY GoodFacts DEF Good
  <2>2. RecvMove /\ UNCHANGED clientVars
    <3>1. RecvMove \/ s_packet' = s_packet \/ RecvFinAck
      BY DEF Next, vars, serverVars, ServerStep, SvReceive, HandleReceipt,
         HandleBroadcast, Select, SvAccept, SvDeny, AfterReceipt, RecvDuplicate, RecvBadAck,
         RecvOther, ReceiptRecv, ReceiptSkip, UseAfterFree, HandleUnicast,
         NoUnicast, Unicasted, NextClient, SvDisconnect, BroadcastStep, BroadcastNext,
         BroadcastEnd, SvSignal, SignalInCall, SignalBetweenCalls, EndLoop
    <3>2. ~RecvFinAck
      BY <2>1 DEF RecvFinAck, ServerTypeOK, ZeroPacket, Bare, Packet
    <3> QED
      BY <3>1, <3>2 DEF Next, RecvMove, Receives, serverVars, vars
  <2>3. p = rx
    BY <2>1, <2>2, InputCounted
  <2> QED
    BY <2>1, <2>2, <2>3, InputCounted
<1> QED
  BY <1>1, InputsCounted, SessionHolds, Inductive, AddressesNeverMix, PTL DEF Spec, AppliedInOrder

=============================================================================
