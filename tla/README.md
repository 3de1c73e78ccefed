# more-reliable-udp in TLA+

A specification of the tick-tack-toe game that `src/` plays over UDP: one
server, two players with breadboard controllers, and a hand-made reliable
protocol between them. The modules are translated from the code; TLC checks
them on small instances and TLAPS proves the central safety properties for
every instance. `PROJECT.json` lists the runs, the mutants that show each
property can fail, the source lines behind each definition, and the hazards.

## 1. The system

| Component | Source | State it keeps | Operations | Talks to |
|---|---|---|---|---|
| Server loop | `server-src/src/server.c` | the game, `do_broadcast`, `do_unicast`, `running`, `errno`, what `select` reported | `sv_comm_core`, `handle_receipt`, `handle_unicast`, `handle_broadcast`, `sv_accept`, `sv_recvfrom`, `sv_process`, `sv_disconnect` | clients, by datagrams |
| Client list | `server-src/src/server-util.c` | a linked list of `conn_client`: socket, address, last packet sent and received | `connect_client`, `remove_client`, `set_readfds` | called by the loop |
| Client | `client-src/src/client.c` | last packet sent and received, receive timer, its copy of the game, `turn`, `running` | `cl_connect`, `cl_messaging`, `take_turn`, `cl_recvfrom`, `handle_timeout`, `cl_process`, `cl_disconnect` | the server; the user |
| Packets | `*-util.c` | none | create, serialize, deserialize | both programs |
| Game | `Game.c` (same text twice) | board, turn, cursor | `resetGame`, `updateGameState`, `updateBoard`, `isGameOver`, display | server updates, clients judge |
| Controller | `client-src/src/Controller.c` | none | `useController`, `get_ADC_Result`, `adjust*` | `take_turn` |
| Memory manager | `manager.c` (same text twice) | a linked list of addresses | `mm_add`, `mm_free`, `mm_free_all` | both programs |
| Set-up | `setup.c`, `main.c`, `run` | the command line, `errno` | parse, allocate, open the socket, close | runs first |
| Proxy | `proxy-src/` | two addresses, two bounds | drop or forward | clients and server, by datagrams |

How a session goes. A client sends SYN to the server's main socket; the server
opens a socket for it, appends it to its list and answers SYN/ACK from there;
the client's ACK, numbered 255, makes a full lobby start a broadcast. In a
broadcast every client gets the game as PSH, the one whose turn it is as
PSH/TRN, and the server waits for each one's ACK before it serves the next. The
player with the turn sends cursor and button as PSH; the server acknowledges,
applies it and broadcasts again. Clients decide that a game is over, and leave
with FIN -> FIN/ACK, FIN -> FIN/ACK. Clients resend on a timer and on every
packet they did not expect; the server has no timer and resends only when an
acknowledgement has the wrong number.

What is hard in this code:

* the server is one thread that blocks on one client at a time, between two
  `select` calls, with a client list that may change under its loops;
* every retransmission arrives at a place written for the original;
* `handle_unicast` and `handle_broadcast` leave pointers to freed memory in the
  stored packet, `take_turn` a pointer into its stack;
* numbers are bytes that wrap, and one of them (255) means "handshake";
* `errno` is the error flag of the whole program and is never cleared by the
  server, and a signal can end any blocking call;
* allocations fail anywhere, and what was obtained by then is given back by hand;
* the proxy was written for a server with one port;
* who may move and when a game is over is enforced by the clients' waits, not
  by the server.

What makes each part correct: the *server* never serves two players the turn,
never lists a client twice or without its socket, uses nothing it has freed and
comes to rest after a session; the *client* ends, and goes on only with answers
to what it asked; *together* they apply each input once, in order, by the rules,
and show both players the same end; the *game* agrees with the geometry of the
board; the *controller* moves to neighbouring cells; the *memory manager* frees
everything exactly once; the *set-up* lets a program start only as asked; the
*proxy* sends nothing back to where it came from as far as hosts tell the
machines apart, and does not keep a client from ending.

## 2. The modules

| Module | What it models |
|---|---|
| `Game` | the rules as operators on a board; cells and lines are parameters |
| `Packets` | flags, one-byte numbers with wrap, packets as records |
| `Network` | UDP: a bounded buffer per socket; loss, duplication and reordering as actions with a budget (external code) |
| `Server` | the server process; `pc` is the place in the code |
| `Client` | all client processes; `cpc[c]` is the wait `c` is in |
| `System` | both with the network, fairness, and the system's properties |
| `Session` | `System` with the invariants of a session that nothing disturbs: the phases of a seated client and the places of the server they go with; the inputs sent and applied; the ends that were seen |
| `TicTacToe` | what the system promises: a board, alternating marks, new games; with `FairPlay` also no mark after the end |
| `MCSystem` | boards, clients and symmetry for TLC |
| `Controller`, `Play`, `MCPlay` | the 3 x 3 board with the real controller, and what is displayed |
| `MemoryManager` | the manager's list and its life, as operators on a heap |
| `Startup` | both programs from the command line to the open socket, and closing; `phase` is the call `run` is about to make |
| `Memory`, `MCMemory` | `Startup`, and the allocations of a session |
| `Proxy` | the proxy's settings and decisions |
| `Relay`, `MCRelay` | clients, proxy and server: `Client` with one network, `Server` instantiated with the other |
| `Network_proofs`, `Client_proofs`, `Server_proofs`, `System_proofs`, `Session_proofs`, `Memory_proofs`, `Relay_proofs`, `Play_proofs` | lemmas and theorems, one module per component (`Memory_proofs` has the one on `Startup` too) |

Correspondence. One server action covers the code from one blocking call or
loop head to the next (`Select`, `SvAccept`, `RecvMove`, `HandleUnicast`,
`BroadcastStep`, ...). `sv_recvfrom` is a call: `rx` is its argument and `ret`
the place it returns to; each way out of `sv_process` is an action of its own
(`RecvDuplicate`, `RecvBadAck`, `RecvMove`, `RecvFinAck`, `RecvOther`). The
client list is a sequence of socket numbers; sockets are never reused within a
run, so `addr[p]` also records who had `p`. A freed record is one whose socket
has left the list. The build of the server has the address sanitizer on, so a
use of freed memory ends it: `pc = "crashed"`. A client action is the arrival
of one packet, or one expiry, with all the caller does until its next wait. A
client whose timer runs out continues as the code does, with `errno` 0. A packet
whose payload is no longer there carries `Freed`; the server reads such a turn
as an arbitrary input on the board. A garbage cursor off the board is left out:
`AppliedInOrder` shows such a turn, with `id` 0, is never applied.

`Memory` follows the same two programs with everything left out but what they
allocate. A heap is a record of the registered addresses, the live ones, the
manager's state and whether something has been freed or used that must not be.
`errno` decides which calls are still made; each allocation site is an element
of `MayFail` when it may fail. `create_conn_client` and the clients'
`allocate_defaults` give back by hand what they had obtained when a later
allocation fails; how far they came is chosen in `AllocatedInVain`, and what
they do not give back stays live. Malloc is nondeterministic over the addresses a
pointer of the program still holds and the lowest of the others, which are
interchangeable.

In `Relay` the proxy's one socket is `Main` in the clients' network and `Px` in
the server's, so that both sides use their own modules as they are. Addresses
are compared by host, as `forward_message` does; every client runs on any of
`Hosts`, the server's machine among them in the run. A held datagram is forwarded at once (the branch of
`determine_action` is empty) and a directive of 0 never drops.

`applied`, `turns` and the `id` of an input are history: they number the inputs
and influence nothing.

## 3. The runs

All passing runs use 2 players and the code's 2 seats (`Lobby`: 3 clients).
Boards of two to four cells stand for the nine; they have wins, ties and a
second move for each player, and the rules on the real board are the business
of `Board`. Timer constants are 1, 1 and 2 for the code's 8, 1 and 3: one
resend that keeps the timer, then a halving that gives up. `MAX_SEQ` is 15
where wrapping is not the subject (a bounded session does not reach it) and 4
in `SeqWrap`.

| Run | Instance | Shows |
|---|---|---|
| `Ideal` | no faults, 4 cells, fair | sessions end, the lobby is free and reset afterwards (`SessionEnds`); both players saw the same end (`AgreeOnTheEnd`), which is that of the server's board while it has one, and are leaving (`SeenAndLeft`); nobody marks a cell of a finished board, of which four cells leave one free (`ImplementsFairPlay`) |
| `Lobby` | 3 clients, any turn incl. cursor moves, no faults | `OneTurnHolder`, `TurnHolderUpToDate`, `OnlyTurnHolderMoves`, `ListMatchesSockets`, `NoDeadMemory`, `TypeOK`, and the invariants they and the count of inputs rest on, `SessionInv` and `TurnsCounted` |
| `Stops` | signals to the server and one client, fair | `StopsForGood`; a signal that falls between two calls does not cut the round short, every player still in the game is told the board (`RoundFinishes`); `LeaversLeave`, `ClientsTerminate`, `ListMatchesSockets` |
| `Lossy` | any 2 losses, duplications or reorderings, timers that expire at any moment, 1 resend | `AppliedInOrder`, `AckMeansApplied`, `ImplementsTicTacToe`, and that nobody is sent what is another's (`AddressesOK`) |
| `Board` | the real 3 x 3 board and controller thresholds | `JudgedByGeometry`, `WinnerMovedLast`, `OneWinner`, `HighlightIsTheWinners`, `CursorKeepsToTheGrid` |
| `Heap` | 12 addresses, two connections, command lines of up to two options, failing allocations | `FreesWhatItOwns`, `NothingLeaks`, `ServerStartsAsAsked` |
| `Relay` | two clients on one or two machines, perhaps the server's, a proxy that drops at will or not at all | `BoundsInOrder`, `RelayedClientsLeave`; what the server answers does not come back to it unless the proxy's client shares its machine, what clients send reaches no client unless they are on two machines (`NothingComesBack`) |

Bounds, all of them: `MaxConns` sockets the server opens (one per client, the
next SYN is beyond the run), `SockBuf` datagrams per buffer (2 in `Lossy` and `Relay`, else 4: further
ones are dropped, as UDP does), `MaxFaults`, `MaxResends` (only for resends after
which numbers or buffers can grow, see `Counted`), `MaxTurns` inputs per
client. The properties about duplicates assume `SingleSeats`, that a repeated
SYN has not seated a client twice, which `RepeatedSyn` shows can happen.
`AppliedInOrder` also leaves out a connection whose last accepted packet is the
FIN: the next number follows from the number last received, so when a game is
still sent after a FIN, which has 255, the numbers start again at 0, and with
two faults and an early timer a delayed copy of the first turn is applied a
second time (server.c:303, 496).

In `Heap` twelve addresses hold the game, two clients' eight objects, an
assembled payload, a received one and a buffer, so every nesting of two
connections occurs, and freed addresses are handed out again. Two sites stay out
of its `MayFail`: the client's set-up, which is the subject of `Refused`, and
the buffer of a packet that is sent again, because after it `errno` is still
`ENOMEM` when the next packet is deserialized, and `sv_process` then returns
without registering the new payload (server.c:514): `NothingLeaks` fails by just
that. In `Relay` one expiry halves the timer
(with the resend of the other runs before it the liveness check takes longer than
five minutes; what a resend adds there is a second SYN, and the second client sends
one as well), and the drop and hold options take
a missing, an acceptable, an out-of-range and a barely too large value.

Deadlock is not checked where the system stops: all programs may have ended, or
a bound is used up, or both sides wait (which is what the liveness properties
and the violations are about). `Board` checks it.

Prompt timers. With `Prompt` a timer expires only when nothing is on its way and
the server is blocked: the timeouts (8, 4, 2 and 1 s) are far longer than a round
trip. `Lossy` drops the assumption: the safety properties do not rest on timing.

Fairness. Weak fairness of the server's step: the process is scheduled and its
blocking calls return when there is something to read. Weak fairness of a
client's start, of its receiving and of its user's turn: the user acts, since
`useController` loops until he does. Strong fairness of the timer, because with
`Prompt` the moments at which it may expire come and go, while a real timer
runs on. In `Relay` the proxy's step is weakly fair too: it does nothing but wait
for datagrams. Network faults and signals are not fair, nor is closing the proxy. For liveness `Purposeful`
makes every turn mark a free cell; without it two users may move the cursor for
ever and no session need end.

### What the documentation says and the code does not do

Each of these runs ends in a violation.

* `LostAck` / `TurnAcknowledged`: `sv_process` answers a repeated PSH by a
  unicast with the flags of its last packet and the next number, never with the
  ACK. The client takes it for unexpected, resends, restarts its count of
  timeouts, and the two go on for ever (README.md:3, "reliable").
* `SeqWrap` / `AckStartsGame`: acknowledgement 255 in mid-game counts as a
  handshake (server.c:538).
* `RepeatedSyn` / `SeatedOnce`: a repeated SYN takes a second seat
  (server.c:91).
* `Farewell` / `DisconnectRemoves`: a repeated FIN ends `sv_disconnect` before
  the client is removed (server.c:132). The FIN/ACK that comes later is then
  read by `handle_receipt`, which goes on to use the freed record (line 274):
  the reason why `NoDeadMemory` is stated only for runs without losses, signals
  and early timers.
* `Refused` / `StartsAsAsked`: the client's `set_signal_handling` clears `errno`
  (client.c:496), so a refused command line or a failed set-up does not keep it
  from opening its socket (setup.c:150, "exit"): without an address it
  dereferences null, after a failed allocation it uses the manager it has freed.

Seen while modelling, without a run of their own: `client.c:340` sets `tv_usec`
where the comment says the timeout is reset, so a halved timer stays short;
`client.c:102` says the client stops after `MAX_NUM_TIMEOUTS` expiries, the code
halves the timer instead; a client whose connection attempt times out still
sends ACK and starts its messaging loop; a turn is resent from the dead stack
frame of `take_turn` (`client.c:265`); `mm_free` dereferences null instead of
reporting `EFAULT` (`manager.c:152`); the server waits without limit for a
client that is gone (server-util.h:85 documents a timeout the settings do not
have); no handshake is completed through the proxy, which knows one address
of the server (`proxy.c:257`), while the server answers from a socket per
client and waits there for an acknowledgement that goes to the other; with a
client on the server's machine the proxy sends the server's answers back to
the server (`proxy.c:255`), with clients on two machines it sends what the second
asks to the first (`proxy.c:220`); a `sendto` that fails leaves the server in a loop that reads nothing
(`server.c:439`); the address `set_self_ip` finds may turn into 127.0.0.1
(`server-util.c:165`).

## 4. The proofs

Proved by TLAPS, for any clients, sockets, boards, `MAX_CLIENTS`, faults and
timers, from the named assumptions on the constants (finite board with the
middle in it, distinct kinds of endpoints, natural bounds):

| Theorem | Statement |
|---|---|
| `Inductive` | `Spec => []IInv` |
| `TypeCorrect` | `Spec => []TypeOK` |
| `SocketsMatchList` | `Spec => []ListMatchesSockets` |
| `SignalsStop` | `Spec => []StopsForGood` |
| `PlaysTicTacToe` | `Spec => ImplementsTicTacToe` |
| `AddressesNeverMix` (`Session_proofs`) | `Spec => []AddressesOK` |
| `SessionHolds` (`Session_proofs`) | `Spec /\ []NoWrap => []SessionInv`, if `Undisturbed` |
| `OneHoldsTheTurn` (`Session_proofs`) | `... => []OneTurnHolder`, under the same conditions |
| `TheTurnIsCurrent` (`Session_proofs`) | `... => []TurnHolderUpToDate` |
| `InputsAreInTurn` (`Session_proofs`) | `... => OnlyTurnHolderMoves` |
| `NothingDeadIsUsed` (`Session_proofs`) | `... => []NoDeadMemory` |
| `PlaysFair` (`Session_proofs`) | `... => ImplementsFairPlay` |
| `InputsCounted` (`Session_proofs`) | `... => []TurnsCounted` |
| `AcknowledgedIsApplied` (`Session_proofs`) | `... => []AckMeansApplied` |
| `InputsOnceInOrder` (`Session_proofs`) | `... => AppliedInOrder` |
| `PlayersAgree` (`Session_proofs`) | `... => []AgreeOnTheEnd`, if there are only `TwoClients` |
| `EndsAreFinal` (`Session_proofs`) | `... => []SeenAndLeft`, likewise |
| `ServerStarts` (`Memory_proofs`) | `Spec => ServerStartsAsAsked` |
| `FreesOnlyItsOwn` (`Memory_proofs`) | `Spec => []FreesWhatItOwns`, if the client's set-up does not fail |
| `LeavesNothing` (`Memory_proofs`) | `Spec => []NothingLeaks`, if moreover the buffer of a packet sent again can be had |
| `JudgedRight` (`Play_proofs`) | `Spec => []JudgedByGeometry` |
| `OneWinnerOnly` (`Play_proofs`) | `Spec => []OneWinner` |
| `WinnerJustMoved` (`Play_proofs`) | `Spec => []WinnerMovedLast` |
| `HighlightsRight` (`Play_proofs`) | `Spec => []HighlightIsTheWinners` |
| `CursorStaysOnTheGrid` (`Play_proofs`) | `Spec => CursorKeepsToTheGrid` |
| `NothingReturns` (`Relay_proofs`) | `Spec => []NothingComesBack` |
| `Bounds` (`Relay_proofs`) | `Spec => []BoundsInOrder` |

`IInv` is `TypeOK` with `ServerInv`. Neither type correctness nor
`ListMatchesSockets` is inductive alone: `RecvFinAck` removes the position of
`rx` from the list, which is only defined if the client `sv_recvfrom` waits for
is listed, and that holds because every caller passes a client of the list and
nothing is removed while it waits; `NextClient` and the broadcast follow `next`
of a record that must still be listed; `SvAccept` opens a socket that must not
be listed yet; and `Select` promises datagrams that nobody else may take before
they are read. `ServerInv` says these four things (`ListOK`, `SocketsOK`,
`PointersOK`, `AcceptOK`, and `BroadcastOK` for the snapshot a broadcast sends).
The proof has one lemma per server action in `Server_proofs` (`...Safe`), one
per client action in `Client_proofs` (`...Type`), since a client changes only
its own variables and the buffers, and a lemma (`ServerUndisturbed`) that
clients and network preserve what the server relies on: they may add to its
buffers, but never take from a socket `select` has reported. `SignalsStop` uses
a second invariant, `WayOut`, on the places the server can be in after an
interrupted call. `PlaysTicTacToe` is a refinement: the initial board is the
empty one, a step of the system that changes it is `RecvMove`, whose
`UpdateBoard` is a `Mark` or changes the cursor only, or `EndLoop`, which resets
it. What the datagram says the cursor is may be anything on the board, so the
theorem also covers turns read from dead memory.

`AddressesOK` says who can hear whom: a client addresses the listening socket or
one that was opened for it, and on a socket of the server waits nothing but
what its client sent. It holds whatever the network does, and it is where the
proof of a session starts: what one client does leaves the phase of every other
as it is.

The eleven theorems that follow it in the table need more: no test in `sv_process`
keeps a player from moving out of turn or after the end, and none keeps it from
sending a payload it has freed. What does is that both sides wait for each
other in step, and that has to be written down. `SessionInv` does it in three layers.
A *phase* (`Waiting`, `Reminds`, `Told`, `Plays`, `HasMoved`, `Leaves`, `Waves`,
`Parts`, `Prods`, `Joins`) says of one seated client which wait it is in, which
datagrams are on their way to it and from it, and how their numbers and flags
agree with what the server last sent it and took from it: `NextSeq` of the
number last received is the number of the game it is told, for instance. The
*places* (`RestOK`, `JoiningOK`, `ReceivedOK`, `BroadcastingOK`, `RoundOK`) say which
phases go with which call of the server: before `select` every client waits or
has the turn or has said something the server will act on (`AtRest`), halfway
through a broadcast those passed are at rest and the others due
(`InBroadcast`), in a unicast the one served expects just that packet. `TableOK` and
`ClientsOK` say that the board is empty when a seat is, that nobody sits twice
or asks twice, and what clients without a seat do. None of the properties is
inductive without all three: who has the turn is decided by a datagram sent in
the round before, by a position in a list that changes when somebody leaves.
The proof has a lemma per action and place (`...Keeps`), on top of lemmas that
carry each phase over a step that does not touch its client (`...Frame`).

Their hypotheses are two. `Undisturbed` is on the constants: the network
commits no fault, timers are `Prompt`, no signals, the code's two seats, a timer that is
not halved at its first expiry, room for three datagrams in a buffer. It leaves
open the number of clients, the board, the turns users take, clients
that ask while a game is on, and timers that expire while the other player
thinks, which is the retransmission a normal session has. `NoWrap` is on the
behaviour: no game has been sent with the number of the handshake. Both are
needed: `SeqWrap` is a session that is undisturbed but for the wrap, `LostAck`,
`RepeatedSyn` and `Farewell` show what one loss or an early timer does. In `Ideal`
and `Lobby` both hold in every state, `Lobby` with three clients, so that one asks while the
table is full. In `Spec` without the bounds of the runs a session may have any number of
turns before the wrap; the bounds of the model (`MaxTurns`, `MaxConns`,
`MaxResends`) are arbitrary.

Of the theorems, `OneTurnHolder` and `TurnHolderUpToDate` follow from the phase a
client with the turn must be in (`Plays`, the only one with the client at "turn"), which is
tied to its position in the list by `Settled`. `OnlyTurnHolderMoves` follows
because an unread turn is part of that phase too, so that a PSH can reach `sv_process`
only from there. `NoDeadMemory` follows because a crash needs a wrong
acknowledgement or a client removed under `handle_receipt`, and no phase brings
either. `PlaysFair` extends `PlaysTicTacToe`: the mark is made while a client has the turn, and
no client is given the turn of a finished board.

`AckMeansApplied` and `AppliedInOrder` count over a whole session, which the
phases do not: they know that a turn waits to be read, not which one.
`TurnsCounted` adds just that, the number of the input that waits
(`Unread`) next to the inputs sent and applied, and is inductive given `SessionInv`:
a client sends a turn only from `"turn"`, where nothing of it is unread (`NoInputYet`);
every input that reaches `sv_process` is new, so `RecvMove` takes it and applies
it; and a socket is opened only for a client that has sent none. That the client is still
seated when it has its acknowledgement is again in the phases.

`AgreeOnTheEnd` relates two clients of which one may have left its seat, when
no phase describes it any more, so `SeenAndLeft` keeps what matters of it: that it is
leaving, and that while the server's board is over, it is the one it saw. The step
that could break both is a move after one client saw an end; the server
accepts none, because with two clients both are then seated (`BothSeated`) and
a seated client of a game that goes on is not leaving (`PlayersStay`).
The property is meant for the players of one game: among four clients it would
compare the ends of two. Hence `TwoClients`, as in `Ideal`.

`ServerStarts` needs to know what `errno` tells at each call of `run`
(`ErrnoTells`): an `errno` of 0 before the arguments means a live manager,
before the signals and the socket also arguments that were accepted. The
client's version of it is false, which is `Refused`.

The two theorems on memory rest on `MemInv`. `FreesWhatItOwns` is not inductive:
`mm_free` walks off the list unless what it is given is listed, and free()
unless it is live, so the invariant says that what is listed is live, that no
address is listed twice (`Sound`: null may be, and is), that the manager is there whenever
somebody may use it (`ManagerOK`), and who owns what: each connection its four
objects, which no other connection and no game payload shares, and no payload
pointer that survives the packet it belonged to while the server still receives
(`Ownership`). That addresses are handed out again makes the last two
necessary: a stale pointer would name somebody else's memory. `NothingLeaks`
needs the converse of `Sound`, that what is live is listed (`Tidy`); the step
that breaks it without the second hypothesis is `sv_process` under the `ENOMEM`
of a resend. The loops of `mm_add` and `mm_free_all` skip the last node and
run backwards; `AddFacts`, `FreeFacts` and `FreeAllFacts` say what they do
to a list of any length, `InVainFacts` that an allocation that fails halfway
leaves the heap as it was. The hypotheses name the two sites that also stay out of
the `MayFail` of `Heap`, for the reasons given there, and every other
allocation may fail.

The theorems on the real board rest on `PlayInv`: the player to move has no
complete line, and has made as many marks as the other, or one fewer as O
(`MoverBehind`). From it follow that two players never both have a line and who
moved last. `JudgedRight` and `HighlightsRight` use `LinesByGeometry`: of all sets
of cells, the eight that `isGameOver` tests are the straight ones. The assumption
is that cells and lines are those of the program.

`NothingReturns` rests on `RInv`, and is about clients on any machines, the
server's included. Its two parts name kinds of datagrams that cannot wait in a
place: what only a server sends at the server's listening socket
(`NotToServer`, none when the proxy's client is on the server's machine), and
what only a client sends at a client (`NotToClients`, none when the clients are
on several machines). Neither is inductive alone. The proxy takes the first
sender for its client, so a server that spoke before any client would become
it, and everything would be sent the wrong way. `RInv` therefore says
that the proxy knows its client before anything waits on the server's side
(`ProxyOK`), that what waits at the proxy was sent by a client and what waits
at the listening socket by the proxy (`NetOK`, `FarOK`), that clients hear and
address nobody but the proxy (`ClientsAsk`), and that the server has no client or
waits for its first (`SeatsOK`), since it can hear no acknowledgement behind
a proxy. The one assumption besides those on the kinds of endpoints is that the network between
proxy and server commits no faults (the proxy's own dropping is in the model).

Every invariant and action property of a passing run is stated by a theorem,
but for `RoundFinishes`. Only model-checked: everything temporal under fairness
(out of the prover's reach); `RoundFinishes`, which needs the phases of a session
while signals arrive, when clients may leave in the middle of a round, and
`SessionInv` is about sessions without signals; and what is proved for a narrower system than the run checks it on:
`AckMeansApplied` and `AppliedInOrder` with losses, duplicates and early timers
(`Lossy`), where the phases of `SessionInv` no longer describe what is on its way.
What folds compute for all
inputs (the reading of the command line) cannot be proved with the installed
provers.

## 5. Not modelled

* of the proxy: its address and port options, its own allocations (a datagram
  of length 0 allocates both addresses anew), the size it forwards (cut to one
  byte, `proxy.c:267`, which this protocol's packets never exceed), and a signal
  that falls between two calls: `running` is tested only outside the inner loop
  (`proxy.c:197`), so such a signal has no effect;
* which characters `strtol` reads, and the usage text: a field of an address, a
  port and a percentage are numbers;
* GPIO traffic, delays, the layout of the display;
* socket errors other than an interrupted call, in `Server` and `Client`;
* allocations of the memory manager's own nodes that fail.

## 6. Plan

In order of what it would add:

1. done: `Game`, `Packets`, `Network`, `Server`, `Client`, `System` with their
   runs; types, sockets and the refinement proved; `Play`, `Controller`;
   `MemoryManager`, `Startup` and `Memory` with failing allocations and two
   connections; `Proxy` and `Relay`, with their theorems;
2. extend the model: a session with a signal *and* losses; a client that returns
   to the lobby for a second game; `sendto` that fails in `Server`;
3. an abstract specification of a reliable channel that numbers each input, with
   `AppliedInOrder` and `AckMeansApplied` as its refinement, in place of the two
   separate properties;
4. more proofs: `AppliedInOrder` and `AckMeansApplied` with faults, from an
   invariant on the numbers in flight (that the copies of an acknowledged turn
   are older than the number the server expects next).
