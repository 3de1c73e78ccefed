------------------------------- MODULE Packets -------------------------------
(***************************************************************************)
(* The packets both programs exchange: flag combinations, the one-byte     *)
(* sequence number and the payloads.  A flag byte is named by what         *)
(* check_flags prints for it; only the combinations the programs build are *)
(* listed, with the zeroed byte of a freshly allocated packet.             *)
(***************************************************************************)
EXTENDS Game

CONSTANTS
    MAX_SEQ,    \* the largest sequence number (255 in the code)
    MaxTurns,   \* bound: inputs one client sends in one run of the model
    NoPayload,  \* payload of a packet with length 0
    Freed       \* payload of a stored packet whose buffer is no longer there

ASSUME PacketAssumption ==
    /\ MAX_SEQ \in Nat \ {0}
    /\ MaxTurns \in Nat

Flags == {"NONE", "ACK", "PSH", "SYN", "FIN", "PSH/TRN", "SYN/ACK", "FIN/ACK"}

HasPSH(f) == f \in {"PSH", "PSH/TRN"}
\* Mutant: every game passes for a turn.
AnyGame(f) == f \in {"PSH", "PSH/TRN"}
HasTRN(f) == f = "PSH/TRN"

SeqNums == 0 .. MAX_SEQ

\* Mutant: seq_num + 1 without the cast, which C computes as an int.
NextSeqPromoted(s) == s + 1

\* (uint8_t) (seq_num + 1)
NextSeq(s) == (s + 1) % (MAX_SEQ + 1)

\* The two bytes of a client's turn.  id is not in the packet: it numbers the
\* turns of a client so that properties can tell one input from another.
Inputs == [cursor : Cells, btn : BOOLEAN, id : 0 .. MaxTurns]

\* What travels to the server, and what travels to a client: there the eleven
\* bytes of a game state are the server's game at that moment.  A client may
\* send a turn again when the bytes of the turn are gone.
ClientPackets ==
    {pkt \in [flags : {"SYN", "ACK", "PSH", "FIN", "FIN/ACK"}, seq : SeqNums,
              payload : Inputs \cup {NoPayload, Freed}] :
        HasPSH(pkt.flags) => pkt.payload # NoPayload}

ServerFlags == Flags \ {"SYN"}

ServerPackets ==
    {pkt \in [flags : ServerFlags, seq : SeqNums, payload : Games \cup {NoPayload}] :
        HasPSH(pkt.flags) => pkt.payload \in Games}

\* A server's packet as it is stored for retransmission: its payload may be
\* dangling.
StoredPackets ==
    {pkt \in [flags : ServerFlags, seq : SeqNums, payload : Games \cup {NoPayload, Freed}] :
        HasPSH(pkt.flags) => pkt.payload # NoPayload}

ASSUME PayloadAssumption ==
    /\ Freed # NoPayload
    /\ Freed \notin Inputs \cup Games
    /\ NoPayload \notin Inputs \cup Games

Packet(f, s, p) == [flags |-> f, seq |-> s, payload |-> p]

\* create_packet with length 0.
Bare(f, s) == Packet(f, s, NoPayload)

ZeroPacket == Bare("NONE", 0)

\* What remains of a stored packet when its payload buffer is freed, or its
\* function has returned.
FreePayload(pkt) ==
    IF pkt.payload = NoPayload THEN pkt ELSE [pkt EXCEPT !.payload = Freed]

=============================================================================
