------------------------------ MODULE MCMemory ------------------------------
(* A small instance of Startup and Memory for TLC. *)
EXTENDS Memory, TLC

MCLoopback == <<127, 0, 0, 1>>
MCHost == <<10, 0, 0, 2>>

MCHosts == {<<>>, <<MCLoopback>>, <<MCLoopback, MCHost>>, <<MCHost, MCLoopback>>}

\* An address, one that only check_ip accepts, one with a number out of range,
\* one with a field too few, and the one inet_addr reports errors with.
MCTexts == {
    MCHost, <<10, EMPTY, 0, 0, 2>>, <<10, 0, 0, 256>>, <<10, 0, 0>>, <<255, 255, 255, 255>>}

MCOptions ==
    [name : {"ip"}, text : MCTexts] \cup [name : {"port"}, number : {0, 65536, -1}]
        \cup {[name |-> "unknown"]}

\* No option, one, or two of which one is accepted.
MCCommandLines ==
    LET good == {[name |-> "ip", text |-> MCHost], [name |-> "port", number |-> 0]}
    IN  {<<>>} \cup {<<o>> : o \in MCOptions}
            \cup {<<o, g>> : o \in MCOptions, g \in good}
            \cup {<<g, o>> : o \in MCOptions, g \in good}

\* Every allocation but those of the client's set-up and that of a packet the
\* server sends again.
MCSessionMayFail ==
    {"server set-up", "address", "connection", "game payload", "buffer", "payload"}

MCAnyMayFail == MCSessionMayFail \cup {"client set-up", "buffer sent again"}

=============================================================================
