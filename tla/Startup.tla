------------------------------- MODULE Startup -------------------------------
(***************************************************************************)
(* How the two programs begin and end: main, run, init_def_state and what  *)
(* opens the socket.  A call that fails leaves its mark in errno, and the  *)
(* next one is made only when errno is 0.                                  *)
(***************************************************************************)
EXTENDS MemoryManager, FiniteSets

CONSTANTS
    Programs,        \* bound: which of "server" and "client"
    CommandLines,    \* bound: sequences of options
    HostAddresses,   \* bound: what getaddrinfo may say of this host
    LOOPBACK,        \* 127.0.0.1
    EMPTY,           \* nothing between two dots
    UINT8_MAX, UINT16_MAX,
    MayFail          \* bound: the allocations that may fail

ASSUME StartupAssumption == Programs \subseteq {"server", "client"}

VARIABLES
    program,
    phase,       \* "defaults", "arguments", "signals", "open": the call run is
                 \* about to make; "up", "closing", "crashed" or "exited"
    errno,       \* "none", "ENOMEM", "ENOTRECOVERABLE" or "other"
    heap,
    args,        \* the command line
    server_ip    \* an address as the fields between its dots, or NULL

startVars == <<program, phase, errno, heap, args, server_ip>>

StartupInit ==
    /\ program \in Programs
    /\ phase = "defaults"
    /\ errno = "none"
    /\ heap = EmptyHeap
    /\ args \in CommandLines
    /\ server_ip = NULL

\* Distinct addresses for n objects, in the order of their allocation.  Of the
\* addresses no pointer has kept, any is as good as another: only the n lowest
\* are considered, in ascending order.
MallocsBeside(kept, n) ==
    LET others == FreeAddrs(heap) \ kept
        lowest == {a \in others : Cardinality({b \in others : b < a}) < n}
    IN  {objs \in [1 .. n -> (FreeAddrs(heap) \cap kept) \cup lowest] :
            \A i, j \in 1 .. n : i < j =>
                /\ objs[i] # objs[j]
                /\ {objs[i], objs[j]} \subseteq lowest => objs[i] < objs[j]}

-----------------------------------------------------------------------------
(* The command line.                                                       *)

\* strtok skips the empty fields between two dots.
Tokens(text) == SelectSeq(text, LAMBDA field : field # EMPTY)

\* check_ip on text as a sequence of fields, where a negative number stands for
\* what is no decimal number at all.
check_ip(text) ==
    /\ Len(Tokens(text)) = 4
    /\ \A i \in 1 .. 4 : Tokens(text)[i] \in 0 .. UINT8_MAX

\* inet_addr wants every field, and its result for the broadcast address is
\* the one it reports an error with.
inet_addr_ok(text) ==
    /\ Tokens(text) = text
    /\ text # [i \in 1 .. 4 |-> UINT8_MAX]

parse_port(number) == number \in 0 .. UINT16_MAX

\* One round of read_args' and parse_arguments' loop over the options, until
\* one of them is refused.
ReadOption(read, option) ==
    CASE ~read.ok -> read
      [] option.name = "ip" ->
            IF check_ip(option.text)
            THEN [read EXCEPT !.ip = option.text]
            ELSE [ip |-> NULL, ok |-> FALSE]
      [] option.name = "port" -> [read EXCEPT !.ok = parse_port(option.number)]
      [] OTHER -> [read EXCEPT !.ok = FALSE]

ReadAll(options) == FoldLeft(ReadOption, [ip |-> NULL, ok |-> TRUE], options)

\* inet_ntoa has one buffer, so what set_self_ip keeps when it finds an address
\* other than the loopback address is the last address it looks at.
set_self_ip(addresses) ==
    IF \E i \in DOMAIN addresses : addresses[i] # LOOPBACK
    THEN Last(addresses)
    ELSE NULL

ReadArgs ==
    /\ phase = "arguments"
    /\ phase' = "signals"
    /\ LET read == ReadAll(args)
       IN  \E self \in {set_self_ip(addresses) : addresses \in HostAddresses} :
            IF errno # "none"
            THEN UNCHANGED <<errno, server_ip>>
            ELSE /\ server_ip' = IF program = "server" /\ read.ok /\ read.ip = NULL
                                 THEN self
                                 ELSE read.ip
                 /\ errno' = IF read.ok /\ server_ip' # NULL THEN errno
                             ELSE "ENOTRECOVERABLE"
    /\ UNCHANGED <<program, heap, args>>

-----------------------------------------------------------------------------
(* Defaults, signals, socket.                                              *)

DefaultsFail(h) ==
    /\ heap' = h
    /\ errno' = "ENOMEM"

\* set_server_defaults: the manager, then the game.
SvDefaults ==
    /\ program = "server"
    /\ \/ \E objs \in MallocsBeside({}, 1) :
            /\ heap' = Obtain(init_memory_manager(heap), objs[1])
            /\ UNCHANGED errno
       \/ "server set-up" \in MayFail /\ DefaultsFail(heap)
       \/ "server set-up" \in MayFail /\ DefaultsFail(init_memory_manager(heap))

\* allocate_defaults: the manager, then timeout, both packets and the game.  When
\* one of the four fails, those obtained are given back, then the manager.
ClDefaults ==
    /\ program = "client"
    /\ \/ \E objs \in MallocsBeside({}, 4) :
            /\ heap' = ObtainAll(init_memory_manager(heap), objs)
            /\ UNCHANGED errno
       \/ "client set-up" \in MayFail /\ DefaultsFail(heap)
       \/ /\ "client set-up" \in MayFail
          /\ \E objs \in MallocsBeside({}, 3), n \in 0 .. 3 :
                DefaultsFail(free_memory_manager(
                    AllocatedInVain(init_memory_manager(heap), objs, n)))

SetDefaults ==
    /\ phase = "defaults"
    /\ phase' = "arguments"
    /\ SvDefaults \/ ClDefaults
    /\ UNCHANGED <<program, args, server_ip>>

\* Mutant: the server clears errno as the client does.
BothClearErrno ==
    /\ phase = "signals"
    /\ phase' = "open"
    /\ errno' = "none"
    /\ UNCHANGED <<program, heap, args, server_ip>>

\* The client's version clears errno.
SetSignalHandling ==
    /\ phase = "signals"
    /\ phase' = "open"
    /\ errno' = IF program = "client" THEN "none" ELSE errno
    /\ UNCHANGED <<program, heap, args, server_ip>>

\* run goes on, or is over.
Proceed(place, error) == phase' = place /\ errno' = error

\* open_server.  socket and bind may fail.
SvOpen ==
    /\ program = "server" /\ phase = "open"
    /\ CASE errno # "none" -> Proceed("closing", errno)
         [] errno = "none" /\ server_ip = NULL -> Proceed("crashed", errno)
         [] OTHER -> \/ Proceed("closing", "ENOTRECOVERABLE")
                     \/ inet_addr_ok(server_ip) /\ Proceed("up", errno)
    /\ UNCHANGED <<program, heap, args, server_ip>>

\* open_client_socket.  An address inet_addr rejects leaves errno 0: cl_messaging
\* then fails on descriptor 0, which is no socket.
ClOpens(a) ==
    /\ heap' = Obtain(heap, a)
    /\ IF heap'.broken \/ server_ip = NULL
       THEN Proceed("crashed", errno)
       ELSE \/ inet_addr_ok(server_ip) /\ Proceed("up", errno)
            \/ inet_addr_ok(server_ip) /\ Proceed("closing", "other")
            \/ ~inet_addr_ok(server_ip) /\ Proceed("closing", "ENOTRECOVERABLE")

ClOpen ==
    /\ program = "client" /\ phase = "open"
    /\ \/ \E objs \in MallocsBeside({}, 1) : ClOpens(objs[1])
       \/ /\ "address" \in MayFail
          /\ Proceed("closing", "ENOMEM")
          /\ UNCHANGED heap
    /\ UNCHANGED <<program, args, server_ip>>

\* close_server and close_client.
Close ==
    /\ phase' = "exited"
    /\ heap' = free_memory_manager(heap)
    /\ UNCHANGED <<program, errno, args, server_ip>>

StartupStep ==
    \/ SetDefaults \/ ReadArgs \/ SetSignalHandling
    \/ SvOpen \/ ClOpen
    \/ phase = "closing" /\ Close

-----------------------------------------------------------------------------

\* What the usage asks for: options that can be read, and for the client an
\* address.
Usable(options) ==
    /\ ReadAll(options).ok
    /\ program = "client" => ReadAll(options).ip # NULL

\* The socket is opened, or the program dies in the attempt.
Opens == phase = "open" /\ phase' \in {"up", "crashed"}

(***************************************************************************)
(* A program whose set-up failed, or whose command line it refused, exits  *)
(* without having touched the network (client-src/src/setup.c:150: "If the *)
(* server IP has not been input, exit").                                   *)
(***************************************************************************)
StartsAsAsked == [][Opens => heap.manager = "live" /\ Usable(args)]_startVars

(***************************************************************************)
(* The server does: what went wrong in setup.c is still in errno when run  *)
(* is about to open the socket.                                            *)
(***************************************************************************)
ServerStartsAsAsked ==
    [][Opens /\ program = "server" => heap.manager = "live" /\ Usable(args)]_startVars

=============================================================================
