-------------------------------- MODULE Proxy --------------------------------
(***************************************************************************)
(* The proxy (proxy-src): its settings, what it decides about a datagram   *)
(* and where it sends what it does not drop.  Relay puts it between the    *)
(* clients and the server.                                                 *)
(***************************************************************************)
EXTENDS Integers

CONSTANTS
    HUNDRED_PERCENT,        \* 100
    DEFAULT_DROP_PERCENT,   \* 35
    DEFAULT_HOLD_PERCENT,   \* 15
    Senders,                \* the addresses datagrams come from
    NoSender,               \* an address of zeros
    NoOption,               \* an option that was not given
    DropArgs, HoldArgs      \* what may follow -d and -h

VARIABLES
    place,          \* "setup", "waiting" in recvfrom, or "closed"
    drop_bound,
    hold_bound,
    input_addr      \* who the proxy takes for the client

proxyVars == <<place, drop_bound, hold_bound, input_addr>>

ProxyInit ==
    /\ place = "setup"
    /\ drop_bound = 0 /\ hold_bound = 0
    /\ input_addr = NoSender

\* A number out of range is replaced by the default, a missing option is zero.
get_percentage(arg, default) ==
    CASE arg = NoOption             -> 0
      [] arg \in 0 .. HUNDRED_PERCENT -> arg
      [] OTHER                        -> default

\* Mutant: the sum of the chances is not tested.
TakesAnyChances(drop, hold) == TRUE

\* check_settings' test of the chances.
Acceptable(drop, hold) == drop + hold <= HUNDRED_PERCENT

\* read_args, check_settings and link_proxy.
ProxySetUp ==
    /\ place = "setup"
    /\ \E d \in DropArgs, h \in HoldArgs :
        LET drop == get_percentage(d, DEFAULT_DROP_PERCENT)
            hold == get_percentage(h, DEFAULT_HOLD_PERCENT)
        IN  IF Acceptable(drop, hold)
            THEN /\ drop_bound' = drop
                 /\ hold_bound' = hold + drop
                 /\ place' = "waiting"
            ELSE /\ place' = "closed"
                 /\ UNCHANGED <<drop_bound, hold_bound>>
    /\ UNCHANGED input_addr

\* random() % HUNDRED_PERCENT
Directives == 0 .. HUNDRED_PERCENT - 1

\* determine_action: a directive of 0 never drops, and a datagram that is to be
\* held is forwarded at once.
Drops(directive) == 0 < directive /\ directive <= drop_bound

\* await_message: the first sender is the client.
ClientAfter(from) == IF input_addr = NoSender THEN from ELSE input_addr

\* The bounds a directive is compared with divide the hundred.
BoundsInOrder ==
    0 <= drop_bound /\ drop_bound <= hold_bound /\ hold_bound <= HUNDRED_PERCENT

=============================================================================
