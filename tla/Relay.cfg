SPECIFICATION FairSpec
CONSTANTS
    c1 = c1
    c2 = c2
    Cells <- MCCells2
    Middle = 1
    WinLines <- MCLines2
    MAX_SEQ = 3
    MaxTurns = 1
    NoPayload = NoPayload
    Freed = Freed
    Clients <- MCTwo
    MaxConns = 2
    SockBuf = 2
    FaultKinds <- MCNone
    MaxFaults = 0
    MAX_CLIENTS = 2
    BASE_TIMEOUT = 1
    MIN_TIMEOUT = 1
    MAX_NUM_TIMEOUTS = 1
    Reach <- MCAnywhere2
    Purposeful = TRUE
    MaxResends = 4
    Prompt = TRUE
    Px = Px
    Hosts = {h0, h1, h2}
    ServerHost = h0
    HUNDRED_PERCENT = 100
    DEFAULT_DROP_PERCENT = 35
    DEFAULT_HOLD_PERCENT = 15
    NoOption = NoOption
    DropArgs <- MCDropArgs
    HoldArgs <- MCHoldArgs
INVARIANTS
    BoundsInOrder
    NothingComesBack
PROPERTIES
    RelayedClientsLeave
CHECK_DEADLOCK FALSE
