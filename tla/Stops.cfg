SPECIFICATION FairSpec
CONSTANTS
    c1 = c1
    c2 = c2
    c3 = c3
    Cells <- MCCells2
    Middle = 1
    WinLines <- MCLines2
    MAX_SEQ = 15
    MaxTurns = 3
    NoPayload = NoPayload
    Freed = Freed
    Clients <- MCTwo
    MaxConns = 2
    SockBuf = 4
    FaultKinds <- MCNone
    MaxFaults = 0
    MAX_CLIENTS = 2
    BASE_TIMEOUT = 1
    MIN_TIMEOUT = 1
    MAX_NUM_TIMEOUTS = 2
    Reach <- MCAnywhere2
    Purposeful = TRUE
    MaxResends = 1
    Prompt = TRUE
    ServerSignal = TRUE
    SignalClients <- MCOne
INVARIANTS
    ListMatchesSockets
    StopsForGood
    RoundFinishes
PROPERTIES
    LeaversLeave
    ClientsTerminate
CHECK_DEADLOCK FALSE
