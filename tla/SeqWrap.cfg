SPECIFICATION Spec
CONSTANTS
    c1 = c1
    c2 = c2
    c3 = c3
    Cells <- MCCells3
    Middle = 1
    WinLines <- MCLines3
    MAX_SEQ = 4
    MaxTurns = 3
    NoPayload = NoPayload
    Freed = Freed
    Clients <- MCTwo
    MaxConns = 2
    SockBuf = 4
    FaultKinds <- MCNone
    MaxFaults = 0
    MAX_CLIENTS = 2
    BASE_TIMEOUT = 1
    MIN_TIMEOUT = 1
    MAX_NUM_TIMEOUTS = 2
    Reach <- MCAnywhere3
    Purposeful = TRUE
    MaxResends = 2
    Prompt = TRUE
    ServerSignal = FALSE
    SignalClients <- MCNone
PROPERTIES
    AckStartsGame
CHECK_DEADLOCK FALSE
