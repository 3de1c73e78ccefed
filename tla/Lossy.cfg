SPECIFICATION Spec
CONSTANTS
    c1 = c1
    c2 = c2
    c3 = c3
    Cells <- MCCells2
    Middle = 1
    WinLines <- MCShortLines2
    MAX_SEQ = 15
    MaxTurns = 3
    NoPayload = NoPayload
    Freed = Freed
    Clients <- MCTwo
    MaxConns = 2
    SockBuf = 2
    FaultKinds <- MCAllFaults
    MaxFaults = 2
    MAX_CLIENTS = 2
    BASE_TIMEOUT = 1
    MIN_TIMEOUT = 1
    MAX_NUM_TIMEOUTS = 2
    Reach <- MCAnywhere2
    Purposeful = TRUE
    MaxResends = 1
    Prompt = FALSE
    ServerSignal = FALSE
    SignalClients <- MCNone
INVARIANTS
    AddressesOK
    AckMeansApplied
PROPERTIES
    AppliedInOrder
    ImplementsTicTacToe
CHECK_DEADLOCK FALSE
SYMMETRY MCSymmetry
