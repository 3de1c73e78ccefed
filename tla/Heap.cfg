SPECIFICATION Spec

CONSTANTS
    Addrs = {1, 2, 3, 4, 5, 6, 7, 8, 9, 10, 11, 12}
    NULL = NULL
    EMPTY = EMPTY
    LOOPBACK <- MCLoopback
    UINT8_MAX = 255
    UINT16_MAX = 65535
    Programs = {"server", "client"}
    CommandLines <- MCCommandLines
    HostAddresses <- MCHosts
    MayFail <- MCSessionMayFail
    MaxClients = 2

INVARIANTS
    FreesWhatItOwns
    NothingLeaks

PROPERTIES
    ServerStartsAsAsked

CHECK_DEADLOCK FALSE
