CONSTANTS
    k1 = k1
    k2 = k2
    k3 = k3
    Clients = {k1, k2}
    NFds = 2
    MaxChunks = 2
    SendBuf = 1
    AddMayFail = FALSE
    NULL = NULL
SPECIFICATION FairSpec
PROPERTIES UsesLibacoWell EveryRequestAnswered GoneReclaimed EveryoneAccepted
CHECK_DEADLOCK FALSE
