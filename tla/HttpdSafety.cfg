CONSTANTS
    k1 = k1
    k2 = k2
    k3 = k3
    Clients = {k1, k2, k3}
    NFds = 2
    MaxChunks = 2
    SendBuf = 1
    AddMayFail = TRUE
    NULL = NULL
SPECIFICATION Spec
SYMMETRY Symmetry
INVARIANTS TypeOK EventsStayGood DescriptorsMatch NoResponseUnasked
CHECK_DEADLOCK FALSE
