CONSTANTS
    Clients = {k1, k2}
    NFds = 2
    MaxChunks = 1
    SendBuf = 1
    AcceptMayFail = FALSE
    NULL = NULL
    SetSizes = {2}
    PollSizes = {2}
    Records = {r1, r2}
    AddMayFail = FALSE
    Running = {"nonblocking"}
SPECIFICATION FairSpec
CHECK_DEADLOCK FALSE
PROPERTIES DrainedReadEnds
