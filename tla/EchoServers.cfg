CONSTANTS
    Clients = {k1, k2}
    NFds = 2
    MaxChunks = 2
    SendBuf = 1
    NULL = NULL
    SetSizes = {2, 4}
    AcceptMayFail = TRUE
    PollSizes = {2, 3}
    Records = {r1, r2}
    AddMayFail = TRUE
    Running = {"select", "poll", "kqueue", "nonblocking"}
SPECIFICATION FairSpec
CHECK_DEADLOCK FALSE
INVARIANTS TypeOK WatchesWhatIsOpen FdsFitTheSet ReportedCanBeRead RecordsOwned
PROPERTIES GoneAreClosed
