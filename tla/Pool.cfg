CONSTANTS
    NWorkers = 3
    NTasks = 3
    MayFail = {2}
    MallocMayFail = TRUE
    MaxSpurious = 1
    Main = Main
    NULL = NULL
    Garbage = Garbage
SPECIFICATION FairSpec
CHECK_DEADLOCK FALSE
INVARIANTS TypeOK ListSound TaskHeldByOne NoUseAfterFree ExitOnlyWhenDrained NoTaskIgnored
           NoDeadlock
PROPERTIES TasksRunOnce PoolFinishes
