CONSTANTS
    MaxSignals = 3
SPECIFICATION FairSpec
CHECK_DEADLOCK FALSE
PROPERTIES TermUnblocks
