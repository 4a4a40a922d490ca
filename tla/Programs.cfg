CONSTANTS
    MaxTyped = 4
    UpSize = 2
    DownSize = 2
    ToSize = 2
    FrSize = 2
    OutSize = 1
    RecordSize = 2
    PAD = PAD
    NodeCount = 4
    Dot = Dot
    DotDot = DotDot
    MaxFds = 3
    WordLimit = 512
    DefaultSize = 160
    MinSize = 64
    PageSizes = {32, 64, 128}
    Bases = {0, 16, 256}
    Size = 5
    PipeSize = 2
    Oversize = 3
    Lines = 2
    MaxFile = 4
    ChunkSize = 2
    PipeRoom = 3
SPECIFICATION FairSpec
CHECK_DEADLOCK FALSE
INVARIANTS  WalksExact StackInRegion TreeKept FilesWhole ProcessesSound
PROPERTIES ProgramsEnd
