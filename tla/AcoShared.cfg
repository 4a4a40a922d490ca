CONSTANTS
    c1 = c1
    c2 = c2
    c3 = c3
    s1 = s1
    s2 = s2
    w1 = w1
    w2 = w2
    Cos = {c1, c2, c3}
    Stacks = {s1}
    Words = {w1}
    FirstWord = w1
    MainCo = MainCo
    NULL = NULL
    RetGap = 1
    AlignLimit = 4
    Room = 5
    DefaultSaveSz = 1
    SaveSizes = {0}
SPECIFICATION Spec
CHECK_DEADLOCK FALSE
SYMMETRY Symmetry
INVARIANTS
    TypeOK
    OwnerSound
    RunningOwns
    CopyMatchesStackPointer
    SaveFits
    NoInternalAbort
