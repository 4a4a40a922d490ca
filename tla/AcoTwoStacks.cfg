CONSTANTS
    c1 = c1
    c2 = c2
    c3 = c3
    s1 = s1
    s2 = s2
    w1 = w1
    w2 = w2
    Cos = {c1, c2}
    Stacks = {s1, s2}
    Words = {w1, w2}
    FirstWord = w1
    MainCo = MainCo
    NULL = NULL
    RetGap = 2
    AlignLimit = 3
    Room = 3
    DefaultSaveSz = 2
    SaveSizes = {0}
SPECIFICATION Spec
CHECK_DEADLOCK FALSE
PROPERTIES
    PrivateStacks
