CONSTANTS
    Arch = "aarch64"
    Cos = {c1, c2}
    MainCo = MainCo
    Controls = {nearest, toward_zero}
    Gprs = {g0, g1}
    ZeroGpr = g0
    MaxEntries = 2
SPECIFICATION Spec
CHECK_DEADLOCK FALSE
INVARIANTS
    ReturnIsCaught
