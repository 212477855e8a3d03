SPECIFICATION Spec
CONSTANTS
    k1 = k1
    k2 = k2
    k3 = k3
    HwCores = {0}
    BigCores = {2, 3}
    Calls = {k1, k2, k3}
    Fused = {k3}
    ExecTimes <- Estimates
    LongFunc = 4
    W = 64
    Start = 3
    MaxNow = 5
    None = None
INVARIANTS IdleLooksFree LoadAccounted
PROPERTY PlacedWell
SYMMETRY Alike
CHECK_DEADLOCK FALSE
