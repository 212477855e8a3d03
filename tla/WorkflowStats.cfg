SPECIFICATION Spec
CONSTANTS
    Cores = {c1, c2}
    Requests = {r1, r2, r3, r4}
    Fused = {r1, r2, r3}
    Limit = 2
    IntMax = 1
    MaxNow = 3
    None = None
INVARIANTS FusedIsAverage NotesKept
SYMMETRY Alike
CHECK_DEADLOCK FALSE
