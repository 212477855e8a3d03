SPECIFICATION FairSpec
CONSTANTS
    Threads = {c1, c2, c3}
    MaxOps = 2
INVARIANTS NoRace
PROPERTY AllGetThrough
CHECK_DEADLOCK FALSE
