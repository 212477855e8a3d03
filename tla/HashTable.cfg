SPECIFICATION Spec
CONSTANTS
    k1 = k1
    k2 = k2
    b1 = b1
    Threads = {t1, t2, t3}
    Keys = {k1, k2}
    Versions = {v1, v2}
    Absent = Absent
    None = None
    Buckets = {b1}
    Bucket <- Shared
    Nodes = {n1, n2, n3, n4}
    NULL = NULL
SYMMETRY Alike
INVARIANTS NoRace ChainsSound LocksReleased
PROPERTY ImplementsStore
