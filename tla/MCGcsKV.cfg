SPECIFICATION Spec
CONSTANTS
    a = a
    b = b
    Nodes = {a, b}
    Values = {a, b}
    None = None
    Uses <- LockAndMore
    Skew = 1
    MaxTime = 4
    MaxGen = 3
    MaxLate = 1
INVARIANTS
    TypeOK
    GcsInv
    MutualExclusion
    LockInv
PROPERTY ImplementsLeaseStore
