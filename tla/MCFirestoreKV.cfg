SPECIFICATION Spec
CONSTANTS
    a = a
    b = b
    Nodes = {a, b}
    Values = {a, b}
    None = None
    Uses <- LockAndMixed
    Skew = 1
    MaxAttempts = 2
    MaxTime = 4
    MaxLate = 1
INVARIANTS
    TypeOK
    MutualExclusion
    HolderSeesLease
PROPERTY ImplementsLeaseStore
