SPECIFICATION Spec
CONSTANTS
    a = a
    b = b
    Nodes = {a, b}
    Values = {a, b}
    None = None
    Uses <- LockMixedCreate
    Second = 2
    Skew = 1
    MaxTime = 7
    MaxLate = 1
INVARIANTS
    TypeOK
    MutualExclusion
    LockInv
    HolderSeesLease
PROPERTY LeaseRespected
