SPECIFICATION Spec
CONSTANTS
    a = a
    b = b
    Nodes = {a, b}
    Values = {a, b}
    None = None
    Uses <- RenewAndGet
    Skew = 0
    MaxTime = 3
    MaxGen = 3
    MaxLate = 0
PROPERTY GetIsConsistent
