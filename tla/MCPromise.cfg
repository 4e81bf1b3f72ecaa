SPECIFICATION Spec
CONSTANTS
    p1 = p1
    p2 = p2
    Promises = {p1, p2}
    Root = Root
    Shapes <- TaskAndAny
    MaxCalls = 3
INVARIANTS
    TypeOK
    CancelIsQuiet
PROPERTIES
    JoinIsHonest
    AnyTrueDecides
CHECK_DEADLOCK FALSE
