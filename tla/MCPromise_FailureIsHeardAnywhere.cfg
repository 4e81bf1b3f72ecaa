SPECIFICATION FairSpec
CONSTANTS
    p1 = p1
    p2 = p2
    Promises = {p1, p2}
    Root = Root
    Shapes <- Nested
    MaxCalls = 0
PROPERTIES
    FailureIsHeardAnywhere
CHECK_DEADLOCK FALSE
