SPECIFICATION FairSpec
CONSTANTS
    p1 = p1
    p2 = p2
    Promises = {p1, p2}
    Root = Root
    Shapes <- Nested
    MaxCalls = 1
PROPERTIES
    FailureIsHeard
    DoneLeadsToEnd
    NothingOutlives
CHECK_DEADLOCK FALSE
