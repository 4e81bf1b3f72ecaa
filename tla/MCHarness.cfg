SPECIFICATION FairSpec
CHECK_DEADLOCK FALSE
CONSTANTS
    Workloads = {w1, w2}
    None = None
    Setups <- AllSetups
INVARIANTS
    TypeOK
    StoreAsPromised
    StoppedBeforeExit
    ExitIsHonest
PROPERTY EndLeadsToExit
