SPECIFICATION FairSpec
CONSTANTS
    Configs <- AllConfigs
    ExitCodes <- Codes
    MaxRespawns = 2
INVARIANTS
    TypeOK
    OneProcess
    SettledIsStopped
    HookWindows
    RetryBudget
    OutcomeHonest
    SupervisorInv
PROPERTIES
    WorkloadSafety
    StopLeadsToSettled
    HealthRestartServed
