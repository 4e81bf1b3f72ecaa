SPECIFICATION Spec
CONSTANTS
    Configs <- AllConfigs
    ExitCodes <- Codes
    MaxRespawns = 1
INVARIANT DownFailsProbe
