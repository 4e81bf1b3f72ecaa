----------------------------- MODULE MCSupervisor -----------------------------
EXTENDS Supervisor

\* defaultSpawnConfig() with every callback, and variations. max_retries is 2
\* where the default is 5: the limit and one try more are within MaxRespawns.
Default ==
    [respawnEnabled |-> FALSE, respawnKeepAlive |-> FALSE, respawnMaxRetries |-> 2,
     resolveFailure |-> "retry", resolveTimeout |-> FALSE,
     restartOnLiveness |-> TRUE, hooks |-> Hooks]

Respawning == [Default EXCEPT !.respawnEnabled = TRUE]

AllConfigs ==
    {Default,
     Respawning,
     [Respawning EXCEPT !.respawnKeepAlive = TRUE, !.respawnMaxRetries = 1,
                        !.hooks = Hooks \ {"pre_stop"}],
     [Respawning EXCEPT !.respawnMaxRetries = 0, !.resolveFailure = "fail",
                        !.restartOnLiveness = FALSE, !.hooks = Probes],
     [Respawning EXCEPT !.resolveTimeout = TRUE, !.hooks = {}],
     [Default EXCEPT !.respawnMaxRetries = -1, !.hooks = {"readiness"}]}

\* Killed by a signal, a clean exit, a failure.
Codes == {-1, 0, 1}
=============================================================================
