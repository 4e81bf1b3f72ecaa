--------------------------- MODULE SupervisorProofs ---------------------------
(***************************************************************************)
(* Safety of the supervisor for every configuration, every set of exit     *)
(* codes and every bound on respawns, and that it implements Workload.     *)
(***************************************************************************)
EXTENDS Supervisor, TLAPS

-----------------------------------------------------------------------------
\* Types.

\* doBackoff leaves the loop's variables in their types.
LEMMA DoBackoffType ==
    ASSUME TypeOK, NEW n \in Nat, NEW wl \in WorkloadState, DoBackoff(n, wl)
    PROVE  attempts' \in Nat /\ w' \in WorkloadState /\ pc' \in Places /\ p' \in Outcome
<1> USE ConfigsAssumption, ExitCodesAssumption DEF TypeOK, Places
<1>1. CASE cfg.respawnMaxRetries # 0 /\ n + 1 > cfg.respawnMaxRetries
    BY <1>1 DEF DoBackoff, Outcome, Reject
<1>2. CASE ~(cfg.respawnMaxRetries # 0 /\ n + 1 > cfg.respawnMaxRetries)
  <2>1. wl.respawnCount + 1 \in Nat
      BY DEF WorkloadState
  <2>2. w' \in WorkloadState
      BY <1>2, <2>1 DEF DoBackoff, WorkloadState
  <2> QED BY <1>2, <2>2 DEF DoBackoff
<1> QED BY <1>1, <1>2

\* So do collecting the exit code and cancelling the attempt's watchers.
LEMMA CollectExitType ==
    ASSUME TypeOK, CollectExit
    PROVE  waitCh' \in SUBSET ExitCodes /\ w' \in WorkloadState /\ pc' \in Places
  BY DEF TypeOK, CollectExit, WorkloadState, Places

LEMMA AttemptCancelType ==
    ASSUME TypeOK, AttemptCancel
    PROVE  /\ watch' \in [Probes -> WatchStates]
           /\ chan' \in SUBSET Probes
           /\ stale' \in [Probes -> Nat]
  BY DEF TypeOK, AttemptCancel, NoWatch, WatchStates

LEMMA DecideType ==
    ASSUME TypeOK, NEW long \in BOOLEAN, DecideExitedOrRespawn(long)
    PROVE  TypeOK'
<1> USE ExitCodesAssumption
    DEF TypeOK, Places, ctxVars, procVars, watchVars
<1> DEFINE n == IF long THEN 0 ELSE attempts
           wl == IF long THEN [w EXCEPT !.backingOff = FALSE] ELSE w
<1>1. n \in Nat /\ wl \in WorkloadState
    BY DEF WorkloadState
<1>2. CASE DoBackoff(n, wl)
    BY <1>1, <1>2, DoBackoffType DEF DecideExitedOrRespawn, Retries
<1>3. CASE ~DoBackoff(n, wl)
  <2>1. p' \in Outcome /\ pc' \in Places
      BY <1>1, <1>3 DEF DecideExitedOrRespawn, Retries, Resolve, Reject, Outcome
  <2> QED BY <1>1, <1>3, <2>1 DEF DecideExitedOrRespawn, Retries
<1> QED BY <1>2, <1>3

\* Every step of spawn.go's loop, of its callbacks, of its watchers and of the
\* process keeps the variables in their types.
LEMMA TypeStep == TypeOK /\ [Next]_vars => TypeOK'
<1> SUFFICES ASSUME TypeOK, [Next]_vars PROVE TypeOK'
    OBVIOUS
<1> USE ExitCodesAssumption
    DEF TypeOK, Places, Preparing, Attempt, ctxVars, loopVars, procVars, watchVars
<1>1. CASE RequestStopFlag
    BY <1>1 DEF RequestStopFlag
<1>2. CASE RequestStopCancel
    BY <1>2 DEF RequestStopCancel
<1>3. CASE ParentCancel
    BY <1>3 DEF ParentCancel
<1>4. CASE ResolveReturns
    BY <1>4 DEF ResolveReturns
<1>5. CASE CommandNotFound
    BY <1>5 DEF CommandNotFound, Reject, Outcome
<1>6. CASE ResolveFails
    BY <1>6, DoBackoffType DEF ResolveFails, Reject, Resolve, stopReason, Outcome
<1>7. CASE PreStartReturns
    BY <1>7 DEF PreStartReturns
<1>8. CASE PreStartFails
    BY <1>8 DEF PreStartFails, Reject, Resolve, stopReason, Outcome
<1>9. CASE PostStartReturns
    BY <1>9 DEF PostStartReturns
<1>10. CASE PreStopReturns
    BY <1>10 DEF PreStopReturns
<1>11. CASE PostStopReturns
    BY <1>11 DEF PostStopReturns
<1>12. CASE Top
    BY <1>12 DEF Top, Resolve, stopReason, Outcome
<1>13. CASE BackoffElapses
    BY <1>13 DEF BackoffElapses
<1>14. CASE BackoffCancelled
    BY <1>14 DEF BackoffCancelled
<1>15. CASE Start
  <2>1. w' \in WorkloadState
      BY <1>15 DEF Start, WorkloadState
  <2>2. watch' \in [Probes -> WatchStates]
      BY <1>15 DEF Start, WatchStates, Active
  <2> QED BY <1>15, <2>1, <2>2 DEF Start
<1>16. CASE StartFails
    BY <1>16 DEF StartFails, Reject, Outcome
<1>17. CASE SelectStop
    BY <1>17, AttemptCancelType DEF SelectStop, BeginTeardown, stopReason
<1>18. ASSUME NEW k \in Probes, SelectHealth(k) PROVE TypeOK'
    BY <1>18, AttemptCancelType DEF SelectHealth, BeginTeardown
<1>19. CASE SelectExit
    BY <1>19, CollectExitType, AttemptCancelType DEF SelectExit
<1>20. CASE SendTerm
    BY <1>20 DEF SendTerm
<1>21. CASE GraceElapses
    BY <1>21 DEF GraceElapses
<1>22. CASE Terminated
    BY <1>22, CollectExitType DEF Terminated
<1>23. CASE DecideStopped
    BY <1>23 DEF DecideStopped, Resolve, stopReason, Outcome, WorkloadState
<1>24. ASSUME NEW long \in BOOLEAN, DecideExitedOrRespawn(long) PROVE TypeOK'
    BY <1>24, DecideType
<1>25. ASSUME NEW k \in Probes, FactoryReturns(k) PROVE TypeOK'
    BY <1>25 DEF FactoryReturns, WatchEnds, WatchStates, Active
<1>26. ASSUME NEW k \in Probes, StaleWatcherReturns(k) PROVE TypeOK'
    BY <1>26 DEF StaleWatcherReturns, Verdict, WorkloadState
<1>27. CASE ReadinessFactoryFails
    BY <1>27 DEF ReadinessFactoryFails, WatchEnds, WatchStates, Probes
<1>28. CASE ReadinessTrue
    BY <1>28 DEF ReadinessTrue, WatchEnds, WatchStates, Probes, WorkloadState
<1>29. CASE ReadinessFalse
    BY <1>29 DEF ReadinessFalse, WatchEnds, WatchStates, Probes
<1>30. CASE ReadinessRejected
    BY <1>30 DEF ReadinessRejected, WatchEnds, WatchStates, Probes
<1>31. CASE LivenessFactoryFails
    BY <1>31 DEF LivenessFactoryFails, WatchEnds, WatchStates, Probes
<1>32. CASE LivenessTrue
    BY <1>32 DEF LivenessTrue, WatchEnds, WatchStates, Probes, WorkloadState
<1>33. CASE LivenessFalseOrRejected
    BY <1>33 DEF LivenessFalseOrRejected, WatchEnds, WatchStates, Probes
<1>34. CASE ProcessExits
    BY <1>34 DEF ProcessExits
<1>35. CASE UNCHANGED vars
    BY <1>35 DEF vars
<1> QED
    BY <1>1, <1>2, <1>3, <1>4, <1>5, <1>6, <1>7, <1>8, <1>9, <1>10, <1>11, <1>12,
       <1>13, <1>14, <1>15, <1>16, <1>17, <1>18, <1>19, <1>20, <1>21, <1>22, <1>23,
       <1>24, <1>25, <1>26, <1>27, <1>28, <1>29, <1>30, <1>31, <1>32, <1>33, <1>34, <1>35
    DEF Next, Stopping, Callbacks, Loop, Watchers, Finished

LEMMA TypeInit == Init => TypeOK
<1> SUFFICES ASSUME Init PROVE TypeOK
    OBVIOUS
<1>1. w \in WorkloadState /\ p \in Outcome
    BY ExitCodesAssumption DEF Init, WorkloadState, Outcome, Pending
<1>2. watch \in [Probes -> WatchStates] /\ stale \in [Probes -> Nat]
    BY DEF Init, NoWatch, WatchStates
<1> QED BY <1>1, <1>2 DEF Init, TypeOK, Places

\* The supervisor's variables always have their types.
THEOREM TypeCorrect == Spec => []TypeOK
  BY TypeInit, TypeStep, PTL DEF Spec

-----------------------------------------------------------------------------
\* The inductive invariant.

\* Collecting an exit code ends the attempt's process.
LEMMA CollectExitProcess ==
    ASSUME TypeOK, ProcessInv, pc \in Attempt, CollectExit
    PROVE  /\ live = 0 /\ waitCh' = {} /\ ~w'.up
           /\ pc' \in {"post_stop", "decide"}
  BY DEF TypeOK, ProcessInv, CollectExit, WorkloadState

\* doBackoff either gives up, or sleeps with the process state untouched.
LEMMA DoBackoffCases ==
    ASSUME TypeOK, NEW n \in Nat, NEW wl \in WorkloadState, DoBackoff(n, wl)
    PROVE  /\ attempts' = n + 1
           /\ w'.up = wl.up /\ w'.lastExitCode = wl.lastExitCode
           /\ \/ /\ cfg.respawnMaxRetries # 0 /\ n + 1 > cfg.respawnMaxRetries
                 /\ pc' = "done" /\ p'.state = "rejected" /\ p'.why = "exhausted"
              \/ /\ ~(cfg.respawnMaxRetries # 0 /\ n + 1 > cfg.respawnMaxRetries)
                 /\ pc' = "backoff" /\ p' = p
<1>1. CASE cfg.respawnMaxRetries # 0 /\ n + 1 > cfg.respawnMaxRetries
    BY <1>1 DEF DoBackoff, Reject
<1>2. CASE ~(cfg.respawnMaxRetries # 0 /\ n + 1 > cfg.respawnMaxRetries)
  <2>1. /\ attempts' = n + 1 /\ pc' = "backoff" /\ p' = p
        /\ w' = [wl EXCEPT !.respawnCount = @ + 1, !.backingOff = TRUE]
      BY <1>2 DEF DoBackoff
  <2>2. w'.up = wl.up /\ w'.lastExitCode = wl.lastExitCode
      BY <2>1 DEF WorkloadState
  <2> QED BY <1>2, <2>1, <2>2
<1> QED BY <1>1, <1>2

\* The three ways an attempt that was not stopped ends: failed, finished, or
\* backing off towards the next one.
LEMMA DecideCases ==
    ASSUME TypeOK, NEW long \in BOOLEAN, DecideExitedOrRespawn(long)
    PROVE  \E n \in Nat :
             /\ n = IF long THEN 0 ELSE attempts
             /\ tries' = IF long THEN 1 ELSE tries
             /\ attempts' \in {n, n + 1}
             /\ w'.up = w.up /\ w'.lastExitCode = w.lastExitCode
             /\ \/ /\ pc' = "done" /\ p'.state = "rejected" /\ p'.why = "run"
                \/ /\ pc' = "done" /\ p'.state = "resolved" /\ p'.why = "exited"
                   /\ FinalExit /\ p'.code = 0 /\ w.lastExitCode = 0
                \/ /\ cfg.respawnMaxRetries # 0 /\ n + 1 > cfg.respawnMaxRetries
                   /\ pc' = "done" /\ p'.state = "rejected" /\ p'.why = "exhausted"
                \/ /\ ~(cfg.respawnMaxRetries # 0 /\ n + 1 > cfg.respawnMaxRetries)
                   /\ pc' = "backoff" /\ p' = p /\ attempts' = n + 1
<1> DEFINE n == IF long THEN 0 ELSE attempts
           wl == IF long THEN [w EXCEPT !.backingOff = FALSE] ELSE w
<1>1. /\ n \in Nat /\ wl \in WorkloadState
      /\ wl.up = w.up /\ wl.lastExitCode = w.lastExitCode
    BY DEF TypeOK, WorkloadState
<1>2. tries' = IF long THEN 1 ELSE tries
    BY DEF DecideExitedOrRespawn, Retries
<1>3. CASE DoBackoff(n, wl)
    BY <1>1, <1>2, <1>3, DoBackoffCases
<1>4. CASE ~DoBackoff(n, wl)
  <2>1. FinalExit /\ attempts' = n /\ w' = wl
      BY <1>4 DEF DecideExitedOrRespawn, Retries
  <2>2. \/ w.lastExitCode # 0 /\ Reject("run")
        \/ w.lastExitCode = 0 /\ Resolve(0, n, "exited")
      BY <1>4 DEF DecideExitedOrRespawn, Retries
  <2>3. CASE w.lastExitCode # 0 /\ Reject("run")
      BY <1>1, <1>2, <2>1, <2>3 DEF Reject
  <2>4. CASE w.lastExitCode = 0 /\ Resolve(0, n, "exited")
      BY <1>1, <1>2, <2>1, <2>4 DEF Resolve
  <2> QED BY <2>2, <2>3, <2>4
<1> QED BY <1>3, <1>4

\* The watchers only touch their own state and the reported health.
LEMMA WatchersFrame ==
    ASSUME TypeOK, Watchers
    PROVE  /\ UNCHANGED <<cfg, cancelled, stop, pc, attempts, branch, reason, tries,
                          live, waitCh, sent, p>>
           /\ w'.up = w.up /\ w'.lastExitCode = w.lastExitCode
  BY DEF TypeOK, WorkloadState, Watchers, FactoryReturns, StaleWatcherReturns,
         ReadinessFactoryFails, ReadinessTrue, ReadinessFalse, ReadinessRejected,
         LivenessFactoryFails, LivenessTrue, LivenessFalseOrRejected,
         ctxVars, loopVars, procVars

\* Processes, one step at a time.
LEMMA ProcessStep == TypeOK /\ ProcessInv /\ [Next]_vars => ProcessInv'
<1> SUFFICES ASSUME TypeOK, ProcessInv, [Next]_vars PROVE ProcessInv'
    OBVIOUS
<1> USE DEF ProcessInv, Attempt, Settled, Pending, ctxVars, loopVars, procVars, watchVars
<1>1. CASE Stopping
    BY <1>1 DEF Stopping, RequestStopFlag, RequestStopCancel, ParentCancel
<1>2. CASE ResolveReturns \/ PreStartReturns
    BY <1>2 DEF ResolveReturns, PreStartReturns
<1>3. CASE CommandNotFound \/ StartFails
    BY <1>3 DEF CommandNotFound, StartFails, Reject
<1>4. CASE ResolveFails
    BY <1>4, DoBackoffCases DEF ResolveFails, Resolve, Reject, TypeOK
<1>5. CASE PreStartFails
    BY <1>5 DEF PreStartFails, Resolve, Reject
<1>6. CASE PostStartReturns \/ PreStopReturns \/ PostStopReturns
    BY <1>6 DEF PostStartReturns, PreStopReturns, PostStopReturns
<1>7. CASE Top \/ BackoffElapses \/ BackoffCancelled
    BY <1>7 DEF Top, BackoffElapses, BackoffCancelled, Resolve
<1>8. CASE Start
    BY <1>8 DEF Start, TypeOK, WorkloadState
<1>9. CASE SelectStop
    BY <1>9 DEF SelectStop, BeginTeardown
<1>10. ASSUME NEW k \in Probes, SelectHealth(k) PROVE ProcessInv'
    BY <1>10 DEF SelectHealth, BeginTeardown
<1>11. CASE SelectExit
    BY <1>11, CollectExitProcess DEF SelectExit
<1>12. CASE SendTerm \/ GraceElapses
    BY <1>12 DEF SendTerm, GraceElapses
<1>13. CASE Terminated
    BY <1>13, CollectExitProcess DEF Terminated
<1>14. CASE DecideStopped
    BY <1>14 DEF DecideStopped, Resolve
<1>15. ASSUME NEW long \in BOOLEAN, DecideExitedOrRespawn(long) PROVE ProcessInv'
  <2>1. pc = "decide" /\ UNCHANGED <<live, waitCh>>
      BY <1>15 DEF DecideExitedOrRespawn, Retries
  <2> QED BY <1>15, <2>1, DecideCases
<1>16. CASE Watchers
    BY <1>16, WatchersFrame
<1>17. CASE ProcessExits
    BY <1>17 DEF ProcessExits, TypeOK
<1>18. CASE UNCHANGED vars
    BY <1>18 DEF vars
<1> QED
    BY <1>1, <1>2, <1>3, <1>4, <1>5, <1>6, <1>7, <1>8, <1>9, <1>10, <1>11, <1>12,
       <1>13, <1>14, <1>15, <1>16, <1>17, <1>18
    DEF Next, Callbacks, Loop, Finished

\* Retries, one step at a time. Only Top begins an iteration, only doBackoff
\* counts one, and only a long attempt resets both counts.
LEMMA RetryStep == TypeOK /\ ProcessInv /\ RetryInv /\ [Next]_vars => RetryInv'
<1> SUFFICES ASSUME TypeOK, ProcessInv, RetryInv, [Next]_vars PROVE RetryInv'
    OBVIOUS
<1>0. cfg.respawnMaxRetries \in Int /\ attempts \in Nat /\ tries \in Nat
    BY ConfigsAssumption DEF TypeOK, ValidConfig, SpawnConfig
<1>p. pc # "done" => p.why = "none"
    BY DEF ProcessInv, Pending
<1> USE <1>0 DEF RetryInv, RetryBudget, ctxVars, loopVars, procVars, watchVars
<1>1. CASE Stopping
    BY <1>1 DEF Stopping, RequestStopFlag, RequestStopCancel, ParentCancel
<1>2. CASE ResolveReturns \/ PreStartReturns
    BY <1>2 DEF ResolveReturns, PreStartReturns
<1>3. CASE CommandNotFound \/ StartFails
    BY <1>3 DEF CommandNotFound, StartFails, Reject
<1>4. CASE ResolveFails
  <2>1. CASE DoBackoff(attempts, w)
      BY <1>4, <2>1, DoBackoffCases DEF ResolveFails, TypeOK
  <2>2. CASE ~DoBackoff(attempts, w)
      BY <1>4, <2>2 DEF ResolveFails, Resolve, Reject, stopReason
  <2> QED BY <2>1, <2>2
<1>5. CASE PreStartFails
    BY <1>5 DEF PreStartFails, Resolve, Reject, stopReason
<1>6. CASE PostStartReturns \/ PreStopReturns \/ PostStopReturns
    BY <1>6 DEF PostStartReturns, PreStopReturns, PostStopReturns
<1>7. CASE Top
    BY <1>7, <1>p DEF Top, Resolve, stopReason
<1>8. CASE BackoffElapses \/ BackoffCancelled
    BY <1>8 DEF BackoffElapses, BackoffCancelled
<1>9. CASE Start
    BY <1>9 DEF Start
<1>10. CASE SelectStop
    BY <1>10 DEF SelectStop, BeginTeardown
<1>11. ASSUME NEW k \in Probes, SelectHealth(k) PROVE RetryInv'
    BY <1>11 DEF SelectHealth, BeginTeardown
<1>12. CASE SelectExit
    BY <1>12 DEF SelectExit, CollectExit
<1>13. CASE SendTerm \/ GraceElapses
    BY <1>13 DEF SendTerm, GraceElapses
<1>14. CASE Terminated
    BY <1>14 DEF Terminated, CollectExit
<1>15. CASE DecideStopped
    BY <1>15 DEF DecideStopped, Resolve, stopReason, TypeOK
<1>16. ASSUME NEW long \in BOOLEAN, DecideExitedOrRespawn(long) PROVE RetryInv'
  <2>1. pc = "decide" /\ cfg' = cfg
      BY <1>16 DEF DecideExitedOrRespawn, Retries
  <2> QED BY <1>16, <1>p, <2>1, DecideCases
<1>17. CASE Watchers
    BY <1>17, WatchersFrame
<1>18. CASE ProcessExits
    BY <1>18 DEF ProcessExits
<1>19. CASE UNCHANGED vars
    BY <1>19 DEF vars
<1> QED
    BY <1>1, <1>2, <1>3, <1>4, <1>5, <1>6, <1>7, <1>8, <1>9, <1>10, <1>11, <1>12,
       <1>13, <1>14, <1>15, <1>16, <1>17, <1>18, <1>19
    DEF Next, Callbacks, Loop, Finished

\* Teardown and what the promise says of it, one step at a time.
LEMMA TeardownStep == TypeOK /\ ProcessInv /\ TeardownInv /\ [Next]_vars => TeardownInv'
<1> SUFFICES ASSUME TypeOK, ProcessInv, TeardownInv, [Next]_vars PROVE TeardownInv'
    OBVIOUS
<1>p. pc # "done" => p.why = "none" /\ p.state = "pending"
    BY DEF ProcessInv, Pending
<1> USE <1>p DEF TeardownInv, OutcomeHonest, ctxVars, loopVars, procVars, watchVars
<1>1. CASE Stopping
    BY <1>1 DEF Stopping, RequestStopFlag, RequestStopCancel, ParentCancel
<1>2. CASE ResolveReturns \/ PreStartReturns
    BY <1>2 DEF ResolveReturns, PreStartReturns
<1>3. CASE CommandNotFound \/ StartFails
    BY <1>3 DEF CommandNotFound, StartFails, Reject
<1>4. CASE ResolveFails
  <2>1. CASE DoBackoff(attempts, w)
      BY <1>4, <2>1, DoBackoffCases DEF ResolveFails, TypeOK
  <2>2. CASE ~DoBackoff(attempts, w)
      BY <1>4, <2>2 DEF ResolveFails, Resolve, Reject, stopReason
  <2> QED BY <2>1, <2>2
<1>5. CASE PreStartFails
    BY <1>5 DEF PreStartFails, Resolve, Reject, stopReason
<1>6. CASE PostStartReturns \/ PreStopReturns \/ PostStopReturns
    BY <1>6 DEF PostStartReturns, PreStopReturns, PostStopReturns
<1>7. CASE Top
    BY <1>7 DEF Top, Resolve, stopReason
<1>8. CASE BackoffElapses \/ BackoffCancelled
    BY <1>8 DEF BackoffElapses, BackoffCancelled
<1>9. CASE Start
    BY <1>9 DEF Start
<1>10. CASE SelectStop
    BY <1>10 DEF SelectStop, BeginTeardown, stopReason
<1>11. ASSUME NEW k \in Probes, SelectHealth(k) PROVE TeardownInv'
    BY <1>11 DEF SelectHealth, BeginTeardown
<1>12. CASE SelectExit
    BY <1>12 DEF SelectExit, CollectExit
<1>13. CASE SendTerm \/ GraceElapses
    BY <1>13 DEF SendTerm, GraceElapses
<1>14. CASE Terminated
    BY <1>14 DEF Terminated, CollectExit
<1>15. CASE DecideStopped
    BY <1>15 DEF DecideStopped, Resolve, stopReason
<1>16. ASSUME NEW long \in BOOLEAN, DecideExitedOrRespawn(long) PROVE TeardownInv'
  <2>1. /\ pc = "decide"
        /\ UNCHANGED <<cfg, cancelled, stop, branch, reason, sent>>
      BY <1>16 DEF DecideExitedOrRespawn, Retries
  <2> QED BY <1>16, <2>1, DecideCases DEF FinalExit
<1>17. CASE Watchers
    BY <1>17, WatchersFrame
<1>18. CASE ProcessExits
    BY <1>18 DEF ProcessExits
<1>19. CASE UNCHANGED vars
    BY <1>19 DEF vars
<1> QED
    BY <1>1, <1>2, <1>3, <1>4, <1>5, <1>6, <1>7, <1>8, <1>9, <1>10, <1>11, <1>12,
       <1>13, <1>14, <1>15, <1>16, <1>17, <1>18, <1>19
    DEF Next, Callbacks, Loop, Finished

LEMMA InvInit == Init => SupervisorInv
<1> SUFFICES ASSUME Init PROVE SupervisorInv
    OBVIOUS
<1>1. ProcessInv
    BY DEF Init, ProcessInv, Attempt
<1>2. RetryInv
  <2>1. cfg.respawnMaxRetries \in Int
      BY ConfigsAssumption DEF Init, ValidConfig, SpawnConfig
  <2> QED BY <2>1 DEF Init, RetryInv, RetryBudget, Pending
<1>3. TeardownInv
    BY DEF Init, TeardownInv, OutcomeHonest, Pending
<1> QED BY <1>1, <1>2, <1>3 DEF SupervisorInv

\* The inductive invariant holds in every reachable state, for every spawn()
\* configuration.
THEOREM Invariance == Spec => []SupervisorInv
<1>1. TypeOK /\ SupervisorInv /\ [Next]_vars => SupervisorInv'
    BY ProcessStep, RetryStep, TeardownStep DEF SupervisorInv
<1> QED BY <1>1, InvInit, TypeCorrect, PTL DEF Spec

-----------------------------------------------------------------------------
\* What it shows.

\* Never two processes of one workload, whatever the restarts.
THEOREM AtMostOneProcess == Spec => []OneProcess
<1>1. SupervisorInv => OneProcess
    BY DEF SupervisorInv, ProcessInv, OneProcess
<1> QED BY <1>1, Invariance, PTL

\* A settled promise means the workload's process is gone and reported down.
THEOREM SettledMeansStopped == Spec => []SettledIsStopped
<1>1. SupervisorInv => SettledIsStopped
    BY DEF SupervisorInv, ProcessInv, SettledIsStopped, Settled, Attempt, Pending
<1> QED BY <1>1, Invariance, PTL

\* The stop hooks run on their side of the process's death.
THEOREM HooksInTheirWindow == Spec => []HookWindows
<1>1. SupervisorInv => HookWindows
    BY DEF SupervisorInv, ProcessInv, TeardownInv, HookWindows, Attempt
<1> QED BY <1>1, Invariance, PTL

\* max_retries bounds the iterations between two resets, exactly.
THEOREM RetriesBounded == Spec => []RetryBudget
<1>1. SupervisorInv => RetryBudget
    BY DEF SupervisorInv, RetryInv
<1> QED BY <1>1, Invariance, PTL

\* The struct or error the promise settles with describes what happened.
THEOREM OutcomeIsHonest == Spec => []OutcomeHonest
<1>1. SupervisorInv => OutcomeHonest
    BY DEF SupervisorInv, TeardownInv
<1> QED BY <1>1, Invariance, PTL

-----------------------------------------------------------------------------
\* The supervisor implements Workload.

AbsVars == <<life, cancelled, verdict>>

LEMMA RefinesInit == Init => Abstract!Init
  BY DEF Init, Abstract!Init, life, verdict, Settled, Pending, Preparing

\* Settling maps to Settle: nothing runs, and the reason fits the verdict.
LEMMA SettleStep ==
    ASSUME TypeOK', SupervisorInv, SupervisorInv', pc # "done", pc \notin Attempt,
           pc' = "done", cancelled' = cancelled
    PROVE  Abstract!Next
<1>1. life \in {"idle", "launching"} /\ life' = "settled"
    BY DEF SupervisorInv, ProcessInv, life, Settled, Pending
<1>2. verdict' \in {"stopped", "exited", "failed"}
    BY DEF SupervisorInv, ProcessInv, verdict, Settled
<1>3. verdict' = "stopped" => cancelled
  <2>1. p'.state \in {"pending", "resolved", "rejected"}
      BY DEF TypeOK, Outcome
  <2> QED BY <2>1 DEF SupervisorInv, ProcessInv, TeardownInv, OutcomeHonest, verdict, Settled
<1>4. Abstract!Settle(verdict')
    BY <1>1, <1>2, <1>3 DEF Abstract!Settle
<1> QED BY <1>2, <1>4 DEF Abstract!Next, Abstract!Verdicts

\* A step that settles nothing, kills nothing and stays on its side of
\* "preparing" does not show; nor does one inside an attempt or outside it.
LEMMA HiddenStep ==
    ASSUME SupervisorInv, SupervisorInv', UNCHANGED <<cancelled, live>>,
           \/ pc = "done" /\ pc' = "done" /\ p' = p
           \/ pc # "done" /\ pc' # "done" /\ (pc \in Preparing <=> pc' \in Preparing)
    PROVE  UNCHANGED AbsVars
  BY DEF SupervisorInv, ProcessInv, AbsVars, life, verdict, Settled, Pending

\* Every step of the supervisor is a step of Workload, or does not show.
LEMMA RefinesStep ==
    TypeOK' /\ SupervisorInv /\ SupervisorInv' /\ [Next]_vars => [Abstract!Next]_AbsVars
<1> SUFFICES ASSUME TypeOK', SupervisorInv, SupervisorInv', [Next]_vars
             PROVE  Abstract!Next \/ UNCHANGED AbsVars
    OBVIOUS
<1> USE DEF Preparing, ctxVars, loopVars, procVars, watchVars
<1>1. CASE Stopping
  <2>1. CASE RequestStopFlag
      BY <2>1 DEF RequestStopFlag, AbsVars, life, verdict, Settled
  <2>2. CASE RequestStopCancel \/ ParentCancel
    <3>1. life' = life /\ verdict' = verdict /\ ~cancelled /\ cancelled' = TRUE
        BY <2>2 DEF RequestStopCancel, ParentCancel, life, verdict, Settled
    <3> QED BY <3>1 DEF Abstract!Next, Abstract!Stop
  <2> QED BY <1>1, <2>1, <2>2 DEF Stopping
<1>2. CASE Top
  <2>1. CASE cancelled
      BY <1>2, <2>1, SettleStep DEF Top, Resolve, Attempt
  <2>2. CASE ~cancelled
    <3>1. life = "idle" /\ life' = "launching" /\ verdict' = verdict
        BY <1>2, <2>2 DEF Top, SupervisorInv, ProcessInv, Attempt, life, verdict, Settled, Pending
    <3> QED BY <1>2, <2>2, <3>1 DEF Top, Abstract!Next, Abstract!Prepare
  <2> QED BY <2>1, <2>2
<1>3. CASE ResolveFails
  <2>1. CASE pc' = "done"
      BY <1>3, <2>1, SettleStep DEF ResolveFails, Attempt
  <2>2. CASE pc' # "done"
    <3>1. pc' = "backoff" /\ UNCHANGED <<cancelled, live>> /\ pc = "resolve"
        BY <1>3, <2>2 DEF ResolveFails, DoBackoff, Resolve, Reject
    <3>2. life = "launching" /\ life' = "idle" /\ verdict' = verdict
        BY <3>1 DEF SupervisorInv, ProcessInv, Attempt, life, verdict, Settled, Pending
    <3> QED BY <3>1, <3>2 DEF Abstract!Next, Abstract!GiveUp
  <2> QED BY <2>1, <2>2
<1>4. CASE CommandNotFound \/ PreStartFails \/ StartFails \/ DecideStopped
    BY <1>4, SettleStep
    DEF CommandNotFound, PreStartFails, StartFails, DecideStopped, Resolve, Reject, Attempt
<1>5. CASE Start
  <2>1. pc = "start" /\ pc' \in Attempt /\ live' = live + 1 /\ UNCHANGED cancelled
      BY <1>5 DEF Start, Attempt
  <2>2. life = "launching" /\ life' = "running" /\ verdict' = verdict
      BY <2>1 DEF SupervisorInv, ProcessInv, Attempt, life, verdict, Settled, Pending
  <2> QED BY <2>1, <2>2 DEF Abstract!Next, Abstract!Launch
<1>6. CASE ProcessExits
  <2>1. pc' = pc /\ live' = live - 1 /\ live > 0 /\ UNCHANGED <<cancelled, p>>
      BY <1>6 DEF ProcessExits
  <2>2. pc \in Attempt /\ live = 1
      BY <2>1 DEF SupervisorInv, ProcessInv
  <2>3. life = "running" /\ life' = "idle" /\ verdict' = verdict
      BY <2>1, <2>2 DEF SupervisorInv, ProcessInv, Attempt, life, verdict, Settled, Pending
  <2> QED BY <2>1, <2>3 DEF Abstract!Next, Abstract!End
<1>7. ASSUME NEW long \in BOOLEAN, DecideExitedOrRespawn(long)
      PROVE  Abstract!Next \/ UNCHANGED AbsVars
  <2>1. pc = "decide" /\ UNCHANGED <<cancelled, live>>
      BY <1>7 DEF DecideExitedOrRespawn, Retries
  <2>2. pc' \in {"done", "backoff"}
      BY <1>7 DEF DecideExitedOrRespawn, Retries, DoBackoff, Resolve, Reject
  <2> QED BY <2>1, <2>2, SettleStep, HiddenStep DEF Attempt
<1>8. CASE ResolveReturns \/ PreStartReturns
    BY <1>8, HiddenStep DEF ResolveReturns, PreStartReturns
<1>9. CASE PostStartReturns \/ PreStopReturns \/ PostStopReturns
           \/ BackoffElapses \/ BackoffCancelled \/ SendTerm \/ GraceElapses
    BY <1>9, HiddenStep
    DEF PostStartReturns, PreStopReturns, PostStopReturns, BackoffElapses,
        BackoffCancelled, SendTerm, GraceElapses
<1>10. CASE SelectStop \/ (\E k \in Probes : SelectHealth(k))
    BY <1>10, HiddenStep DEF SelectStop, SelectHealth, BeginTeardown
<1>11. CASE SelectExit \/ Terminated
    BY <1>11, HiddenStep DEF SelectExit, Terminated, CollectExit
<1>12. CASE Watchers
  <2>1. UNCHANGED <<cancelled, live, pc, p>>
      BY <1>12 DEF Watchers, FactoryReturns, StaleWatcherReturns,
         ReadinessFactoryFails, ReadinessTrue, ReadinessFalse, ReadinessRejected,
         LivenessFactoryFails, LivenessTrue, LivenessFalseOrRejected
  <2> QED BY <2>1 DEF AbsVars, life, verdict, Settled
<1>13. CASE UNCHANGED vars
    BY <1>13 DEF vars, AbsVars, life, verdict, Settled
<1> QED
    BY <1>1, <1>2, <1>3, <1>4, <1>5, <1>6, <1>7, <1>8, <1>9, <1>10, <1>11, <1>12, <1>13
    DEF Next, Callbacks, Loop, Finished

\* One spawn() call implements Workload's safety: nothing new is launched after
\* a stop, the promise never settles over a running process, and it settles as
\* stopped only after a stop.
THEOREM Refinement == Spec => WorkloadSafety
<1>1. Abstract!vars = AbsVars
    BY DEF Abstract!vars, AbsVars
<1>2. TypeOK' /\ SupervisorInv /\ SupervisorInv' /\ [Next]_vars
      => [Abstract!Next]_(Abstract!vars)
    BY <1>1, RefinesStep DEF Abstract!vars, AbsVars
<1> QED BY <1>2, RefinesInit, TypeCorrect, Invariance, PTL
    DEF Spec, WorkloadSafety, Abstract!Safety

=============================================================================
