------------------------------ MODULE Supervisor ------------------------------
(***************************************************************************)
(* One spawn() call: the supervisor goroutine of spawn.go, the operating   *)
(* system process it runs, the readiness and liveness watcher goroutines   *)
(* of each attempt, the workloadState the control socket reads, and the    *)
(* context through which w.signal() and the harness stop it.               *)
(*                                                                         *)
(* A script callback is a step that returns or raises at some time; what   *)
(* it does outside the supervisor is not part of this module.              *)
(***************************************************************************)
EXTENDS Integers

CONSTANTS
    Configs,      \* the spawn() argument sets explored; one is chosen in Init
    ExitCodes,    \* what exitCodeOf can make of a process's end: -1 after a signal
    MaxRespawns   \* bound: backoff number MaxRespawns + 1 lasts until a stop

Probes == {"readiness", "liveness"}
Hooks  == {"pre_start", "post_start", "pre_stop", "post_stop"} \cup Probes

\* spawnConfig, with the callbacks that were passed kept as the set "hooks".
\* Durations are left out: a timer is a step that may happen at any time.
SpawnConfig ==
    [respawnEnabled    : BOOLEAN,
     respawnKeepAlive  : BOOLEAN,
     respawnMaxRetries : Int,
     resolveFailure    : {"retry", "fail"},
     resolveTimeout    : BOOLEAN,
     restartOnLiveness : BOOLEAN,
     hooks             : SUBSET Hooks]

\* The argument check of the spawn builtin.
ValidConfig(c) ==
    /\ c \in SpawnConfig
    /\ c.respawnEnabled => c.respawnMaxRetries >= 0

ASSUME ConfigsAssumption == \A c \in Configs : ValidConfig(c)
ASSUME ExitCodesAssumption == ExitCodes \subseteq Int /\ 0 \in ExitCodes
ASSUME MaxRespawnsAssumption == MaxRespawns \in Nat

VARIABLES
    cfg,        \* the arguments of this spawn() call; never changes
    cancelled,  \* sv.ctx is done
    stop,       \* sv.stop
    pc,         \* where the supervisor goroutine is in loop()
    attempts,   \* loop()'s attempts
    branch,     \* the case taken by the select: "stop", "health" or "exit"
    reason,     \* the stop reason captured in the ctx.Done() case
    live,       \* number of workload processes alive in the container
    waitCh,     \* this attempt's waitCh: the exit code it holds, if any
    sent,       \* strongest signal sent to this attempt's process
    watch,      \* this attempt's two watcher goroutines
    chan,       \* which of readinessFailed and livenessLost hold a value
    stale,      \* watchers of earlier attempts that still run, per probe
    w,          \* the workloadState registered for this spawn()
    p,          \* the spawn() promise
    tries       \* history: iterations begun since the last counter reset

ctxVars   == <<cancelled, stop>>
loopVars  == <<attempts, branch, reason, tries>>
procVars  == <<live, waitCh, sent>>
watchVars == <<watch, chan, stale>>
vars == <<cfg, ctxVars, pc, loopVars, procVars, watchVars, w, p>>

\* The places where loop() can be, in the order they are reached.
Preparing == {"resolve", "pre_start", "start"}
Attempt   == {"post_start", "select", "pre_stop", "terminate", "grace", "kill"}
Places    == {"top", "backoff", "post_stop", "decide", "done"}
             \cup Preparing \cup Attempt

Active == {"factory", "await"}     \* a watcher goroutine that has not returned
WatchStates == Active \cup {"off", "ready", "failed", "lost", "quiet"}

\* The fields of workloadState that steer or report the workload.
WorkloadState ==
    [up : BOOLEAN, health : {"unknown", "healthy", "unhealthy"},
     respawnCount : Nat, backingOff : BOOLEAN, lastExitCode : ExitCodes]

\* The spawn() promise: pending, resolved with an exitStruct, or rejected.
Outcome ==
    [state : {"pending", "resolved", "rejected"}, code : ExitCodes, attempts : Nat,
     why : {"none", "signalled", "shutdown", "exited", "exhausted",
            "not_found", "resolve", "pre_start", "start", "run"}]

NoWatch == [k \in Probes |-> "off"]
Pending == [state |-> "pending", code |-> 0, attempts |-> 0, why |-> "none"]

-----------------------------------------------------------------------------
Init ==
    /\ cfg \in Configs
    /\ cancelled = FALSE /\ stop = FALSE
    /\ pc = "top"
    /\ attempts = 0 /\ branch = "none" /\ reason = "none" /\ tries = 0
    /\ live = 0 /\ waitCh = {} /\ sent = "none"
    /\ watch = NoWatch /\ chan = {} /\ stale = [k \in Probes |-> 0]
    /\ w = [up |-> FALSE, health |-> "unknown", respawnCount |-> 0,
            backingOff |-> FALSE, lastExitCode |-> 0]
    /\ p = Pending

-----------------------------------------------------------------------------
\* Stopping: w.signal() and w.reject() run requestStop; the harness, or the
\* end of the task that called spawn(), cancels the parent context.

stopReason == IF stop THEN "signalled" ELSE "shutdown"

\* requestStop writes sv.stop and then cancels: two steps of another goroutine.
RequestStopFlag ==
    /\ ~stop
    /\ stop' = TRUE
    /\ UNCHANGED <<cfg, cancelled, pc, loopVars, procVars, watchVars, w, p>>

RequestStopCancel ==
    /\ stop /\ ~cancelled
    /\ cancelled' = TRUE
    /\ UNCHANGED <<cfg, stop, pc, loopVars, procVars, watchVars, w, p>>

ParentCancel ==
    /\ ~cancelled
    /\ cancelled' = TRUE
    /\ UNCHANGED <<cfg, stop, pc, loopVars, procVars, watchVars, w, p>>

-----------------------------------------------------------------------------
\* Settling the promise: run() returns and the goroutine ends.

Resolve(code, n, why) ==
    /\ p' = [state |-> "resolved", code |-> code, attempts |-> n, why |-> why]
    /\ pc' = "done"

Reject(why) ==
    /\ p' = [state |-> "rejected", code |-> 0, attempts |-> 0, why |-> why]
    /\ pc' = "done"

\* Mutant of DoBackoff: the limit is compared with the counter before it moves.
DoBackoffOffByOne(n, wl) ==
    /\ attempts' = n + 1
    /\ IF cfg.respawnMaxRetries # 0 /\ n > cfg.respawnMaxRetries
       THEN Reject("exhausted") /\ w' = wl
       ELSE /\ w' = [wl EXCEPT !.respawnCount = @ + 1, !.backingOff = TRUE]
            /\ pc' = "backoff"
            /\ UNCHANGED p

\* doBackoff with the counter at n: give up, or count a respawn and sleep.
\* wl is the workloadState as the caller leaves it.
DoBackoff(n, wl) ==
    /\ attempts' = n + 1
    /\ IF cfg.respawnMaxRetries # 0 /\ n + 1 > cfg.respawnMaxRetries
       THEN Reject("exhausted") /\ w' = wl
       ELSE /\ w' = [wl EXCEPT !.respawnCount = @ + 1, !.backingOff = TRUE]
            /\ pc' = "backoff"
            /\ UNCHANGED p

BackoffElapses ==
    /\ pc = "backoff"
    /\ w.respawnCount <= MaxRespawns
    /\ pc' = "top"
    /\ UNCHANGED <<cfg, ctxVars, loopVars, procVars, watchVars, w, p>>

\* Mutant of BackoffCancelled: the sleep is resumed when a stop interrupts it.
BackoffSleepsOn == pc = "backoff" /\ cancelled /\ UNCHANGED vars

BackoffCancelled ==
    /\ pc = "backoff"
    /\ cancelled
    /\ pc' = "top"
    /\ UNCHANGED <<cfg, ctxVars, loopVars, procVars, watchVars, w, p>>

-----------------------------------------------------------------------------
\* Preparing an attempt.

\* Mutant of Top: the context is not looked at before the next attempt.
TopIgnoresStop ==
    /\ pc = "top"
    /\ pc' = "resolve" /\ tries' = tries + 1
    /\ UNCHANGED <<cfg, ctxVars, attempts, branch, reason, procVars, watchVars, w, p>>

Top ==
    /\ pc = "top"
    /\ UNCHANGED <<cfg, ctxVars, attempts, branch, reason, procVars, watchVars, w>>
    /\ \/ cancelled  /\ Resolve(0, attempts, stopReason) /\ UNCHANGED tries
       \/ ~cancelled /\ pc' = "resolve" /\ tries' = tries + 1 /\ UNCHANGED p

\* resolve() returned an argv whose command exists.
ResolveReturns ==
    /\ pc = "resolve"
    /\ pc' = IF "pre_start" \in cfg.hooks THEN "pre_start" ELSE "start"
    /\ UNCHANGED <<cfg, ctxVars, loopVars, procVars, watchVars, w, p>>

\* resolve() returned an argv whose command LookPath does not find.
CommandNotFound ==
    /\ pc = "resolve"
    /\ Reject("not_found")
    /\ UNCHANGED <<cfg, ctxVars, loopVars, procVars, watchVars, w>>

\* resolve() raised, timed out, was interrupted, or returned no valid argv.
ResolveFails ==
    /\ pc = "resolve"
    /\ UNCHANGED <<cfg, ctxVars, branch, reason, tries, procVars, watchVars>>
    /\ \/ /\ cancelled
          /\ Resolve(0, attempts, stopReason)
          /\ UNCHANGED <<attempts, w>>
       \/ /\ ~cancelled
          /\ ~cfg.respawnEnabled \/ cfg.resolveFailure = "fail"
          /\ Reject("resolve")
          /\ UNCHANGED <<attempts, w>>
       \/ /\ ~cancelled
          /\ cfg.respawnEnabled /\ cfg.resolveFailure = "retry"
          /\ DoBackoff(attempts, w)

PreStartReturns ==
    /\ pc = "pre_start"
    /\ pc' = "start"
    /\ UNCHANGED <<cfg, ctxVars, loopVars, procVars, watchVars, w, p>>

PreStartFails ==
    /\ pc = "pre_start"
    /\ \/ cancelled  /\ Resolve(0, attempts, stopReason)
       \/ ~cancelled /\ Reject("pre_start")
    /\ UNCHANGED <<cfg, ctxVars, loopVars, procVars, watchVars, w>>

\* cmd.Start, setUp, and the go statements of Wait and of the two watchers.
Start ==
    /\ pc = "start"
    /\ live' = live + 1 /\ waitCh' = {} /\ sent' = "none"
    /\ w' = [w EXCEPT !.up = TRUE, !.backingOff = FALSE]
    /\ watch' = [k \in Probes |-> IF k \in cfg.hooks THEN "factory" ELSE "off"]
    /\ chan' = {}
    /\ pc' = IF "post_start" \in cfg.hooks THEN "post_start" ELSE "select"
    /\ UNCHANGED <<cfg, ctxVars, loopVars, stale, p>>

StartFails ==
    /\ pc = "start"
    /\ Reject("start")
    /\ UNCHANGED <<cfg, ctxVars, loopVars, procVars, watchVars, w>>

PostStartReturns ==
    /\ pc = "post_start"
    /\ pc' = "select"
    /\ UNCHANGED <<cfg, ctxVars, loopVars, procVars, watchVars, w, p>>

-----------------------------------------------------------------------------
\* The select of loop() and the teardown of an attempt.

\* attemptCancel(): a watcher that has not returned yet outlives its attempt,
\* and nothing reads its channel any more.
AttemptCancel ==
    /\ stale' = [k \in Probes |-> stale[k] + IF watch[k] \in Active THEN 1 ELSE 0]
    /\ watch' = NoWatch
    /\ chan' = {}

BeginTeardown == pc' = IF "pre_stop" \in cfg.hooks THEN "pre_stop" ELSE "terminate"

\* Mutant of SelectStop: the stop reason is not captured.
SelectStopForgetsReason ==
    /\ pc = "select"
    /\ cancelled
    /\ AttemptCancel
    /\ branch' = "stop"
    /\ BeginTeardown
    /\ UNCHANGED <<cfg, ctxVars, attempts, reason, tries, procVars, w, p>>

\* Mutant of SelectHealth: SIGTERM goes out before the pre_stop hook.
SelectHealthSignalsFirst(k) ==
    /\ pc = "select"
    /\ k \in chan
    /\ AttemptCancel
    /\ branch' = "health" /\ sent' = "term"
    /\ BeginTeardown
    /\ UNCHANGED <<cfg, ctxVars, attempts, reason, tries, live, waitCh, w, p>>

SelectStop ==
    /\ pc = "select"
    /\ cancelled
    /\ AttemptCancel
    /\ branch' = "stop" /\ reason' = stopReason
    /\ BeginTeardown
    /\ UNCHANGED <<cfg, ctxVars, attempts, tries, procVars, w, p>>

SelectHealth(k) ==
    /\ pc = "select"
    /\ k \in chan
    /\ AttemptCancel
    /\ branch' = "health"
    /\ BeginTeardown
    /\ UNCHANGED <<cfg, ctxVars, attempts, reason, tries, procVars, w, p>>

\* Mutant of CollectExit: setDown is forgotten.
CollectExitStaysUp ==
    /\ \E code \in waitCh : w' = [w EXCEPT !.lastExitCode = code]
    /\ waitCh' = {}
    /\ pc' = IF "post_stop" \in cfg.hooks THEN "post_stop" ELSE "decide"

\* setDown with the collected code, then the post_stop hook or what follows it.
CollectExit ==
    /\ \E code \in waitCh : w' = [w EXCEPT !.up = FALSE, !.lastExitCode = code]
    /\ waitCh' = {}
    /\ pc' = IF "post_stop" \in cfg.hooks THEN "post_stop" ELSE "decide"

SelectExit ==
    /\ pc = "select"
    /\ CollectExit
    /\ AttemptCancel
    /\ branch' = "exit"
    /\ UNCHANGED <<cfg, ctxVars, attempts, reason, tries, live, sent, p>>

PreStopReturns ==
    /\ pc = "pre_stop"
    /\ pc' = "terminate"
    /\ UNCHANGED <<cfg, ctxVars, loopVars, procVars, watchVars, w, p>>

SendTerm ==
    /\ pc = "terminate"
    /\ sent' = "term"
    /\ pc' = "grace"
    /\ UNCHANGED <<cfg, ctxVars, loopVars, live, waitCh, watchVars, w, p>>

\* Mutant of GraceElapses: it gives up on the process instead of killing it.
GraceAbandonsProcess ==
    /\ pc = "grace"
    /\ w' = [w EXCEPT !.up = FALSE]
    /\ pc' = "decide"
    /\ UNCHANGED <<cfg, ctxVars, loopVars, procVars, watchVars, p>>

\* Mutant of GraceElapses: SIGTERM is repeated where SIGKILL is due.
GraceRepeatsTerm ==
    /\ pc = "grace"
    /\ pc' = "kill"
    /\ UNCHANGED <<cfg, ctxVars, loopVars, procVars, watchVars, w, p>>

GraceElapses ==
    /\ pc = "grace"
    /\ sent' = "kill"
    /\ pc' = "kill"
    /\ UNCHANGED <<cfg, ctxVars, loopVars, live, waitCh, watchVars, w, p>>

Terminated ==
    /\ pc \in {"grace", "kill"}
    /\ CollectExit
    /\ UNCHANGED <<cfg, ctxVars, loopVars, live, sent, watchVars, p>>

PostStopReturns ==
    /\ pc = "post_stop"
    /\ pc' = "decide"
    /\ UNCHANGED <<cfg, ctxVars, loopVars, procVars, watchVars, w, p>>

-----------------------------------------------------------------------------
\* After the attempt: stop, finish or respawn.

DecideStopped ==
    /\ pc = "decide"
    /\ \/ branch = "stop" /\ Resolve(w.lastExitCode, attempts, reason)
       \/ branch # "stop" /\ cancelled /\ Resolve(w.lastExitCode, attempts, stopReason)
    /\ UNCHANGED <<cfg, ctxVars, loopVars, procVars, watchVars, w>>

\* Mutant of FinalExit: a restart for failed health counts as an exit.
FinalExitAnyBranch ==
    \/ ~cfg.respawnEnabled
    \/ w.lastExitCode = 0 /\ ~cfg.respawnKeepAlive

\* An exit that ends the workload: respawning is off, or the exit was clean
\* and keep_alive is off.
FinalExit ==
    /\ branch = "exit"
    /\ \/ ~cfg.respawnEnabled
       \/ w.lastExitCode = 0 /\ ~cfg.respawnKeepAlive

\* Mutant of Retries: an attempt that stayed up takes one retry back, unchecked.
RetriesTakenBack(long) == IF long THEN attempts - 1 ELSE attempts

\* long: the attempt stayed up for reset_after, so the counter starts again.
Retries(long) == IF long THEN 0 ELSE attempts

\* After a long attempt the one that just ended is the first of the new count.
DecideExitedOrRespawn(long) ==
    LET n  == Retries(long)
        wl == IF long THEN [w EXCEPT !.backingOff = FALSE] ELSE w
    IN  /\ pc = "decide"
        /\ branch # "stop" /\ ~cancelled
        /\ tries' = IF long THEN 1 ELSE tries
        /\ \/ /\ FinalExit
              /\ \/ w.lastExitCode # 0 /\ Reject("run")
                 \/ w.lastExitCode = 0 /\ Resolve(0, n, "exited")
              /\ attempts' = n /\ w' = wl
           \/ /\ ~FinalExit
              /\ DoBackoff(n, wl)
        /\ UNCHANGED <<cfg, ctxVars, branch, reason, procVars, watchVars>>

-----------------------------------------------------------------------------
\* The workload process (external): it may end at any time, and must end once
\* it has been sent SIGKILL. The Wait goroutine passes its code to waitCh.
ProcessExits ==
    /\ live > 0 /\ waitCh = {}
    /\ live' = live - 1
    /\ \E c \in ExitCodes : waitCh' = {c}
    /\ UNCHANGED <<cfg, ctxVars, pc, loopVars, sent, watchVars, w, p>>

-----------------------------------------------------------------------------
\* The watcher goroutines of the current attempt.

WatchEnds(k, result) == watch' = [watch EXCEPT ![k] = result]

FactoryReturns(k) ==
    /\ watch[k] = "factory"
    /\ WatchEnds(k, "await")
    /\ UNCHANGED <<cfg, ctxVars, pc, loopVars, procVars, chan, stale, w, p>>

\* The factory raised or returned no promise; a stop is not a failure.
ReadinessFactoryFails ==
    /\ watch["readiness"] = "factory"
    /\ WatchEnds("readiness", "failed")
    /\ chan' = IF cancelled THEN chan ELSE chan \cup {"readiness"}
    /\ UNCHANGED <<cfg, ctxVars, pc, loopVars, procVars, stale, w, p>>

LivenessFactoryFails ==
    /\ watch["liveness"] = "factory"
    /\ WatchEnds("liveness", "quiet")
    /\ UNCHANGED <<cfg, ctxVars, pc, loopVars, procVars, chan, stale, w, p>>

ReadinessTrue ==
    /\ watch["readiness"] = "await"
    /\ WatchEnds("readiness", "ready")
    /\ w' = [w EXCEPT !.health = "healthy"]
    /\ UNCHANGED <<cfg, ctxVars, pc, loopVars, procVars, chan, stale, p>>

ReadinessFalse ==
    /\ watch["readiness"] = "await"
    /\ WatchEnds("readiness", "failed")
    /\ chan' = chan \cup {"readiness"}
    /\ UNCHANGED <<cfg, ctxVars, pc, loopVars, procVars, stale, w, p>>

\* await returned an error: the promise rejected, or the context is done.
ReadinessRejected ==
    /\ watch["readiness"] = "await"
    /\ WatchEnds("readiness", "failed")
    /\ UNCHANGED <<cfg, ctxVars, pc, loopVars, procVars, chan, stale, w, p>>

LivenessTrue ==
    /\ watch["liveness"] = "await"
    /\ WatchEnds("liveness", "lost")
    /\ w' = [w EXCEPT !.health = "unhealthy"]
    /\ chan' = IF cfg.restartOnLiveness THEN chan \cup {"liveness"} ELSE chan
    /\ UNCHANGED <<cfg, ctxVars, pc, loopVars, procVars, stale, p>>

LivenessFalseOrRejected ==
    /\ watch["liveness"] = "await"
    /\ WatchEnds("liveness", "quiet")
    /\ UNCHANGED <<cfg, ctxVars, pc, loopVars, procVars, chan, stale, w, p>>

\* A watcher whose attempt is over returns. Its await chooses between a settled
\* promise and the done context at random, so it may still write the health.
Verdict(k) == IF k = "readiness" THEN "healthy" ELSE "unhealthy"

StaleWatcherReturns(k) ==
    /\ stale[k] > 0
    /\ stale' = [stale EXCEPT ![k] = @ - 1]
    /\ \/ w' = [w EXCEPT !.health = Verdict(k)]
       \/ UNCHANGED w
    /\ UNCHANGED <<cfg, ctxVars, pc, loopVars, procVars, watch, chan, p>>

-----------------------------------------------------------------------------
Stopping == RequestStopFlag \/ RequestStopCancel \/ ParentCancel

Callbacks ==
    \/ ResolveReturns \/ CommandNotFound \/ ResolveFails
    \/ PreStartReturns \/ PreStartFails \/ PostStartReturns
    \/ PreStopReturns \/ PostStopReturns

Loop ==
    \/ Top \/ BackoffElapses \/ BackoffCancelled
    \/ Start \/ StartFails
    \/ SelectStop \/ (\E k \in Probes : SelectHealth(k)) \/ SelectExit
    \/ SendTerm \/ GraceElapses \/ Terminated
    \/ DecideStopped \/ (\E long \in BOOLEAN : DecideExitedOrRespawn(long))

Watchers ==
    \/ \E k \in Probes : FactoryReturns(k) \/ StaleWatcherReturns(k)
    \/ ReadinessFactoryFails \/ ReadinessTrue \/ ReadinessFalse \/ ReadinessRejected
    \/ LivenessFactoryFails \/ LivenessTrue \/ LivenessFalseOrRejected

\* The goroutine has ended; nothing is left to do.
Finished == pc = "done" /\ UNCHANGED vars

Next == Stopping \/ Callbacks \/ Loop \/ Watchers \/ ProcessExits \/ Finished

Spec == Init /\ [][Next]_vars

\* Scheduling: a goroutine that can step does, timers fire, and a killed process
\* dies. A script callback is only sure to return when its context ends: when
\* sv.ctx is done (every stop hook that runs then has a deadline of its own),
\* or when resolve_timeout bounds resolve(). A process may ignore SIGTERM.
Interrupted == cancelled \/ (pc = "resolve" /\ cfg.resolveTimeout)

Fairness ==
    /\ WF_vars(RequestStopCancel)
    /\ WF_vars(Loop)
    /\ WF_vars(Interrupted /\ Callbacks)
    /\ WF_vars(sent = "kill" /\ ProcessExits)

FairSpec == Spec /\ Fairness

-----------------------------------------------------------------------------
\* Type invariant of one spawn() call; in particular the count of retries that
\* the promise reports never goes below zero.
TypeOK ==
    /\ cfg \in Configs
    /\ cancelled \in BOOLEAN /\ stop \in BOOLEAN
    /\ pc \in Places
    /\ attempts \in Nat /\ tries \in Nat
    /\ branch \in {"none", "stop", "health", "exit"}
    /\ reason \in {"none", "signalled", "shutdown"}
    /\ live \in Nat
    /\ waitCh \in SUBSET ExitCodes
    /\ sent \in {"none", "term", "kill"}
    /\ watch \in [Probes -> WatchStates]
    /\ chan \in SUBSET Probes
    /\ stale \in [Probes -> Nat]
    /\ w \in WorkloadState
    /\ p \in Outcome

Settled == p.state # "pending"

\* The supervisor never has two processes of one workload alive, however the
\* earlier one ended: terminate() waits for Wait before loop() can respawn.
OneProcess == live <= 1

\* A settled spawn() promise means the workload is gone: nothing runs in the
\* container any more and the control socket does not report it up.
SettledIsStopped == Settled => live = 0 /\ ~w.up

\* pre_stop runs before this attempt's process has been signalled, and post_stop
\* only once it has been reaped and reported down.
HookWindows ==
    /\ pc = "pre_stop" => sent = "none"
    /\ pc = "post_stop" => live = 0 /\ ~w.up

\* max_retries is exact: between two counter resets loop() begins at most
\* max_retries + 1 iterations, and reports exhaustion only after beginning all.
RetryBudget ==
    LET m == cfg.respawnMaxRetries IN
    /\ m > 0 => tries <= m + 1
    /\ m > 0 /\ p.why = "exhausted" => tries = m + 1

\* What the promise says is what happened: "exited" is a process that ended by
\* itself, unsignalled, with that code, and that the configuration does not
\* respawn; a stop reason is only given when there was a stop of that kind.
OutcomeHonest ==
    /\ p.state = "resolved" => p.why \in {"signalled", "shutdown", "exited"}
    /\ p.why = "exited" =>
          /\ sent = "none" /\ p.code = w.lastExitCode
          /\ cfg.respawnEnabled => ~cfg.respawnKeepAlive
    /\ p.why \in {"signalled", "shutdown"} => cancelled
    /\ p.why = "signalled" => stop
    /\ p.why = "exhausted" => cfg.respawnMaxRetries # 0

\* The inductive invariant behind the five above.
\* Processes: exactly during an attempt there is one process, alive or waiting
\* to be collected from waitCh, and the workload is reported up.
ProcessInv ==
    /\ pc \in Attempt =>
          /\ w.up
          /\ \/ live = 1 /\ waitCh = {}
             \/ live = 0 /\ \E c \in ExitCodes : waitCh = {c}
    /\ pc \notin Attempt => ~w.up /\ live = 0 /\ waitCh = {}
    /\ IF pc = "done" THEN Settled ELSE p = Pending

\* Retries: attempts lags the iterations begun by one until doBackoff.
RetryInv ==
    LET m == cfg.respawnMaxRetries IN
    /\ pc \in {"top", "backoff"} => tries = attempts
    /\ pc \notin {"top", "backoff", "done"} => tries = attempts + 1
    /\ m > 0 /\ pc # "done" => attempts <= m
    /\ RetryBudget

\* Teardown: no signal before terminate(), none at all after a plain exit, and a
\* captured stop reason that matches the stop.
TeardownInv ==
    /\ pc \in {"post_start", "select", "pre_stop", "terminate"} => sent = "none"
    /\ pc \in {"pre_stop", "terminate", "grace", "kill"} => branch \in {"stop", "health"}
    /\ pc \in {"post_stop", "decide"} /\ branch = "exit" => sent = "none"
    /\ branch = "stop" =>
          /\ cancelled /\ reason \in {"signalled", "shutdown"}
          /\ reason = "signalled" => stop
    /\ OutcomeHonest

\* All of it: the processes of an attempt, the retry count of loop() and the
\* teardown of an attempt, together inductive.
SupervisorInv == ProcessInv /\ RetryInv /\ TeardownInv

\* A stop always ends in a settled promise, even against a process that ignores
\* SIGTERM and callbacks that block: the context interrupts the callbacks and
\* terminate() resorts to SIGKILL.
StopLeadsToSettled == (stop \/ cancelled) ~> Settled

\* A restart requested by a watcher is served: with no pre_stop hook to wait
\* for, the process that failed its probe is ended.
HealthRestartServed ==
    (pc = "select" /\ chan # {} /\ "pre_stop" \notin cfg.hooks) ~> (live = 0)

-----------------------------------------------------------------------------
\* What the supervisor shows of itself to the rest of the program.
life ==
    IF Settled THEN "settled"
    ELSE IF live > 0 THEN "running"
    ELSE IF pc \in Preparing THEN "launching"
    ELSE "idle"

verdict ==
    IF ~Settled THEN "none"
    ELSE IF p.state = "rejected" THEN "failed"
    ELSE IF p.why = "exited" THEN "exited"
    ELSE "stopped"

Abstract == INSTANCE Workload WITH life <- life, stopping <- cancelled, verdict <- verdict

\* One spawn() call is a Workload: it launches nothing new after a stop, settles
\* only over a dead process, and says "stopped" only of a stop. With
\* StopLeadsToSettled, which is its Progress, it implements Workload.
WorkloadSafety == Abstract!Safety

-----------------------------------------------------------------------------
\* What the repository says of the supervisor and the code does not do.

\* How runHealthProbe judges this workload's entry of the snapshot.
PassesProbe == w.health = "healthy" \/ (w.health = "unknown" /\ w.up)

\* main.go, in runHealthProbe: "Any unhealthy or down workload fails the probe."
DownFailsProbe == PassesProbe => w.up

=============================================================================
