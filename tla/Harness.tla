------------------------------- MODULE Harness -------------------------------
(***************************************************************************)
(* The muster process from its command line to its exit (main.go): flags   *)
(* and environment, provider selection, identity and key/value store, the  *)
(* script's main(), the await loop with the shutdown signal and the hard   *)
(* deadline, and the control socket. What main() spawned behaves as module *)
(* Workload says; Supervisor is shown to implement it.                     *)
(***************************************************************************)
EXTENDS Naturals

CONSTANTS
    Workloads,  \* the spawn() calls main() may make
    Setups,     \* the starts explored: command line, environment, platform
    None        \* nothing, the empty string, no error

Providers == {"aws", "gcp", "mem"}
Exempt    == {"health-probe", "provider-help"}
Renamed   == {"kv-table", "kv-create-table"}
Flags     == {"provider", "namespace", "script", "kv-store", "kv-create", "control-socket",
              "provider-opt"} \cup Exempt \cup Renamed
Values    == Providers \cup {"on", "bad", "unknown"}

\* cmd: the flags passed; env: the variables MUSTER_<FLAG>; platform: the provider
\* whose environment variables are set; built: the providers compiled in;
\* provisions: whether the store of the provider can be created by muster.
Setup == [cmd : [Flags -> Values \cup {None}], env : [Flags -> Values \cup {None}],
          platform : {"aws", "gcp", None}, built : SUBSET Providers, provisions : BOOLEAN]

ASSUME SetupsAssumption == Setups \subseteq Setup
ASSUME NoneAssumption ==
    /\ None \notin Values \cup Workloads
    /\ None \notin 0..2 /\ None \notin {"main", "promise", "deadline", "id", "noid", "hostname"}

VARIABLES
    setup,      \* how the process was started
    pc,         \* where main() and doIt() are
    code,       \* the exit code
    self,       \* the provider's memoized identity
    SELF,       \* the identity the script sees
    owner,      \* the lease owner of the key/value store; None without a store
    created,    \* Provision returned without an error
    signalled,  \* SIGTERM or SIGINT came: ctx is done
    cancelled,  \* doIt cancelled gctx
    sock,       \* the control socket's goroutine
    wl,         \* wl[w]: the workload of a spawn() call
    ret,        \* the promise main() returned
    shutdown,   \* shutdown is not nil: the signal was not handled yet
    hard,       \* the hard deadline is set
    err         \* the error doIt will return

startVars == <<self, SELF, owner, created>>
awaitVars == <<ret, shutdown, hard, err>>
vars == <<setup, pc, code, startVars, signalled, cancelled, sock, wl, awaitVars>>

Places   == {"flags", "probe", "open", "self", "kv", "provision", "load", "main", "await",
             "closing", "exited"}
Startup  == {"open", "self", "kv", "provision", "load"}
Identity == {"unread", "id", "noid", "error"}
Workload == [life : {"none", "idle", "launching", "running", "settled"},
             stopping : BOOLEAN, verdict : {"none", "stopped", "exited", "failed"}]
\* A promise of spawn(), of go() or poll(), or of promise().
Promise  == [kind : {"none", "spawn", "task", "deferred"}, w : Workloads \cup {None},
             signallable : BOOLEAN, canceling : BOOLEAN,
             state : {"pending", "resolved", "rejected"}]

NotSpawned == [life |-> "none", stopping |-> FALSE, verdict |-> "none"]
NoPromise  == [kind |-> "none", w |-> None, signallable |-> FALSE, canceling |-> FALSE,
               state |-> "pending"]

Init ==
    /\ setup \in Setups
    /\ pc = "flags" /\ code = None
    /\ self = "unread" /\ SELF = None /\ owner = None /\ created = FALSE
    /\ signalled = FALSE /\ cancelled = FALSE
    /\ sock = "off"
    /\ wl = [w \in Workloads |-> NotSpawned]
    /\ ret = NoPromise /\ shutdown = FALSE /\ hard = FALSE /\ err = None

\* gctx, the parent of every context below.
gctxDone == signalled \/ cancelled

Exit(c) == pc' = "exited" /\ code' = c

\* Start-up fails: doIt returns an error before main() runs.
Abort == Exit(1)

-----------------------------------------------------------------------------
\* Flags, and the choice of a provider.

\* applyEnvDefaults: a flag that was passed wins, and a variable sets neither a
\* mode nor a removed flag.
Value(f) == CASE setup.cmd[f] # None                      -> setup.cmd[f]
              [] setup.cmd[f] = None /\ f \notin Exempt \cup Renamed -> setup.env[f]
              [] OTHER                                    -> None
Given(f) == Value(f) # None
EnvInvalid == \E f \in Flags \ (Exempt \cup Renamed) : setup.cmd[f] = None /\ setup.env[f] = "bad"

\* Nothing but the place and the exit code changes.
OnlyPc == UNCHANGED <<setup, startVars, signalled, cancelled, sock, wl, awaitVars>>

\* main() up to the mode it runs in.
ParseFlags ==
    /\ pc = "flags"
    /\ \/ EnvInvalid /\ Exit(2)
       \/ ~EnvInvalid /\ Given("provider-help") /\ Exit(0)
       \/ ~EnvInvalid /\ ~Given("provider-help") /\ (\E f \in Renamed : Given(f)) /\ Exit(2)
       \/ /\ ~EnvInvalid /\ ~Given("provider-help") /\ \A f \in Renamed : ~Given(f)
          /\ pc' = IF Given("health-probe") THEN "probe" ELSE "open"
          /\ UNCHANGED code
    /\ OnlyPc

\* runHealthProbe: another process answers, or does not.
Probe ==
    /\ pc = "probe"
    /\ \E c \in (IF Given("control-socket") THEN {0, 1} ELSE {1}) : Exit(c)
    /\ OnlyPc

\* Select: the name given, else the one the environment points at.
Selected == IF Given("provider") THEN Value("provider") ELSE setup.platform

\* Open: provider options are checked against what the provider declares, and the
\* cloud providers want a namespace.
Openable ==
    /\ Selected \in setup.built
    /\ Given("provider-opt") => Selected = "gcp" /\ Value("provider-opt") # "unknown"
    /\ Selected # "mem" => Given("namespace")

Open ==
    /\ pc = "open"
    /\ \/ ~(Given("script") /\ Openable) /\ Abort
       \/ Given("script") /\ Openable /\ pc' = "self" /\ UNCHANGED code
       \/ Selected = "aws" /\ Abort   \* LoadDefaultConfig fails
    /\ OnlyPc

-----------------------------------------------------------------------------
\* Identity, then the store, whose lease owner comes from it.

\* What a platform says about the instance: its id, or an identity without one
\* when only part of the metadata could be read, or an error. The context may end
\* while it is read.
Answers == CASE Selected = "mem" -> {"error"}
             [] Selected = "aws" -> {"id", "error"}
             [] OTHER            -> {"id", "noid", "error"}

\* Mutant of Self: the metadata is read on every call.
SelfAgain(v) == v \in Answers

\* Self(): read once, and the same answer ever after.
Self(v) == IF self = "unread" THEN v \in Answers ELSE v = self

ReadSelf ==
    /\ pc = "self"
    /\ \E v \in Answers : Self(v) /\ self' = v /\ SELF' = IF v = "error" THEN None ELSE v
    /\ pc' = "kv"
    /\ UNCHANGED <<setup, code, owner, created, signalled, cancelled, sock, wl, awaitVars>>

\* OwnerID: the id, else the host name.
OwnerID(v) == IF v = "id" THEN "id" ELSE "hostname"

\* KV: without -kv-store, or without a client, there is no store, and that alone is
\* no reason not to start.
OpenStore ==
    /\ pc = "kv"
    /\ \/ /\ Given("kv-store")
          /\ \E v \in Answers : Self(v) /\ self' = v /\ owner' = OwnerID(v)
       \/ (~Given("kv-store") \/ Selected = "gcp") /\ UNCHANGED <<self, owner>>
    /\ pc' = IF Given("kv-create") THEN "provision" ELSE "load"
    /\ UNCHANGED <<setup, code, SELF, created, signalled, cancelled, sock, wl, awaitVars>>

\* provisionKV: no store, a store that cannot be created or a failed attempt ends it.
Provision ==
    /\ pc = "provision"
    /\ \/ owner # None /\ setup.provisions /\ created' = TRUE /\ pc' = "load" /\ UNCHANGED code
       \/ Abort /\ UNCHANGED created
    /\ UNCHANGED <<setup, self, SELF, owner, signalled, cancelled, sock, wl, awaitVars>>

\* loadScript; then the control socket's goroutine is started and main() is called.
Load ==
    /\ pc = "load"
    /\ \/ Abort /\ UNCHANGED sock
       \/ /\ pc' = "main" /\ UNCHANGED code
          /\ sock' = IF Given("control-socket") THEN "starting" ELSE "off"
    /\ UNCHANGED <<setup, startVars, signalled, cancelled, wl, awaitVars>>

-----------------------------------------------------------------------------
\* main(): callMain() on the script's main function.

Spawned(w) == wl[w].life # "none"

\* spawn(): the workload's context is a child of gctx.
Spawn(w) ==
    /\ pc = "main" /\ ~Spawned(w)
    /\ wl' = [wl EXCEPT ![w].life = "idle", ![w].stopping = gctxDone]
    /\ UNCHANGED <<setup, pc, code, startVars, signalled, cancelled, sock, awaitVars>>

\* A promise main() can return: of a spawn() it made, of a task or a bare one.
Returnable ==
    [kind : {"spawn"}, w : {w \in Workloads : Spawned(w)}, signallable : {TRUE},
     canceling : {FALSE}, state : {"pending"}]
    \cup [kind : {"task", "deferred"}, w : {None}, signallable : BOOLEAN,
          canceling : {FALSE}, state : {"pending"}]

MainReturns ==
    /\ pc = "main"
    /\ ret' \in Returnable
    /\ shutdown' = TRUE
    /\ pc' = "await"
    /\ UNCHANGED <<setup, code, startVars, signalled, cancelled, sock, wl, hard, err>>

\* cancel(): every workload's context is done with gctx.
CancelAll ==
    /\ cancelled' = TRUE
    /\ wl' = [w \in Workloads |-> IF Spawned(w) THEN [wl[w] EXCEPT !.stopping = TRUE] ELSE wl[w]]

\* main() raises, returns something else, or is interrupted because gctx is done.
MainFails ==
    /\ pc = "main"
    /\ err' = "main"
    /\ CancelAll
    /\ pc' = "closing"
    /\ UNCHANGED <<setup, code, startVars, signalled, sock, ret, shutdown, hard>>

\* The script stops a workload with w.signal(), from main(), a task or a callback.
ScriptStops(w) ==
    /\ pc # "exited" /\ Spawned(w) /\ ~wl[w].stopping
    /\ wl' = [wl EXCEPT ![w].stopping = TRUE]
    /\ UNCHANGED <<setup, pc, code, startVars, signalled, cancelled, sock, awaitVars>>

-----------------------------------------------------------------------------
\* The signal, and the promise that is awaited.

\* From signal.NotifyContext on, a signal ends ctx, and gctx with it.
Sigterm ==
    /\ pc \notin {"flags", "exited"} /\ ~signalled
    /\ signalled' = TRUE
    /\ wl' = [w \in Workloads |-> IF Spawned(w) THEN [wl[w] EXCEPT !.stopping = TRUE] ELSE wl[w]]
    /\ UNCHANGED <<setup, pc, code, startVars, cancelled, sock, awaitVars>>

Outcome ==
    IF ret.kind # "spawn" THEN ret.state
    ELSE IF wl[ret.w].life # "settled" THEN "pending"
    ELSE IF wl[ret.w].verdict = "failed" THEN "rejected" ELSE "resolved"

\* A task ends by itself or because its context, a child of gctx, is done; a bare
\* promise is settled by the script. A task that was cancelled settles as resolved.
PromiseSettles(s) ==
    /\ ret.kind \in {"task", "deferred"} /\ ret.state = "pending" /\ pc # "exited"
    /\ ret' = [ret EXCEPT !.state = IF ret.canceling THEN "resolved" ELSE s]
    /\ UNCHANGED <<setup, pc, code, startVars, signalled, cancelled, sock, wl, shutdown, hard, err>>

-----------------------------------------------------------------------------
\* The await loop.

\* Mutant of AwaitDone: the promise's error is dropped.
AwaitDoneQuietly ==
    /\ pc = "await" /\ Outcome # "pending"
    /\ CancelAll /\ pc' = "closing"
    /\ UNCHANGED <<setup, code, startVars, signalled, sock, awaitVars>>

AwaitDone ==
    /\ pc = "await" /\ Outcome # "pending"
    /\ err' = IF Outcome = "rejected" THEN "promise" ELSE None
    /\ CancelAll /\ pc' = "closing"
    /\ UNCHANGED <<setup, code, startVars, signalled, sock, ret, shutdown, hard>>

\* doSignal() on a signallable promise, doCancel() on another: a workload is asked
\* to stop, a task or a bare promise is settled; a cancelled task unwinds first.
Deliver ==
    CASE ret.kind = "spawn"    -> wl' = [wl EXCEPT ![ret.w].stopping = TRUE] /\ UNCHANGED ret
      [] ret.kind # "spawn" /\ ret.state = "pending" ->
            /\ ret' = IF ret.kind = "task" /\ ~ret.signallable
                      THEN [ret EXCEPT !.canceling = TRUE]
                      ELSE [ret EXCEPT !.state = "resolved"]
            /\ UNCHANGED wl
      [] OTHER                 -> UNCHANGED <<wl, ret>>

\* Mutant of AwaitShutdown: the deadline is set when the signal cannot be delivered.
AwaitShutdownUnlimited ==
    /\ pc = "await" /\ shutdown /\ gctxDone
    /\ Deliver
    /\ hard' = ~ret.signallable /\ shutdown' = FALSE
    /\ UNCHANGED <<setup, pc, code, startVars, signalled, cancelled, sock, err>>

\* Mutant of AwaitShutdown: the signal stays ready, and is delivered again and again.
AwaitShutdownAgain ==
    /\ pc = "await" /\ shutdown /\ gctxDone
    /\ Deliver
    /\ hard' = TRUE
    /\ UNCHANGED <<setup, pc, code, startVars, signalled, cancelled, sock, shutdown, err>>

\* Mutant of AwaitShutdown: the loop ends with the signal.
AwaitShutdownLeaves ==
    /\ pc = "await" /\ shutdown /\ gctxDone
    /\ Deliver
    /\ hard' = FALSE /\ shutdown' = FALSE /\ pc' = "closing"
    /\ UNCHANGED <<setup, code, startVars, signalled, cancelled, sock, err>>

AwaitShutdown ==
    /\ pc = "await" /\ shutdown /\ gctxDone
    /\ Deliver
    /\ hard' = TRUE /\ shutdown' = FALSE
    /\ UNCHANGED <<setup, pc, code, startVars, signalled, cancelled, sock, err>>

AwaitHard ==
    /\ pc = "await" /\ hard
    /\ err' = "deadline"
    /\ CancelAll /\ pc' = "closing"
    /\ UNCHANGED <<setup, code, startVars, signalled, sock, ret, shutdown, hard>>

\* g.Wait(), then the exit status.
Close ==
    /\ pc = "closing" /\ sock \in {"off", "ended"}
    /\ Exit(IF err = None THEN 0 ELSE 1)
    /\ OnlyPc

-----------------------------------------------------------------------------
\* serveControlSocket. An error ends it and nobody looks at it.

SocketListens ==
    /\ sock = "starting" /\ pc # "exited"
    /\ sock' \in {"serving", "ended"}
    /\ UNCHANGED <<setup, pc, code, startVars, signalled, cancelled, wl, awaitVars>>

SocketCloses ==
    /\ sock = "serving" /\ gctxDone /\ pc # "exited"
    /\ sock' = "ended"
    /\ UNCHANGED <<setup, pc, code, startVars, signalled, cancelled, wl, awaitVars>>

\* Serve fails.
SocketFails ==
    /\ sock = "serving" /\ pc # "exited"
    /\ sock' = "ended"
    /\ UNCHANGED <<setup, pc, code, startVars, signalled, cancelled, wl, awaitVars>>

-----------------------------------------------------------------------------
\* Workloads, as far as Workload tells: they live as long as the process.

Becomes(w, life, verdict) ==
    /\ pc # "exited"
    /\ wl' = [wl EXCEPT ![w].life = life, ![w].verdict = verdict]
    /\ UNCHANGED <<setup, pc, code, startVars, signalled, cancelled, sock, awaitVars>>

Attempt(w) ==
    \/ wl[w].life = "idle" /\ ~wl[w].stopping /\ Becomes(w, "launching", "none")
    \/ wl[w].life = "launching" /\ \E l \in {"running", "idle"} : Becomes(w, l, "none")
    \/ wl[w].life = "running" /\ Becomes(w, "idle", "none")

Settles(w) ==
    /\ wl[w].life \in {"idle", "launching"}
    /\ \E v \in {"exited", "failed"} \cup (IF wl[w].stopping THEN {"stopped"} ELSE {}) :
          Becomes(w, "settled", v)

Next ==
    \/ ParseFlags \/ Probe \/ Open \/ ReadSelf \/ OpenStore \/ Provision \/ Load
    \/ MainReturns \/ MainFails \/ Sigterm
    \/ \E s \in {"resolved", "rejected"} : PromiseSettles(s)
    \/ AwaitDone \/ AwaitShutdown \/ AwaitHard \/ Close
    \/ SocketListens \/ SocketCloses \/ SocketFails
    \/ \E w \in Workloads : Spawn(w) \/ ScriptStops(w) \/ Attempt(w) \/ Settles(w)

Spec == Init /\ [][Next]_vars

\* The goroutines run: a step of start-up returns (every request carries ctx), the
\* loop takes a case that is ready, timers fire, main() comes back once its context
\* is done, and the control socket shuts down within its five seconds. Nothing is
\* assumed of workloads, tasks and scripts.
Starting == ParseFlags \/ Probe \/ Open \/ ReadSelf \/ OpenStore \/ Provision \/ Load
Await    == AwaitDone \/ AwaitShutdown \/ AwaitHard
Fairness ==
    /\ WF_vars(Starting)
    /\ WF_vars(gctxDone /\ (MainReturns \/ MainFails))
    /\ WF_vars(Await)
    /\ WF_vars(Close)
    /\ WF_vars(SocketListens \/ SocketCloses)

FairSpec == Spec /\ Fairness

-----------------------------------------------------------------------------
\* Type invariant; the script runs only after start-up is through.
TypeOK ==
    /\ setup \in Setups
    /\ pc \in Places /\ code \in {None, 0, 1, 2} /\ (code # None <=> pc = "exited")
    /\ self \in Identity /\ SELF \in {None, "id", "noid"}
    /\ owner \in {None, "id", "hostname"} /\ created \in BOOLEAN
    /\ signalled \in BOOLEAN /\ cancelled \in BOOLEAN
    /\ sock \in {"off", "starting", "serving", "ended"}
    /\ wl \in [Workloads -> Workload]
    /\ ret \in Promise /\ (ret.kind = "spawn" => ret.w # None /\ Spawned(ret.w))
    /\ shutdown \in BOOLEAN /\ hard \in BOOLEAN /\ (hard => ~shutdown)
    /\ err \in {None, "main", "promise", "deadline"}

\* When the script runs, the store is what it was told: the owner of the leases is
\* the instance the script knows as SELF, and the host name only when SELF has no id
\* ("Resolving identity after the store was built would produce leases whose owner
\* does not match"); and with -kv-create there is a store and it was provisioned
\* ("the operator asked for the store to exist").
StoreAsPromised ==
    pc \in {"main", "await", "closing"} =>
       /\ owner # None => owner = OwnerID(self) /\ (SELF = "id" <=> owner = "id")
       /\ Given("kv-create") => created /\ owner # None

\* When the process exits the control socket is closed, on every way out, and the
\* workload main() returned has stopped, unless it did not do so within
\* hardShutdownGrace of a signal.
StoppedBeforeExit ==
    pc = "exited" =>
       /\ sock \in {"off", "ended"}
       /\ ret.kind = "spawn" =>
             wl[ret.w].life = "settled" \/ (err = "deadline" /\ signalled)

\* "Retries exhausted -> the promise rejects and the process exits non-zero": a
\* process that got as far as main() exits with 0 only if the promise resolved.
ExitIsHonest ==
    pc = "exited" /\ code = 0 =>
       \/ Outcome = "resolved"
       \/ ret.kind = "none" /\ sock = "off" /\ \A w \in Workloads : ~Spawned(w)

\* A signal, at any time after it is listened for, and the end of the promise that
\* is awaited both end the process, whatever workloads and scripts do.
EndLeadsToExit == (signalled \/ (pc = "await" /\ Outcome # "pending")) ~> (pc = "exited")
=============================================================================
