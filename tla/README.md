# Verification of muster

muster (`src/`) is a container entrypoint: it loads a Starlark script, lets the
script find its peers and coordinate with them through a key/value store, runs
the workload process the script asks for, supervises it, and reports its health
on a control socket. This directory holds TLA+ models of the parts of muster
whose correctness depends on interleavings, failures and time, the TLC runs that
check them on small instances, and TLAPS proofs of the results that matter most.

## 1. Inventory of the system

| Part | State | Operations | What is hard | What makes it correct |
|---|---|---|---|---|
| **Workload supervisor** (`spawn.go`, `config.go`) | the loop's position, the retry counter, the process and its `Wait` goroutine, two watcher goroutines per attempt, stop flag and context, the promise | `spawn()`, `w.signal()`, `w.reject()`, the loop's steps, the watchers' steps | a stop, an exit and a failed probe racing in one `select`; watchers that outlive their attempt; a process that ignores SIGTERM; callbacks that block; counters reset in the middle | one process at a time; nothing left running when the promise settles; hooks in their window; the retry limit exact; the reported outcome true; a stop always ends |
| **Workload status and probe** (`main.go`: `workloadState`, `runHealthProbe`) | per workload: up, health, respawn count, backing off, last exit code | setters called by the supervisor, `snapshot`, the judgement of the probe client | stale health after a respawn | the probe's verdict matches the workload |
| **Key/value contract** (`internal/provider/kv.go`), **in-memory store** (`memkv`) | a map of entries with owner and expiry, a mutex | `PutIfAbsent`, `CompareAndSwap`, `Get`, `Delete`, `DeleteIf`, `Renew` | expiry at the boundary; permanent keys | atomic conditional writes and leases |
| **Cloud Storage store** (`gcp/kv.go`) | one object per key, its generation and metadata | the same, each as up to four requests | other nodes between two requests; lost answers and retries; requests that arrive late; clock skew; the lifecycle rule | implements the contract; a lease is a lock |
| **DynamoDB store** (`aws/kv.go`) | one item per key | the same, each one conditional request | whole-second deadlines from the writer's clock, judged by the reader's | an unexpired lease is respected; a lease is a lock |
| **Firestore store** (`gcp/firestore.go`) | one document per key | the same, as transactions | a transaction function run again after contention | implements the contract |
| **Promises** (`promise.go`, `async.go`, `spawnFunc` in `starlark_engine.go`) | settled once, canceling and awaited flags, the task's context | `go`, `poll`, `promise`, `join`, `select`, `any_true`, `cancel`, `signal`, `reject` | races to settle; an intended cancel and a real failure; failures that nobody observes | what a `join()` reports is so and stays so; an intended cancel is quiet; a failure is heard of; no task outlives its starter |
| **Harness** (`main.go`: `doIt`) | where start-up is, the awaited promise, shutdown signal, hard deadline, control socket | flags, provider, identity, store, script, `main()`, the await loop, exit | a failure or a signal at any point of start-up; the deadline racing the teardown; workloads main() did not return | the process ends, with the right status, and leaves nothing open |
| **Script engine and builtins** (`starlark_*.go`, `capability.go`) | frozen globals, interface cache | `invokeValue`, `waitLoop`, the builtins | a callable interrupted by its context | an interrupted callable returns |
| **Discovery and registration** (`discovery.go` of each provider) | endpoints in the directory; per instance what it registered last | `Register`, `Deregister`, `Discover` | a registration that failed half way; a late request; an address that a later instance is given | what was registered is deregistered; a registered instance is found; nobody removes another's endpoint |
| **Identity, registry, flags** (`identity.go`, `registry.go`, `flags.go`, `envflags.go`) | the memoised identity | reads of metadata services, provider selection, precedence of flags | an identity that could be read twice with two results; a start that fails half way | the lease owner is the instance the script knows; what was asked for on the command line is there or the start fails |
| **Seed election** (`e2e/tikv/*/docker/tikv-pd/pd.star`, example scripts) | the seed key, a cluster-formed key | claim, renew, hand over, join | a seed judged gone that comes back | one seed bootstraps one cluster |

How they interact: `doIt` loads the script and awaits the promise `main()`
returns; `spawn()` starts a supervisor goroutine that settles that promise and
writes a `workloadState`; the control socket reads these states; SIGTERM cancels
the root context and calls the promise's `signal()`, which is the supervisor's
`requestStop`; the script's callbacks run on the supervisor's or a task's
goroutine under its context and reach other instances through the key/value
store only.

## 2. Modules

| Module | Models |
|---|---|
| `Workload` | abstract: what `spawn()` promises about one workload |
| `Supervisor` | `spawn.go` and the state it reports; shown to implement `Workload` |
| `Promise` | `promise.go`, `async.go` and the task half of `starlark_engine.go` |
| `Harness` | `main.go`, with flags, provider selection, identity and control socket, over workloads that behave as `Workload` says |
| `LeaseStore` | abstract: one key of a `KVStore`, every operation atomic |
| `GcsKV` | `gcp/kv.go`, request by request; shown to implement `LeaseStore` |
| `FirestoreKV` | `gcp/firestore.go`, transaction by transaction; shown to implement `LeaseStore` |
| `DynamoKV` | `aws/kv.go`, request by request, and `Provision` |
| `Registrar` | `gcp/discovery.go`: registration and lookup in Service Directory |
| `SupervisorProofs`, `PromiseProofs`, `HarnessProofs`, `GcsKVProofs`, `FirestoreKVProofs`, `DynamoKVProofs`, `RegistrarProofs` | proofs about the module each is named after |
| `MCSupervisor`, `MCPromise`, `MCHarness`, `MCGcsKV`, `MCFirestoreKV`, `MCDynamoKV`, `MCRegistrar` | the instances explored |

Some operators are marked *Mutant of ...*: each is a plausible mistake in the
code, and stands before the definition it would replace. With the replacement
made, the property it belongs to fails; `PROJECT.json` lists the pairs.

### 2.1 Supervisor

One `spawn()` call. `pc` is the place of the supervisor goroutine in `loop()`,
from `top` through `resolve`, `pre_start`, `start`, `post_start`, `select`,
`pre_stop`, `terminate`, `grace`, `kill`, `post_stop` and `decide` to `backoff`
or `done`; each place is one that the code can block at or at which another
goroutine can change what it sees next. `waitCh` is the buffered channel of the
`Wait` goroutine, `chan` the two buffered channels of the watchers, `watch` and
`stale` the watcher goroutines of this attempt and of earlier ones. `w` is the
`workloadState`; `p` the promise with its exit struct.

- `requestStop` is two steps, as in the code: it writes `sv.stop` and then
  cancels the context, and the root context may be cancelled in between. The flag
  is read by another goroutine without a lock, but only after the cancellation.
- The `select` of `loop()` takes any case that is ready.
- `terminate()` sends SIGTERM, waits for the grace period, sends SIGKILL and waits
  again. The process may end at any moment, also by itself, also between the
  signal and the timer.
- A callback is a step that returns or fails at some time. What a script does in
  it is outside this module.
- A watcher whose attempt is over may still find its promise settled, because
  `await` chooses between a settled promise and a done context at random; so it
  may still write the health (`StaleWatcherReturns`).
- Durations are left out: a timer is a step that may happen at any time after it
  was set, which includes every duration a script can configure.

### 2.2 Workload

`life` (idle, launching, running, settled), `stopping` and `verdict`. After a stop
nothing new is prepared, a settled workload has no process, "stopped" is only said
of a stop, and a stop leads to a settled promise. This is what the harness relies
on. `Supervisor` is mapped to it by the definitions `life` and `verdict`.

### 2.3 LeaseStore and GcsKV

`LeaseStore` is one key of the contract in `kv.go`, as `memkv` implements it under
its mutex. Two constants name how a remote store is weaker: `Skew`, since
`PutIfAbsent` judges a lease by the caller's clock, and `Lag`, since
`CompareAndSwap` and `Renew` may find a lease live and write after it lapsed, if
nobody wrote in between.

`GcsKV` is one key of the Cloud Storage store. A node's call is a sequence of
requests: `create` (the fast path of `PutIfAbsent`), `attrs` and `body` (the two
requests of `read()`), `send` (the conditional write or delete). Between any two of
them other nodes act, the clock ticks, or the lifecycle rule removes the object.
The bucket itself is external and modelled from how the code uses it: generations
that are never used again, a precondition on the generation, an update time given
by the server. A request can be carried out with its answer lost and be sent again
(`Retried`), fail (`Fails`), or be abandoned by its caller and arrive at any later
time (`GivesUp`, `ArrivesLate`); the latter is also an instance that dies during a
call. `until` records how long a node may think it has the lease, counted from
before its call; `Holds` is that time less the skew.

### 2.4 DynamoKV

One key of the DynamoDB store. A call is one request that carries its condition and
its deadline, both computed from the caller's clock before it is sent: `RequestOf`
takes two readings of a clock that is off by up to `Skew`, and `Unix` cuts them to
whole seconds of `Second` ticks. DynamoDB itself is external: it evaluates the
`Condition` and applies the `Effect` atomically. The SDK sends a request again when
its answer is lost (`Retried`) or while the first copy is still on its way
(`Straggles`, `ArrivesLate`). Time to live (`Reap`) is lazy and by the server's clock.
With `-kv-create`, `Provision` runs step by step on every node: describe, create, wait,
enable time to live, with failures and restarts in between.

This store is not a `LeaseStore`: the deadline is the writer's, so a write that
arrives late brings an old deadline with it. Its promise is `LeaseRespected` instead,
and the lock properties. At the boundary: `PutIfAbsent` compares with `<`, so the
second that rounding takes away from a lease is given back; in that last second
`Get` already calls the key absent, which is why `HolderSeesLease` starts a second
earlier than `MutualExclusion` ends.

Items have no generation. A release that arrives late may meet the next claim of the
same node, whose value it names, and a late renewal brings an older deadline back:
`aws/kv.go` asks for the owner or the value, which are those of both. So a node may claim the
key, release it with a copy of the release left on its way, claim it again, and lose it to
that copy while it counts on the lease; somebody else then claims it. The model lets requests of
every kind arrive late, and names this case: `CutsShort` is a late request that takes time from a
lease of its own node, after which the history variable `until` no longer counts that node as a holder.
The lock properties are therefore about leases that their own node did not cut short this way: they
show that nothing else ends one early, and no request of another node does. They do not
show that the lock is safe against the case itself, which it is not (section 5).

### 2.5 FirestoreKV

One key of the Firestore store. A call is a transaction: its function (`Body`) reads
the document, judges it by the node's clock and prepares a write; the commit goes
through only if the document is as it was read (`fresh`). On contention the function
runs again, up to `MaxAttempts` times, and its verdict starts anew (`Verdict`). A
transaction may be given up with its commit on its way (`GivesUp`, `ArrivesLate`), in
which case any write in between turns it down. A plain `Delete` is not a
transaction: it is one request that is repeated at will. Expiry counts from the
server's update time, as the code computes it; the `expires_at` field, from the
writer's clock, is for a TTL policy only, which may remove the document after that.

### 2.6 Promise

Root is the thread of `main()`. A promise is made by `go()`, `poll()` or `promise()`;
the first two start a task, whose context is inside that of its caller (`within`,
`done`). Tasks call `cancel()`, `signal()` and `reject()` on any promise, and block in
`join()`, `select()` or `any_true()` (`op`). A task ends by returning, by failing, by an
error of a builtin it is in, or because its context is done; the steps of
`spawnFunc` after that (`Judge`, `Rejects`, `Leave`) are steps of their own, since others
can cancel or settle the promise between them. `report` is the goroutine of
`reportIfUnobserved`, which looks at the context of the thread that started the task.
Values are told apart by their truth. `join()` awaits its arguments one after the other, in any
order: `op` keeps the one it waits for (`on`), all of them (`args`) and those to come (`rest`);
`select()` and `any_true()` race theirs (`RacesOn`). `stopped` is history: the promises that were cancelled while
their task was at work.

### 2.7 Harness

The muster process from flags to exit. `Setups` are the starts explored: which flags
and variables are set, which platform the environment points at, what is built in.
Start-up is one action per step of `main()`, `openProvider`, `provisionKV` and
`loadScript`, each with its way to fail. `main()` of the script spawns workloads and
returns a promise of any kind, or fails. The await loop has its three cases
(`AwaitDone`, `AwaitShutdown`, `AwaitHard`). Workloads move as module `Workload` allows and
promises of tasks settle at some time: what these two can do is checked in
`Supervisor` and `Promise`. The control socket is its own goroutine; an error in it ends
it and nobody looks at the error, as in the code.

### 2.8 Registrar

The endpoints of a directory (`dir`), and per instance what its `Registrar` noted
(`registered`, `registeredAddr`) and the call under way. `Register` is a delete whose error is
ignored, a create and a note; `Deregister` a delete and a forget. Requests are repeated, fail
after or before they were carried out, or arrive after their call was cancelled.
The delete that starts a registration may also arrive after the create that follows it.
Instances die at any point, and a later one may be given the address of one that is
gone while requests of that one are still on their way. Assumed: the calls of one instance come
one at a time, and no two running instances have the same address. `doubt` is history: a
call of the instance failed half way, or a late delete took its endpoint, and nobody can
know what is published until a later request of the instance is answered. `NothingLeft` and
`PeersFound` are about instances without doubt.

## 3. Runs

| Run | Checks | Result |
|---|---|---|
| `supervisor` | `TypeOK`, `OneProcess`, `SettledIsStopped`, `HookWindows`, `RetryBudget`, `OutcomeHonest`, `SupervisorInv`, `WorkloadSafety`, `StopLeadsToSettled`, `HealthRestartServed` | hold |
| `gcs` | `TypeOK`, `GcsInv`, `MutualExclusion`, `LockInv`, `ImplementsLeaseStore` | hold |
| `dynamo` | `TypeOK`, `MutualExclusion`, `LockInv`, `HolderSeesLease`, `LeaseRespected` | hold |
| `firestore` | `TypeOK`, `MutualExclusion`, `HolderSeesLease`, `ImplementsLeaseStore` | hold |
| `promise` | `TypeOK`, `CancelIsQuiet`, `JoinIsHonest`, `AnyTrueDecides` | hold |
| `promise_live` | `FailureIsHeard`, `DoneLeadsToEnd`, `NothingOutlives` | hold |
| `harness` | `TypeOK`, `StoreAsPromised`, `StoppedBeforeExit`, `ExitIsHonest`, `EndLeadsToExit` | hold |
| `registrar` | `TypeOK`, `NothingLeft`, `PeersFound`, `OnlyItsOwn` | hold |
| `probe_down`, `gcs_get`, `registrar_gone`, `promise_lost` | one documented claim each | violated, see section 5 |

What they show:

- `supervisor`: six argument sets (all defaults; respawning with every hook;
  keep_alive with one retry and no `pre_stop`; unlimited retries with
  `resolve_failure="fail"` and `restart_on_liveness=False`; no hooks with
  `resolve_timeout`; a negative `max_retries` without respawn, which the argument
  check lets through), every outcome of every callback, every interleaving with
  exits, probes, timers and stops. Exit codes are 0, 1 and -1, which `exitCodeOf` gives
  for a process that a signal ended. The backoff that follows the second respawn lasts until a stop
  (`MaxRespawns`): with `max_retries` at 0, 1 and 2 this is beyond the point where the
  limit is reached, and a reset of the counter in between is included. A process may
  ignore SIGTERM for ever, and a callback may block until its context ends.
  `WorkloadSafety` and `StopLeadsToSettled` together are what `Workload` says.
- `gcs`: two nodes with a skew of 1, three writes, a clock from 1 to 4 and one late
  request, in three uses of the key. As a lock, with a lease of 3 and a lifecycle rule of
  age 3, the shortest that is harmless: one node claims, renews and releases it, the
  other claims it; a lease lapses and is taken over, and the former holder's requests arrive
  afterwards. With leases that are swapped for a permanent value and removed by plain deletes.
  With a permanent value that is released by the value it shares with a lease. A fourth write would
  add a generation but no new kind of conflict, because a request only compares its
  generation with the current one.
- `dynamo`: a second of two ticks, a skew of one tick, leases of two seconds, so that
  every reading can fall on either side of a second; a clock that ends at 7 lets a lease lapse
  and be taken over. Three uses of the key: as a lock, every operation with leases
  shorter than a second and permanent values, and a claim each on a table that both
  nodes want to create. One request of any kind arrives late: `MutualExclusion`, `LockInv` and
  `HolderSeesLease` hold of leases that their own node's late request did not cut short (section 2.4).
- `firestore`: a lease of 3, a skew of 1, a clock from 1 to 4, two runs of a transaction's
  function and one late request; the key as a lock, and every operation with permanent
  values, on which the refinement is checked as well.
- `promise`: `main()` and two promises: a task, and a task, a poll or a bare promise that
  stands beside it, in it or around it; three calls of builtins on promises, which is
  enough for two of them to race a third that waits.
  `JoinIsHonest` is about the whole of a `join()`: what it awaited early must still be so at its
  end, whoever tries to settle it again.
- `promise_live`: the temporal properties, with one call: a task joined by, or joining, the
  other, or cancelled, signalled or rejected by it, and a shutdown at any time. `FailureIsHeard` is
  about the tasks of `main()`; for those of other tasks it fails, which is `promise_lost`.
- `harness`: three starts that reach `main()` (ECS with `-kv-create` and a socket, Cloud Run
  configured by variables, the in-memory provider by name) and nine that are refused or
  run another mode; two workloads, of which `main()` may return one, none, or the promise
  of a task.
- `registrar`: an instance, a peer, and a third that is started at the first one's address
  after it is gone, when requests of the first may still arrive; two requests go wrong. In one use of the directory every
  instance publishes one endpoint; in the other there is an instance with two addresses,
  one without any, and one that publishes in another namespace. A lookup returns
  two endpoints at most, so that the cap is reached.

Deadlock is checked in the runs of `Supervisor`, where the finished state has a step of its
own, and in those of the stores, where a node can always begin a call. A script may
stop for good with nothing left to do, a process that has exited takes no step, and
instances that are gone do not come back: the runs of `Promise`, `Harness` and `Registrar`
do not check it.

### Fairness

`Supervisor`: the supervisor goroutine takes a step when it can (its timers included),
`requestStop` reaches its second statement, and a process that has been sent SIGKILL dies.
A script callback is only assumed to return once its context has ended: `sv.ctx` is
done (`invokeValue` then interrupts the interpreter; stop hooks that run at that time
have a deadline of their own) or `resolve_timeout` bounds `resolve()`. Nothing is assumed
of a process that was sent SIGTERM, nor of the watchers.

`Promise`: weak fairness for the steps of a task's goroutine after its function returned,
for the timers and for a builtin whose caller's context is done. Strong fairness for two
steps that other steps can disable again and again: `Interrupt`, because a thread that is
cancelled stays cancelled and fails as soon as it runs Starlark, and the wake-up of a
poll by its context, because `select` chooses at random between that and the timer.
Nothing is assumed of the script.

`Harness`: weak fairness for the steps of start-up (every request there carries the
context), for the return of `main()` once its context is done, for the await loop with its
timer, for `Close` and for the control socket, whose shutdown has a deadline of five
seconds. Nothing is assumed of workloads and tasks.

## 4. Proofs

Every proof module is checked to the last leaf and takes nothing but the named
assumptions on the constants. All invariants and all action properties of the runs are
proved; what is left to TLC is listed at the end of this section. The inductive invariants
were checked with TLC on the instances of the runs before they were proved.

| Property of a run | Theorem | Hypothesis |
|---|---|---|
| `Supervisor`: `TypeOK`, `SupervisorInv`, `OneProcess`, `SettledIsStopped`, `HookWindows`, `RetryBudget`, `OutcomeHonest`, `WorkloadSafety` | `TypeCorrect`, `Invariance`, `AtMostOneProcess`, `SettledMeansStopped`, `HooksInTheirWindow`, `RetriesBounded`, `OutcomeIsHonest`, `Refinement` | none |
| `Promise`: `TypeOK`, `CancelIsQuiet`, `JoinIsHonest`, `AnyTrueDecides` | `TypeCorrect`, `CancelStaysQuiet`, `JoinStaysHonest`, `AnyTrueIsDecided` | none |
| `Harness`: `TypeOK`, `StoreAsPromised`, `StoppedBeforeExit`, `ExitIsHonest` | `TypeCorrect`, `StoreIsAsPromised`, `StoppedAtExit`, `ExitStatusHonest` | none |
| `GcsKV`: `TypeOK`, `GcsInv` | `TypeCorrect`, `Invariance` | none |
| `GcsKV`: `LockInv`, `MutualExclusion` | `LockInvariance`, `LockExcludes` | `LockDiscipline` and `LifecycleHarmless`, within the properties |
| `GcsKV`: `ImplementsLeaseStore` | `Refinement` | `LifecycleHarmless` |
| `FirestoreKV`: `TypeOK`, `ImplementsLeaseStore` | `TypeCorrect`, `Refinement` | none |
| `FirestoreKV`: `MutualExclusion`, `HolderSeesLease` | `LockExcludes`, `HolderSeesIt` | `LockDiscipline`, within the properties |
| `DynamoKV`: `TypeOK`, `LeaseRespected` | `TypeCorrect`, `LeaseIsRespected` | none |
| `DynamoKV`: `LockInv`, `MutualExclusion`, `HolderSeesLease` | `LockInvariance`, `LockExcludes`, `HolderSeesIt` | `LockDiscipline`, within the properties; for leases not cut short (section 2.4) |
| `Registrar`: `TypeOK`, `NothingLeft` | `TypeCorrect`, `NothingIsLeft` | none |
| `Registrar`: `PeersFound` | `PeersAreFound` | `OwnIds` |
| `Registrar`: `OnlyItsOwn` | `OnlyItsOwnGoes` | `IdsDiffer` |

`LockDiscipline` says that nodes claim under their own name, renew, and release by it, always
with the same ttl.

**`SupervisorProofs`**, for every set of valid argument sets, every set of exit
codes with 0 in it and every bound: `TypeCorrect`; `Invariance`, that
`SupervisorInv` holds; from it `AtMostOneProcess`, `SettledMeansStopped`,
`HooksInTheirWindow`, `RetriesBounded`, `OutcomeIsHonest`; and `Refinement`, that
`Supervisor` implements `Workload!Safety`. None of the five properties is inductive.
`SupervisorInv` has three parts: `ProcessInv` (during an attempt there is exactly one
process, alive or waiting to be collected, and outside one there is none),
`RetryInv` (the counter lags the iterations begun by one, until `doBackoff`) and
`TeardownInv` (no signal before `terminate()`, and a captured stop reason is backed
by a stop). Each is proved action by action; `TypeOK` and `ProcessInv` are used for
the other two.

**`GcsKVProofs`**, for any nodes, values, calls and skew: `TypeCorrect`; `Invariance`, that
`GcsInv` holds; `Refinement`, that `GcsKV` implements `LeaseStore` when the lifecycle
rule waits out every lease (`LifecycleHarmless`); `LockInvariance`, that `LockInv` holds,
and from it `LockExcludes`, mutual exclusion, for nodes that keep to `LockDiscipline` and again a
lifecycle rule that waits. The argument: a generation is
never given out twice, so what a request was judged on (the value, the owner, the
expiry) is still true when it arrives, or its generation is gone and it is refused;
`Counts` says what each kind of request may count on, in the hands of its caller or
late. For the lock, `LockInv` adds that a holder's object is still there and expires
no sooner than the holder thinks, and that no release on its way is aimed at it.

**`FirestoreKVProofs`**, for any nodes, values, calls, skew and number of attempts. `FirestoreInv`
says what a transaction stands on: as long as the document has not been written since it
was read (`fresh`), what the function read is the document, so a prepared write is one that
the document allows by the clock that judged it; a late commit is held to the same.
From it `Refinement`: a commit is one step of `LeaseStore`, whoever waits for it, and a
refused one is none. No hypothesis like that on the lifecycle rule of Cloud Storage is
needed: the code sets no such rule here, and a TTL policy that an operator has set is taken to
remove a document only after it has lapsed (Firestore does so within a day of `expires_at`). For the
lock, `LockInv` of this module adds that a holder's document is there, is its own and
outlasts what the holder thinks (`LockDocAt`), that a release on its way is of a node that has
given the lease up, and that a `Get` in progress of a holder has read that document
(`LockCallAt`). `MutualExclusion` and `HolderSeesLease` follow.

**`DynamoKVProofs`**, for any nodes, values, calls, skew and length of a second. `DynamoInv` says
that a request on its way is one its node asked for and was judged by a reading no later
than the present plus the skew; with `UnixBounds` this is enough for `LeaseRespected`: the `at` of
a late claim cannot be past the deadline of an item that no clock calls lapsed. The lock
needs the arithmetic of whole seconds. The deadline is rounded down once when it is
written, and the reading once when it is compared, and the comparison is strict: an item
counts until the end of the second of its deadline (`End`), which is after the unrounded
deadline (`RoundedDeadline`), so nobody can claim it while its holder counts on it
(`HeldIsNotLapsed`), and a `Get` answers absent at most a second earlier (`HeldIsValid`). The
inductive invariant `LockState` puts this beside what a call of a holder stands on: a release
is of a node that has let go, and a renewal under way does not bring the deadline back. A
request that outlives its call may do either (`LockLate`): if it does, `CutsShort` holds of it, it is a
request of the node whose lease it is, and that node stops counting as a holder; if it does not,
the deadline has not gone back and the holder's item outlasts what it thinks as before. No
hypothesis on what comes late is needed.

**`PromiseProofs`**, for any promises, any way they may be made and any number of calls. The
inductive invariant `PromiseInv` says: a promise without a task has
none of a task's states (`TaskInv`); a promise cancelled while its task was at work is marked
before the task's error is judged (`QuietInv`, the reason why no order of the two makes noise);
being within a context is transitive, a bare promise is around nothing, and a context that is
done has none alive within it (`NestInv`, `ContextsNest`), without which the end of a task would leave a
grandchild alive; what `any_true()` has dropped from the race was falsy (`RaceInv`); and what `join()`
has awaited was no rejection (`JoinInv`), which needs that a settled promise stays as it is.
`JoinStaysHonest` and `AnyTrueIsDecided` are about steps.

**`HarnessProofs`**, for any starts and workloads. `StartInv` follows start-up: the identity is
read once and before the store, whose owner is made from it, and only a provisioned store
lets a start with `-kv-create` go on. `AwaitInv` says that nothing runs before `main()` and that
until the loop ends there is no error; `CloseInv` what each case of the loop leaves behind. The
proof found a mistake in the model: `Outcome` had been a `CASE` whose arms overlapped, of which
TLC takes the first and the formula says nothing. It is now a choice in the order of the code.

**`RegistrarProofs`**, for any instances, addresses, uses, number of faults and cap.
`RegistrarInv` says what a call and a late request may touch (an endpoint of an address its
instance may publish), that an address has one running holder, and that finitely many
endpoints are published. `HomeInv` says that an
instance with one endpoint has nothing anywhere else and, once it has deregistered
without doubt, nothing at all: this is `NothingLeft`. `ThereInv` says that what a running
instance without doubt has noted is in the directory as it published it: what an earlier holder of the
address left on its way may take it, and is then a doubt (`Untouched`: nobody else's request can). Ids are any function of
addresses: `endpointID` writes punctuation as dashes and cuts the id at 63 bytes, and a script
may pass any string as an address. `NothingLeft` does not depend on that. `PeersFound` does, and is proved
when nobody publishes under the id of another's address (`OwnIds`); `OnlyItsOwn`, whose instances
all publish their own address, when ids tell addresses apart (`IdsDiffer`), as they do for IP
addresses. Both hold in the instance of the run.

Only model-checked:

- The temporal properties `StopLeadsToSettled`, `HealthRestartServed`, `FailureIsHeard`, `DoneLeadsToEnd`,
  `NothingOutlives` and `EndLeadsToExit`: liveness under fairness is out of the prover's reach.
- The four violations, which are counterexamples and need no proof.
- That each action fires and that the hypotheses above hold in the instances.

## 5. Where the code and its documentation differ

With a run that shows it:

- `probe_down`: a workload that was healthy once passes the health probe while it is
  down, since its health is not reset (`main.go:499`; the comment at 493 says that any
  down workload fails the probe).
- `gcs_get`: a renew between the two requests of `Get` makes a live key look absent
  (`gcp/kv.go:136`; `kv.go:33` promises a consistent read).
- `registrar_gone`: `Deregister` removes the endpoint of the last registration, and looks
  for it in the provider's own namespace. An instance that registers twice, as
  `gcp/discovery.go:82` tells a dual-stack instance to, keeps the first endpoint; one that
  registered in another namespace keeps its only one, without an error.
- `promise_lost`: the failure of a task that another task started is not reported when the
  starter ends within the grace, although the process goes on: `reportIfUnobserved` looks at the
  starter's context (`starlark_engine.go:178`; the comment at 173 and `README.md:322-328` speak
  of process shutdown only).

Seen while the models were written; each is what an action of a model does:

- A readiness promise that rejects ends `watchReadiness` silently (`spawn.go:314`); the
  comment at 299 says that a reject requests a restart.
- An error in `pre_start` rejects the promise at once (`spawn.go:152`); the repository's
  README says that it respawns if that is enabled.
- Before a health restart `pre_stop` runs without a deadline (`spawn.go:246`); the README
  says that it is time-bounded. `HealthRestartServed` is therefore stated for workloads
  without the hook.
- A workload with a readiness probe passes the health probe before it is ready, as
  soon as its process is up (`main.go:501`; the comment at 491 says it must be healthy).
- The lifecycle rule that `Provision` sets on a bucket removes permanent keys
  (`gcp/kv.go:339`; `kv.go:13` calls a key without a ttl permanent).
- A `PutIfAbsent` whose answer is lost is sent again by the storage client, meets its own
  object and answers false to the node that wrote it (`gcp/kv.go:181`; `kv.go:28`). Mutual
  exclusion is not affected: the node does not think that it holds the key.
- An instance whose `DescribeTable` finds a table that is still being created starts at
  once, and its first calls fail (`aws/kv.go:187`; `main.go:572` says that the script only
  runs once the store exists). One that loses the race to create the table exits. If the
  creator ends before it enabled time to live, nobody ever does.
- A renewal or a release of the DynamoDB store that arrives after its call ended is
  applied to whatever the key holds under that owner or value (`aws/kv.go:137-181`), and may
  cut a newer lease of the same node short, which that node does not learn: after that
  another node can claim the key while it still counts on it (`CutsShort`, section 2.4).
- A ttl below a millisecond is cut to zero by the Cloud Storage and Firestore stores
  (`gcp/kv.go:166`, `gcp/firestore.go:130`), which makes the key permanent, and `Renew` does not refuse it.
  The models count in these milliseconds.
- A late delete of the instance itself, or of one that had its address before, takes the
  endpoint of a registered instance, which does not learn of it (`gcp/discovery.go:176`, `204`).
- A registration whose create was carried out with its answer lost fails on its own
  endpoint, notes nothing, and `Deregister` leaves the endpoint there.
- `register()` and `deregister()` of two tasks write the same two fields without a lock.
- A task that fails after somebody else has settled its promise is still reported as
  unobserved, although nobody could have seen that error by joining it.

## 6. Not modelled, and the plan

Next, proofs: the workloads of `Harness` as instances of `Workload`, step by step; the safety
half of the temporal properties, such as what a task whose context is done may still do. And a
run of `DynamoKV` with two late requests, which is beyond the time a run should take.

Left out, and why:

- The seed election of the end-to-end tests is an example script, not the program.
  What it needs of muster is the lease, checked as `MutualExclusion` of each store, and that a
  holder reads its own write, checked as `HolderSeesLease` of DynamoDB and Firestore; Cloud Storage
  does not give it (`gcs_get`). What a follower does that deletes the seed's lease is outside `LockDiscipline`.
- The Cloud Map lookup of the AWS provider, fleet lookups, calls to metadata services, HTTP
  and gRPC transport, network probes, Starlark value conversion, files and logging keep no
  state of their own.
- The end-to-end test tooling.
- In the modelled parts: object, key and endpoint naming (an endpoint id is a function of
  the address), the length of intervals, environment and argument lists, ports, because no
  property depends on them. A Firestore document that `decode()` cannot read counts as
  absent (`gcp/firestore.go:116-118`); only `payload()` writes the collection, so there is none. Keys are independent of each other, so one is enough.
- Workloads that `main()` does not return, and ones that are running when `main()` fails, may
  be cut off by the exit of the process: the code does not wait for them, so
  `StoppedBeforeExit` does not speak of them.
