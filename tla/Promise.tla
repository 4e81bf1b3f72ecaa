------------------------------- MODULE Promise -------------------------------
(***************************************************************************)
(* Promises and the tasks behind them (promise.go, async.go and the task   *)
(* half of starlark_engine.go). Root is the thread that runs main(); every *)
(* go() and poll() starts a task with a context of its own inside that of  *)
(* its caller. Tasks end by themselves, are cancelled, signalled or        *)
(* rejected by others, and are interrupted when a context around them      *)
(* ends; all of these race to settle the promise.                          *)
(*                                                                         *)
(* A script error is not caught by anything in Starlark: a builtin that    *)
(* raises ends the task. A builtin that does not block is one step, with   *)
(* the cancelFn call it ends in: a context that is done and not yet looked *)
(* at cannot be told from one that is about to be.                         *)
(***************************************************************************)
EXTENDS Naturals, FiniteSets

CONSTANTS
    Promises,  \* the promises a script makes
    Root,      \* the thread of main()
    Shapes,    \* Shapes[p]: what p may be made as
    MaxCalls   \* bound on the calls of builtins that scripts make on promises

\* go() and poll() take no say in cancellable.
Shape == [kind : {"go", "poll"}, cancellable : {TRUE}, signallable : BOOLEAN]
           \cup [kind : {"bare"}, cancellable : BOOLEAN, signallable : BOOLEAN]

ASSUME RootAssumption   == Root \notin Promises
ASSUME ShapesAssumption == Shapes \in [Promises -> SUBSET Shape]
ASSUME CallsAssumption  == MaxCalls \in Nat

Threads == Promises \cup {Root}

VARIABLES
    kind,         \* kind[p]: how the promise was made, "none" before that
    cancellable,  \* promises with a cancel()
    signallable,  \* promises with a signal() and a reject()
    outcome,      \* outcome[p]: what it settled with
    awaited,      \* promises whose outcome something looks or looked at
    canceling,    \* promises that were cancelled
    task,         \* task[t]: where the thread is
    op,           \* op[t]: the blocking builtin the thread is in
    parent,       \* parent[p]: the thread that started the task of p
    within,       \* within[t]: the contexts around the thread, its own included
    done,         \* contexts that are done
    calls,        \* calls made, for the bound
    report,       \* report[p]: the goroutine of reportIfUnobserved
    stopped       \* history: promises cancelled while their task was at work

vars == <<kind, cancellable, signallable, outcome, awaited, canceling, task, op,
          parent, within, done, calls, report, stopped>>

\* Values are told apart by their truth only: "none" stands for None and False.
Values   == {"true", "none"}
Outcomes == Values \cup {"pending", "error"}

Settled(p) == outcome[p] # "pending"
Made       == {p \in Promises : kind[p] # "none"}
Tasks      == {p \in Promises : kind[p] \in {"go", "poll"}}

\* The blocking builtins: the promises any one of which lets the builtin go on, the
\* arguments of the call, and those of them join() has still to await.
NoOp == [name |-> "none", on |-> {}, args |-> {}, rest |-> {}]
Builtins == {"join", "select", "any_true"}

AtWork(t) == task[t] = "running" /\ op[t] = NoOp

\* A thread calls a builtin.
Calls(t) == AtWork(t) /\ calls < MaxCalls /\ calls' = calls + 1

Init ==
    /\ kind = [p \in Promises |-> "none"]
    /\ cancellable = {} /\ signallable = {}
    /\ outcome = [p \in Promises |-> "pending"]
    /\ awaited = {} /\ canceling = {} /\ stopped = {}
    /\ task = [t \in Threads |-> IF t = Root THEN "running" ELSE "none"]
    /\ op = [t \in Threads |-> NoOp]
    /\ parent = [p \in Promises |-> Root]
    /\ within = [t \in Threads |-> {t}]
    /\ done = {} /\ calls = 0
    /\ report = [p \in Promises |-> "none"]

-----------------------------------------------------------------------------
\* Settling and cancelling.

\* Mutant of SettleAll: the last settle wins.
SettleAllAgain(S, v) == [p \in Promises |-> IF p \in S THEN v ELSE outcome[p]]

\* settle(): the first one wins.
SettleAll(S, v) == [p \in Promises |-> IF p \in S /\ ~Settled(p) THEN v ELSE outcome[p]]
Settle(p, v) == SettleAll({p}, v)

\* Cancelling contexts ends the ones within them too.
Ended(S) == done \cup {t \in Threads : within[t] \cap S # {}}

\* doCancel() of every promise of S: a task is left to unwind, a bare promise
\* settles.
CancelAll(S) ==
    /\ canceling' = canceling \cup S
    /\ stopped' = stopped \cup {p \in S : ~Settled(p) /\ task[p] = "running"}
    /\ outcome' = SettleAll(S \ Tasks, "none")
    /\ done' = Ended(S \cap Tasks)

-----------------------------------------------------------------------------
\* Builtins that do not block, called from thread t.

\* Mutant of TaskContext: the task runs in a context.Background().
TaskContextOfItsOwn(t, p) ==
    /\ parent' = [parent EXCEPT ![p] = t]
    /\ task' = [task EXCEPT ![p] = "running"]
    /\ UNCHANGED <<within, done>>

\* spawnFunc(): the task runs in a context inside the caller's.
TaskContext(t, p) ==
    /\ parent' = [parent EXCEPT ![p] = t]
    /\ within' = [within EXCEPT ![p] = within[t] \cup {p}]
    /\ done' = IF t \in done THEN done \cup {p} ELSE done
    /\ task' = [task EXCEPT ![p] = "running"]

\* go(), poll() and promise().
Make(t, p) ==
    /\ AtWork(t) /\ kind[p] = "none"
    /\ \E s \in Shapes[p] :
          /\ kind' = [kind EXCEPT ![p] = s.kind]
          /\ cancellable' = IF s.cancellable THEN cancellable \cup {p} ELSE cancellable
          /\ signallable' = IF s.signallable THEN signallable \cup {p} ELSE signallable
          /\ \/ s.kind # "bare" /\ TaskContext(t, p)
             \/ s.kind = "bare" /\ UNCHANGED <<parent, within, done, task>>
    /\ UNCHANGED <<outcome, awaited, canceling, op, report, stopped, calls>>

Cancel(t, p) ==
    /\ Calls(t) /\ p \in cancellable
    /\ CancelAll({p})
    /\ UNCHANGED <<kind, cancellable, signallable, awaited, task, op, parent, within, report>>

\* doSignal() and doReject(): settle, then stop the task if there is one.
Deliver(t, p, v) ==
    /\ Calls(t) /\ p \in signallable
    /\ outcome' = Settle(p, v)
    /\ done' = Ended({p} \cap Tasks)
    /\ UNCHANGED <<kind, cancellable, signallable, awaited, canceling, task, op,
                   parent, within, report, stopped>>

Signal(t, p) == \E v \in Values : Deliver(t, p, v)
Reject(t, p) == Deliver(t, p, "error")

-----------------------------------------------------------------------------
\* Blocking builtins.

\* await() marks the promise before it blocks; select() and any_true() mark all.
Block(t, name, on, args) ==
    /\ Calls(t)
    /\ op' = [op EXCEPT ![t] = [name |-> name, on |-> on, args |-> args, rest |-> args \ on]]
    /\ awaited' = awaited \cup on
    /\ UNCHANGED <<kind, cancellable, signallable, outcome, canceling, task, parent,
                   within, done, report, stopped>>

\* join() awaits its arguments one by one in the order of the call: any order.
Join(t)    == \E S \in SUBSET Made : \E p \in S : Block(t, "join", {p}, S)
Select(t)  == \E S \in (SUBSET Made) \ {{}} : Block(t, "select", S, S)
AnyTrue(t) == \E S \in (SUBSET Made) \ {{}} : Block(t, "any_true", S, S)

\* The builtin returns; or it raises, which ends the task.
Returns(t) == op' = [op EXCEPT ![t] = NoOp] /\ UNCHANGED task
Raises(t)  == op' = [op EXCEPT ![t] = NoOp] /\ task' = [task EXCEPT ![t] = "failed"]

\* join() has its next value, or a rejection.
JoinStep(t) ==
    /\ op[t].name = "join"
    /\ \E p \in op[t].on :
          \/ outcome[p] = "error" /\ Raises(t) /\ UNCHANGED awaited
          \/ outcome[p] \in Values /\ op[t].rest = {} /\ Returns(t) /\ UNCHANGED awaited
          \/ /\ outcome[p] \in Values
             /\ \E q \in op[t].rest :
                   /\ op' = [op EXCEPT ![t].on = {q}, ![t].rest = op[t].rest \ {q}]
                   /\ awaited' = awaited \cup {q}
             /\ UNCHANGED task
    /\ UNCHANGED <<kind, cancellable, signallable, outcome, canceling, parent, within,
                   done, report, stopped, calls>>

SelectStep(t) ==
    /\ op[t].name = "select" /\ \E p \in op[t].on : Settled(p)
    /\ Returns(t)
    /\ UNCHANGED <<kind, cancellable, signallable, outcome, awaited, canceling, parent,
                   within, done, report, stopped, calls>>

\* Mutant of Remaining: the race ends with the first promise that settles.
RemainingNone(t, p) == {}

\* any_true() drops a promise that settled falsy.
Remaining(t, p) == op[t].on \ {p}

\* Mutant of RacesOn: the loop does not look whether anybody is left in the race.
RacesAlone(t, p) == op' = [op EXCEPT ![t].on = Remaining(t, p)]

\* any_true() waits for the ones that are left; it is False when there are none.
RacesOn(t, p) ==
    op' = [op EXCEPT ![t] = IF Remaining(t, p) = {} THEN NoOp
                            ELSE [op[t] EXCEPT !.on = Remaining(t, p)]]

\* any_true() has a settled promise: truthy or rejected, it is decided and the
\* others are cancelled. It reads the outcome through await(), which may prefer
\* a context that is done by now.
AnyTrueStep(t) ==
    /\ op[t].name = "any_true"
    /\ \E p \in op[t].on :
          /\ Settled(p)
          /\ \/ /\ outcome[p] = "error" \/ t \in done
                /\ CancelAll(op[t].args \cap cancellable) /\ Raises(t)
             \/ /\ outcome[p] = "true"
                /\ CancelAll(op[t].args \cap cancellable) /\ Returns(t)
             \/ /\ outcome[p] = "none" /\ RacesOn(t, p)
                /\ UNCHANGED <<task, outcome, canceling, stopped, done>>
    /\ UNCHANGED <<kind, cancellable, signallable, awaited, parent, within, report, calls>>

\* Mutant of CallerDone: join() does not look at the context.
CallerDoneUnlessJoin(t) ==
    /\ op[t].name \in {"select", "any_true"} /\ t \in done
    /\ Raises(t)
    /\ UNCHANGED <<kind, cancellable, signallable, outcome, awaited, canceling, parent,
                   within, done, report, stopped, calls>>

\* The caller's context ends first; nothing is cancelled.
CallerDone(t) ==
    /\ op[t].name # "none" /\ t \in done
    /\ Raises(t)
    /\ UNCHANGED <<kind, cancellable, signallable, outcome, awaited, canceling, parent,
                   within, done, report, stopped, calls>>

-----------------------------------------------------------------------------
\* The end of a task.

\* A task's function, or a poll's check, returns v. A poll settles when the check
\* is truthy or the deadline has passed, and sleeps otherwise.
Return(p, v) ==
    /\ AtWork(p)
    /\ \/ outcome' = Settle(p, v) /\ task' = [task EXCEPT ![p] = "leaving"]
       \/ /\ kind[p] = "poll" /\ v = "none"
          /\ task' = [task EXCEPT ![p] = "asleep"] /\ UNCHANGED outcome
    /\ UNCHANGED <<kind, cancellable, signallable, awaited, canceling, op, parent,
                   within, done, report, stopped, calls>>

\* waitLoop(): the interval passes, or the context ends.
Wake(p, to) ==
    /\ task[p] = "asleep"
    /\ to = "running" \/ p \in done
    /\ task' = [task EXCEPT ![p] = to]
    /\ UNCHANGED <<kind, cancellable, signallable, outcome, awaited, canceling, op,
                   parent, within, done, report, stopped, calls>>

\* The function fails by itself.
Fail(t) ==
    /\ AtWork(t)
    /\ task' = [task EXCEPT ![t] = "failed"]
    /\ UNCHANGED <<kind, cancellable, signallable, outcome, awaited, canceling, op,
                   parent, within, done, report, stopped, calls>>

\* The watchdog of invokeValue() cancels the interpreter.
Interrupt(t) == t \in done /\ Fail(t)

\* main() returns its promise; what the harness does then is in Harness.
MainReturns ==
    /\ AtWork(Root)
    /\ task' = [task EXCEPT ![Root] = "ended"]
    /\ UNCHANGED <<kind, cancellable, signallable, outcome, awaited, canceling, op,
                   parent, within, done, report, stopped, calls>>

\* Mutant of Judge: an error is an error, cancelled or not.
JudgeAnyway(p) ==
    /\ task[p] = "failed"
    /\ task' = [task EXCEPT ![p] = "rejecting"]
    /\ UNCHANGED <<kind, cancellable, signallable, outcome, awaited, canceling, op,
                   parent, within, done, report, stopped, calls>>

\* spawnFunc(): the error of a cancelled task is no error.
Judge(p) ==
    /\ task[p] = "failed"
    /\ \/ /\ p \in canceling
          /\ outcome' = Settle(p, "none") /\ task' = [task EXCEPT ![p] = "leaving"]
       \/ /\ p \notin canceling
          /\ task' = [task EXCEPT ![p] = "rejecting"] /\ UNCHANGED outcome
    /\ UNCHANGED <<kind, cancellable, signallable, awaited, canceling, op, parent,
                   within, done, report, stopped, calls>>

\* Mutant of Rejects: the failure of a task somebody else settled, or that only
\* looks handled, is not followed up.
RejectsSilently(p) ==
    /\ task[p] = "rejecting"
    /\ outcome' = Settle(p, "error") /\ task' = [task EXCEPT ![p] = "leaving"]
    /\ UNCHANGED <<kind, cancellable, signallable, awaited, canceling, op, parent,
                   within, done, report, stopped, calls>>

\* The task's own rejection, and the goroutine that follows it up.
Rejects(p) ==
    /\ task[p] = "rejecting"
    /\ outcome' = Settle(p, "error") /\ task' = [task EXCEPT ![p] = "leaving"]
    /\ report' = [report EXCEPT ![p] = "waiting"]
    /\ UNCHANGED <<kind, cancellable, signallable, awaited, canceling, op, parent,
                   within, done, stopped, calls>>

\* The deferred cancel() ends what the task started.
Leave(p) ==
    /\ task[p] = "leaving"
    /\ task' = [task EXCEPT ![p] = "ended"]
    /\ done' = Ended({p})
    /\ UNCHANGED <<kind, cancellable, signallable, outcome, awaited, canceling, op,
                   parent, within, report, stopped, calls>>

\* reportIfUnobserved() after the grace: nobody looked and nothing is stopping.
Report(p) ==
    /\ report[p] = "waiting"
    /\ report' = [report EXCEPT ![p] =
                     IF p \in awaited \/ parent[p] \in done THEN "quiet" ELSE "logged"]
    /\ UNCHANGED <<kind, cancellable, signallable, outcome, awaited, canceling, task, op,
                   parent, within, done, stopped, calls>>

\* The harness cancels the context of main().
Shutdown ==
    /\ Root \notin done
    /\ done' = Ended({Root})
    /\ UNCHANGED <<kind, cancellable, signallable, outcome, awaited, canceling, task, op,
                   parent, within, report, stopped, calls>>

Next ==
    \/ \E t \in Threads :
          \/ \E p \in Promises : Make(t, p) \/ Cancel(t, p) \/ Signal(t, p) \/ Reject(t, p)
          \/ Join(t) \/ Select(t) \/ AnyTrue(t)
          \/ JoinStep(t) \/ SelectStep(t) \/ AnyTrueStep(t) \/ CallerDone(t)
          \/ Fail(t)
    \/ \E p \in Promises :
          \/ \E v \in Values : Return(p, v)
          \/ Wake(p, "running") \/ Wake(p, "failed")
          \/ Judge(p) \/ Rejects(p) \/ Leave(p) \/ Report(p)
    \/ MainReturns \/ Shutdown

Spec == Init /\ [][Next]_vars

\* What the Go runtime sees to: once its context is done an interpreter is
\* cancelled for good and fails as soon as it runs, a select does not pass a done
\* context over for ever, the goroutines of a task run to their end and timers
\* fire. A script owes nothing.
FairSpec ==
    /\ Spec
    /\ \A t \in Threads : SF_vars(Interrupt(t)) /\ WF_vars(CallerDone(t))
    /\ \A p \in Promises :
          /\ WF_vars(Wake(p, "running")) /\ SF_vars(Wake(p, "failed"))
          /\ WF_vars(Judge(p)) /\ WF_vars(Rejects(p))
          /\ WF_vars(Leave(p)) /\ WF_vars(Report(p))

-----------------------------------------------------------------------------
\* Type invariant of the promises, the threads and the builtins they are in.
TypeOK ==
    /\ kind \in [Promises -> {"none", "bare", "go", "poll"}]
    /\ outcome \in [Promises -> Outcomes]
    /\ \A S \in {cancellable, signallable, awaited, canceling, stopped} : S \subseteq Promises
    /\ task \in [Threads -> {"none", "running", "asleep", "failed", "rejecting",
                             "leaving", "ended"}]
    /\ op \in [Threads -> [name : Builtins \cup {"none"}, on : SUBSET Promises,
                           args : SUBSET Promises, rest : SUBSET Promises]]
    /\ \A t \in Threads : op[t].name \in Builtins => op[t].on # {} /\ task[t] = "running"
    /\ parent \in [Promises -> Threads]
    /\ within \in [Threads -> SUBSET Threads]
    /\ done \subseteq Threads /\ calls \in 0..MaxCalls
    /\ report \in [Promises -> {"none", "waiting", "quiet", "logged"}]

\* doCancel() and spawnFunc(): a task that was cancelled at work neither raises in
\* the join() of others nor is reported as lost, whatever it does until it ends,
\* unless somebody may call reject() on it.
CancelIsQuiet ==
    \A p \in stopped \ signallable : outcome[p] # "error" /\ report[p] = "none"

\* async.go: join() awaits its arguments one after the other, and when it returns at
\* last none of them is rejected, not even one that was awaited long before and that
\* somebody has rejected or cancelled since; it raises only for a rejected argument or
\* because the caller is being stopped.
JoinIsHonest ==
    [][\A t \in Threads :
         op[t].name = "join" /\ op'[t].name = "none" =>
            \/ task'[t] = "running" /\ \A p \in op[t].args : outcome[p] \in Values
            \/ task'[t] = "failed" /\ \E p \in op[t].args : outcome[p] = "error"
            \/ task'[t] = "failed" /\ t \in done]_vars

\* async.go: any_true() is True only after a truthy promise and False only after
\* all were falsy; and when it is decided, every argument that can be is cancelled.
AnyTrueDecides ==
    [][\A t \in Threads :
         op[t].name = "any_true" /\ op'[t].name = "none" =>
            \/ \A p \in op[t].args : outcome[p] = "none"
            \/ /\ \E p \in op[t].args : outcome[p] \in {"true", "error"}
               /\ op[t].args \cap cancellable \subseteq canceling'
            \/ t \in done]_vars

\* reportIfUnobserved(): the failure of a task that main() started is heard of:
\* something looks at its promise, or it is reported, or the process is shutting down.
FailureIsHeard ==
    \A p \in Promises :
       (task[p] = "rejecting" /\ parent[p] = Root)
          ~> (p \in awaited \/ report[p] = "logged" \/ Root \in done)

\* The same of a task that fails by itself wherever it was started, as README.md and the
\* comment in reportIfUnobserved() have it: only the shutdown of the process keeps a
\* failure quiet.
FailureIsHeardAnywhere ==
    \A p \in Promises :
       (task[p] = "rejecting" /\ p \notin done)
          ~> (p \in awaited \/ report[p] = "logged" \/ Root \in done)

\* A task whose context is done comes to its end, however its promise was settled
\* and whatever it was waiting for.
DoneLeadsToEnd == \A p \in Promises : (p \in Tasks /\ p \in done) ~> (task[p] = "ended")

\* spawnFunc(): a task leaves nothing behind. Once the task that started it has ended, a
\* task comes to its end too, though nobody cancels it and its function would never
\* return.
NothingOutlives ==
    \A p \in Promises :
       (p \in Tasks /\ parent[p] # Root /\ task[parent[p]] = "ended") ~> (task[p] = "ended")

=============================================================================
