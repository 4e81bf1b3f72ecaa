---------------------------- MODULE PromiseProofs ----------------------------
(***************************************************************************)
(* Safety of promises and tasks (promise.go, async.go, starlark_engine.go) *)
(* for any number of promises of any shape, nested to any depth, and any   *)
(* number of calls: a cancelled task is quiet, and what join() and         *)
(* any_true() come back with is what their arguments settled with.         *)
(***************************************************************************)
EXTENDS Promise, TLAPS

\* spawnFunc(): only go() and poll() start a task, and only a task that is through
\* with its function is followed up.
TaskInv ==
    /\ \A p \in Promises \ Tasks : task[p] = "none"
    /\ \A p \in Promises : report[p] # "none" => task[p] \in {"leaving", "ended"}

\* doCancel() before the error of the task is judged: Judge finds it cancelled.
QuietInv == \A p \in stopped : p \in canceling /\ task[p] # "rejecting"

\* A context is around all that is within a context within it, and one that no task
\* runs in is around nothing.
NestInv ==
    /\ \A t \in Threads : t \in within[t]
    /\ \A t \in Threads : \A u \in within[t] : within[u] \subseteq within[t]
    /\ \A p \in Promises \ Tasks : \A t \in Threads \ {p} : p \notin within[t]

\* spawnFunc(): a context that is done has none alive within it, so that a task
\* leaves nothing behind that it started, at any depth.
ContextsNest ==
    /\ \A t \in Threads, u \in Threads : u \in within[t] /\ u \in done => t \in done
    /\ \A p \in Tasks : parent[p] \in within[p] /\ within[parent[p]] \subseteq within[p]
    /\ \A p \in Promises : task[p] = "ended" => p \in done

\* any_true(): what was dropped from the race was falsy.
RaceInv ==
    \A t \in Threads : op[t].name = "any_true" =>
        /\ op[t].on \subseteq op[t].args
        /\ \A p \in op[t].args \ op[t].on : outcome[p] = "none"

\* join(): it awaits one argument, and what it has awaited before was no rejection.
JoinInv ==
    \A t \in Threads : op[t].name = "join" =>
        /\ op[t].on \subseteq op[t].args /\ op[t].rest \subseteq op[t].args
        /\ \A p, q \in op[t].on : p = q
        /\ \A p \in op[t].args \ (op[t].on \cup op[t].rest) : outcome[p] \in Values

PromiseInv ==
    /\ TypeOK /\ TaskInv /\ QuietInv /\ CancelIsQuiet
    /\ NestInv /\ ContextsNest /\ RaceInv /\ JoinInv

\* How the blocking builtins start to wait: join() for one argument, the others for all.
Begins(name, on, args) ==
    /\ on # {} /\ on \subseteq args
    /\ name = "any_true" => args = on
    /\ name = "join" => \A p, q \in on : p = q

-----------------------------------------------------------------------------
\* The steps, and what they do to outcomes and contexts.

\* A step of a script, of a goroutine or of the harness; the blocking builtins all
\* start with Block().
LEMMA NextCases ==
    ASSUME [Next]_vars
    PROVE  \/ \E t \in Threads, p \in Promises :
                 Make(t, p) \/ Cancel(t, p) \/ \E v \in Values \cup {"error"} : Deliver(t, p, v)
           \/ \E t \in Threads, name \in Builtins, on \in SUBSET Made, args \in SUBSET Made :
                 Begins(name, on, args) /\ Block(t, name, on, args)
           \/ \E t \in Threads :
                 JoinStep(t) \/ SelectStep(t) \/ AnyTrueStep(t) \/ CallerDone(t) \/ Fail(t)
           \/ \E p \in Promises :
                 \/ \E v \in Values : Return(p, v)
                 \/ \E to \in {"running", "failed"} : Wake(p, to)
                 \/ Judge(p) \/ Rejects(p) \/ Leave(p) \/ Report(p)
           \/ MainReturns \/ Shutdown \/ UNCHANGED vars
<1> DEFINE Blocks ==
           \E t \in Threads, name \in Builtins, on \in SUBSET Made, args \in SUBSET Made :
              Begins(name, on, args) /\ Block(t, name, on, args)
<1>1. ASSUME NEW t \in Threads, Join(t) PROVE Blocks
  <2>0. PICK S \in SUBSET Made : \E p \in S : Block(t, "join", {p}, S)
      BY <1>1 DEF Join
  <2>1. PICK p \in S : Block(t, "join", {p}, S)
      BY <2>0
  <2>2. {p} \in SUBSET Made /\ S \in SUBSET Made /\ "join" \in Builtins
      BY <2>1 DEF Builtins
  <2>3. Begins("join", {p}, S)
      BY DEF Begins
  <2> QED BY <2>1, <2>2, <2>3
<1>2. ASSUME NEW t \in Threads, Select(t) PROVE Blocks
  <2>1. PICK S \in (SUBSET Made) \ {{}} : Block(t, "select", S, S)
      BY <1>2 DEF Select
  <2>2. S \in SUBSET Made /\ S # {} /\ "select" \in Builtins
      BY <2>1 DEF Builtins
  <2>3. Begins("select", S, S)
      BY <2>2 DEF Begins
  <2> QED BY <2>1, <2>2, <2>3
<1>3. ASSUME NEW t \in Threads, AnyTrue(t) PROVE Blocks
  <2>1. PICK S \in (SUBSET Made) \ {{}} : Block(t, "any_true", S, S)
      BY <1>3 DEF AnyTrue
  <2>2. S \in SUBSET Made /\ S # {} /\ "any_true" \in Builtins
      BY <2>1 DEF Builtins
  <2>3. Begins("any_true", S, S)
      BY <2>2 DEF Begins
  <2> QED BY <2>1, <2>2, <2>3
<1> HIDE DEF Blocks
<1>4. ASSUME NEW t \in Threads, NEW p \in Promises, Signal(t, p) \/ Reject(t, p)
      PROVE  \E v \in Values \cup {"error"} : Deliver(t, p, v)
    BY <1>4 DEF Signal, Reject
<1>5. CASE Next
  <2>1. CASE \E t \in Threads : Join(t) \/ Select(t) \/ AnyTrue(t)
    <3>1. Blocks
        BY <1>1, <1>2, <1>3, <2>1
    <3> QED BY <3>1 DEF Blocks
  <2>2. CASE \E t \in Threads, p \in Promises : Signal(t, p) \/ Reject(t, p)
      BY <1>4, <2>2
  <2>3. CASE \E p \in Promises : Wake(p, "running") \/ Wake(p, "failed")
      BY <2>3
  <2> QED BY <1>5, <2>1, <2>2, <2>3 DEF Next
<1> QED BY <1>5

\* settle(): what is settled stays, and the rest becomes v or stays pending.
LEMMA SettleAllType ==
    ASSUME outcome \in [Promises -> Outcomes], NEW S, NEW v \in Values \cup {"error"}
    PROVE  /\ SettleAll(S, v) \in [Promises -> Outcomes]
           /\ \A p \in Promises : Settled(p) => SettleAll(S, v)[p] = outcome[p]
           /\ \A p \in Promises : SettleAll(S, v)[p] \in {outcome[p], v}
           /\ \A p \in Promises \ S : SettleAll(S, v)[p] = outcome[p]
  BY DEF SettleAll, Outcomes, Settled

\* Cancelling contexts ends contexts only, and never brings one back.
LEMMA EndedType ==
    ASSUME done \subseteq Threads, NEW S
    PROVE  Ended(S) \subseteq Threads /\ done \subseteq Ended(S)
  BY DEF Ended

-----------------------------------------------------------------------------
\* Types.

\* A thread that is in no builtin waits for nothing.
LEMMA NoOpType ==
    /\ NoOp \in [name : Builtins \cup {"none"}, on : SUBSET Promises, args : SUBSET Promises, rest : SUBSET Promises]
    /\ NoOp.name = "none" /\ NoOp.name \notin Builtins
  BY DEF NoOp, Builtins

\* A builtin that returns or raises leaves its thread in none.
LEMMA OpEnds ==
    ASSUME TypeOK, NEW t \in Threads, Raises(t) \/ Returns(t)
    PROVE  /\ op' \in [Threads -> [name : Builtins \cup {"none"}, on : SUBSET Promises,
                                   args : SUBSET Promises, rest : SUBSET Promises]]
           /\ task' \in [Threads -> {"none", "running", "asleep", "failed", "rejecting",
                                     "leaving", "ended"}]
           /\ \A u \in Threads : op'[u].name \in Builtins => op'[u].on # {} /\ task'[u] = "running"
<1>1. /\ op \in [Threads -> [name : Builtins \cup {"none"}, on : SUBSET Promises,
                              args : SUBSET Promises, rest : SUBSET Promises]]
      /\ task \in [Threads -> {"none", "running", "asleep", "failed", "rejecting",
                                "leaving", "ended"}]
      /\ \A u \in Threads : op[u].name \in Builtins => op[u].on # {} /\ task[u] = "running"
    BY DEF TypeOK
<1>2. /\ op' = [op EXCEPT ![t] = NoOp]
      /\ task' = task \/ task' = [task EXCEPT ![t] = "failed"]
    BY DEF Raises, Returns
<1>3. op'[t].name \notin Builtins /\ \A u \in Threads \ {t} : op'[u] = op[u] /\ task'[u] = task[u]
    BY <1>1, <1>2, NoOpType
<1> QED BY <1>1, <1>2, <1>3, NoOpType

\* A builtin that waits on for promises on, with rest still to come.
LEMMA OpGoesOn ==
    ASSUME NEW o \in [name : Builtins \cup {"none"}, on : SUBSET Promises,
                      args : SUBSET Promises, rest : SUBSET Promises],
           NEW on \in SUBSET Promises, NEW rest \in SUBSET Promises
    PROVE  /\ [o EXCEPT !.on = on, !.rest = rest] \in
                  [name : Builtins \cup {"none"}, on : SUBSET Promises,
                   args : SUBSET Promises, rest : SUBSET Promises]
           /\ [o EXCEPT !.on = on, !.rest = rest].name = o.name
           /\ [o EXCEPT !.on = on, !.rest = rest].on = on
  OBVIOUS

LEMMA TypeInit == Init => TypeOK
<1> SUFFICES ASSUME Init PROVE TypeOK
    OBVIOUS
<1>1. Root \in Threads /\ Promises \subseteq Threads /\ "pending" \in Outcomes
    BY DEF Threads, Outcomes
<1> QED BY <1>1, NoOpType, CallsAssumption DEF Init, TypeOK

\* Every step keeps the variables in their types, and a thread in a blocking builtin
\* is at work and has something to wait for.
LEMMA TypeStep == TypeOK /\ [Next]_vars => TypeOK'
<1> SUFFICES ASSUME TypeOK, [Next]_vars PROVE TypeOK'
    OBVIOUS
<1> DEFINE TaskStates == {"none", "running", "asleep", "failed", "rejecting", "leaving", "ended"}
           Op == [name : Builtins \cup {"none"}, on : SUBSET Promises, args : SUBSET Promises, rest : SUBSET Promises]
<1> USE CallsAssumption DEF TypeOK, Threads
<1>1. ASSUME NEW t \in Threads, NEW p \in Promises, Make(t, p) PROVE TypeOK'
  <2>1. PICK s \in Shapes[p] :
          /\ kind' = [kind EXCEPT ![p] = s.kind]
          /\ cancellable' = IF s.cancellable THEN cancellable \cup {p} ELSE cancellable
          /\ signallable' = IF s.signallable THEN signallable \cup {p} ELSE signallable
          /\ \/ s.kind # "bare" /\ TaskContext(t, p)
             \/ s.kind = "bare" /\ UNCHANGED <<parent, within, done, task>>
      BY <1>1 DEF Make
  <2>2. s.kind \in {"bare", "go", "poll"}
    <3>1. s \in Shape
        BY <2>1, ShapesAssumption
    <3> QED BY <3>1 DEF Shape
  <2>3. kind' \in [Promises -> {"none", "bare", "go", "poll"}]
      BY <2>1, <2>2
  <2>4. /\ parent' \in [Promises -> Threads] /\ within' \in [Threads -> SUBSET Threads]
        /\ done' \subseteq Threads /\ task' \in [Threads -> TaskStates]
        /\ \A u \in Threads : task[u] = "running" => task'[u] = "running"
    <3>1. CASE TaskContext(t, p)
      <4>1. within[t] \cup {p} \in SUBSET Threads /\ p \in Threads
          OBVIOUS
      <4> QED BY <3>1, <4>1 DEF TaskContext
    <3>2. CASE UNCHANGED <<parent, within, done, task>>
        BY <3>2
    <3> QED BY <2>1, <3>1, <3>2
  <2> QED BY <1>1, <2>1, <2>3, <2>4 DEF Make
<1>2. ASSUME NEW t \in Threads, NEW p \in Promises, Cancel(t, p) PROVE TypeOK'
    BY <1>2, SettleAllType, EndedType DEF Cancel, Calls, CancelAll, Values
<1>3. ASSUME NEW t \in Threads, NEW p \in Promises, NEW v \in Values \cup {"error"}, Deliver(t, p, v)
      PROVE  TypeOK'
    BY <1>3, SettleAllType, EndedType DEF Deliver, Calls, Settle
<1>4. ASSUME NEW t \in Threads, NEW name \in Builtins, NEW on \in SUBSET Made, NEW args \in SUBSET Made,
              Begins(name, on, args), Block(t, name, on, args)
      PROVE  TypeOK'
  <2>1. [name |-> name, on |-> on, args |-> args, rest |-> args \ on] \in Op
      BY <1>4 DEF Made
  <2>2. task[t] = "running" /\ calls + 1 \in 0..MaxCalls
      BY <1>4, CallsAssumption DEF Block, Calls, AtWork
  <2>3. op' \in [Threads -> Op]
      BY <1>4, <2>1 DEF Block
  <2>4. \A u \in Threads : op'[u].name \in Builtins => op'[u].on # {} /\ task'[u] = "running"
      BY <1>4, <2>2 DEF Block, Begins
  <2>5. calls' \in 0..MaxCalls /\ awaited' \subseteq Promises
      BY <1>4, <2>2 DEF Block, Calls, Made
  <2> HIDE DEF Op
  <2> QED BY <1>4, <2>3, <2>4, <2>5 DEF Block, Op
<1>5. ASSUME NEW t \in Threads, JoinStep(t) PROVE TypeOK'
  <2>1. PICK p \in op[t].on :
          \/ outcome[p] = "error" /\ Raises(t) /\ UNCHANGED awaited
          \/ outcome[p] \in Values /\ op[t].rest = {} /\ Returns(t) /\ UNCHANGED awaited
          \/ /\ outcome[p] \in Values
             /\ \E q \in op[t].rest :
                   /\ op' = [op EXCEPT ![t].on = {q}, ![t].rest = op[t].rest \ {q}]
                   /\ awaited' = awaited \cup {q}
             /\ UNCHANGED task
      BY <1>5 DEF JoinStep
  <2>2. UNCHANGED <<kind, cancellable, signallable, outcome, canceling, parent, within,
                    done, report, stopped, calls>>
      BY <1>5 DEF JoinStep
  <2>3. CASE (Raises(t) \/ Returns(t)) /\ UNCHANGED awaited
    <3>1. /\ op' \in [Threads -> Op] /\ task' \in [Threads -> TaskStates]
          /\ \A u \in Threads : op'[u].name \in Builtins => op'[u].on # {} /\ task'[u] = "running"
        BY <2>3, OpEnds
    <3> QED BY <2>2, <2>3, <3>1
  <2>4. ASSUME NEW q \in op[t].rest,
               op' = [op EXCEPT ![t].on = {q}, ![t].rest = op[t].rest \ {q}],
               awaited' = awaited \cup {q}, UNCHANGED task
        PROVE  TypeOK'
    <3>1. op[t] \in Op /\ q \in Promises
        OBVIOUS
    <3>2. op' = [op EXCEPT ![t] = [op[t] EXCEPT !.on = {q}, !.rest = op[t].rest \ {q}]]
        BY <2>4
    <3>3. /\ [op[t] EXCEPT !.on = {q}, !.rest = op[t].rest \ {q}] \in Op
          /\ [op[t] EXCEPT !.on = {q}, !.rest = op[t].rest \ {q}].name = op[t].name
          /\ [op[t] EXCEPT !.on = {q}, !.rest = op[t].rest \ {q}].on = {q}
        BY <3>1, OpGoesOn
    <3>4. op' \in [Threads -> Op]
        BY <3>2, <3>3
    <3>5. \A u \in Threads : op'[u].name \in Builtins => op'[u].on # {} /\ task'[u] = "running"
        BY <1>5, <2>4, <3>2, <3>3 DEF JoinStep, Builtins
    <3> QED BY <2>2, <2>4, <3>1, <3>4, <3>5
  <2> QED BY <2>1, <2>3, <2>4
<1>6. ASSUME NEW t \in Threads, SelectStep(t) PROVE TypeOK'
    BY <1>6, NoOpType DEF SelectStep, Returns
<1>7. ASSUME NEW t \in Threads, AnyTrueStep(t) PROVE TypeOK'
  <2>1. PICK p \in op[t].on :
          \/ CancelAll(op[t].args \cap cancellable) /\ (Raises(t) \/ Returns(t))
          \/ /\ op' = [op EXCEPT ![t] = IF Remaining(t, p) = {} THEN NoOp
                                        ELSE [op[t] EXCEPT !.on = Remaining(t, p)]]
             /\ UNCHANGED <<task, outcome, canceling, stopped, done>>
      BY <1>7 DEF AnyTrueStep, RacesOn
  <2>2. UNCHANGED <<kind, cancellable, signallable, awaited, parent, within, report, calls>>
      BY <1>7 DEF AnyTrueStep
  <2>3. CASE CancelAll(op[t].args \cap cancellable) /\ (Raises(t) \/ Returns(t))
    <3>1. /\ op' \in [Threads -> Op] /\ task' \in [Threads -> TaskStates]
          /\ \A u \in Threads : op'[u].name \in Builtins => op'[u].on # {} /\ task'[u] = "running"
        BY <2>3, OpEnds
    <3>2. /\ outcome' \in [Promises -> Outcomes] /\ done' \subseteq Threads
          /\ canceling' \subseteq Promises /\ stopped' \subseteq Promises
        BY <2>3, SettleAllType, EndedType DEF CancelAll, Values
    <3> QED BY <2>2, <3>1, <3>2
  <2>4. CASE /\ op' = [op EXCEPT ![t] = IF Remaining(t, p) = {} THEN NoOp
                                        ELSE [op[t] EXCEPT !.on = Remaining(t, p)]]
             /\ UNCHANGED <<task, outcome, canceling, stopped, done>>
    <3>1. op[t] \in Op /\ Remaining(t, p) \subseteq Promises
        BY DEF Remaining
    <3>2. /\ [op[t] EXCEPT !.on = Remaining(t, p)] \in Op
          /\ [op[t] EXCEPT !.on = Remaining(t, p)].name = op[t].name
          /\ [op[t] EXCEPT !.on = Remaining(t, p)].on = Remaining(t, p)
        BY <3>1
    <3>3. op' \in [Threads -> Op]
        BY <2>4, <3>2, NoOpType
    <3>4. \A u \in Threads : op'[u].name \in Builtins => op'[u].on # {} /\ task'[u] = "running"
        BY <2>4, <3>2, NoOpType
    <3> QED BY <2>2, <2>4, <3>3, <3>4
  <2> QED BY <2>1, <2>3, <2>4
<1>8. ASSUME NEW t \in Threads, CallerDone(t) PROVE TypeOK'
  <2>1. /\ op' \in [Threads -> Op] /\ task' \in [Threads -> TaskStates]
        /\ \A u \in Threads : op'[u].name \in Builtins => op'[u].on # {} /\ task'[u] = "running"
      BY <1>8, OpEnds DEF CallerDone
  <2> QED BY <1>8, <2>1 DEF CallerDone
<1>9. ASSUME NEW t \in Threads, Fail(t) PROVE TypeOK'
    BY <1>9, NoOpType DEF Fail, AtWork
<1>10. ASSUME NEW p \in Promises, NEW v \in Values, Return(p, v) PROVE TypeOK'
    BY <1>10, NoOpType, SettleAllType DEF Return, AtWork, Settle
<1>11. ASSUME NEW p \in Promises, NEW to \in {"running", "failed"}, Wake(p, to)
      PROVE  TypeOK'
    BY <1>11 DEF Wake
<1>12. ASSUME NEW p \in Promises, Judge(p) PROVE TypeOK'
  <2>1. outcome' \in [Promises -> Outcomes]
      BY <1>12, SettleAllType DEF Judge, Settle, Values
  <2>2. task' \in [Threads -> TaskStates] /\ op' = op
      BY <1>12 DEF Judge
  <2>3. \A u \in Threads : op'[u].name \in Builtins => op'[u].on # {} /\ task'[u] = "running"
      BY <1>12 DEF Judge
  <2> QED BY <1>12, <2>1, <2>2, <2>3 DEF Judge
<1>13. ASSUME NEW p \in Promises, Rejects(p) PROVE TypeOK'
    BY <1>13, SettleAllType DEF Rejects, Settle, Values
<1>14. ASSUME NEW p \in Promises, Leave(p) PROVE TypeOK'
    BY <1>14, EndedType DEF Leave
<1>15. ASSUME NEW p \in Promises, Report(p) PROVE TypeOK'
    BY <1>15 DEF Report
<1>16. CASE MainReturns
    BY <1>16, NoOpType DEF MainReturns, AtWork
<1>17. CASE Shutdown
    BY <1>17, EndedType DEF Shutdown
<1>18. CASE UNCHANGED vars
    BY <1>18 DEF vars
<1> HIDE DEF TypeOK, Threads
<1> QED
    BY <1>1, <1>2, <1>3, <1>4, <1>5, <1>6, <1>7, <1>8, <1>9, <1>10, <1>11, <1>12,
       <1>13, <1>14, <1>15, <1>16, <1>17, <1>18, NextCases

-----------------------------------------------------------------------------
\* Outcomes.

\* No step changes the outcome of a settled promise: all go through settle().
LEMMA SettledStep ==
    ASSUME TypeOK, [Next]_vars
    PROVE  \A p \in Promises : Settled(p) => outcome'[p] = outcome[p]
<1> SUFFICES ASSUME NEW q \in Promises, Settled(q) PROVE outcome'[q] = outcome[q]
    OBVIOUS
<1>0. outcome \in [Promises -> Outcomes]
    BY DEF TypeOK
<1> USE <1>0
<1>1. ASSUME NEW t \in Threads, NEW p \in Promises, Make(t, p) PROVE outcome'[q] = outcome[q]
    BY <1>1 DEF Make
<1>2. ASSUME NEW t \in Threads, NEW p \in Promises, Cancel(t, p) PROVE outcome'[q] = outcome[q]
    BY <1>2, SettleAllType DEF Cancel, CancelAll, Values
<1>3. ASSUME NEW t \in Threads, NEW p \in Promises, NEW v \in Values \cup {"error"}, Deliver(t, p, v)
      PROVE  outcome'[q] = outcome[q]
    BY <1>3, SettleAllType DEF Deliver, Settle
<1>4. ASSUME NEW t \in Threads, NEW name \in Builtins, NEW on \in SUBSET Made, NEW args \in SUBSET Made,
              Begins(name, on, args), Block(t, name, on, args)
      PROVE  outcome'[q] = outcome[q]
    BY <1>4 DEF Block
<1>5. ASSUME NEW t \in Threads, JoinStep(t) PROVE outcome'[q] = outcome[q]
    BY <1>5 DEF JoinStep
<1>6. ASSUME NEW t \in Threads, SelectStep(t) PROVE outcome'[q] = outcome[q]
    BY <1>6 DEF SelectStep
<1>7. ASSUME NEW t \in Threads, AnyTrueStep(t) PROVE outcome'[q] = outcome[q]
    BY <1>7, SettleAllType DEF AnyTrueStep, CancelAll, Values
<1>8. ASSUME NEW t \in Threads, CallerDone(t) PROVE outcome'[q] = outcome[q]
    BY <1>8 DEF CallerDone
<1>9. ASSUME NEW t \in Threads, Fail(t) PROVE outcome'[q] = outcome[q]
    BY <1>9 DEF Fail
<1>10. ASSUME NEW p \in Promises, NEW v \in Values, Return(p, v) PROVE outcome'[q] = outcome[q]
    BY <1>10, SettleAllType DEF Return, Settle
<1>11. ASSUME NEW p \in Promises, NEW to \in {"running", "failed"}, Wake(p, to) PROVE outcome'[q] = outcome[q]
    BY <1>11 DEF Wake
<1>12. ASSUME NEW p \in Promises, Judge(p) PROVE outcome'[q] = outcome[q]
    BY <1>12, SettleAllType DEF Judge, Settle, Values
<1>13. ASSUME NEW p \in Promises, Rejects(p) PROVE outcome'[q] = outcome[q]
    BY <1>13, SettleAllType DEF Rejects, Settle, Values
<1>14. ASSUME NEW p \in Promises, Leave(p) PROVE outcome'[q] = outcome[q]
    BY <1>14 DEF Leave
<1>15. ASSUME NEW p \in Promises, Report(p) PROVE outcome'[q] = outcome[q]
    BY <1>15 DEF Report
<1>16. CASE MainReturns
    BY <1>16 DEF MainReturns
<1>17. CASE Shutdown
    BY <1>17 DEF Shutdown
<1>18. CASE UNCHANGED vars
    BY <1>18 DEF vars
<1> QED
    BY <1>1, <1>2, <1>3, <1>4, <1>5, <1>6, <1>7, <1>8, <1>9, <1>10, <1>11, <1>12,
       <1>13, <1>14, <1>15, <1>16, <1>17, <1>18, NextCases

-----------------------------------------------------------------------------
\* Tasks, and the cancelled ones among them.

LEMMA TaskInit == Init => TaskInv /\ QuietInv /\ CancelIsQuiet
  BY RootAssumption DEF Init, TaskInv, QuietInv, CancelIsQuiet, Threads, Tasks

\* A promise becomes a task once, and is followed up only after its function is through.
LEMMA TaskStep == TypeOK /\ TaskInv /\ [Next]_vars => TaskInv'
<1> SUFFICES ASSUME TypeOK, TaskInv, [Next]_vars PROVE TaskInv'
    OBVIOUS
<1>0. /\ task \in [Threads -> {"none", "running", "asleep", "failed", "rejecting", "leaving",
                               "ended"}]
      /\ kind \in [Promises -> {"none", "bare", "go", "poll"}]
      /\ report \in [Promises -> {"none", "waiting", "quiet", "logged"}]
      /\ \A t \in Threads : op[t].name \in Builtins => task[t] = "running"
    BY DEF TypeOK
<1> USE <1>0, RootAssumption DEF TaskInv, Tasks, Threads
<1>1. ASSUME NEW t \in Threads, NEW p \in Promises, Make(t, p) PROVE TaskInv'
  <2>1. PICK s \in Shapes[p] :
          /\ kind' = [kind EXCEPT ![p] = s.kind]
          /\ \/ s.kind # "bare" /\ task' = [task EXCEPT ![p] = "running"]
             \/ s.kind = "bare" /\ task' = task
      BY <1>1 DEF Make, TaskContext
  <2>2. s.kind \in {"bare", "go", "poll"}
    <3>1. s \in Shape
        BY <2>1, ShapesAssumption
    <3> QED BY <3>1 DEF Shape
  <2>3. kind[p] = "none" /\ report' = report
      BY <1>1 DEF Make
  <2> QED BY <2>1, <2>2, <2>3
<1>2. ASSUME NEW t \in Threads, NEW p \in Promises, Cancel(t, p) PROVE TaskInv'
    BY <1>2 DEF Cancel
<1>3. ASSUME NEW t \in Threads, NEW p \in Promises, NEW v \in Values \cup {"error"}, Deliver(t, p, v)
      PROVE  TaskInv'
    BY <1>3 DEF Deliver
<1>4. ASSUME NEW t \in Threads, NEW name \in Builtins, NEW on \in SUBSET Made, NEW args \in SUBSET Made,
              Begins(name, on, args), Block(t, name, on, args)
      PROVE  TaskInv'
    BY <1>4 DEF Block
<1>5. ASSUME NEW t \in Threads, JoinStep(t) PROVE TaskInv'
    BY <1>5 DEF JoinStep, Raises, Returns, Builtins
<1>6. ASSUME NEW t \in Threads, SelectStep(t) PROVE TaskInv'
    BY <1>6 DEF SelectStep, Returns
<1>7. ASSUME NEW t \in Threads, AnyTrueStep(t) PROVE TaskInv'
    BY <1>7 DEF AnyTrueStep, Raises, Returns, CancelAll, Builtins
<1>8. ASSUME NEW t \in Threads, CallerDone(t) PROVE TaskInv'
  <2>1. task[t] = "running"
      BY <1>8 DEF CallerDone, Builtins, TypeOK
  <2> QED BY <1>8, <2>1 DEF CallerDone, Raises
<1>9. ASSUME NEW t \in Threads, Fail(t) PROVE TaskInv'
    BY <1>9 DEF Fail, AtWork
<1>10. ASSUME NEW p \in Promises, NEW v \in Values, Return(p, v) PROVE TaskInv'
    BY <1>10 DEF Return, AtWork
<1>11. ASSUME NEW p \in Promises, NEW to \in {"running", "failed"}, Wake(p, to)
      PROVE  TaskInv'
    BY <1>11 DEF Wake
<1>12. ASSUME NEW p \in Promises, Judge(p) PROVE TaskInv'
    BY <1>12 DEF Judge
<1>13. ASSUME NEW p \in Promises, Rejects(p) PROVE TaskInv'
    BY <1>13 DEF Rejects
<1>14. ASSUME NEW p \in Promises, Leave(p) PROVE TaskInv'
    BY <1>14 DEF Leave
<1>15. ASSUME NEW p \in Promises, Report(p) PROVE TaskInv'
    BY <1>15 DEF Report
<1>16. CASE MainReturns
    BY <1>16 DEF MainReturns, AtWork
<1>17. CASE Shutdown
    BY <1>17 DEF Shutdown
<1>18. CASE UNCHANGED vars
    BY <1>18 DEF vars
<1> HIDE DEF TaskInv, Tasks, Threads
<1> QED
    BY <1>1, <1>2, <1>3, <1>4, <1>5, <1>6, <1>7, <1>8, <1>9, <1>10, <1>11, <1>12,
       <1>13, <1>14, <1>15, <1>16, <1>17, <1>18, NextCases

\* cancel() on a task at work finds a promise that is pending and not followed up.
LEMMA CancelKeepsQuiet ==
    ASSUME TypeOK, TaskInv, QuietInv, CancelIsQuiet, NEW S \in SUBSET Promises, CancelAll(S),
           \A p \in Promises : task[p] # "rejecting" => task'[p] # "rejecting",
           UNCHANGED <<signallable, report>>
    PROVE  QuietInv' /\ CancelIsQuiet'
<1>1. stopped \subseteq Promises /\ outcome \in [Promises -> Outcomes] /\ Promises \subseteq Threads
    BY DEF TypeOK, Threads
<1>2. \A p \in Promises : outcome'[p] \in {outcome[p], "none"}
    BY <1>1, SettleAllType DEF CancelAll, Values
<1>3. \A p \in stopped' \ stopped :
         p \in S /\ p \in Promises /\ outcome[p] = "pending" /\ task[p] = "running" /\ report[p] = "none"
    BY DEF CancelAll, Settled, TaskInv
<1>4. QuietInv'
    BY <1>1, <1>3 DEF QuietInv, CancelAll
<1>5. CancelIsQuiet'
    BY <1>1, <1>2, <1>3 DEF CancelIsQuiet, CancelAll
<1> QED BY <1>4, <1>5

\* Once cancelled at work, a task's error is judged as that of a cancelled task, so
\* it neither rejects nor is reported.
LEMMA QuietStep ==
    TypeOK /\ TaskInv /\ QuietInv /\ CancelIsQuiet /\ [Next]_vars => QuietInv' /\ CancelIsQuiet'
<1> SUFFICES ASSUME TypeOK, TaskInv, QuietInv, CancelIsQuiet, [Next]_vars
             PROVE  QuietInv' /\ CancelIsQuiet'
    OBVIOUS
<1>0. /\ task \in [Threads -> {"none", "running", "asleep", "failed", "rejecting", "leaving",
                               "ended"}]
      /\ outcome \in [Promises -> Outcomes] /\ stopped \subseteq Promises
      /\ report \in [Promises -> {"none", "waiting", "quiet", "logged"}]
      /\ op \in [Threads -> [name : Builtins \cup {"none"}, on : SUBSET Promises,
                             args : SUBSET Promises, rest : SUBSET Promises]]
      /\ cancellable \subseteq Promises /\ Promises \subseteq Threads
    BY DEF TypeOK, Threads
<1> USE <1>0 DEF QuietInv, CancelIsQuiet
<1>1. ASSUME NEW t \in Threads, NEW p \in Promises, Make(t, p)
      PROVE  QuietInv' /\ CancelIsQuiet'
  <2>1. /\ UNCHANGED <<stopped, canceling, outcome, report>> /\ signallable \subseteq signallable'
        /\ \A q \in Promises : task'[q] \in {task[q], "running"}
      BY <1>1 DEF Make, TaskContext
  <2> QED BY <2>1
<1>2. ASSUME NEW t \in Threads, NEW p \in Promises, Cancel(t, p)
      PROVE  QuietInv' /\ CancelIsQuiet'
  <2>1. {p} \in SUBSET Promises /\ UNCHANGED <<task, signallable, report>> /\ CancelAll({p})
      BY <1>2 DEF Cancel
  <2> QED BY <2>1, CancelKeepsQuiet
<1>3. ASSUME NEW t \in Threads, NEW p \in Promises, NEW v \in Values \cup {"error"}, Deliver(t, p, v)
      PROVE  QuietInv' /\ CancelIsQuiet'
  <2>1. \A q \in Promises \ {p} : outcome'[q] = outcome[q]
      BY <1>3, SettleAllType DEF Deliver, Settle
  <2>2. p \in signallable /\ UNCHANGED <<signallable, canceling, task, report, stopped>>
      BY <1>3 DEF Deliver
  <2> QED BY <2>1, <2>2
<1>4. ASSUME NEW t \in Threads, NEW name \in Builtins, NEW on \in SUBSET Made, NEW args \in SUBSET Made,
              Begins(name, on, args), Block(t, name, on, args)
      PROVE  QuietInv' /\ CancelIsQuiet'
    BY <1>4 DEF Block
<1>5. ASSUME NEW t \in Threads, JoinStep(t) PROVE QuietInv' /\ CancelIsQuiet'
    BY <1>5 DEF JoinStep, Raises, Returns
<1>6. ASSUME NEW t \in Threads, SelectStep(t) PROVE QuietInv' /\ CancelIsQuiet'
    BY <1>6 DEF SelectStep, Returns
<1>7. ASSUME NEW t \in Threads, AnyTrueStep(t) PROVE QuietInv' /\ CancelIsQuiet'
  <2>1. UNCHANGED <<signallable, report>> /\ op[t].args \cap cancellable \in SUBSET Promises
      BY <1>7 DEF AnyTrueStep
  <2>2. \A q \in Promises : task'[q] \in {task[q], "failed"}
      BY <1>7 DEF AnyTrueStep, Raises, Returns
  <2>3. CASE CancelAll(op[t].args \cap cancellable)
      BY <2>1, <2>2, <2>3, CancelKeepsQuiet
  <2>4. CASE UNCHANGED <<task, outcome, canceling, stopped, done>>
      BY <2>1, <2>4
  <2> QED BY <1>7, <2>3, <2>4 DEF AnyTrueStep
<1>8. ASSUME NEW t \in Threads, CallerDone(t) PROVE QuietInv' /\ CancelIsQuiet'
    BY <1>8 DEF CallerDone, Raises
<1>9. ASSUME NEW t \in Threads, Fail(t) PROVE QuietInv' /\ CancelIsQuiet'
    BY <1>9 DEF Fail
<1>10. ASSUME NEW p \in Promises, NEW v \in Values, Return(p, v)
      PROVE  QuietInv' /\ CancelIsQuiet'
  <2>1. \A q \in Promises : outcome'[q] \in {outcome[q], v}
      BY <1>10, SettleAllType DEF Return, Settle
  <2>2. \A q \in Promises : task'[q] \in {task[q], "leaving", "asleep"}
      BY <1>10 DEF Return
  <2>3. v # "error" /\ UNCHANGED <<signallable, canceling, report, stopped>>
      BY <1>10 DEF Return, Values
  <2> QED BY <2>1, <2>2, <2>3
<1>11. ASSUME NEW p \in Promises, NEW to \in {"running", "failed"}, Wake(p, to)
      PROVE  QuietInv' /\ CancelIsQuiet'
    BY <1>11 DEF Wake
<1>12. ASSUME NEW p \in Promises, Judge(p) PROVE QuietInv' /\ CancelIsQuiet'
  <2>1. \A q \in Promises : outcome'[q] \in {outcome[q], "none"}
      BY <1>12, SettleAllType DEF Judge, Settle, Values
  <2>2. \A q \in Promises : task'[q] \in {task[q], "leaving"} \/ (q = p /\ p \notin canceling)
      BY <1>12 DEF Judge
  <2>3. UNCHANGED <<signallable, canceling, report, stopped>>
      BY <1>12 DEF Judge
  <2> QED BY <2>1, <2>2, <2>3
<1>13. ASSUME NEW p \in Promises, Rejects(p) PROVE QuietInv' /\ CancelIsQuiet'
  <2>1. \A q \in Promises \ {p} : outcome'[q] = outcome[q]
      BY <1>13, SettleAllType DEF Rejects, Settle, Values
  <2>2. p \notin stopped
      BY <1>13 DEF Rejects
  <2>3. \A q \in Promises \ {p} : task'[q] = task[q] /\ report'[q] = report[q]
      BY <1>13 DEF Rejects
  <2>4. UNCHANGED <<signallable, canceling, stopped>>
      BY <1>13 DEF Rejects
  <2> QED BY <2>1, <2>2, <2>3, <2>4
<1>14. ASSUME NEW p \in Promises, Leave(p) PROVE QuietInv' /\ CancelIsQuiet'
    BY <1>14 DEF Leave
<1>15. ASSUME NEW p \in Promises, Report(p) PROVE QuietInv' /\ CancelIsQuiet'
    BY <1>15 DEF Report
<1>16. CASE MainReturns
    BY <1>16 DEF MainReturns
<1>17. CASE Shutdown
    BY <1>17 DEF Shutdown
<1>18. CASE UNCHANGED vars
    BY <1>18 DEF vars
<1> HIDE DEF QuietInv, CancelIsQuiet
<1> QED
    BY <1>1, <1>2, <1>3, <1>4, <1>5, <1>6, <1>7, <1>8, <1>9, <1>10, <1>11, <1>12,
       <1>13, <1>14, <1>15, <1>16, <1>17, <1>18, NextCases

-----------------------------------------------------------------------------
\* Contexts.

LEMMA NestInit == Init => NestInv /\ ContextsNest
  BY RootAssumption DEF Init, NestInv, ContextsNest, Threads, Tasks

\* Steps that start no task keep the contexts where they are; what they end, they end
\* with everything within.
LEMMA NestKept ==
    ASSUME TypeOK, NestInv, ContextsNest, NEW S, done' = Ended(S) \/ done' = done,
           UNCHANGED <<kind, parent, within>>,
           \A p \in Promises : task'[p] = "ended" => task[p] = "ended" \/ p \in done'
    PROVE  NestInv' /\ ContextsNest'
<1>1. NestInv'
    BY DEF NestInv, Tasks
<1>2. ASSUME NEW t \in Threads, NEW u \in Threads, u \in within[t], u \in done'
      PROVE  t \in done'
    BY <1>2 DEF NestInv, ContextsNest, Ended
<1>3. \A p \in Tasks : parent[p] \in within[p] /\ within[parent[p]] \subseteq within[p]
    BY DEF ContextsNest
<1>4. done \subseteq done'
    BY DEF Ended
<1>5. \A p \in Promises : task'[p] = "ended" => p \in done'
    BY <1>4 DEF ContextsNest
<1> QED BY <1>1, <1>2, <1>3, <1>5 DEF ContextsNest, Tasks

\* spawnFunc(): the context of a new task is inside the caller's, and done when that
\* one is; no context is inside the new one yet.
LEMMA NestMake ==
    ASSUME TypeOK, TaskInv, NestInv, ContextsNest, NEW t \in Threads, NEW p \in Promises,
           Make(t, p)
    PROVE  NestInv' /\ ContextsNest'
<1>1. PICK s \in Shapes[p] :
          /\ kind' = [kind EXCEPT ![p] = s.kind]
          /\ \/ s.kind # "bare" /\ TaskContext(t, p)
             \/ s.kind = "bare" /\ UNCHANGED <<parent, within, done, task>>
    BY DEF Make
<1>2. s.kind \in {"bare", "go", "poll"}
  <2>1. s \in Shape
      BY <1>1, ShapesAssumption
  <2> QED BY <2>1 DEF Shape
<1>3. /\ kind \in [Promises -> {"none", "bare", "go", "poll"}] /\ Promises \subseteq Threads
      /\ within \in [Threads -> SUBSET Threads] /\ parent \in [Promises -> Threads]
      /\ done \subseteq Threads
      /\ task \in [Threads -> {"none", "running", "asleep", "failed", "rejecting", "leaving",
                               "ended"}]
    BY DEF TypeOK, Threads
<1>4. p \notin Tasks /\ task[p] = "none" /\ t # p
    BY DEF Make, AtWork, TaskInv, Tasks
<1>5. CASE s.kind = "bare" /\ UNCHANGED <<parent, within, done, task>>
  <2>1. Tasks' = Tasks
      BY <1>1, <1>3, <1>4, <1>5 DEF Tasks
  <2> QED BY <1>5, <2>1 DEF NestInv, ContextsNest
<1>6. CASE s.kind # "bare" /\ TaskContext(t, p)
  <2>1. Tasks' = Tasks \cup {p}
      BY <1>1, <1>2, <1>3, <1>6 DEF Tasks
  <2>2. /\ within'[p] = within[t] \cup {p} /\ \A u \in Threads \ {p} : within'[u] = within[u]
        /\ parent'[p] = t /\ \A q \in Promises \ {p} : parent'[q] = parent[q]
        /\ task'[p] = "running" /\ \A q \in Promises \ {p} : task'[q] = task[q]
        /\ done' = IF t \in done THEN done \cup {p} ELSE done
      BY <1>3, <1>6 DEF TaskContext
  <2>3. \A u \in Threads \ {p} : p \notin within[u]
      BY <1>4 DEF NestInv
  <2>4. \A u \in Threads : u \in within'[u]
      BY <2>2 DEF NestInv
  <2>5. ASSUME NEW x \in Threads, NEW u \in within'[x] PROVE within'[u] \subseteq within'[x]
    <3>1. CASE x # p
        BY <1>3, <2>2, <2>3, <3>1 DEF NestInv
    <3>2. CASE x = p /\ u # p
        BY <1>3, <1>4, <2>2, <2>3, <3>2 DEF NestInv
    <3> QED BY <3>1, <3>2
  <2>6. \A q \in Promises \ Tasks' : \A u \in Threads \ {q} : q \notin within'[u]
    <3> SUFFICES ASSUME NEW q \in Promises \ Tasks', NEW u \in Threads \ {q}
                 PROVE  q \notin within'[u]
        OBVIOUS
    <3>1. q # p /\ q \in Promises \ Tasks
        BY <2>1
    <3>2. t # q
        BY <3>1 DEF Make, AtWork, TaskInv
    <3> QED BY <2>2, <3>1, <3>2 DEF NestInv
  <2>7. ASSUME NEW x \in Threads, NEW u \in Threads, u \in within'[x], u \in done'
        PROVE  x \in done'
    <3>1. CASE x # p
        BY <2>2, <2>3, <2>7, <3>1 DEF ContextsNest
    <3>2. CASE x = p
        BY <1>3, <1>4, <2>2, <2>7, <3>2 DEF ContextsNest
    <3> QED BY <3>1, <3>2
  <2>8. ASSUME NEW q \in Tasks'
        PROVE  parent'[q] \in within'[q] /\ within'[parent'[q]] \subseteq within'[q]
    <3>1. CASE q = p
        BY <1>4, <2>2, <3>1 DEF NestInv
    <3>2. CASE q # p
      <4>1. q \in Tasks /\ q \in Promises
          BY <2>1, <3>2 DEF Tasks
      <4>2. parent[q] \in within[q] /\ within[parent[q]] \subseteq within[q] /\ parent[q] \in Threads
          BY <1>3, <4>1 DEF ContextsNest
      <4>3. parent[q] # p
          BY <1>3, <2>3, <3>2, <4>1, <4>2
      <4> QED BY <1>3, <2>2, <3>2, <4>1, <4>2, <4>3
    <3> QED BY <3>1, <3>2
  <2>9. \A q \in Promises : task'[q] = "ended" => q \in done'
      BY <2>2 DEF ContextsNest
  <2>10. NestInv'
      BY <2>4, <2>5, <2>6 DEF NestInv
  <2>11. ContextsNest'
      BY <2>7, <2>8, <2>9 DEF ContextsNest
  <2> QED BY <2>10, <2>11
<1> QED BY <1>1, <1>5, <1>6

\* Contexts end from the outside in, and a task that ended has ended its own.
LEMMA NestStep ==
    TypeOK /\ TaskInv /\ NestInv /\ ContextsNest /\ [Next]_vars => NestInv' /\ ContextsNest'
<1> SUFFICES ASSUME TypeOK, TaskInv, NestInv, ContextsNest, [Next]_vars
             PROVE  NestInv' /\ ContextsNest'
    OBVIOUS
<1>0. /\ task \in [Threads -> {"none", "running", "asleep", "failed", "rejecting", "leaving",
                               "ended"}]
      /\ Promises \subseteq Threads /\ Root \in Threads
    BY DEF TypeOK, Threads
<1> USE <1>0
<1>1. ASSUME NEW t \in Threads, NEW p \in Promises, Make(t, p)
      PROVE  NestInv' /\ ContextsNest'
    BY <1>1, NestMake
<1>2. ASSUME NEW t \in Threads, NEW p \in Promises, Cancel(t, p)
      PROVE  NestInv' /\ ContextsNest'
    BY <1>2, NestKept DEF Cancel, CancelAll
<1>3. ASSUME NEW t \in Threads, NEW p \in Promises, NEW v \in Values \cup {"error"}, Deliver(t, p, v)
      PROVE  NestInv' /\ ContextsNest'
    BY <1>3, NestKept DEF Deliver
<1>4. ASSUME NEW t \in Threads, NEW name \in Builtins, NEW on \in SUBSET Made, NEW args \in SUBSET Made,
              Begins(name, on, args), Block(t, name, on, args)
      PROVE  NestInv' /\ ContextsNest'
    BY <1>4, NestKept DEF Block
<1>5. ASSUME NEW t \in Threads, JoinStep(t) PROVE NestInv' /\ ContextsNest'
    BY <1>5, NestKept DEF JoinStep, Raises, Returns
<1>6. ASSUME NEW t \in Threads, SelectStep(t) PROVE NestInv' /\ ContextsNest'
    BY <1>6, NestKept DEF SelectStep, Returns
<1>7. ASSUME NEW t \in Threads, AnyTrueStep(t) PROVE NestInv' /\ ContextsNest'
    BY <1>7, NestKept DEF AnyTrueStep, Raises, Returns, CancelAll
<1>8. ASSUME NEW t \in Threads, CallerDone(t) PROVE NestInv' /\ ContextsNest'
    BY <1>8, NestKept DEF CallerDone, Raises
<1>9. ASSUME NEW t \in Threads, Fail(t) PROVE NestInv' /\ ContextsNest'
    BY <1>9, NestKept DEF Fail
<1>10. ASSUME NEW p \in Promises, NEW v \in Values, Return(p, v)
      PROVE  NestInv' /\ ContextsNest'
    BY <1>10, NestKept DEF Return
<1>11. ASSUME NEW p \in Promises, NEW to \in {"running", "failed"}, Wake(p, to)
      PROVE  NestInv' /\ ContextsNest'
    BY <1>11, NestKept DEF Wake
<1>12. ASSUME NEW p \in Promises, Judge(p) PROVE NestInv' /\ ContextsNest'
    BY <1>12, NestKept DEF Judge
<1>13. ASSUME NEW p \in Promises, Rejects(p) PROVE NestInv' /\ ContextsNest'
    BY <1>13, NestKept DEF Rejects
<1>14. ASSUME NEW p \in Promises, Leave(p) PROVE NestInv' /\ ContextsNest'
  <2>1. p \in Ended({p})
      BY DEF NestInv, Ended
  <2> QED BY <1>14, <2>1, NestKept DEF Leave
<1>15. ASSUME NEW p \in Promises, Report(p) PROVE NestInv' /\ ContextsNest'
    BY <1>15, NestKept DEF Report
<1>16. CASE MainReturns
    BY <1>16, RootAssumption, NestKept DEF MainReturns
<1>17. CASE Shutdown
    BY <1>17, NestKept DEF Shutdown
<1>18. CASE UNCHANGED vars
    BY <1>18, NestKept DEF vars
<1> QED
    BY <1>1, <1>2, <1>3, <1>4, <1>5, <1>6, <1>7, <1>8, <1>9, <1>10, <1>11, <1>12,
       <1>13, <1>14, <1>15, <1>16, <1>17, <1>18, NextCases

-----------------------------------------------------------------------------
\* any_true().

LEMMA RaceInit == Init => RaceInv
  BY NoOpType DEF Init, RaceInv

\* A race that is not touched goes on as it was: what was dropped from it is settled.
LEMMA RaceKept ==
    ASSUME TypeOK, RaceInv, [Next]_vars,
           \A t \in Threads : op'[t] = op[t] \/ op'[t].name # "any_true"
    PROVE  RaceInv'
<1> SUFFICES ASSUME NEW t \in Threads, op'[t].name = "any_true"
             PROVE  /\ op'[t].on \subseteq op'[t].args
                    /\ \A p \in op'[t].args \ op'[t].on : outcome'[p] = "none"
    BY DEF RaceInv
<1>1. op'[t] = op[t] /\ op[t].args \subseteq Promises
    BY DEF TypeOK
<1>2. \A p \in Promises : outcome[p] = "none" => outcome'[p] = "none"
    BY SettledStep DEF Settled
<1> QED BY <1>1, <1>2 DEF RaceInv

\* any_true() starts with all its arguments, and drops one only when it is falsy.
LEMMA RaceStep == TypeOK /\ RaceInv /\ [Next]_vars => RaceInv'
<1> SUFFICES ASSUME TypeOK, RaceInv, [Next]_vars PROVE RaceInv'
    OBVIOUS
<1>0. op \in [Threads -> [name : Builtins \cup {"none"}, on : SUBSET Promises,
                          args : SUBSET Promises, rest : SUBSET Promises]]
    BY DEF TypeOK
<1> USE <1>0
<1>1. ASSUME NEW t \in Threads, NEW p \in Promises, Make(t, p) PROVE RaceInv'
    BY <1>1, RaceKept DEF Make
<1>2. ASSUME NEW t \in Threads, NEW p \in Promises, Cancel(t, p) PROVE RaceInv'
    BY <1>2, RaceKept DEF Cancel
<1>3. ASSUME NEW t \in Threads, NEW p \in Promises, NEW v \in Values \cup {"error"}, Deliver(t, p, v)
      PROVE  RaceInv'
    BY <1>3, RaceKept DEF Deliver
<1>4. ASSUME NEW t \in Threads, NEW name \in Builtins, NEW on \in SUBSET Made, NEW args \in SUBSET Made,
              Begins(name, on, args), Block(t, name, on, args)
      PROVE  RaceInv'
  <2> SUFFICES ASSUME NEW u \in Threads, op'[u].name = "any_true"
               PROVE  /\ op'[u].on \subseteq op'[u].args
                      /\ \A q \in op'[u].args \ op'[u].on : outcome'[q] = "none"
      BY DEF RaceInv
  <2>1. outcome' = outcome /\ op' = [op EXCEPT ![t] = [name |-> name, on |-> on, args |-> args, rest |-> args \ on]]
      BY <1>4 DEF Block
  <2>2. CASE u = t
      BY <1>4, <2>1, <2>2 DEF Begins
  <2>3. CASE u # t
      BY <2>1, <2>3 DEF RaceInv
  <2> QED BY <2>2, <2>3
<1>5. ASSUME NEW t \in Threads, JoinStep(t) PROVE RaceInv'
  <2>1. CASE Raises(t) \/ Returns(t)
      BY <2>1, RaceKept, NoOpType DEF Raises, Returns
  <2>2. ASSUME NEW q, op' = [op EXCEPT ![t].on = {q}, ![t].rest = op[t].rest \ {q}]
        PROVE  RaceInv'
    <3>1. op[t].name = "join"
        BY <1>5 DEF JoinStep
    <3>2. op'[t].name = op[t].name /\ \A u \in Threads \ {t} : op'[u] = op[u]
        BY <2>2
    <3>3. \A u \in Threads : op'[u] = op[u] \/ op'[u].name # "any_true"
        BY <3>1, <3>2
    <3> QED BY <3>3, RaceKept
  <2> QED BY <1>5, <2>1, <2>2 DEF JoinStep
<1>6. ASSUME NEW t \in Threads, SelectStep(t) PROVE RaceInv'
    BY <1>6, RaceKept, NoOpType DEF SelectStep, Returns
<1>7. ASSUME NEW t \in Threads, AnyTrueStep(t) PROVE RaceInv'
  <2>1. CASE Raises(t) \/ Returns(t)
      BY <2>1, RaceKept, NoOpType DEF Raises, Returns
  <2>2. ASSUME NEW p \in op[t].on, outcome[p] = "none", UNCHANGED outcome,
               op' = [op EXCEPT ![t] = IF Remaining(t, p) = {} THEN NoOp
                                        ELSE [op[t] EXCEPT !.on = Remaining(t, p)]]
        PROVE  RaceInv'
    <3> SUFFICES ASSUME NEW u \in Threads, op'[u].name = "any_true"
                 PROVE  /\ op'[u].on \subseteq op'[u].args
                        /\ \A q \in op'[u].args \ op'[u].on : outcome'[q] = "none"
        BY DEF RaceInv
    <3>1. CASE u # t
        BY <2>2, <3>1 DEF RaceInv
    <3>2. CASE u = t
      <4>1. op[t] \in [name : Builtins \cup {"none"}, on : SUBSET Promises,
                       args : SUBSET Promises, rest : SUBSET Promises]
          OBVIOUS
      <4>2. op'[t] = [op[t] EXCEPT !.on = Remaining(t, p)]
          BY <2>2, <3>2, NoOpType
      <4>3. op'[t].on = op[t].on \ {p} /\ op'[t].args = op[t].args
          BY <4>1, <4>2 DEF Remaining
      <4>4. op[t].name = "any_true"
          BY <1>7 DEF AnyTrueStep
      <4> QED BY <2>2, <3>2, <4>3, <4>4 DEF RaceInv
    <3> QED BY <3>1, <3>2
  <2> QED BY <1>7, <2>1, <2>2 DEF AnyTrueStep, RacesOn
<1>8. ASSUME NEW t \in Threads, CallerDone(t) PROVE RaceInv'
    BY <1>8, RaceKept, NoOpType DEF CallerDone, Raises
<1>9. ASSUME NEW t \in Threads, Fail(t) PROVE RaceInv'
    BY <1>9, RaceKept DEF Fail
<1>10. ASSUME NEW p \in Promises, NEW v \in Values, Return(p, v) PROVE RaceInv'
    BY <1>10, RaceKept DEF Return
<1>11. ASSUME NEW p \in Promises, NEW to \in {"running", "failed"}, Wake(p, to)
      PROVE  RaceInv'
    BY <1>11, RaceKept DEF Wake
<1>12. ASSUME NEW p \in Promises, Judge(p) PROVE RaceInv'
    BY <1>12, RaceKept DEF Judge
<1>13. ASSUME NEW p \in Promises, Rejects(p) PROVE RaceInv'
    BY <1>13, RaceKept DEF Rejects
<1>14. ASSUME NEW p \in Promises, Leave(p) PROVE RaceInv'
    BY <1>14, RaceKept DEF Leave
<1>15. ASSUME NEW p \in Promises, Report(p) PROVE RaceInv'
    BY <1>15, RaceKept DEF Report
<1>16. CASE MainReturns
    BY <1>16, RaceKept DEF MainReturns
<1>17. CASE Shutdown
    BY <1>17, RaceKept DEF Shutdown
<1>18. CASE UNCHANGED vars
    BY <1>18, RaceKept DEF vars
<1> QED
    BY <1>1, <1>2, <1>3, <1>4, <1>5, <1>6, <1>7, <1>8, <1>9, <1>10, <1>11, <1>12,
       <1>13, <1>14, <1>15, <1>16, <1>17, <1>18, NextCases

\* The steps that change the builtin a thread is in.
LEMMA OpSteps ==
    ASSUME TypeOK, [Next]_vars, NEW t \in Threads, op'[t] # op[t]
    PROVE  \/ \E name \in Builtins, on \in SUBSET Made, args \in SUBSET Made :
                 Begins(name, on, args) /\ Block(t, name, on, args)
           \/ JoinStep(t) \/ SelectStep(t) \/ AnyTrueStep(t) \/ CallerDone(t)
<1>0. op \in [Threads -> [name : Builtins \cup {"none"}, on : SUBSET Promises,
                           args : SUBSET Promises, rest : SUBSET Promises]]
    BY DEF TypeOK
<1>1. ASSUME NEW u \in Threads, NEW name, NEW on, NEW args, Block(u, name, on, args) PROVE u = t
    BY <1>0, <1>1 DEF Block
<1>2. ASSUME NEW u \in Threads, JoinStep(u) PROVE u = t
    BY <1>0, <1>2 DEF JoinStep, Raises, Returns
<1>3. ASSUME NEW u \in Threads, SelectStep(u) \/ CallerDone(u) \/ AnyTrueStep(u) PROVE u = t
    BY <1>0, <1>3 DEF SelectStep, CallerDone, AnyTrueStep, RacesOn, Raises, Returns
<1>4. ASSUME NEW u \in Threads, NEW p \in Promises,
             Make(u, p) \/ Cancel(u, p) \/ \E v \in Values \cup {"error"} : Deliver(u, p, v)
      PROVE  FALSE
    BY <1>4 DEF Make, Cancel, Deliver
<1>5. ASSUME NEW p \in Promises,
             \/ \E v \in Values : Return(p, v)
             \/ \E to \in {"running", "failed"} : Wake(p, to)
             \/ Judge(p) \/ Rejects(p) \/ Leave(p) \/ Report(p)
      PROVE  FALSE
    BY <1>5 DEF Return, Wake, Judge, Rejects, Leave, Report
<1>6. ASSUME NEW u \in Threads, Fail(u) PROVE FALSE
    BY <1>6 DEF Fail
<1>7. ~MainReturns /\ ~Shutdown /\ ~UNCHANGED vars
    BY DEF MainReturns, Shutdown, vars
<1> QED BY <1>1, <1>2, <1>3, <1>4, <1>5, <1>6, <1>7, NextCases

\* Only the decision of the race, or the end of the caller's context, ends any_true().
LEMMA AnyTrueStepDecides ==
    ASSUME TypeOK, RaceInv, [Next]_vars, NEW t \in Threads,
           op[t].name = "any_true", op'[t].name = "none"
    PROVE  \/ \A p \in op[t].args : outcome[p] = "none"
           \/ /\ \E p \in op[t].args : outcome[p] \in {"true", "error"}
              /\ op[t].args \cap cancellable \subseteq canceling'
           \/ t \in done
<1>0. /\ op \in [Threads -> [name : Builtins \cup {"none"}, on : SUBSET Promises,
                             args : SUBSET Promises, rest : SUBSET Promises]]
      /\ op[t].on \subseteq op[t].args /\ \A p \in op[t].args \ op[t].on : outcome[p] = "none"
    BY DEF TypeOK, RaceInv
<1>1. AnyTrueStep(t) \/ CallerDone(t)
  <2>1. op'[t] # op[t] /\ ~SelectStep(t) /\ ~JoinStep(t)
      BY DEF SelectStep, JoinStep
  <2>2. \A name, on, args : ~Block(t, name, on, args)
      BY NoOpType DEF Block, Calls, AtWork
  <2> QED BY <2>1, <2>2, OpSteps
<1>2. CASE CallerDone(t)
    BY <1>2 DEF CallerDone
<1>3. CASE AnyTrueStep(t)
  <2>1. PICK p \in op[t].on :
          \/ /\ outcome[p] = "error" \/ t \in done
             /\ CancelAll(op[t].args \cap cancellable)
          \/ outcome[p] = "true" /\ CancelAll(op[t].args \cap cancellable)
          \/ /\ outcome[p] = "none"
             /\ op' = [op EXCEPT ![t] = IF Remaining(t, p) = {} THEN NoOp
                                        ELSE [op[t] EXCEPT !.on = Remaining(t, p)]]
      BY <1>3 DEF AnyTrueStep, RacesOn
  <2>2. CASE outcome[p] \in {"true", "error"} /\ CancelAll(op[t].args \cap cancellable)
      BY <1>0, <2>2 DEF CancelAll
  <2>3. CASE /\ outcome[p] = "none"
             /\ op' = [op EXCEPT ![t] = IF Remaining(t, p) = {} THEN NoOp
                                        ELSE [op[t] EXCEPT !.on = Remaining(t, p)]]
    <3>1. Remaining(t, p) = {}
        BY <1>0, <2>3
    <3> QED BY <1>0, <2>3, <3>1 DEF Remaining
  <2> QED BY <2>1, <2>2, <2>3
<1> QED BY <1>1, <1>2, <1>3

-----------------------------------------------------------------------------
\* join().

LEMMA JoinInit == Init => JoinInv
  BY NoOpType DEF Init, JoinInv

\* A join() that is not touched goes on as it was: what it has awaited stays settled.
LEMMA JoinKept ==
    ASSUME TypeOK, JoinInv, [Next]_vars, NEW t \in Threads, op'[t] = op[t], op[t].name = "join"
    PROVE  /\ op'[t].on \subseteq op'[t].args /\ op'[t].rest \subseteq op'[t].args /\ \A p, q \in op'[t].on : p = q
           /\ \A p \in op'[t].args \ (op'[t].on \cup op'[t].rest) : outcome'[p] \in Values
<1>1. op[t].args \subseteq Promises
    BY DEF TypeOK
<1>2. \A p \in Promises : outcome[p] \in Values => outcome'[p] \in Values
    BY SettledStep DEF Settled, Values
<1> QED BY <1>1, <1>2 DEF JoinInv

\* What a step of join() does.
LEMMA JoinStepCases ==
    ASSUME TypeOK, JoinInv, NEW t \in Threads, JoinStep(t)
    PROVE  \/ Raises(t) /\ \E p \in op[t].args : outcome[p] = "error"
           \/ Returns(t) /\ \A p \in op[t].args : outcome[p] \in Values
           \/ \E q \in op[t].rest :
                 /\ op'[t].on = {q} /\ op'[t].rest = op[t].rest \ {q}
                 /\ op'[t].args = op[t].args /\ op'[t].name = "join" /\ q \in Promises
                 /\ \A p \in op[t].on : outcome[p] \in Values
<1>0. /\ op \in [Threads -> [name : Builtins \cup {"none"}, on : SUBSET Promises,
                              args : SUBSET Promises, rest : SUBSET Promises]]
      /\ op[t].name = "join" /\ op[t].on \subseteq op[t].args
      /\ \A p, q \in op[t].on : p = q
      /\ \A p \in op[t].args \ (op[t].on \cup op[t].rest) : outcome[p] \in Values
    BY DEF TypeOK, JoinStep, JoinInv
<1>1. PICK p \in op[t].on :
          \/ outcome[p] = "error" /\ Raises(t)
          \/ outcome[p] \in Values /\ op[t].rest = {} /\ Returns(t)
          \/ /\ outcome[p] \in Values
             /\ \E q \in op[t].rest :
                   op' = [op EXCEPT ![t].on = {q}, ![t].rest = op[t].rest \ {q}]
    BY DEF JoinStep
<1>2. CASE outcome[p] = "error" /\ Raises(t)
    BY <1>0, <1>2
<1>3. CASE outcome[p] \in Values /\ op[t].rest = {} /\ Returns(t)
    BY <1>0, <1>3
<1>4. ASSUME outcome[p] \in Values, NEW q \in op[t].rest,
             op' = [op EXCEPT ![t].on = {q}, ![t].rest = op[t].rest \ {q}]
      PROVE  /\ op'[t].on = {q} /\ op'[t].rest = op[t].rest \ {q}
             /\ op'[t].args = op[t].args /\ op'[t].name = "join" /\ q \in Promises
             /\ \A x \in op[t].on : outcome[x] \in Values
    BY <1>0, <1>4
<1> QED BY <1>1, <1>2, <1>3, <1>4

LEMMA JoinInvStep == TypeOK /\ JoinInv /\ [Next]_vars => JoinInv'
<1> SUFFICES ASSUME TypeOK, JoinInv, [Next]_vars, NEW t \in Threads, op'[t].name = "join"
             PROVE  /\ op'[t].on \subseteq op'[t].args /\ op'[t].rest \subseteq op'[t].args /\ \A p, q \in op'[t].on : p = q
                    /\ \A p \in op'[t].args \ (op'[t].on \cup op'[t].rest) : outcome'[p] \in Values
    BY DEF JoinInv
<1>0. op \in [Threads -> [name : Builtins \cup {"none"}, on : SUBSET Promises,
                           args : SUBSET Promises, rest : SUBSET Promises]]
    BY DEF TypeOK
<1>1. CASE op'[t] = op[t]
    BY <1>1, JoinKept
<1>2. CASE op'[t] # op[t]
  <2>1. ASSUME NEW name \in Builtins, NEW on \in SUBSET Made, NEW args \in SUBSET Made,
               Begins(name, on, args), Block(t, name, on, args)
        PROVE  /\ op'[t].on \subseteq op'[t].args /\ op'[t].rest \subseteq op'[t].args /\ \A p, q \in op'[t].on : p = q
               /\ \A p \in op'[t].args \ (op'[t].on \cup op'[t].rest) : outcome'[p] \in Values
    <3>1. op'[t] = [name |-> name, on |-> on, args |-> args, rest |-> args \ on]
        BY <1>0, <2>1 DEF Block
    <3>2. op'[t].name = name /\ op'[t].on = on /\ op'[t].args = args /\ op'[t].rest = args \ on
        BY <3>1
    <3> QED BY <2>1, <3>2 DEF Begins
  <2>2. ASSUME Raises(t) \/ Returns(t) PROVE FALSE
      BY <1>0, <2>2, NoOpType DEF Raises, Returns
  <2>3. ~SelectStep(t) /\ ~CallerDone(t)
      BY <2>2 DEF SelectStep, CallerDone
  <2>4. ~AnyTrueStep(t)
    <3> SUFFICES ASSUME AnyTrueStep(t) PROVE FALSE
        OBVIOUS
    <3>1. op[t].name = "any_true" /\ \E p \in op[t].on : RacesOn(t, p)
        BY <2>2 DEF AnyTrueStep
    <3>2. op'[t].name \in {"any_true", "none"}
        BY <1>0, <3>1, NoOpType DEF RacesOn
    <3> QED BY <3>2
  <2>5. CASE JoinStep(t)
    <3>1. PICK q \in op[t].rest :
              /\ op'[t].on = {q} /\ op'[t].rest = op[t].rest \ {q}
              /\ op'[t].args = op[t].args /\ op'[t].name = "join" /\ q \in Promises
              /\ \A p \in op[t].on : outcome[p] \in Values
        BY <2>2, <2>5, JoinStepCases
    <3>2. outcome' = outcome /\ op[t].name = "join"
        BY <2>5 DEF JoinStep
    <3>3. \A p \in op[t].args \ (op[t].on \cup op[t].rest) : outcome[p] \in Values
        BY <3>2 DEF JoinInv
    <3>4. op'[t].on \subseteq op'[t].args /\ op'[t].rest \subseteq op'[t].args
      <4>1. op[t].rest \subseteq op[t].args
          BY <3>2 DEF JoinInv
      <4> QED BY <3>1, <4>1
    <3> QED BY <3>1, <3>2, <3>3, <3>4
  <2> QED BY <1>2, <2>1, <2>3, <2>4, <2>5, OpSteps
<1> QED BY <1>1, <1>2

\* Only its last argument, a rejection or the end of the caller's context ends join().
LEMMA JoinEnds ==
    ASSUME TypeOK, JoinInv, [Next]_vars, NEW t \in Threads,
           op[t].name = "join", op'[t].name = "none"
    PROVE  \/ task'[t] = "running" /\ \A p \in op[t].args : outcome[p] \in Values
           \/ task'[t] = "failed" /\ \E p \in op[t].args : outcome[p] = "error"
           \/ task'[t] = "failed" /\ t \in done
<1>0. op[t].name \in Builtins /\ task \in [Threads -> {"none", "running", "asleep", "failed",
                                                      "rejecting", "leaving", "ended"}]
    BY DEF Builtins, TypeOK
<1>1. task[t] = "running"
    BY <1>0 DEF TypeOK
<1>2. JoinStep(t) \/ CallerDone(t)
  <2>1. op'[t] # op[t] /\ ~SelectStep(t) /\ ~AnyTrueStep(t)
      BY DEF SelectStep, AnyTrueStep
  <2>2. \A name, on, args : ~Block(t, name, on, args)
      BY NoOpType DEF Block, Calls, AtWork
  <2> QED BY <2>1, <2>2, OpSteps
<1>3. CASE CallerDone(t)
    BY <1>0, <1>3 DEF CallerDone, Raises
<1>4. CASE JoinStep(t)
  <2>1. \/ Raises(t) /\ \E p \in op[t].args : outcome[p] = "error"
        \/ Returns(t) /\ \A p \in op[t].args : outcome[p] \in Values
      BY <1>4, JoinStepCases
  <2>2. (Raises(t) => task'[t] = "failed") /\ (Returns(t) => task'[t] = "running")
      BY <1>0, <1>1 DEF Raises, Returns
  <2> QED BY <2>1, <2>2
<1> QED BY <1>2, <1>3, <1>4

-----------------------------------------------------------------------------
\* The invariant, and what follows from it.

\* However tasks race, nest, fail, are cancelled, signalled, rejected or shut down,
\* every reachable state satisfies PromiseInv.
THEOREM Invariance == Spec => []PromiseInv
<1>1. Init => PromiseInv
    BY TypeInit, TaskInit, NestInit, RaceInit, JoinInit DEF PromiseInv
<1>2. PromiseInv /\ [Next]_vars => PromiseInv'
    BY TypeStep, TaskStep, QuietStep, NestStep, RaceStep, JoinInvStep DEF PromiseInv
<1> QED BY <1>1, <1>2, PTL DEF Spec

\* Promises, threads and contexts keep their types; a thread in a blocking builtin is
\* at work and waits for something.
THEOREM TypeCorrect == Spec => []TypeOK
<1>1. PromiseInv => TypeOK
    BY DEF PromiseInv
<1> QED BY <1>1, Invariance, PTL

\* doCancel() and spawnFunc(): a task cancelled at work never rejects and is never
\* reported as lost, unless its maker allowed reject() on it.
THEOREM CancelStaysQuiet == Spec => []CancelIsQuiet
<1>1. PromiseInv => CancelIsQuiet
    BY DEF PromiseInv
<1> QED BY <1>1, Invariance, PTL

\* join() of async.go returns only when none of its arguments is rejected, whenever it
\* awaited them and whatever was tried on them since, and raises only for a rejected one
\* or because the caller's context is done.
THEOREM JoinStaysHonest == Spec => JoinIsHonest
<1>1. PromiseInv /\ [Next]_vars
      => [\A t \in Threads :
            op[t].name = "join" /\ op'[t].name = "none" =>
               \/ task'[t] = "running" /\ \A p \in op[t].args : outcome[p] \in Values
               \/ task'[t] = "failed" /\ \E p \in op[t].args : outcome[p] = "error"
               \/ task'[t] = "failed" /\ t \in done]_vars
    BY JoinEnds DEF PromiseInv
<1> QED BY <1>1, Invariance, PTL DEF Spec, JoinIsHonest

\* any_true() of async.go comes back with False only when all arguments were falsy,
\* and otherwise only after a truthy or rejected one, with every other one cancelled
\* that can be, or because the caller's context is done.
THEOREM AnyTrueIsDecided == Spec => AnyTrueDecides
<1>1. PromiseInv /\ [Next]_vars
      => [\A t \in Threads :
            op[t].name = "any_true" /\ op'[t].name = "none" =>
               \/ \A p \in op[t].args : outcome[p] = "none"
               \/ /\ \E p \in op[t].args : outcome[p] \in {"true", "error"}
                  /\ op[t].args \cap cancellable \subseteq canceling'
               \/ t \in done]_vars
    BY AnyTrueStepDecides DEF PromiseInv
<1> QED BY <1>1, Invariance, PTL DEF Spec, AnyTrueDecides
=============================================================================
