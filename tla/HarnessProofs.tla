---------------------------- MODULE HarnessProofs ----------------------------
(***************************************************************************)
(* Safety of the muster process (main.go) for every start, every number of *)
(* workloads and a signal at any time: what the script may count on when   *)
(* main() runs, what has ended when the process exits, and what the exit   *)
(* status says.                                                            *)
(***************************************************************************)
EXTENDS Harness, TLAPS

BeforeSelf == {"flags", "probe", "open", "self"}
BeforeMain == BeforeSelf \cup {"kv", "provision", "load"}
Scripted   == {"main", "await", "closing"}

\* openProvider() and provisionKV(): the identity is read once and before the
\* store, whose owner is made from it; only a provisioned store lets a start with
\* -kv-create go on.
StartInv ==
    /\ pc \in BeforeSelf => self = "unread" /\ SELF = None
    /\ pc \in BeforeSelf \cup {"kv"} => owner = None /\ ~created
    /\ pc \in {"kv", "provision", "load"} \cup Scripted =>
          self # "unread" /\ SELF = IF self = "error" THEN None ELSE self
    /\ pc \in {"provision", "load"} \cup Scripted /\ owner # None => owner = OwnerID(self)
    /\ pc \in {"load"} \cup Scripted /\ Given("kv-create") => created /\ owner # None

\* doIt(): nothing runs before main() does, and until the loop ends only a signal
\* ends gctx.
AwaitInv ==
    /\ pc \in BeforeMain => sock = "off" /\ \A w \in Workloads : ~Spawned(w)
    /\ pc \in BeforeMain \cup {"main"} => ret = NoPromise /\ ~hard
    /\ pc \in BeforeMain \cup {"main", "await"} => ~cancelled /\ err = None
    /\ pc = "await" => ret.kind # "none"
    /\ hard => signalled

\* What the loop left behind: the error it ended with says how the promise stands.
CloseInv ==
    pc = "closing" =>
       /\ err = None => Outcome = "resolved"
       /\ ret.kind = "spawn" => wl[ret.w].life = "settled" \/ (err = "deadline" /\ signalled)

HarnessInv == TypeOK /\ StartInv /\ AwaitInv /\ CloseInv /\ StoppedBeforeExit /\ ExitIsHonest

-----------------------------------------------------------------------------
\* Types.

LEMMA TypeInit == Init => TypeOK
<1> SUFFICES ASSUME Init PROVE TypeOK
    OBVIOUS
<1>1. NotSpawned \in Workload /\ NoPromise \in Promise
    BY DEF NotSpawned, NoPromise, Workload, Promise
<1>2. ret.kind # "spawn"
    BY DEF Init, NoPromise
<1> QED BY <1>1, <1>2, NoneAssumption DEF Init, TypeOK, Places, Identity

\* A context that is done asks every workload to stop, and moves none.
LEMMA StopAllType ==
    ASSUME wl \in [Workloads -> Workload],
           wl' = [w \in Workloads |-> IF Spawned(w) THEN [wl[w] EXCEPT !.stopping = TRUE]
                                      ELSE wl[w]]
    PROVE  /\ wl' \in [Workloads -> Workload]
           /\ \A w \in Workloads : wl'[w].life = wl[w].life /\ wl'[w].verdict = wl[w].verdict
<1>1. ASSUME NEW w \in Workloads
      PROVE  /\ [wl[w] EXCEPT !.stopping = TRUE] \in Workload
             /\ [wl[w] EXCEPT !.stopping = TRUE].life = wl[w].life
             /\ [wl[w] EXCEPT !.stopping = TRUE].verdict = wl[w].verdict
  <2>1. wl[w] \in Workload
      OBVIOUS
  <2> QED BY <2>1 DEF Workload
<1>2. ASSUME NEW w \in Workloads
      PROVE  wl'[w] = IF Spawned(w) THEN [wl[w] EXCEPT !.stopping = TRUE] ELSE wl[w]
    OBVIOUS
<1>3. ASSUME NEW w \in Workloads PROVE wl'[w] \in Workload
    BY <1>1, <1>2
<1>4. wl' \in [Workloads -> Workload]
    BY <1>3
<1> QED BY <1>1, <1>2, <1>4

\* So does a signal to one workload.
LEMMA StopType ==
    ASSUME wl \in [Workloads -> Workload], NEW w \in Workloads, NEW b \in BOOLEAN,
           wl' = [wl EXCEPT ![w].stopping = b]
    PROVE  /\ wl' \in [Workloads -> Workload]
           /\ \A v \in Workloads : wl'[v].life = wl[v].life /\ wl'[v].verdict = wl[v].verdict
<1>1. wl[w] \in Workload
    OBVIOUS
<1>2. /\ [wl[w] EXCEPT !.stopping = b] \in Workload
      /\ [wl[w] EXCEPT !.stopping = b].life = wl[w].life
      /\ [wl[w] EXCEPT !.stopping = b].verdict = wl[w].verdict
    BY <1>1 DEF Workload
<1>3. wl' = [wl EXCEPT ![w] = [wl[w] EXCEPT !.stopping = b]]
    OBVIOUS
<1> QED BY <1>2, <1>3

\* A workload's own step keeps its type, and moves no other workload.
LEMMA BecomesType ==
    ASSUME wl \in [Workloads -> Workload], NEW w \in Workloads,
           NEW l \in {"idle", "launching", "running", "settled"},
           NEW v \in {"none", "stopped", "exited", "failed"}, Becomes(w, l, v)
    PROVE  /\ wl' \in [Workloads -> Workload]
           /\ wl'[w].life = l /\ wl'[w].verdict = v
           /\ \A u \in Workloads \ {w} : wl'[u] = wl[u]
<1>1. wl[w] \in Workload
    OBVIOUS
<1>2. /\ [wl[w] EXCEPT !.life = l, !.verdict = v] \in Workload
      /\ [wl[w] EXCEPT !.life = l, !.verdict = v].life = l
      /\ [wl[w] EXCEPT !.life = l, !.verdict = v].verdict = v
    BY <1>1 DEF Workload
<1>3. wl' = [wl EXCEPT ![w] = [wl[w] EXCEPT !.life = l, !.verdict = v]]
    BY DEF Becomes
<1> QED BY <1>2, <1>3

\* spawn() gives one workload a life.
LEMMA SpawnType ==
    ASSUME wl \in [Workloads -> Workload], NEW w \in Workloads, Spawn(w),
           signalled \in BOOLEAN, cancelled \in BOOLEAN
    PROVE  /\ wl' \in [Workloads -> Workload]
           /\ wl'[w].life = "idle"
           /\ \A u \in Workloads \ {w} : wl'[u] = wl[u]
<1>1. wl[w] \in Workload /\ gctxDone \in BOOLEAN
    BY DEF gctxDone
<1>2. /\ [wl[w] EXCEPT !.life = "idle", !.stopping = gctxDone] \in Workload
      /\ [wl[w] EXCEPT !.life = "idle", !.stopping = gctxDone].life = "idle"
    BY <1>1 DEF Workload
<1>3. wl' = [wl EXCEPT ![w] = [wl[w] EXCEPT !.life = "idle", !.stopping = gctxDone]]
    BY DEF Spawn
<1> QED BY <1>2, <1>3

\* What settles the promise that is awaited, or asks it to settle.
LEMMA PromiseType ==
    ASSUME ret \in Promise, NEW s \in {"resolved", "rejected"}
    PROVE  /\ [ret EXCEPT !.state = s] \in Promise
           /\ [ret EXCEPT !.state = s].kind = ret.kind
           /\ [ret EXCEPT !.state = s].w = ret.w
           /\ [ret EXCEPT !.state = s].state = s
           /\ [ret EXCEPT !.canceling = TRUE] \in Promise
           /\ [ret EXCEPT !.canceling = TRUE].kind = ret.kind
           /\ [ret EXCEPT !.canceling = TRUE].w = ret.w
           /\ [ret EXCEPT !.canceling = TRUE].state = ret.state
  BY DEF Promise

\* Every step of main.go keeps the variables in their types.
LEMMA TypeStep == TypeOK /\ AwaitInv /\ [Next]_vars => TypeOK'
<1> SUFFICES ASSUME TypeOK, AwaitInv, [Next]_vars PROVE TypeOK'
    OBVIOUS
<1>0. ret.kind = "spawn" => ret.w \in Workloads /\ wl[ret.w].life # "none"
    BY DEF TypeOK, Promise, Spawned
<1> USE <1>0, NoneAssumption DEF TypeOK, Places, Identity, Spawned, startVars, awaitVars
<1>1. CASE ParseFlags
    BY <1>1 DEF ParseFlags, Exit, OnlyPc
<1>2. CASE Probe
    BY <1>2 DEF Probe, Exit, OnlyPc
<1>3. CASE Open
    BY <1>3 DEF Open, Abort, Exit, OnlyPc
<1>4. CASE ReadSelf
    BY <1>4 DEF ReadSelf, Answers
<1>5. CASE OpenStore
    BY <1>5 DEF OpenStore, Answers, OwnerID
<1>6. CASE Provision
  <2>1. created' \in BOOLEAN
      BY <1>6 DEF Provision
  <2> QED BY <1>6, <2>1 DEF Provision, Abort, Exit
<1>7. CASE Load
    BY <1>7 DEF Load, Abort, Exit
<1>8. CASE MainReturns
  <2>1. ret' \in Promise /\ (ret'.kind = "spawn" => ret'.w # None /\ Spawned(ret'.w))
      BY <1>8 DEF MainReturns, Returnable, Promise
  <2>2. ~hard
      BY <1>8 DEF MainReturns, AwaitInv
  <2> QED BY <1>8, <2>1, <2>2 DEF MainReturns
<1>9. CASE MainFails
    BY <1>9, StopAllType DEF MainFails, CancelAll
<1>10. CASE Sigterm
    BY <1>10, StopAllType DEF Sigterm
<1>11. ASSUME NEW s \in {"resolved", "rejected"}, PromiseSettles(s) PROVE TypeOK'
    BY <1>11, PromiseType DEF PromiseSettles
<1>12. CASE AwaitDone
    BY <1>12, StopAllType DEF AwaitDone, CancelAll
<1>13. CASE AwaitShutdown
  <2>0. /\ shutdown' \in BOOLEAN /\ hard' \in BOOLEAN /\ (hard' => ~shutdown')
        /\ UNCHANGED <<setup, pc, code, self, SELF, owner, created, signalled, cancelled, sock, err>>
      BY <1>13 DEF AwaitShutdown
  <2>1. CASE ret.kind = "spawn"
    <3>1. ret.w \in Workloads
        BY <2>1 DEF Promise
    <3>2. wl' = [wl EXCEPT ![ret.w].stopping = TRUE] /\ UNCHANGED ret
        BY <1>13, <2>1 DEF AwaitShutdown, Deliver
    <3>3. wl' \in [Workloads -> Workload] /\ wl'[ret.w].life = wl[ret.w].life
        BY <3>1, <3>2, StopType
    <3> QED BY <2>0, <2>1, <3>1, <3>2, <3>3
  <2>2. CASE ret.kind # "spawn"
    <3>1. ret' \in Promise /\ ret'.kind = ret.kind /\ UNCHANGED wl
        BY <1>13, <2>2, PromiseType DEF AwaitShutdown, Deliver
    <3> QED BY <2>0, <2>2, <3>1
  <2> QED BY <2>1, <2>2
<1>14. CASE AwaitHard
    BY <1>14, StopAllType DEF AwaitHard, CancelAll
<1>15. CASE Close
    BY <1>15 DEF Close, Exit, OnlyPc
<1>16. CASE SocketListens
    BY <1>16 DEF SocketListens
<1>17. CASE SocketCloses
    BY <1>17 DEF SocketCloses
<1>18. CASE SocketFails
    BY <1>18 DEF SocketFails
<1>19. ASSUME NEW w \in Workloads, Spawn(w) PROVE TypeOK'
  <2>1. /\ wl' \in [Workloads -> Workload]
        /\ \A u \in Workloads : wl[u].life # "none" => wl'[u].life # "none"
      BY <1>19, SpawnType DEF Spawn
  <2> QED BY <1>19, <2>1 DEF Spawn
<1>20. ASSUME NEW w \in Workloads, ScriptStops(w) PROVE TypeOK'
  <2>1. /\ wl' \in [Workloads -> Workload]
        /\ \A u \in Workloads : wl[u].life # "none" => wl'[u].life # "none"
      BY <1>20, StopType DEF ScriptStops
  <2> QED BY <1>20, <2>1 DEF ScriptStops
<1>21. ASSUME NEW w \in Workloads, Attempt(w) PROVE TypeOK'
  <2>1. /\ wl' \in [Workloads -> Workload]
        /\ \A u \in Workloads : wl[u].life # "none" => wl'[u].life # "none"
      BY <1>21, BecomesType DEF Attempt
  <2> QED BY <1>21, <2>1 DEF Attempt, Becomes
<1>22. ASSUME NEW w \in Workloads, Settles(w) PROVE TypeOK'
  <2>1. /\ wl' \in [Workloads -> Workload]
        /\ \A u \in Workloads : wl[u].life # "none" => wl'[u].life # "none"
      BY <1>22, BecomesType DEF Settles
  <2> QED BY <1>22, <2>1 DEF Settles, Becomes
<1>23. CASE UNCHANGED vars
    BY <1>23 DEF vars
<1> QED
    BY <1>1, <1>2, <1>3, <1>4, <1>5, <1>6, <1>7, <1>8, <1>9, <1>10, <1>11, <1>12,
       <1>13, <1>14, <1>15, <1>16, <1>17, <1>18, <1>19, <1>20, <1>21, <1>22, <1>23
       DEF Next

-----------------------------------------------------------------------------
\* Start-up.

\* The command line is read once.
LEMMA SetupKept ==
    ASSUME [Next]_vars
    PROVE  setup' = setup /\ (Given("kv-create")' <=> Given("kv-create"))
<1>1. setup' = setup
    BY DEF Next, vars, ParseFlags, Probe, Open, ReadSelf, OpenStore, Provision, Load, OnlyPc,
           MainReturns, MainFails, Sigterm, PromiseSettles, AwaitDone, AwaitShutdown, AwaitHard,
           Close, SocketListens, SocketCloses, SocketFails, Spawn, ScriptStops, Attempt, Settles,
           Becomes
<1> QED BY <1>1 DEF Given, Value

LEMMA StartInit == Init => StartInv
  BY DEF Init, StartInv, BeforeSelf, Scripted

\* An identity that was read is not read again, the store's owner is made from it,
\* and a start with -kv-create gets past provisionKV() only with a store.
LEMMA StartStep == TypeOK /\ StartInv /\ [Next]_vars => StartInv'
<1> SUFFICES ASSUME TypeOK, StartInv, [Next]_vars PROVE StartInv'
    OBVIOUS
<1>0. Given("kv-create")' <=> Given("kv-create")
    BY SetupKept
<1> USE <1>0, NoneAssumption DEF StartInv, BeforeSelf, Scripted, OwnerID, startVars
<1>1. CASE ParseFlags
    BY <1>1 DEF ParseFlags, Exit, OnlyPc
<1>2. CASE Probe
    BY <1>2 DEF Probe, Exit, OnlyPc
<1>3. CASE Open
    BY <1>3 DEF Open, Abort, Exit, OnlyPc
<1>4. CASE ReadSelf
    BY <1>4 DEF ReadSelf, Answers
<1>5. CASE OpenStore
    BY <1>5 DEF OpenStore, Self
<1>6. CASE Provision
    BY <1>6 DEF Provision, Abort, Exit
<1>7. CASE Load
    BY <1>7 DEF Load, Abort, Exit
<1>8. CASE MainReturns
    BY <1>8 DEF MainReturns
<1>9. CASE MainFails
    BY <1>9 DEF MainFails
<1>10. CASE Sigterm
    BY <1>10 DEF Sigterm
<1>11. ASSUME NEW s \in {"resolved", "rejected"}, PromiseSettles(s) PROVE StartInv'
    BY <1>11 DEF PromiseSettles
<1>12. CASE AwaitDone
    BY <1>12 DEF AwaitDone
<1>13. CASE AwaitShutdown
    BY <1>13 DEF AwaitShutdown
<1>14. CASE AwaitHard
    BY <1>14 DEF AwaitHard
<1>15. CASE Close
    BY <1>15 DEF Close, Exit, OnlyPc
<1>16. CASE SocketListens
    BY <1>16 DEF SocketListens
<1>17. CASE SocketCloses
    BY <1>17 DEF SocketCloses
<1>18. CASE SocketFails
    BY <1>18 DEF SocketFails
<1>19. ASSUME NEW w \in Workloads, Spawn(w) PROVE StartInv'
    BY <1>19 DEF Spawn
<1>20. ASSUME NEW w \in Workloads, ScriptStops(w) PROVE StartInv'
    BY <1>20 DEF ScriptStops
<1>21. ASSUME NEW w \in Workloads, Attempt(w) PROVE StartInv'
    BY <1>21 DEF Attempt, Becomes
<1>22. ASSUME NEW w \in Workloads, Settles(w) PROVE StartInv'
    BY <1>22 DEF Settles, Becomes
<1>23. CASE UNCHANGED vars
    BY <1>23 DEF vars
<1> QED
    BY <1>1, <1>2, <1>3, <1>4, <1>5, <1>6, <1>7, <1>8, <1>9, <1>10, <1>11, <1>12,
       <1>13, <1>14, <1>15, <1>16, <1>17, <1>18, <1>19, <1>20, <1>21, <1>22, <1>23
       DEF Next

-----------------------------------------------------------------------------
\* The await loop.

LEMMA AwaitInit == Init => AwaitInv
  BY DEF Init, AwaitInv, BeforeSelf, BeforeMain, Spawned, NotSpawned

\* Until the loop ends gctx is done only with ctx, so the hard deadline is only
\* ever set by a signal.
LEMMA AwaitStep == TypeOK /\ AwaitInv /\ [Next]_vars => AwaitInv'
<1> SUFFICES ASSUME TypeOK, AwaitInv, [Next]_vars PROVE AwaitInv'
    OBVIOUS
<1> USE NoneAssumption DEF AwaitInv, BeforeSelf, BeforeMain, Spawned, startVars, awaitVars
<1>1. CASE ParseFlags
    BY <1>1 DEF ParseFlags, Exit, OnlyPc
<1>2. CASE Probe
    BY <1>2 DEF Probe, Exit, OnlyPc
<1>3. CASE Open
    BY <1>3 DEF Open, Abort, Exit, OnlyPc
<1>4. CASE ReadSelf
    BY <1>4 DEF ReadSelf
<1>5. CASE OpenStore
    BY <1>5 DEF OpenStore
<1>6. CASE Provision
    BY <1>6 DEF Provision, Abort, Exit
<1>7. CASE Load
    BY <1>7 DEF Load, Abort, Exit
<1>8. CASE MainReturns
  <2>1. ret'.kind # "none"
      BY <1>8 DEF MainReturns, Returnable
  <2> QED BY <1>8, <2>1 DEF MainReturns
<1>9. CASE MainFails
    BY <1>9 DEF MainFails, CancelAll
<1>10. CASE Sigterm
    BY <1>10, StopAllType DEF Sigterm, TypeOK
<1>11. ASSUME NEW s \in {"resolved", "rejected"}, PromiseSettles(s) PROVE AwaitInv'
    BY <1>11, PromiseType DEF PromiseSettles, TypeOK, NoPromise
<1>12. CASE AwaitDone
    BY <1>12 DEF AwaitDone, CancelAll
<1>13. CASE AwaitShutdown
  <2>1. signalled
      BY <1>13 DEF AwaitShutdown, gctxDone
  <2>2. ret'.kind = ret.kind
      BY <1>13, PromiseType DEF AwaitShutdown, Deliver, TypeOK
  <2> QED BY <1>13, <2>1, <2>2 DEF AwaitShutdown
<1>14. CASE AwaitHard
    BY <1>14 DEF AwaitHard, CancelAll
<1>15. CASE Close
    BY <1>15 DEF Close, Exit, OnlyPc
<1>16. CASE SocketListens
    BY <1>16 DEF SocketListens
<1>17. CASE SocketCloses
    BY <1>17 DEF SocketCloses
<1>18. CASE SocketFails
    BY <1>18 DEF SocketFails
<1>19. ASSUME NEW w \in Workloads, Spawn(w) PROVE AwaitInv'
    BY <1>19 DEF Spawn
<1>20. ASSUME NEW w \in Workloads, ScriptStops(w) PROVE AwaitInv'
    BY <1>20 DEF ScriptStops
<1>21. ASSUME NEW w \in Workloads, Attempt(w) PROVE AwaitInv'
    BY <1>21 DEF Attempt, Becomes
<1>22. ASSUME NEW w \in Workloads, Settles(w) PROVE AwaitInv'
    BY <1>22 DEF Settles, Becomes
<1>23. CASE UNCHANGED vars
    BY <1>23 DEF vars
<1> QED
    BY <1>1, <1>2, <1>3, <1>4, <1>5, <1>6, <1>7, <1>8, <1>9, <1>10, <1>11, <1>12,
       <1>13, <1>14, <1>15, <1>16, <1>17, <1>18, <1>19, <1>20, <1>21, <1>22, <1>23
       DEF Next

\* The promise stands as it stood when no workload moves.
LEMMA OutcomeKept ==
    ASSUME TypeOK, UNCHANGED ret,
           \A w \in Workloads : wl'[w].life = wl[w].life /\ wl'[w].verdict = wl[w].verdict
    PROVE  /\ Outcome' = Outcome
           /\ ret.kind = "spawn" => wl'[ret.w].life = wl[ret.w].life
<1>1. ret.kind = "spawn" => ret.w \in Workloads
    BY DEF TypeOK, Promise
<1> QED BY <1>1 DEF Outcome

\* A promise that resolved stays resolved, and a settled workload stays settled:
\* neither tasks, nor scripts, nor the workloads' own loops go back on it.
LEMMA SettledKept ==
    ASSUME TypeOK, AwaitInv, [Next]_vars, pc = "closing"
    PROVE  /\ UNCHANGED <<err, ret.kind, ret.w>>
           /\ signalled => signalled'
           /\ Outcome = "resolved" => Outcome' = "resolved"
           /\ ret.kind = "spawn" /\ wl[ret.w].life = "settled" => wl'[ret.w].life = "settled"
<1> DEFINE Kept ==
           /\ UNCHANGED <<err, ret.kind, ret.w>>
           /\ signalled => signalled'
           /\ Outcome = "resolved" => Outcome' = "resolved"
           /\ ret.kind = "spawn" /\ wl[ret.w].life = "settled" => wl'[ret.w].life = "settled"
<1>0. /\ ret.kind = "spawn" => ret.w \in Workloads
      /\ wl \in [Workloads -> Workload] /\ ret \in Promise
    BY DEF TypeOK, Promise
<1> USE <1>0 DEF awaitVars
<1>1. CASE ParseFlags
    BY <1>1 DEF ParseFlags, Exit, OnlyPc
<1>2. CASE Probe
    BY <1>2 DEF Probe, Exit, OnlyPc
<1>3. CASE Open
    BY <1>3 DEF Open, Abort, Exit, OnlyPc
<1>4. CASE ReadSelf
    BY <1>4 DEF ReadSelf
<1>5. CASE OpenStore
    BY <1>5 DEF OpenStore
<1>6. CASE Provision
    BY <1>6 DEF Provision, Abort, Exit
<1>7. CASE Load
    BY <1>7 DEF Load, Abort, Exit
<1>8. CASE MainReturns
    BY <1>8 DEF MainReturns
<1>9. CASE MainFails
    BY <1>9 DEF MainFails
<1>10. CASE Sigterm
  <2>1. \A w \in Workloads : wl'[w].life = wl[w].life /\ wl'[w].verdict = wl[w].verdict
      BY <1>10, StopAllType DEF Sigterm
  <2> QED BY <1>10, <2>1, OutcomeKept DEF Sigterm
<1>11. ASSUME NEW s \in {"resolved", "rejected"}, PromiseSettles(s) PROVE Kept
    BY <1>11, PromiseType DEF PromiseSettles, Outcome
<1>12. CASE AwaitDone
    BY <1>12 DEF AwaitDone
<1>13. CASE AwaitShutdown
    BY <1>13 DEF AwaitShutdown
<1>14. CASE AwaitHard
    BY <1>14 DEF AwaitHard
<1>15. CASE Close
    BY <1>15, OutcomeKept DEF Close, OnlyPc
<1>16. CASE SocketListens
    BY <1>16, OutcomeKept DEF SocketListens
<1>17. CASE SocketCloses
    BY <1>17, OutcomeKept DEF SocketCloses
<1>18. CASE SocketFails
    BY <1>18, OutcomeKept DEF SocketFails
<1>19. ASSUME NEW w \in Workloads, Spawn(w) PROVE Kept
    BY <1>19 DEF Spawn
<1>20. ASSUME NEW w \in Workloads, ScriptStops(w) PROVE Kept
  <2>1. \A u \in Workloads : wl'[u].life = wl[u].life /\ wl'[u].verdict = wl[u].verdict
      BY <1>20, StopType DEF ScriptStops
  <2> QED BY <1>20, <2>1, OutcomeKept DEF ScriptStops
<1>21. ASSUME NEW w \in Workloads, Attempt(w) PROVE Kept
  <2>1. wl[w].life # "settled" /\ \A u \in Workloads \ {w} : wl'[u] = wl[u]
      BY <1>21, BecomesType DEF Attempt
  <2> QED BY <1>21, <2>1 DEF Attempt, Becomes, Outcome
<1>22. ASSUME NEW w \in Workloads, Settles(w) PROVE Kept
  <2>1. wl[w].life # "settled" /\ \A u \in Workloads \ {w} : wl'[u] = wl[u]
      BY <1>22, BecomesType DEF Settles
  <2> QED BY <1>22, <2>1 DEF Settles, Becomes, Outcome
<1>23. CASE UNCHANGED vars
    BY <1>23, OutcomeKept DEF vars
<1> QED
    BY <1>1, <1>2, <1>3, <1>4, <1>5, <1>6, <1>7, <1>8, <1>9, <1>10, <1>11, <1>12,
       <1>13, <1>14, <1>15, <1>16, <1>17, <1>18, <1>19, <1>20, <1>21, <1>22, <1>23
       DEF Next

LEMMA CloseInit == Init => CloseInv
  BY DEF Init, CloseInv

\* The loop ends with the promise's own outcome, or with the deadline a signal set.
LEMMA CloseStep == TypeOK /\ AwaitInv /\ CloseInv /\ [Next]_vars => CloseInv'
<1> SUFFICES ASSUME TypeOK, AwaitInv, CloseInv, [Next]_vars, pc' = "closing"
             PROVE  /\ err' = None => Outcome' = "resolved"
                    /\ ret'.kind = "spawn" =>
                          wl'[ret'.w].life = "settled" \/ (err' = "deadline" /\ signalled')
    BY DEF CloseInv
<1>1. CASE pc = "closing"
    BY <1>1, SettledKept DEF CloseInv
<1>2. CASE pc # "closing"
  <2>1. MainFails \/ AwaitDone \/ AwaitHard
      BY <1>2 DEF Next, vars, ParseFlags, Probe, Open, ReadSelf, OpenStore, Provision, Load,
           Abort, Exit, MainReturns, Sigterm, PromiseSettles, AwaitShutdown,
           Close, SocketListens, SocketCloses, SocketFails, Spawn, ScriptStops, Attempt, Settles,
           Becomes
  <2>2. \A w \in Workloads : wl'[w].life = wl[w].life /\ wl'[w].verdict = wl[w].verdict
      BY <2>1, StopAllType DEF MainFails, AwaitDone, AwaitHard, CancelAll, TypeOK
  <2>3. UNCHANGED <<ret, signalled>>
      BY <2>1 DEF MainFails, AwaitDone, AwaitHard
  <2>4. Outcome' = Outcome /\ (ret.kind = "spawn" => wl'[ret.w].life = wl[ret.w].life)
      BY <2>2, <2>3, OutcomeKept
  <2>5. CASE MainFails
      BY <2>3, <2>5, NoneAssumption DEF MainFails, AwaitInv, NoPromise
  <2>6. CASE AwaitDone
    <3>1. Outcome \in {"pending", "resolved", "rejected"}
      <4>1. ret.state \in {"pending", "resolved", "rejected"}
          BY DEF TypeOK, Promise
      <4> QED BY <4>1 DEF Outcome
    <3>2. Outcome # "pending"
        BY <2>6 DEF AwaitDone
    <3>3. ret.kind = "spawn" => wl[ret.w].life = "settled"
        BY <3>2 DEF Outcome
    <3>4. err' = None => Outcome # "rejected"
        BY <2>6, NoneAssumption DEF AwaitDone
    <3> QED BY <2>3, <2>4, <3>1, <3>2, <3>3, <3>4
  <2>7. CASE AwaitHard
      BY <2>3, <2>7, NoneAssumption DEF AwaitHard, AwaitInv
  <2> QED BY <2>1, <2>5, <2>6, <2>7
<1> QED BY <1>1, <1>2

-----------------------------------------------------------------------------
\* The exit.

\* Nothing happens once the process has exited, and it exits from start-up, with
\* nothing running, or from Close.
LEMMA ExitSteps ==
    ASSUME TypeOK, AwaitInv, [Next]_vars, pc' = "exited"
    PROVE  \/ UNCHANGED <<code, signalled, err, sock, wl, ret>> /\ pc = "exited"
           \/ /\ pc \in BeforeMain /\ UNCHANGED <<sock, wl, ret>>
           \/ Close
<1> DEFINE Goal ==
           \/ UNCHANGED <<code, signalled, err, sock, wl, ret>> /\ pc = "exited"
           \/ /\ pc \in BeforeMain /\ UNCHANGED <<sock, wl, ret>>
           \/ Close
<1> USE DEF BeforeMain, BeforeSelf, awaitVars, startVars
<1>1. CASE ParseFlags
    BY <1>1 DEF ParseFlags, Exit, OnlyPc
<1>2. CASE Probe
    BY <1>2 DEF Probe, Exit, OnlyPc
<1>3. CASE Open
    BY <1>3 DEF Open, Abort, Exit, OnlyPc
<1>4. CASE ReadSelf
    BY <1>4 DEF ReadSelf
<1>5. CASE OpenStore
    BY <1>5 DEF OpenStore
<1>6. CASE Provision
    BY <1>6 DEF Provision, Abort, Exit
<1>7. CASE Load
    BY <1>7 DEF Load, Abort, Exit
<1>8. CASE MainReturns
    BY <1>8 DEF MainReturns
<1>9. CASE MainFails
    BY <1>9 DEF MainFails
<1>10. CASE Sigterm
    BY <1>10 DEF Sigterm
<1>11. ASSUME NEW s \in {"resolved", "rejected"}, PromiseSettles(s) PROVE Goal
    BY <1>11 DEF PromiseSettles
<1>12. CASE AwaitDone
    BY <1>12 DEF AwaitDone
<1>13. CASE AwaitShutdown
    BY <1>13 DEF AwaitShutdown
<1>14. CASE AwaitHard
    BY <1>14 DEF AwaitHard
<1>15. CASE Close
    BY <1>15
<1>16. CASE SocketListens
    BY <1>16 DEF SocketListens
<1>17. CASE SocketCloses
    BY <1>17 DEF SocketCloses
<1>18. CASE SocketFails
    BY <1>18 DEF SocketFails
<1>19. ASSUME NEW w \in Workloads, Spawn(w) PROVE Goal
    BY <1>19 DEF Spawn
<1>20. ASSUME NEW w \in Workloads, ScriptStops(w) PROVE Goal
    BY <1>20 DEF ScriptStops
<1>21. ASSUME NEW w \in Workloads, Attempt(w) PROVE Goal
    BY <1>21 DEF Attempt, Becomes
<1>22. ASSUME NEW w \in Workloads, Settles(w) PROVE Goal
    BY <1>22 DEF Settles, Becomes
<1>23. CASE UNCHANGED vars
    BY <1>23 DEF vars
<1> QED
    BY <1>1, <1>2, <1>3, <1>4, <1>5, <1>6, <1>7, <1>8, <1>9, <1>10, <1>11, <1>12,
       <1>13, <1>14, <1>15, <1>16, <1>17, <1>18, <1>19, <1>20, <1>21, <1>22, <1>23
       DEF Next

LEMMA ExitInit == Init => StoppedBeforeExit /\ ExitIsHonest
  BY DEF Init, StoppedBeforeExit, ExitIsHonest

LEMMA StoppedStep ==
    TypeOK /\ AwaitInv /\ CloseInv /\ StoppedBeforeExit /\ [Next]_vars => StoppedBeforeExit'
<1> SUFFICES ASSUME TypeOK, AwaitInv, CloseInv, StoppedBeforeExit, [Next]_vars, pc' = "exited"
             PROVE  /\ sock' \in {"off", "ended"}
                    /\ ret'.kind = "spawn" =>
                          wl'[ret'.w].life = "settled" \/ (err' = "deadline" /\ signalled')
    BY DEF StoppedBeforeExit
<1>1. CASE pc = "exited" /\ UNCHANGED <<code, signalled, err, sock, wl, ret>>
    BY <1>1 DEF StoppedBeforeExit
<1>2. CASE pc \in BeforeMain /\ UNCHANGED <<sock, wl, ret>>
    BY <1>2 DEF AwaitInv, NoPromise
<1>3. CASE Close
    BY <1>3 DEF Close, OnlyPc, awaitVars, CloseInv
<1> QED BY <1>1, <1>2, <1>3, ExitSteps

LEMMA HonestStep ==
    TypeOK /\ AwaitInv /\ CloseInv /\ ExitIsHonest /\ [Next]_vars => ExitIsHonest'
<1> SUFFICES ASSUME TypeOK, AwaitInv, CloseInv, ExitIsHonest, [Next]_vars, pc' = "exited",
                    code' = 0
             PROVE  \/ Outcome' = "resolved"
                    \/ /\ ret'.kind = "none" /\ sock' = "off"
                       /\ \A w \in Workloads : ~Spawned(w)'
    BY DEF ExitIsHonest
<1>1. CASE pc = "exited" /\ UNCHANGED <<code, signalled, err, sock, wl, ret>>
    BY <1>1 DEF ExitIsHonest, Outcome, Spawned
<1>2. CASE pc \in BeforeMain /\ UNCHANGED <<sock, wl, ret>>
    BY <1>2 DEF AwaitInv, NoPromise, Spawned
<1>3. CASE Close
  <2>1. err = None
      BY <1>3 DEF Close, Exit
  <2>2. Outcome = "resolved"
      BY <1>3, <2>1 DEF Close, CloseInv
  <2> QED BY <1>3, <2>2 DEF Close, OnlyPc, awaitVars, Outcome
<1> QED BY <1>1, <1>2, <1>3, ExitSteps

-----------------------------------------------------------------------------
\* The invariant, and what follows from it.

\* Whatever the command line, the environment and the platform, whenever a signal
\* comes and however workloads, tasks and scripts behave, every reachable state of
\* the process satisfies HarnessInv.
THEOREM Invariance == Spec => []HarnessInv
<1>1. Init => HarnessInv
    BY TypeInit, StartInit, AwaitInit, CloseInit, ExitInit DEF HarnessInv
<1>2. HarnessInv /\ [Next]_vars => HarnessInv'
    BY TypeStep, StartStep, AwaitStep, CloseStep, StoppedStep, HonestStep DEF HarnessInv
<1> QED BY <1>1, <1>2, PTL DEF Spec

\* The process is always in one of the places of main() and doIt(), it has an exit
\* code exactly when it has exited, and the hard deadline runs only after the
\* shutdown signal was taken from the select.
THEOREM TypeCorrect == Spec => []TypeOK
<1>1. HarnessInv => TypeOK
    BY DEF HarnessInv
<1> QED BY <1>1, Invariance, PTL

\* Once the script runs, the leases of its store belong to the instance that it
\* knows as SELF (openProvider reads the identity before the store is built, and
\* once), and with -kv-create there is a store that was provisioned (provisionKV).
THEOREM StoreIsAsPromised == Spec => []StoreAsPromised
<1>1. HarnessInv => StoreAsPromised
  <2> SUFFICES ASSUME HarnessInv, pc \in Scripted
               PROVE  /\ owner # None => owner = OwnerID(self) /\ (SELF = "id" <=> owner = "id")
                      /\ Given("kv-create") => created /\ owner # None
      BY DEF StoreAsPromised, Scripted
  <2>1. SELF = IF self = "error" THEN None ELSE self
      BY DEF HarnessInv, StartInv
  <2>2. owner # None => owner = OwnerID(self)
      BY DEF HarnessInv, StartInv
  <2>3. SELF = "id" <=> OwnerID(self) = "id"
      BY <2>1, NoneAssumption DEF OwnerID
  <2> QED BY <2>2, <2>3 DEF HarnessInv, StartInv
<1> QED BY <1>1, Invariance, PTL

\* On every way out the control socket is closed, and the workload that main()
\* returned has settled unless a signal's hard deadline passed first (doIt's loop
\* and g.Wait()).
THEOREM StoppedAtExit == Spec => []StoppedBeforeExit
<1>1. HarnessInv => StoppedBeforeExit
    BY DEF HarnessInv
<1> QED BY <1>1, Invariance, PTL

\* A process that reached main() exits with 0 only when the promise it awaited
\* resolved; an error on the way is never lost.
THEOREM ExitStatusHonest == Spec => []ExitIsHonest
<1>1. HarnessInv => ExitIsHonest
    BY DEF HarnessInv
<1> QED BY <1>1, Invariance, PTL
=============================================================================
