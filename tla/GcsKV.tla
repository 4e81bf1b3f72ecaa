-------------------------------- MODULE GcsKV --------------------------------
(***************************************************************************)
(* The Cloud Storage store (gcp/kv.go) for one key: the nodes that call    *)
(* it, one request after the other, and the object behind the key. A call  *)
(* is up to four requests (create, attributes, body, conditional write or  *)
(* delete), and other nodes, the clock, lost answers and requests that     *)
(* arrive after their caller gave up come in between.                      *)
(***************************************************************************)
EXTENDS Integers, FiniteSets

CONSTANTS
    Nodes,    \* owners: every instance has its own
    Values,   \* object bodies
    None,     \* no value and no owner
    Uses,     \* ways to use the key: the calls each node may make, and the age at
              \* which the bucket's lifecycle rule drops an object (0: no rule)
    Skew,     \* a node's clock is off the store's by at most this
    MaxTime,  \* bound on the clock
    MaxGen,   \* bound on the number of writes
    MaxLate   \* bound on requests still on their way after their call ended

Ops  == {"put", "cas", "get", "delete", "delete_if", "renew"}
Call == [op : Ops, val : Values, old : Values, ttl : Nat]

Use  == [calls : [Nodes -> SUBSET Call], age : Nat]

ASSUME UsesAssumption  == Uses \subseteq Use
ASSUME NoneAssumption  == None \notin Nodes /\ None \notin Values
ASSUME ClockAssumption == Skew \in Nat /\ MaxTime \in Nat

VARIABLES
    calls,    \* calls[n]: the calls node n may make
    age,      \* the age in the lifecycle rule
    obj,      \* the object; generation 0 when there is none
    nextGen,  \* the generation the next write gets
    now,      \* the store's clock
    cl,       \* cl[n]: the call node n is in, or its last one
    late,     \* requests whose caller gave up and that may still arrive
    until,    \* history: the time until which a node may think it has the lease
    last      \* history: the operation that last changed the object

vars == <<calls, age, obj, nextGen, now, cl, late, until, last>>

Object ==
    [gen : Nat, val : Values \cup {None}, owner : Nodes \cup {None},
     ttl : Nat, updated : Nat]
NoObject == [gen |-> 0, val |-> None, owner |-> None, ttl |-> 0, updated |-> 0]

\* entryState: one snapshot of the key.
EntryState ==
    [gen : Nat, val : Values \cup {None}, owner : Nodes \cup {None}, expires : Nat]
NoEntry == [gen |-> 0, val |-> None, owner |-> None, expires |-> 0]

NoCall == [op |-> "none", val |-> None, old |-> None, ttl |-> 0]

\* Which request of the call is on its way.
Sending == {"create", "send"}
Steps   == {"idle", "attrs", "body"} \cup Sending

Client ==
    [step : Steps, call : Call \cup {NoCall}, e : EntryState,
     start : Nat,  \* history: when a call that may get the lease was made
     got : {"none", "present", "absent"}]  \* what the last call, a Get, returned

\* Between calls a node keeps nothing of the last one but what a Get found.
Idle(answer) ==
    [step |-> "idle", call |-> NoCall, e |-> NoEntry, start |-> 0, got |-> answer]

Request == [node : Nodes, call : Call, gen : Nat, val : Values \cup {None}]

-----------------------------------------------------------------------------
\* Mutant of ExpiryAt: a sentinel other than the zero time.
ExpiryAtSentinel(t, ttl) == IF ttl = 0 THEN -1 ELSE t + ttl

\* ttl_ms counts from the store's own write time; without it the key is permanent.
\* A ttl is in milliseconds here, as write() stores it: it cuts the rest off, and a
\* ttl below one, which Renew does not refuse, makes a permanent key like none at all.
ExpiryAt(t, ttl) == IF ttl = 0 THEN 0 ELSE t + ttl
Expires == ExpiryAt(obj.updated, obj.ttl)

Live(expires, t) == expires = 0 \/ expires > t

\* What g.now() can return.
Clock == {t \in 0..(now + Skew) : now <= t + Skew}

Init ==
    /\ \E u \in Uses : calls = u.calls /\ age = u.age
    /\ obj = NoObject /\ nextGen = 1 /\ now = 1
    /\ cl = [n \in Nodes |-> Idle("none")]
    /\ late = {}
    /\ until = [n \in Nodes |-> 0]
    /\ last = "none"

-----------------------------------------------------------------------------
\* A call and its read.

\* The request that a call starts with.
FirstStep(c) ==
    CASE c.op = "put"    -> "create"
      [] c.op = "delete" -> "send"
      [] OTHER           -> "attrs"

\* Renew refuses a call without a ttl before it sends anything. A node that
\* gives the key up no longer counts on the lease.
Begin(n, c) ==
    /\ cl[n].step = "idle"
    /\ cl' = [cl EXCEPT ![n] =
                 IF c.op = "renew" /\ c.ttl = 0 THEN Idle("none")
                 ELSE [Idle("none") EXCEPT
                          !.step = FirstStep(c), !.call = c,
                          !.start = IF c.op \in {"put", "renew"} THEN now ELSE 0]]
    /\ until' = IF c.op \in {"delete", "delete_if"} THEN [until EXCEPT ![n] = 0] ELSE until
    /\ UNCHANGED <<calls, age, obj, nextGen, now, late, last>>

\* The call ends without a change: false, or for Get no value.
ReturnFalse(n) ==
    /\ cl' = [cl EXCEPT ![n] = Idle(IF cl[n].call.op = "get" THEN "absent" ELSE "none")]
    /\ until' = IF cl[n].call.op = "renew" THEN [until EXCEPT ![n] = 0] ELSE until

\* read(), first request: the attributes.
Attrs(n) ==
    /\ cl[n].step = "attrs"
    /\ \/ obj.gen = 0 /\ ReturnFalse(n)
       \/ /\ obj.gen # 0
          /\ cl' = [cl EXCEPT ![n].step = "body",
                              ![n].e = [gen |-> obj.gen, val |-> None,
                                        owner |-> obj.owner, expires |-> Expires]]
          /\ UNCHANGED until
    /\ UNCHANGED <<calls, age, obj, nextGen, now, late, last>>

\* Mutant of Judgement: renew does not look at the owner.
JudgementAnyOwner(n, e, t) ==
    LET c == cl[n].call IN
    \/ c.op = "put"       /\ ~Live(e.expires, t)
    \/ c.op = "cas"       /\ Live(e.expires, t) /\ e.val = c.old
    \/ c.op = "delete_if" /\ e.val = c.old
    \/ c.op = "renew"     /\ e.expires # 0 /\ Live(e.expires, t)
    \/ c.op = "get"       /\ Live(e.expires, t)

\* The test each operation makes on what it has read at its time t.
Judgement(n, e, t) ==
    LET c == cl[n].call IN
    \/ c.op = "put"       /\ ~Live(e.expires, t)
    \/ c.op = "cas"       /\ Live(e.expires, t) /\ e.val = c.old
    \/ c.op = "delete_if" /\ e.val = c.old
    \/ c.op = "renew"     /\ e.expires # 0 /\ Live(e.expires, t) /\ e.owner = n
    \/ c.op = "get"       /\ Live(e.expires, t)

\* read(), second request: the body of the generation the attributes named,
\* which is gone once the object has been replaced; then the test.
Body(n) ==
    LET e == [cl[n].e EXCEPT !.val = obj.val]
        c == cl[n].call
    IN  /\ cl[n].step = "body"
        /\ \/ obj.gen # cl[n].e.gen /\ ReturnFalse(n)
           \/ /\ obj.gen = cl[n].e.gen
              /\ \E t \in Clock :
                    \/ ~Judgement(n, e, t) /\ ReturnFalse(n)
                    \/ /\ Judgement(n, e, t) /\ c.op = "get"
                       /\ cl' = [cl EXCEPT ![n] = Idle("present")]
                       /\ UNCHANGED until
                    \/ /\ Judgement(n, e, t) /\ c.op # "get"
                       /\ cl' = [cl EXCEPT ![n].step = "send", ![n].e = e]
                       /\ UNCHANGED until
        /\ UNCHANGED <<calls, age, obj, nextGen, now, late, last>>

-----------------------------------------------------------------------------
\* Writes and deletes. Generation 0 as the precondition is DoesNotExist.

RequestOf(n) ==
    LET c == cl[n].call IN
    [node |-> n, call |-> c, gen |-> cl[n].e.gen,
     val |-> IF c.op = "renew" THEN cl[n].e.val ELSE c.val]

IsDelete(c) == c.op \in {"delete", "delete_if"}

\* Mutant of Matches: a write after read() carries no precondition.
MatchesAnyGeneration(r) == r.call.op = "delete" \/ r.gen # 0 \/ r.gen = obj.gen

\* The precondition holds; an unconditional delete has none.
Matches(r) == r.call.op = "delete" \/ r.gen = obj.gen

\* The store (external) carries a request out, or refuses it (412).
Apply(r) ==
    IF ~Matches(r) THEN UNCHANGED <<obj, nextGen, last>>
    ELSE /\ last' = r.call.op
         /\ \/ IsDelete(r.call) /\ obj' = NoObject /\ UNCHANGED nextGen
            \/ /\ ~IsDelete(r.call)
               /\ nextGen <= MaxGen
               /\ obj' = [gen |-> nextGen, val |-> r.val, owner |-> r.node,
                          ttl |-> r.call.ttl, updated |-> now]
               /\ nextGen' = nextGen + 1

\* The lease counts from before the call that got it was made.
Leased(n) ==
    IF cl[n].call.op \in {"put", "renew"}
    THEN [until EXCEPT ![n] = cl[n].start + cl[n].call.ttl]
    ELSE until

\* The answer arrives: done, or, after the fast path of PutIfAbsent, on to read().
Answered(n) ==
    /\ cl[n].step \in Sending
    /\ Apply(RequestOf(n))
    /\ \/ /\ Matches(RequestOf(n))
          /\ cl' = [cl EXCEPT ![n] = Idle("none")]
          /\ until' = Leased(n)
       \/ /\ ~Matches(RequestOf(n)) /\ cl[n].step = "create"
          /\ cl' = [cl EXCEPT ![n].step = "attrs"]
          /\ UNCHANGED until
       \/ /\ ~Matches(RequestOf(n)) /\ cl[n].step = "send"
          /\ ReturnFalse(n)
    /\ UNCHANGED <<calls, age, now, late>>

\* The answer is lost and the storage client, taking a request with a
\* precondition as idempotent, sends it again.
Retried(n) ==
    /\ cl[n].step \in Sending /\ cl[n].call.op # "delete"
    /\ Matches(RequestOf(n))
    /\ Apply(RequestOf(n))
    /\ UNCHANGED <<calls, age, now, cl, late, until>>

\* A request fails for good; the node learns of an error only.
Fails(n) ==
    /\ cl[n].step # "idle"
    /\ cl' = [cl EXCEPT ![n] = Idle("none")]
    /\ UNCHANGED <<calls, age, obj, nextGen, now, late, until, last>>

\* The call's context ends, or its instance dies, with the request on its way.
GivesUp(n) ==
    /\ cl[n].step \in Sending
    /\ Cardinality(late) < MaxLate
    /\ late' = late \cup {RequestOf(n)}
    /\ cl' = [cl EXCEPT ![n] = Idle("none")]
    /\ UNCHANGED <<calls, age, obj, nextGen, now, until, last>>

ArrivesLate(r) ==
    /\ Apply(r)
    /\ late' = late \ {r}
    /\ UNCHANGED <<calls, age, now, cl, until>>

-----------------------------------------------------------------------------
\* The lifecycle rule that Provision gives the bucket: by age, whatever the lease.
Lifecycle ==
    /\ age > 0 /\ obj.gen # 0
    /\ now >= obj.updated + age
    /\ obj' = NoObject
    /\ UNCHANGED <<calls, age, nextGen, now, cl, late, until, last>>

Tick ==
    /\ now < MaxTime
    /\ now' = now + 1
    /\ UNCHANGED <<calls, age, obj, nextGen, cl, late, until, last>>

Next ==
    \/ \E n \in Nodes :
          \/ \E c \in calls[n] : Begin(n, c)
          \/ Attrs(n) \/ Body(n)
          \/ Answered(n) \/ Retried(n) \/ Fails(n) \/ GivesUp(n)
    \/ \E r \in late : ArrivesLate(r)
    \/ Lifecycle
    \/ Tick

Spec == Init /\ [][Next]_vars

-----------------------------------------------------------------------------
\* Type invariant of the object, the calls and the requests on their way; an
\* expiry is the zero time or a time.
TypeOK ==
    /\ calls \in [Nodes -> SUBSET Call] /\ age \in Nat
    /\ obj \in Object
    /\ nextGen \in Nat /\ now \in Nat
    /\ cl \in [Nodes -> Client]
    /\ late \subseteq Request
    /\ until \in [Nodes -> Nat]
    /\ last \in Ops \cup {"none"}

\* The inductive invariant. A generation is never given out twice, so what was
\* read of one stays true while the object is at it: everything rests on this.
Writes == {"put", "cas", "renew"}
Leases == {c \in UNION {calls[n] : n \in Nodes} : c.op \in Writes}

ObjectInv ==
    /\ obj.gen < nextGen /\ obj.updated <= now
    /\ obj.gen # 0 => \E c \in Leases : obj.ttl = c.ttl

\* What a request may still count on when it arrives, however late.
Counts(r) ==
    LET c == r.call IN
    /\ c \in calls[r.node] /\ c.op # "get"
    /\ c.op # "renew" => r.val = c.val
    /\ r.gen = 0 => c.op \in {"put", "delete"}
    /\ r.gen < nextGen
    /\ r.gen # 0 /\ r.gen = obj.gen =>
          /\ c.op = "put" => Expires # 0 /\ Expires <= now + Skew
          /\ c.op \in {"cas", "delete_if"} => obj.val = c.old
          /\ c.op = "renew" => /\ c.ttl # 0 /\ Expires # 0
                               /\ obj.owner = r.node /\ obj.val = r.val

\* What a node in the middle of a call may count on.
CallInv(n) ==
    LET c == cl[n] IN
    /\ c.start <= now
    /\ c.step # "idle" => c.call \in calls[n]
    /\ c.step \in {"attrs", "body"} =>
          c.call.op # "delete" /\ (c.call.op = "renew" => c.call.ttl # 0)
    /\ c.step = "body" =>
          /\ c.e.gen # 0 /\ c.e.gen < nextGen
          /\ c.e.gen = obj.gen => c.e.owner = obj.owner /\ c.e.expires = Expires
    /\ c.step = "create" => c.call.op = "put" /\ c.e = NoEntry
    /\ c.step \in Sending => Counts(RequestOf(n))

\* What every node between two requests, and every request that was sent, may
\* count on when the store carries it out.
GcsInv ==
    /\ ObjectInv
    /\ \A n \in Nodes : CallInv(n)
    /\ \A r \in late : Counts(r)

-----------------------------------------------------------------------------
\* The store as its callers see it.
entry ==
    IF obj.gen = 0 THEN {}
    ELSE {[val |-> obj.val, owner |-> obj.owner, expires |-> Expires]}

Store == INSTANCE LeaseStore WITH Lag <- TRUE

\* However their requests interleave, are lost, repeated or late, put_if_absent
\* takes the key only from a lapsed lease (up to the clock skew), compare_and_swap
\* and the conditional delete touch only the value they named, and renew only the
\* caller's own lease, without changing its value.
ImplementsLeaseStore == Store!Spec

\* A script's use of the key as a lock: it claims under its own value, renews and
\* releases by that value, always with the same ttl.
LockCall(n, c) ==
    \/ c.op = "get"
    \/ c.op = "put" /\ c.val = n
    \/ c.op = "renew"
    \/ c.op = "delete_if" /\ c.old = n
LockDiscipline ==
    /\ \A n \in Nodes : \A c \in calls[n] : LockCall(n, c)
    /\ \A c, d \in Leases : c.ttl = d.ttl /\ c.ttl > 0

\* The lifecycle rule waits out every lease and there is no permanent key.
LifecycleHarmless ==
    age > 0 => \A c \in Leases : c.ttl \in 1..age

Holds(n) == now + Skew < until[n]

\* Two nodes that use the key as a lock, and let go of it the clock skew early,
\* never hold it at the same time.
MutualExclusion ==
    LockDiscipline /\ LifecycleHarmless => \A m, n \in Nodes : Holds(m) /\ Holds(n) => m = n

\* Why: a holder's object is still there and expires no sooner than it thinks,
\* and a release still on its way, however late, is not one of a holder's object.
LockKept ==
    /\ obj.gen # 0 => obj.val = obj.owner /\ \A c \in Leases : obj.ttl = c.ttl
    /\ \A n \in Nodes : Holds(n) => obj.gen # 0 /\ obj.owner = n /\ until[n] <= Expires
    /\ \A n \in Nodes : cl[n].step # "idle" /\ cl[n].call.op = "delete_if" => until[n] = 0
    /\ \A r \in late : r.call.op = "delete_if" /\ r.gen = obj.gen => until[r.node] = 0
LockInv == LockDiscipline /\ LifecycleHarmless => LockKept

-----------------------------------------------------------------------------
\* What the repository says of the store and the code does not do.

\* kv.go, on Get: "returns the current live value and whether it is present. The
\* read must be consistent": a Get that ends without a value ends while there is
\* no live value.
GetIsConsistent ==
    [][\A n \in Nodes :
         cl[n].step = "body" /\ cl[n].call.op = "get" /\ cl'[n].got = "absent"
           => obj.gen = 0 \/ ~Live(Expires, now + Skew)]_vars
=============================================================================
