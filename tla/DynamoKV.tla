------------------------------- MODULE DynamoKV -------------------------------
(***************************************************************************)
(* The DynamoDB store (aws/kv.go) for one key: the table, the item behind  *)
(* the key and the nodes that call it. Every call is one request that      *)
(* carries its condition and, unlike the other stores', the deadline the   *)
(* writer computed from its own clock, in whole seconds. Requests are      *)
(* repeated by the SDK, fail, and some arrive after their call ended.      *)
(* With -kv-create a node first makes sure that the table exists.          *)
(***************************************************************************)
EXTENDS Integers

CONSTANTS
    Nodes,     \* owners: every instance has its own
    Values,    \* values of items
    None,      \* no value and no owner
    Uses,      \* ways to use the key: the calls each node may make, with a ttl in
               \* ticks, and whether nodes start with -kv-create
    Second,    \* ticks of the clock in a second
    Skew,      \* a node's clock is off the true time by at most this many ticks
    MaxTime,   \* bound on the clock
    MaxLate    \* bound on the requests that arrive late, over the whole run

Ops  == {"put", "cas", "get", "delete", "delete_if", "renew"}
Call == [op : Ops, val : Values, old : Values, ttl : Nat]

ASSUME UsesAssumption  == Uses \subseteq [calls : [Nodes -> SUBSET Call], kvCreate : BOOLEAN]
ASSUME NoneAssumption  == None \notin Nodes /\ None \notin Values
ASSUME ClockAssumption == Second \in Nat \ {0} /\ Skew \in Nat /\ MaxTime \in Nat
ASSUME LateAssumption  == MaxLate \in Nat

VARIABLES
    use,    \* the use of the key in this behaviour
    item,   \* the item; owner None when there is none
    table,  \* the state of the table
    ttlOn,  \* whether DynamoDB reaps expired items
    now,    \* the true time
    cl,     \* cl[n]: what node n is doing
    late,   \* requests that may arrive after their call ended
    stray,  \* how many of those there have been
    until   \* history: the time until which a node may think it has the lease; 0 too
            \* once a late request of its own has cut that lease short

vars == <<use, item, table, ttlOn, now, cl, late, stray, until>>

\* A permanent item has no expires_at.
Permanent == -1
Item   == [val : Values \cup {None}, owner : Nodes \cup {None}, expires : Int]
NoItem == [val |-> None, owner |-> None, expires |-> Permanent]
Exists == item.owner # None

Request == [node : Nodes, op : Ops, val : Values, old : Values, expires : Int, at : Int]
NoRequest == [node |-> None, op |-> "none", val |-> None, old |-> None, expires |-> 0, at |-> 0]

\* The steps of Provision, and of a call.
Boot  == {"describe", "create", "wait", "ttl"}
Steps == Boot \cup {"ready", "sent", "read", "down"}

Client ==
    [step : Steps, req : Request \cup {NoRequest},
     lease : Nat,  \* history: until when the lease would be, counted from the call
     seen : Item,
     got : {"none", "present", "absent"}]  \* what the last call, a Get, returned
At(s, answer) ==
    [step |-> s, req |-> NoRequest, lease |-> 0, seen |-> NoItem, got |-> answer]
Ready(n) == cl[n].step = "ready"

Init ==
    /\ use \in Uses
    /\ item = NoItem
    /\ table = IF use.kvCreate THEN "absent" ELSE "active"
    /\ ttlOn = ~use.kvCreate
    /\ now = Skew + Second
    /\ cl = [n \in Nodes |-> At(IF use.kvCreate THEN "describe" ELSE "ready", "none")]
    /\ late = {} /\ stray = 0
    /\ until = [n \in Nodes |-> 0]

-----------------------------------------------------------------------------
\* Clocks.

\* What time.Now() can return on a node.
Clock == (now - Skew)..(now + Skew)

\* nowUnix(): whole seconds.
Unix(t) == t \div Second

\* item() and Renew: the deadline, with the ttl in whole seconds too.
ExpiryAt(t, ttl) == IF ttl = 0 THEN Permanent ELSE Unix(t) + ttl \div Second

\* Mutant of Lapsed: a lease is over in the second it expires in.
LapsedEarly(e, at) == e # Permanent /\ e <= at

\* "expires_at < :now" of PutIfAbsent; "expires_at > :now" of the others.
Lapsed(e, at) == e # Permanent /\ e < at
Valid(e, at)  == e > at

-----------------------------------------------------------------------------
\* Provision.

Goto(n, s) == cl' = [cl EXCEPT ![n] = At(s, "none")]

Describe(n) ==
    /\ cl[n].step = "describe"
    /\ Goto(n, IF table = "absent" THEN "create" ELSE "ready")
    /\ UNCHANGED <<use, item, table, ttlOn, now, late, stray, until>>

\* CreateTable of a table that another node has created by now is an error.
Create(n) ==
    /\ cl[n].step = "create"
    /\ \/ table = "absent" /\ table' = "creating" /\ Goto(n, "wait")
       \/ table # "absent" /\ Goto(n, "down") /\ UNCHANGED table
    /\ UNCHANGED <<use, item, ttlOn, now, late, stray, until>>

\* The waiter sees the table active.
Waited(n) ==
    /\ cl[n].step = "wait" /\ table = "active"
    /\ Goto(n, "ttl")
    /\ UNCHANGED <<use, item, table, ttlOn, now, late, stray, until>>

EnableTtl(n) ==
    /\ cl[n].step = "ttl"
    /\ ttlOn' = TRUE /\ Goto(n, "ready")
    /\ UNCHANGED <<use, item, table, now, late, stray, until>>

\* A request of Provision fails or the waiter gives up: the process exits.
ProvisionFails(n) ==
    /\ cl[n].step \in Boot /\ Goto(n, "down")
    /\ UNCHANGED <<use, item, table, ttlOn, now, late, stray, until>>

\* The platform starts the instance again.
Restart(n) ==
    /\ cl[n].step = "down" /\ Goto(n, "describe")
    /\ UNCHANGED <<use, item, table, ttlOn, now, late, stray, until>>

TableActive ==
    /\ table = "creating" /\ table' = "active"
    /\ UNCHANGED <<use, item, ttlOn, now, cl, late, stray, until>>

-----------------------------------------------------------------------------
\* Calls.

\* The request, built from two readings of the clock: the deadline's, then :now's.
RequestOf(n, c, t, u) ==
    [node |-> n, op |-> c.op, val |-> c.val, old |-> c.old,
     expires |-> ExpiryAt(t, c.ttl), at |-> Unix(u)]

\* Renew refuses a call without a ttl. A node that gives the key up no longer
\* counts on the lease.
Send(n, c) ==
    /\ Ready(n)
    /\ \E t, u \in Clock :
          /\ t <= u
          /\ cl' = [cl EXCEPT ![n] =
                       IF c.op = "renew" /\ c.ttl = 0 THEN At("ready", "none")
                       ELSE [step |-> "sent", req |-> RequestOf(n, c, t, u),
                             lease |-> IF c.op \in {"put", "renew"} THEN now + c.ttl ELSE 0,
                             seen |-> NoItem, got |-> "none"]]
    /\ until' = IF c.op \in {"delete", "delete_if"} THEN [until EXCEPT ![n] = 0] ELSE until
    /\ UNCHANGED <<use, item, table, ttlOn, now, late, stray>>

\* Mutant of Condition: compare_and_swap looks at the lease only.
ConditionAnyValue(r) ==
    \/ r.op = "put"       /\ (~Exists \/ Lapsed(item.expires, r.at))
    \/ r.op = "cas"       /\ Exists /\ (item.expires = Permanent \/ Valid(item.expires, r.at))
    \/ r.op = "delete"
    \/ r.op = "delete_if" /\ Exists /\ item.val = r.old
    \/ r.op = "renew"     /\ Exists /\ item.expires # Permanent /\ Valid(item.expires, r.at)
                          /\ item.owner = r.node

\* Mutant of Condition: renew does not look at the owner.
ConditionAnyOwner(r) ==
    \/ r.op = "put"       /\ (~Exists \/ Lapsed(item.expires, r.at))
    \/ r.op = "cas"       /\ Exists /\ item.val = r.old
                          /\ (item.expires = Permanent \/ Valid(item.expires, r.at))
    \/ r.op = "delete"
    \/ r.op = "delete_if" /\ Exists /\ item.val = r.old
    \/ r.op = "renew"     /\ Exists /\ item.expires # Permanent /\ Valid(item.expires, r.at)

\* The ConditionExpression of each request.
Condition(r) ==
    \/ r.op = "put"       /\ (~Exists \/ Lapsed(item.expires, r.at))
    \/ r.op = "cas"       /\ Exists /\ item.val = r.old
                          /\ (item.expires = Permanent \/ Valid(item.expires, r.at))
    \/ r.op = "delete"
    \/ r.op = "delete_if" /\ Exists /\ item.val = r.old
    \/ r.op = "renew"     /\ Exists /\ item.expires # Permanent /\ Valid(item.expires, r.at)
                          /\ item.owner = r.node

\* Mutant of Effect: renew puts an item anew and forgets the value.
EffectRenewPuts(r) ==
    CASE r.op \in {"put", "cas"}          -> [val |-> r.val, owner |-> r.node, expires |-> r.expires]
      [] r.op \in {"delete", "delete_if"} -> NoItem
      [] r.op = "renew"                   -> [val |-> None, owner |-> r.node, expires |-> r.expires]

\* What the request does to the item; renew sets its deadline and nothing else.
Effect(r) ==
    CASE r.op \in {"put", "cas"}          -> [val |-> r.val, owner |-> r.node, expires |-> r.expires]
      [] r.op \in {"delete", "delete_if"} -> NoItem
      [] r.op = "renew"                   -> [item EXCEPT !.expires = r.expires]

\* DynamoDB (external) carries a request out, or refuses it.
Apply(r) == table = "active" /\ item' = IF Condition(r) THEN Effect(r) ELSE item

\* The lease counts from before the call that got it was made; a renewal that is
\* refused ends it.
Leased(n, yes) ==
    CASE yes /\ cl[n].req.op \in {"put", "renew"} -> [until EXCEPT ![n] = cl[n].lease]
      [] ~yes /\ cl[n].req.op = "renew"           -> [until EXCEPT ![n] = 0]
      [] OTHER                                    -> until

Answered(n) ==
    /\ cl[n].step = "sent" /\ cl[n].req.op # "get"
    /\ Apply(cl[n].req)
    /\ until' = Leased(n, Condition(cl[n].req))
    /\ Goto(n, "ready")
    /\ UNCHANGED <<use, table, ttlOn, now, late, stray>>

\* The answer is lost and the SDK sends the request again.
Retried(n) ==
    /\ cl[n].step = "sent" /\ cl[n].req.op # "get"
    /\ Apply(cl[n].req)
    /\ UNCHANGED <<use, table, ttlOn, now, cl, late, stray, until>>

\* The SDK sends the request again while the first copy is still on its way.
Straggles(n) ==
    /\ cl[n].step = "sent" /\ cl[n].req.op # "get"
    /\ stray < MaxLate /\ stray' = stray + 1
    /\ late' = late \cup {cl[n].req}
    /\ UNCHANGED <<use, item, table, ttlOn, now, cl, until>>

\* An old renewal or release meets a newer lease of its own node: its condition names
\* the owner or the value, which are the same for both, and the deadline goes back.
CutsShort(r) ==
    Condition(r) /\ item.owner = r.node /\ Effect(r).expires < item.expires

ArrivesLate(r) ==
    /\ Apply(r)
    /\ late' = late \ {r}
    /\ until' = IF CutsShort(r) THEN [until EXCEPT ![r.node] = 0] ELSE until
    /\ UNCHANGED <<use, table, ttlOn, now, cl, stray>>

\* GetItem reads the item; the node judges it by its clock when the answer is in.
GetItem(n) ==
    /\ cl[n].step = "sent" /\ cl[n].req.op = "get" /\ table = "active"
    /\ cl' = [cl EXCEPT ![n].step = "read", ![n].seen = item]
    /\ UNCHANGED <<use, item, table, ttlOn, now, late, stray, until>>

\* Mutant of Present: a second is added in case the clock is behind.
PresentWithMargin(e, t) == e.owner # None /\ (e.expires = Permanent \/ e.expires > Unix(t) + 1)

Present(e, t) == e.owner # None /\ (e.expires = Permanent \/ e.expires > Unix(t))

GetJudged(n) ==
    /\ cl[n].step = "read"
    /\ \E t \in Clock :
          cl' = [cl EXCEPT ![n] = At("ready", IF Present(cl[n].seen, t) THEN "present" ELSE "absent")]
    /\ UNCHANGED <<use, item, table, ttlOn, now, late, stray, until>>

\* The request fails for good, or the table is not there yet.
Fails(n) ==
    /\ cl[n].step = "sent"
    /\ Goto(n, "ready")
    /\ UNCHANGED <<use, item, table, ttlOn, now, late, stray, until>>

-----------------------------------------------------------------------------
\* DynamoDB's TTL: lazy, by its own clock.
Reap ==
    /\ ttlOn /\ Exists /\ Lapsed(item.expires, Unix(now))
    /\ item' = NoItem
    /\ UNCHANGED <<use, table, ttlOn, now, cl, late, stray, until>>

Tick ==
    /\ now < MaxTime
    /\ now' = now + 1
    /\ UNCHANGED <<use, item, table, ttlOn, cl, late, stray, until>>

Next ==
    \/ \E n \in Nodes :
          \/ Describe(n) \/ Create(n) \/ Waited(n) \/ EnableTtl(n)
          \/ ProvisionFails(n) \/ Restart(n)
          \/ \E c \in use.calls[n] : Send(n, c)
          \/ Answered(n) \/ Retried(n) \/ Straggles(n) \/ Fails(n)
          \/ GetItem(n) \/ GetJudged(n)
    \/ \E r \in late : ArrivesLate(r)
    \/ TableActive \/ Reap \/ Tick

Spec == Init /\ [][Next]_vars

-----------------------------------------------------------------------------
\* Type invariant; nothing is written before the table is active.
TypeOK ==
    /\ use \in Uses
    /\ item \in Item /\ table \in {"absent", "creating", "active"} /\ ttlOn \in BOOLEAN
    /\ Exists => table = "active" /\ item.val # None
    /\ now \in Nat /\ stray \in 0..MaxLate
    /\ cl \in [Nodes -> Client]
    /\ \A n \in Nodes : cl[n].step = "sent" => cl[n].req.node = n
    /\ late \subseteq Request
    /\ until \in [Nodes -> Nat]

\* A script's use of the key as a lock, see GcsKV, with a ttl in whole seconds.
LockCall(n, c) ==
    \/ c.op = "get"
    \/ c.op = "put" /\ c.val = n
    \/ c.op = "renew"
    \/ c.op = "delete_if" /\ c.old = n
Leases == {c \in UNION {use.calls[n] : n \in Nodes} : c.op \in {"put", "renew"}}
LockDiscipline ==
    /\ \A n \in Nodes : \A c \in use.calls[n] : LockCall(n, c)
    /\ \A c, d \in Leases : c.ttl = d.ttl /\ c.ttl > 0 /\ c.ttl % Second = 0

\* A lease that has not been cut short by its own node; the writer's clock and the
\* reader's may both be off.
Holds(n) == now + 2 * Skew < until[n]

\* Two nodes that use the key as a lock, and let go of it two clock skews early,
\* never hold it at the same time, although the deadline is rounded down twice: the
\* comparison in PutIfAbsent gives the second back. Whatever comes late, a node loses
\* its lease to a late request of its own only, never to another node's.
MutualExclusion ==
    LockDiscipline => \A m, n \in Nodes : Holds(m) /\ Holds(n) => m = n

\* Why: the item of a holder is there, is its own and does not lapse for any
\* clock before the holder thinks it does, unless it cut the lease short itself.
LockInv ==
    LockDiscipline => \A n \in Nodes : Holds(n) =>
       /\ Exists /\ item.owner = n /\ item.val = n
       /\ item.expires # Permanent
       /\ until[n] - Skew < (item.expires + 1) * Second

\* "Seed election reads its own writes": a holder that has a second of its lease
\* left beyond the skews, and asks, finds the key present. In the last second
\* Get calls a lease gone that PutIfAbsent still respects.
HolderSeesLease ==
    LockDiscipline =>
       \A n \in Nodes : now + 2 * Skew + Second <= until[n] => cl[n].got # "absent"

\* The requests that can be carried out.
Requests == late \cup {cl[n].req : n \in {m \in Nodes : cl[m].step = "sent"}}

\* A change of the item by a swap that names its value, by a delete that names it
\* or names none, and by a renewal of its owner.
Swapped ==
    \E r \in Requests :
       /\ r.op = "cas" /\ r.old = item.val
       /\ item' = [val |-> r.val, owner |-> r.node, expires |-> r.expires]
Deleted ==
    \E r \in Requests :
       /\ r.op = "delete" \/ (r.op = "delete_if" /\ r.old = item.val)
       /\ item' = NoItem
Renewed ==
    \E r \in Requests :
       /\ r.op = "renew" /\ r.node = item.owner
       /\ item.expires # Permanent /\ r.expires # Permanent
       /\ item' = [item EXCEPT !.expires = r.expires]

\* However requests are repeated, late or built by a clock that is off: a permanent
\* item, or one that no clock can take for lapsed, changes in these ways only.
Held == Exists /\ (item.expires = Permanent \/ item.expires >= Unix(now + Skew))
LeaseRespected == [][Held /\ item' # item => Swapped \/ Deleted \/ Renewed]_vars

=============================================================================
