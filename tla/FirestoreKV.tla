----------------------------- MODULE FirestoreKV -----------------------------
(***************************************************************************)
(* The Firestore store (gcp/firestore.go) for one key. A conditional       *)
(* operation is a transaction whose function reads the document, judges it *)
(* by the node's clock and writes; after contention the client library     *)
(* runs the function again. The lease runs from the time the server wrote  *)
(* the document.                                                           *)
(***************************************************************************)
EXTENDS Integers

CONSTANTS
    Nodes,        \* owners: every instance has its own
    Values,       \* values of documents
    None,         \* no value and no owner
    Uses,         \* ways to use the key: the calls each node may make
    Skew,         \* a node's clock is off the server's by at most this
    MaxAttempts,  \* how often RunTransaction runs the function
    MaxTime,      \* bound on the clock
    MaxLate       \* bound on the requests that arrive late, over the whole run

Ops  == {"put", "cas", "get", "delete", "delete_if", "renew"}
Call == [op : Ops, val : Values, old : Values, ttl : Nat]

ASSUME UsesAssumption  == Uses \subseteq [Nodes -> SUBSET Call]
ASSUME NoneAssumption  == None \notin Nodes /\ None \notin Values
ASSUME ClockAssumption == Skew \in Nat /\ MaxTime \in Nat
ASSUME BoundAssumption == MaxAttempts \in Nat \ {0} /\ MaxLate \in Nat

VARIABLES
    calls,  \* the use of the key in this behaviour
    doc,    \* the document; owner None when there is none
    now,    \* the server's clock
    cl,     \* cl[n]: the call node n is in
    late,   \* requests whose caller gave up and that may still arrive
    stray,  \* how many of those there have been
    until,  \* history: the time until which a node may think it has the lease
    last    \* history: the operation that last changed the document

vars == <<calls, doc, now, cl, late, stray, until, last>>

\* ttl 0: no ttl_ms. The field expires_at, from the writer's clock, is never read.
Doc == [val : Values \cup {None}, owner : Nodes \cup {None}, ttl : Nat, updated : Nat]
NoDoc == [val |-> None, owner |-> None, ttl |-> 0, updated |-> 0]
Exists == doc.owner # None

\* A write in a transaction, or the plain delete.
Request == [node : Nodes, op : Ops, val : Values \cup {None}, ttl : Nat]
NoRequest == [node |-> None, op |-> "none", val |-> None, ttl |-> 0]

NoCall == [op |-> "none", val |-> None, old |-> None, ttl |-> 0]

Client ==
    [step : {"idle", "body", "commit", "delete", "judge"}, call : Call \cup {NoCall},
     attempt : Nat,
     won : BOOLEAN,    \* won, swapped, deleted, renewed: set by the function
     req : Request \cup {NoRequest},
     fresh : BOOLEAN,  \* the document has not changed since it was read
     seen : Doc,
     lease : Nat,      \* history: until when the lease would be, counted from the call
     got : {"none", "present", "absent"}]  \* what the last call, a Get, returned
Idle(answer) ==
    [step |-> "idle", call |-> NoCall, attempt |-> 0, won |-> FALSE, req |-> NoRequest,
     fresh |-> FALSE, seen |-> NoDoc, lease |-> 0, got |-> answer]

\* decode: expiry counts from UpdateTime; zero means permanent. A ttl is in
\* milliseconds, to which payload() cuts it.
ExpiryAt(t, ttl) == IF ttl = 0 THEN 0 ELSE t + ttl
Expires == ExpiryAt(doc.updated, doc.ttl)
Live(expires, t) == expires = 0 \/ expires > t

\* What f.now() can return.
Clock == {t \in 0..(now + Skew) : now <= t + Skew}

Init ==
    /\ calls \in Uses
    /\ doc = NoDoc
    /\ now = 1
    /\ cl = [n \in Nodes |-> Idle("none")]
    /\ late = {} /\ stray = 0
    /\ until = [n \in Nodes |-> 0]
    /\ last = "none"

-----------------------------------------------------------------------------
\* Renew refuses a call without a ttl. A node that gives the key up no longer
\* counts on the lease.
Begin(n, c) ==
    /\ cl[n].step = "idle"
    /\ cl' = [cl EXCEPT ![n] =
                 IF c.op = "renew" /\ c.ttl = 0 THEN Idle("none")
                 ELSE [Idle("none") EXCEPT
                          !.step = CASE c.op = "delete" -> "delete"
                                     [] c.op = "get"    -> "judge"
                                     [] OTHER           -> "body",
                          !.call = c, !.attempt = 1,
                          !.seen = IF c.op = "get" THEN doc ELSE NoDoc,
                          !.lease = IF c.op \in {"put", "renew"} THEN now + c.ttl ELSE 0]]
    /\ until' = IF c.op \in {"delete", "delete_if"} THEN [until EXCEPT ![n] = 0] ELSE until
    /\ UNCHANGED <<calls, doc, now, late, stray, last>>

\* Mutant of Judgement: renew makes a lease of a permanent key.
JudgementPermanent(n, t) ==
    LET c == cl[n].call IN
    \/ c.op = "put"       /\ (~Exists \/ ~Live(Expires, t))
    \/ c.op = "cas"       /\ Exists /\ Live(Expires, t) /\ doc.val = c.old
    \/ c.op = "delete_if" /\ Exists /\ doc.val = c.old
    \/ c.op = "renew"     /\ Exists /\ Live(Expires, t) /\ doc.owner = n

\* The test each function makes on the document at its time t.
Judgement(n, t) ==
    LET c == cl[n].call IN
    \/ c.op = "put"       /\ (~Exists \/ ~Live(Expires, t))
    \/ c.op = "cas"       /\ Exists /\ Live(Expires, t) /\ doc.val = c.old
    \/ c.op = "delete_if" /\ Exists /\ doc.val = c.old
    \/ c.op = "renew"     /\ Exists /\ Expires # 0 /\ Live(Expires, t) /\ doc.owner = n

\* Mutant of Payload: a renewal writes the document without its value.
PayloadRenewEmpty(n) ==
    LET c == cl[n].call IN
    [node |-> n, op |-> c.op, val |-> IF c.op = "renew" THEN None ELSE c.val, ttl |-> c.ttl]

\* payload(), with the value read when it is a renewal.
Payload(n) ==
    LET c == cl[n].call IN
    [node |-> n, op |-> c.op, val |-> IF c.op = "renew" THEN doc.val ELSE c.val,
     ttl |-> c.ttl]

\* Mutant of Verdict: the function does not take back what an earlier run said.
VerdictKept(n, yes) == cl[n].won \/ yes

\* The function starts with won = false.
Verdict(n, yes) == yes

\* The function of the transaction: read, judge, and write or leave it at that.
\* The verdict is one of this run alone.
\* decode() takes a document it cannot read as absent; payload() writes none such,
\* and nothing else writes the collection.
Body(n) ==
    /\ cl[n].step = "body"
    /\ \E t \in Clock :
          cl' = [cl EXCEPT ![n].step = "commit",
                           ![n].won = Verdict(n, Judgement(n, t)),
                           ![n].req = IF Judgement(n, t) THEN Payload(n) ELSE NoRequest,
                           ![n].fresh = TRUE]
    /\ UNCHANGED <<calls, doc, now, late, stray, until, last>>

-----------------------------------------------------------------------------
\* The store (external): a commit goes through if the document is as it was read.

\* Every reader of the document as it was has read an old one, and a commit of
\* theirs that is still on its way will be turned down.
Touch(c) == [n \in Nodes |-> [c[n] EXCEPT !.fresh = FALSE]]
Others == {r \in late : r.op = "delete"}

Write(r) ==
    /\ doc' = IF r.op \in {"delete", "delete_if"} THEN NoDoc
              ELSE [val |-> r.val, owner |-> r.node, ttl |-> r.ttl, updated |-> now]
    /\ last' = r.op

\* The lease counts from before the call that got it was made; a renewal that is
\* refused ends it.
Leased(n, yes) ==
    CASE yes /\ cl[n].call.op \in {"put", "renew"} -> [until EXCEPT ![n] = cl[n].lease]
      [] ~yes /\ cl[n].call.op = "renew"           -> [until EXCEPT ![n] = 0]
      [] OTHER                                     -> until

Answer(n, c) ==
    /\ cl' = [c EXCEPT ![n] = Idle("none")]
    /\ until' = Leased(n, cl[n].won)

\* RunTransaction returns without an error: there was nothing to write, or it is
\* written.
Committed(n) ==
    /\ cl[n].step = "commit"
    /\ \/ /\ cl[n].req = NoRequest
          /\ Answer(n, cl) /\ UNCHANGED <<doc, last, late>>
       \/ /\ cl[n].req # NoRequest /\ cl[n].fresh
          /\ Write(cl[n].req) /\ Answer(n, Touch(cl)) /\ late' = Others
    /\ UNCHANGED <<calls, now, stray>>

\* Contention: the function runs again, or RunTransaction has tried enough.
Aborted(n) ==
    /\ cl[n].step = "commit" /\ cl[n].req # NoRequest /\ ~cl[n].fresh
    /\ cl' = [cl EXCEPT ![n] =
                 IF cl[n].attempt = MaxAttempts THEN Idle("none")
                 ELSE [cl[n] EXCEPT !.step = "body", !.attempt = @ + 1, !.req = NoRequest]]
    /\ UNCHANGED <<calls, doc, now, late, stray, until, last>>

\* Delete without a value is one request, repeated at will.
Deleted(n, answered) ==
    /\ cl[n].step = "delete"
    /\ doc' = NoDoc /\ last' = "delete" /\ late' = Others
    /\ cl' = IF answered THEN [Touch(cl) EXCEPT ![n] = Idle("none")] ELSE Touch(cl)
    /\ UNCHANGED <<calls, now, stray, until>>

\* A call fails and changes nothing.
Fails(n) ==
    /\ cl[n].step # "idle"
    /\ cl' = [cl EXCEPT ![n] = Idle("none")]
    /\ UNCHANGED <<calls, doc, now, late, stray, until, last>>

\* The call's context ends, or its instance dies, with a request on its way.
GivesUp(n) ==
    /\ stray < MaxLate /\ stray' = stray + 1
    /\ \/ cl[n].step = "commit" /\ cl[n].req # NoRequest /\ cl[n].fresh
          /\ late' = late \cup {cl[n].req}
       \/ cl[n].step = "delete"
          /\ late' = late \cup {[NoRequest EXCEPT !.node = n, !.op = "delete"]}
    /\ cl' = [cl EXCEPT ![n] = Idle("none")]
    /\ UNCHANGED <<calls, doc, now, until, last>>

ArrivesLate(r) ==
    /\ Write(r)
    /\ cl' = Touch(cl) /\ late' = Others \ {r}
    /\ UNCHANGED <<calls, now, stray, until>>

\* Mutant of Present: a tick is taken off in case the clock is behind.
PresentEarly(e, t) == e.owner # None /\ Live(ExpiryAt(e.updated, e.ttl), t + 1)

Present(e, t) == e.owner # None /\ Live(ExpiryAt(e.updated, e.ttl), t)

\* Get judges what it read by the clock it has when the answer is in.
GetJudged(n) ==
    /\ cl[n].step = "judge"
    /\ \E t \in Clock :
          cl' = [cl EXCEPT ![n] = Idle(IF Present(cl[n].seen, t) THEN "present" ELSE "absent")]
    /\ UNCHANGED <<calls, doc, now, late, stray, until, last>>

-----------------------------------------------------------------------------
\* A TTL policy on the collection, if there is one, is long after the lease.
Policy ==
    /\ Exists /\ ~Live(Expires, now)
    /\ doc' = NoDoc /\ cl' = Touch(cl) /\ late' = Others
    /\ UNCHANGED <<calls, now, stray, until, last>>

Tick ==
    /\ now < MaxTime
    /\ now' = now + 1
    /\ UNCHANGED <<calls, doc, cl, late, stray, until, last>>

Next ==
    \/ \E n \in Nodes :
          \/ \E c \in calls[n] : Begin(n, c)
          \/ Body(n) \/ Committed(n) \/ Aborted(n)
          \/ \E answered \in BOOLEAN : Deleted(n, answered)
          \/ GetJudged(n) \/ Fails(n) \/ GivesUp(n)
    \/ \E r \in late : ArrivesLate(r)
    \/ Policy \/ Tick

Spec == Init /\ [][Next]_vars

-----------------------------------------------------------------------------
\* Type invariant of the document, the transactions and the late requests.
TypeOK ==
    /\ calls \in Uses
    /\ doc \in Doc /\ (Exists => doc.val # None)
    /\ now \in Nat /\ stray \in 0..MaxLate
    /\ cl \in [Nodes -> Client]
    /\ \A n \in Nodes : cl[n].attempt <= MaxAttempts
    /\ late \subseteq Request
    /\ until \in [Nodes -> Nat]
    /\ last \in Ops \cup {"none"}

\* The store as its callers see it.
entry ==
    IF ~Exists THEN {}
    ELSE {[val |-> doc.val, owner |-> doc.owner, expires |-> Expires]}

Store == INSTANCE LeaseStore WITH Lag <- TRUE

\* However transactions interleave, are run again, given up or arrive late, every
\* change of the document is one the store's contract allows.
ImplementsLeaseStore == Store!Spec

\* A script's use of the key as a lock, see GcsKV.
LockCall(n, c) ==
    \/ c.op = "get"
    \/ c.op = "put" /\ c.val = n
    \/ c.op = "renew"
    \/ c.op = "delete_if" /\ c.old = n
Leases == {c \in UNION {calls[n] : n \in Nodes} : c.op \in {"put", "renew"}}
LockDiscipline ==
    /\ \A n \in Nodes : \A c \in calls[n] : LockCall(n, c)
    /\ \A c, d \in Leases : c.ttl = d.ttl /\ c.ttl > 0

Holds(n) == now + Skew < until[n]

\* Two nodes that use the key as a lock, and let go of it the clock skew early,
\* never hold it at the same time: what a call answers is what the run of its
\* function that committed did, not an earlier one.
MutualExclusion ==
    LockDiscipline => \A m, n \in Nodes : Holds(m) /\ Holds(n) => m = n

\* "Seed election reads its own writes": a holder that asks finds the key present.
HolderSeesLease == LockDiscipline => \A n \in Nodes : Holds(n) => cl[n].got # "absent"
=============================================================================
