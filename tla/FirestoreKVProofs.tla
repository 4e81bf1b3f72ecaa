-------------------------- MODULE FirestoreKVProofs --------------------------
(***************************************************************************)
(* Proofs about the Firestore store, for every set of nodes and calls,     *)
(* every clock skew, every lease and every number of attempts: that it is  *)
(* a LeaseStore, and that a lock kept in it excludes and is seen by the    *)
(* one who holds it.                                                       *)
(***************************************************************************)
EXTENDS FirestoreKV, TLAPS

\* r is what the function of the transaction writes for the call c (payload()).
Makes(c, r) ==
    /\ c.op = r.op /\ c.ttl = r.ttl
    /\ r.op # "renew" => r.val = c.val

\* The document as it is now is one on which the function says yes to c, at some
\* time that a clock may have shown.
Allows(c, r) ==
    /\ r.op = "put" => (Exists => Expires # 0 /\ Expires <= now + Skew)
    /\ r.op \in {"cas", "delete_if"} => Exists /\ doc.val = c.old
    /\ r.op = "renew" => /\ Exists /\ Expires # 0
                         /\ doc.owner = r.node /\ doc.val = r.val /\ r.ttl # 0

Conditional == {"put", "cas", "delete_if", "renew"}

\* What a node's call stands on: a commit that will go through was judged on the
\* document as it still is, and what RunTransaction will answer is that judgement.
CallInv(n) ==
    /\ cl[n].step # "idle" => cl[n].call \in calls[n]
    /\ cl[n].step \in {"body", "commit"} =>
          cl[n].call.op \in Conditional /\ (cl[n].call.op = "renew" => cl[n].call.ttl # 0)
    /\ cl[n].step = "delete" => cl[n].call.op = "delete"
    /\ cl[n].step = "commit" =>
          /\ cl[n].won <=> cl[n].req # NoRequest
          /\ cl[n].req # NoRequest =>
                /\ cl[n].req.node = n /\ Makes(cl[n].call, cl[n].req)
                /\ cl[n].fresh => Allows(cl[n].call, cl[n].req)

\* A request that comes late is a delete, or still finds the document it was made for.
LateInv ==
    \A r \in late :
       \/ r.op = "delete" /\ \E c \in calls[r.node] : c.op = "delete"
       \/ r.op \in Conditional /\ \E c \in calls[r.node] : Makes(c, r) /\ Allows(c, r)

FirestoreInv == (\A n \in Nodes : CallInv(n)) /\ LateInv

\* The key as a lock: the document of a node that thinks it holds the lease is there,
\* is its own and outlasts what the node thinks; a release on its way is of a node
\* that no longer does; and a Get has read the document it stands on.
LockDocAt(d, u, t) ==
    /\ d.owner # None => /\ d.val = d.owner /\ d.ttl # 0 /\ d.updated <= t
                         /\ \A c \in Leases : d.ttl = c.ttl
    /\ \A n \in Nodes :
          t + Skew < u[n] => d.owner = n /\ u[n] <= ExpiryAt(d.updated, d.ttl)
LockCallAt(k, u, t) ==
    /\ k.step # "idle" /\ k.call.op = "delete_if" => u = 0
    /\ k.step # "idle" /\ k.call.op \in {"put", "renew"} => k.lease <= t + k.call.ttl
    /\ k.step = "judge" /\ t + Skew < u =>
          k.seen.owner # None /\ u <= ExpiryAt(k.seen.updated, k.seen.ttl)
    /\ t + Skew < u => k.got # "absent"
LockState ==
    /\ LockDocAt(doc, until, now)
    /\ \A n \in Nodes : LockCallAt(cl[n], until[n], now)
    /\ \A r \in late : r.op = "delete_if" => until[r.node] = 0
LockInv == LockDiscipline => LockState

Inv == TypeOK /\ FirestoreInv

-----------------------------------------------------------------------------
\* Types of the parts.

LEMMA NoRequestIsNone == NoRequest \notin Request
  BY NoneAssumption DEF NoRequest, Request

LEMMA CallsType ==
    ASSUME calls \in Uses, NEW n \in Nodes
    PROVE  calls[n] \subseteq Call
  BY UsesAssumption

LEMMA IdleIsClient ==
    ASSUME NEW answer \in {"none", "present", "absent"}
    PROVE  /\ Idle(answer) \in Client
           /\ Idle(answer).step = "idle" /\ Idle(answer).got = answer
           /\ Idle(answer).attempt = 0
<1>1. NoDoc \in Doc
    BY DEF NoDoc, Doc
<1> QED BY <1>1 DEF Idle, Client

\* A write outdates what the others have read, and nothing else of their calls.
LEMMA TouchType ==
    ASSUME NEW d \in [Nodes -> Client]
    PROVE  /\ Touch(d) \in [Nodes -> Client]
           /\ \A n \in Nodes :
                 /\ Touch(d)[n].step = d[n].step /\ Touch(d)[n].call = d[n].call
                 /\ Touch(d)[n].attempt = d[n].attempt /\ Touch(d)[n].won = d[n].won
                 /\ Touch(d)[n].req = d[n].req /\ Touch(d)[n].fresh = FALSE
                 /\ Touch(d)[n].seen = d[n].seen /\ Touch(d)[n].lease = d[n].lease
                 /\ Touch(d)[n].got = d[n].got
<1>1. \A n \in Nodes : Touch(d)[n] = [d[n] EXCEPT !.fresh = FALSE]
    BY DEF Touch
<1>2. ASSUME NEW n \in Nodes
      PROVE  /\ Touch(d)[n] \in Client
             /\ Touch(d)[n].step = d[n].step /\ Touch(d)[n].call = d[n].call
             /\ Touch(d)[n].attempt = d[n].attempt /\ Touch(d)[n].won = d[n].won
             /\ Touch(d)[n].req = d[n].req /\ Touch(d)[n].fresh = FALSE
             /\ Touch(d)[n].seen = d[n].seen /\ Touch(d)[n].lease = d[n].lease
             /\ Touch(d)[n].got = d[n].got
  <2>1. d[n] \in Client
      OBVIOUS
  <2> QED BY <1>1, <2>1 DEF Client
<1>3. Touch(d) = [n \in Nodes |-> Touch(d)[n]]
    BY DEF Touch
<1>4. Touch(d) \in [Nodes -> Client]
    BY <1>2, <1>3
<1> QED BY <1>2, <1>4

LEMMA ExpiryType == ASSUME NEW t \in Nat, NEW ttl \in Nat PROVE ExpiryAt(t, ttl) \in Nat
  BY DEF ExpiryAt

-----------------------------------------------------------------------------
\* What a step of somebody else leaves of a call and of the late requests.

LEMMA LaterClock ==
    ASSUME NEW t \in Nat, NEW u \in Nat, NEW e \in Nat, t <= u, e <= t + Skew
    PROVE  e <= u + Skew
  BY ClockAssumption

LEMMA AllowsKept ==
    ASSUME TypeOK, doc' = doc, now' \in Nat, now <= now', NEW c, NEW r, Allows(c, r)
    PROVE  Allows(c, r)'
<1>1. doc.updated \in Nat /\ doc.ttl \in Nat
    BY DEF TypeOK, Doc
<1>2. Expires \in Nat /\ Expires' = Expires
    BY <1>1 DEF Expires, ExpiryAt
<1>3. Expires <= now + Skew => Expires <= now' + Skew
    BY <1>2, LaterClock DEF TypeOK
<1> QED BY <1>2, <1>3 DEF Allows, Exists

LEMMA CallKept ==
    ASSUME TypeOK, NEW n \in Nodes, CallInv(n), cl'[n] = cl[n], UNCHANGED <<calls, doc>>,
           now' \in Nat, now <= now'
    PROVE  CallInv(n)'
  BY AllowsKept DEF CallInv, Makes

LEMMA CallTouched ==
    ASSUME TypeOK, NEW n \in Nodes, CallInv(n), calls' = calls,
           cl'[n] = Touch(cl)[n]
    PROVE  CallInv(n)'
<1>1. cl \in [Nodes -> Client]
    BY DEF TypeOK
<1> DEFINE d == Touch(cl)[n]
<1>2. /\ d.step = cl[n].step /\ d.call = cl[n].call /\ d.won = cl[n].won
      /\ d.req = cl[n].req /\ d.fresh = FALSE
    BY <1>1, TouchType, Zenon
<1> HIDE DEF d
<1>3. cl'[n] = d
    BY DEF d
<1> QED BY <1>2, <1>3 DEF CallInv, Makes

LEMMA CallIdle ==
    ASSUME NEW n \in Nodes, NEW answer \in {"none", "present", "absent"}, cl'[n] = Idle(answer)
    PROVE  CallInv(n)'
  BY IdleIsClient DEF CallInv

LEMMA LateKept ==
    ASSUME TypeOK, LateInv, UNCHANGED <<calls, doc>>, late' \subseteq late, now' \in Nat, now <= now'
    PROVE  LateInv'
  BY AllowsKept DEF LateInv, Makes

LEMMA LateOutdated ==
    ASSUME TypeOK, LateInv, calls' = calls, late' \subseteq Others
    PROVE  LateInv'
  BY DEF LateInv, Others, Conditional

\* What the store writes is a document, and one with a value.
LEMMA WriteType ==
    ASSUME TypeOK, NEW r \in Request, NEW c \in Call, Makes(c, r), Allows(c, r),
           r.op \in Conditional, Write(r)
    PROVE  /\ doc' \in Doc /\ (Exists' => doc'.val # None)
           /\ last' \in Ops
<1>1. last' \in Ops
    BY DEF Write, Request
<1>2. CASE r.op = "delete_if"
    BY <1>1, <1>2 DEF Write, NoDoc, Doc, Exists
<1>3. CASE r.op # "delete_if"
  <2>1. doc' = [val |-> r.val, owner |-> r.node, ttl |-> r.ttl, updated |-> now]
      BY <1>3 DEF Write, Conditional
  <2>2. r.val # None
      BY <1>3, NoneAssumption DEF Makes, Allows, Call, TypeOK, Conditional
  <2> QED BY <1>1, <2>1, <2>2 DEF Doc, Request, TypeOK, Exists
<1> QED BY <1>2, <1>3

\* The node n is done with its call or in another part of it, and nothing else happened.
LEMMA OneNode ==
    ASSUME Inv, NEW n \in Nodes, NEW d \in Client, cl' = [cl EXCEPT ![n] = d],
           d.attempt <= MaxAttempts, CallInv(n)',
           UNCHANGED <<calls, doc, now, stray, last>>, until' \in [Nodes -> Nat],
           late' \subseteq Request, LateInv'
    PROVE  Inv'
<1>1. cl' \in [Nodes -> Client] /\ cl'[n] = d /\ \A m \in Nodes \ {n} : cl'[m] = cl[m]
    BY DEF Inv, TypeOK
<1>2. \A m \in Nodes : CallInv(m)'
    BY <1>1, CallKept DEF Inv, FirestoreInv, TypeOK
<1>3. TypeOK'
    BY <1>1 DEF Inv, TypeOK, Exists
<1> QED BY <1>2, <1>3 DEF Inv, FirestoreInv

-----------------------------------------------------------------------------
\* One lemma per action: each keeps the types and the invariant.

LEMMA InitHolds == Init => Inv
<1> SUFFICES ASSUME Init PROVE Inv
    OBVIOUS
<1>1. \A n \in Nodes : cl[n] = Idle("none")
    BY DEF Init
<1>2. NoDoc \in Doc /\ NoDoc.owner = None
    BY DEF NoDoc, Doc
<1>3. TypeOK
    BY <1>1, <1>2, IdleIsClient, BoundAssumption DEF Init, TypeOK, Exists
<1>4. FirestoreInv
    BY <1>1, IdleIsClient DEF Init, FirestoreInv, CallInv, LateInv
<1> QED BY <1>3, <1>4 DEF Inv

\* A call that ends and leaves the document as it is.
LEMMA GoesIdle ==
    ASSUME Inv, NEW n \in Nodes, NEW answer \in {"none", "present", "absent"},
           cl' = [cl EXCEPT ![n] = Idle(answer)],
           UNCHANGED <<calls, doc, now, stray, last, late>>, until' \in [Nodes -> Nat]
    PROVE  Inv'
<1>1. cl'[n] = Idle(answer)
    BY DEF Inv, TypeOK
<1>2. CallInv(n)'
    BY <1>1, CallIdle
<1>3. late' \subseteq Request /\ LateInv'
    BY LateKept DEF Inv, FirestoreInv, TypeOK
<1>4. Idle(answer) \in Client /\ Idle(answer).attempt <= MaxAttempts
    BY IdleIsClient, BoundAssumption
<1> QED BY <1>2, <1>3, <1>4, OneNode

LEMMA BeginKeeps ==
    ASSUME Inv, NEW n \in Nodes, NEW c \in calls[n], Begin(n, c)
    PROVE  Inv'
<1>0. /\ c \in Call /\ until \in [Nodes -> Nat] /\ now \in Nat /\ doc \in Doc
      /\ cl \in [Nodes -> Client] /\ UNCHANGED <<calls, doc, now, late, stray, last>>
    BY CallsType DEF Inv, TypeOK, Begin
<1>1. until' \in [Nodes -> Nat]
    BY <1>0 DEF Begin
<1>2. CASE c.op = "renew" /\ c.ttl = 0
  <2>1. cl' = [cl EXCEPT ![n] = Idle("none")]
      BY <1>2 DEF Begin
  <2> QED BY <1>0, <1>1, <2>1, GoesIdle
<1>3. CASE ~(c.op = "renew" /\ c.ttl = 0)
  <2> DEFINE s == CASE c.op = "delete" -> "delete" [] c.op = "get" -> "judge" [] OTHER -> "body"
             seen == IF c.op = "get" THEN doc ELSE NoDoc
             lease == IF c.op \in {"put", "renew"} THEN now + c.ttl ELSE 0
             d == [Idle("none") EXCEPT !.step = s, !.call = c, !.attempt = 1, !.seen = seen,
                                       !.lease = lease]
  <2>2. cl' = [cl EXCEPT ![n] = d]
      BY <1>3 DEF Begin
  <2>3. /\ s \in {"delete", "judge", "body"} /\ (s = "delete" => c.op = "delete")
        /\ s = "body" => c.op \in Conditional
      BY <1>0 DEF Call, Ops, Conditional
  <2>4. seen \in Doc /\ lease \in Nat
      BY <1>0 DEF NoDoc, Doc, Call
  <2> HIDE DEF s, seen, lease
  <2>5. d \in Client /\ d.attempt = 1 /\ d.step = s /\ d.call = c
      BY <1>0, <2>3, <2>4, IdleIsClient DEF Client
  <2>6. d.attempt <= MaxAttempts
      BY <2>5, BoundAssumption
  <2> HIDE DEF d
  <2>7. cl'[n] = d
      BY <1>0, <2>2
  <2>8. CallInv(n)'
      BY <1>0, <1>3, <2>3, <2>5, <2>7 DEF CallInv
  <2>9. late' \subseteq Request /\ LateInv'
      BY <1>0, LateKept DEF Inv, FirestoreInv, TypeOK
  <2> QED BY <1>0, <1>1, <2>2, <2>5, <2>6, <2>8, <2>9, OneNode
<1> QED BY <1>2, <1>3

\* What the function says yes to is what it writes on the document as it read it.
LEMMA JudgementAllows ==
    ASSUME Inv, NEW n \in Nodes, cl[n].step = "body", NEW t \in Clock, Judgement(n, t)
    PROVE  /\ Payload(n) \in Request /\ Payload(n).node = n
           /\ Makes(cl[n].call, Payload(n)) /\ Allows(cl[n].call, Payload(n))
<1> DEFINE c == cl[n].call
           r == Payload(n)
<1>1. c \in Call /\ doc \in Doc /\ now \in Nat /\ c.op \in Conditional
      /\ (c.op = "renew" => c.ttl # 0)
    BY CallsType DEF Inv, TypeOK, FirestoreInv, CallInv
<1>2. /\ r.node = n /\ r.op = c.op /\ r.ttl = c.ttl
      /\ r.val = IF c.op = "renew" THEN doc.val ELSE c.val
      /\ r \in Request
    BY <1>1 DEF Payload, Request, Call, Doc
<1>3. Makes(c, r)
    BY <1>2 DEF Makes
<1>4. Expires \in Nat /\ t \in Nat /\ t <= now + Skew
    BY <1>1, ExpiryType, ClockAssumption DEF Expires, Doc, Clock
<1>5. c.op = "put" /\ Exists => Expires # 0 /\ Expires <= now + Skew
    BY <1>1, <1>4, ClockAssumption DEF Judgement, Live
<1>6. c.op \in {"cas", "delete_if"} => Exists /\ doc.val = c.old
    BY DEF Judgement
<1>7. c.op = "renew" => Exists /\ Expires # 0 /\ doc.owner = n
    BY DEF Judgement
<1>8. Allows(c, r)
    BY <1>1, <1>2, <1>5, <1>6, <1>7 DEF Allows
<1> QED BY <1>2, <1>3, <1>8

LEMMA BodyKeeps ==
    ASSUME Inv, NEW n \in Nodes, Body(n)
    PROVE  Inv'
<1>0. /\ cl \in [Nodes -> Client] /\ cl[n] \in Client /\ now \in Nat /\ cl[n].step = "body"
      /\ UNCHANGED <<calls, doc, now, late, stray, until, last>>
    BY DEF Inv, TypeOK, Body
<1>1. PICK t \in Clock :
          cl' = [cl EXCEPT ![n].step = "commit",
                           ![n].won = Verdict(n, Judgement(n, t)),
                           ![n].req = IF Judgement(n, t) THEN Payload(n) ELSE NoRequest,
                           ![n].fresh = TRUE]
    BY DEF Body
<1> DEFINE yes == Judgement(n, t)
           r == IF yes THEN Payload(n) ELSE NoRequest
           d == [cl[n] EXCEPT !.step = "commit", !.won = yes, !.req = r, !.fresh = TRUE]
<1>2. cl' = [cl EXCEPT ![n] = d]
    BY <1>0, <1>1 DEF Verdict
<1>3. yes \in BOOLEAN
    BY DEF Judgement
<1>4. /\ r \in Request \cup {NoRequest} /\ (yes <=> r # NoRequest)
      /\ yes => /\ r.node = n /\ Makes(cl[n].call, r) /\ Allows(cl[n].call, r)
    BY <1>0, JudgementAllows, NoRequestIsNone
<1> HIDE DEF yes, r
<1>5. /\ d \in Client /\ d.step = "commit" /\ d.call = cl[n].call /\ d.req = r
      /\ d.attempt = cl[n].attempt
    BY <1>0, <1>3, <1>4 DEF Client
<1>6. d.won = yes
    BY <1>0 DEF Client
<1> HIDE DEF d
<1>7. cl'[n] = d
    BY <1>0, <1>2
<1>8. \A c, q : Allows(c, q) => Allows(c, q)'
    BY <1>0, AllowsKept DEF Inv
<1>9. CallInv(n)
    BY DEF Inv, FirestoreInv
<1>10. CallInv(n)'
    BY <1>0, <1>4, <1>5, <1>6, <1>7, <1>8, <1>9 DEF CallInv, Makes
<1>11. late' \subseteq Request /\ LateInv'
    BY <1>0, LateKept DEF Inv, FirestoreInv, TypeOK
<1>12. until' \in [Nodes -> Nat] /\ d.attempt <= MaxAttempts
    BY <1>0, <1>5 DEF Inv, TypeOK
<1> QED BY <1>0, <1>2, <1>5, <1>10, <1>11, <1>12, OneNode

\* The document changes: every call goes on with what it read outdated, or ends.
LEMMA DocumentChanges ==
    ASSUME Inv, NEW S \in SUBSET Nodes,
           cl' = [m \in Nodes |-> IF m \in S THEN Idle("none") ELSE Touch(cl)[m]],
           doc' \in Doc, Exists' => doc'.val # None, last' \in Ops \cup {"none"},
           UNCHANGED <<calls, now, stray>>, late' \subseteq Others, until' \in [Nodes -> Nat]
    PROVE  Inv'
<1>1. cl \in [Nodes -> Client] /\ Touch(cl) \in [Nodes -> Client] /\ Idle("none") \in Client
    BY TouchType, IdleIsClient DEF Inv, TypeOK
<1>2. cl' \in [Nodes -> Client]
    BY <1>1
<1>3. ASSUME NEW m \in Nodes PROVE CallInv(m)' /\ cl'[m].attempt <= MaxAttempts
  <2>1. CASE m \in S
    <3>1. cl'[m] = Idle("none")
        BY <2>1
    <3> QED BY <3>1, CallIdle, IdleIsClient, BoundAssumption
  <2>2. CASE m \notin S
    <3>1. cl'[m] = Touch(cl)[m]
        BY <2>2
    <3>2. Touch(cl)[m].attempt = cl[m].attempt
        BY <1>1, TouchType, Zenon
    <3>3. cl[m].attempt <= MaxAttempts
        BY DEF Inv, TypeOK
    <3> QED BY <3>1, <3>2, <3>3, CallTouched DEF Inv, FirestoreInv
  <2> QED BY <2>1, <2>2
<1>4. late' \subseteq Request /\ LateInv'
    BY LateOutdated DEF Inv, FirestoreInv, Others, TypeOK
<1>5. TypeOK'
    BY <1>2, <1>3, <1>4 DEF Inv, TypeOK
<1> QED BY <1>3, <1>4, <1>5 DEF Inv, FirestoreInv

LEMMA LeasedType ==
    ASSUME TypeOK, NEW n \in Nodes, NEW yes \in BOOLEAN
    PROVE  /\ Leased(n, yes) \in [Nodes -> Nat]
           /\ \A m \in Nodes \ {n} : Leased(n, yes)[m] = until[m]
<1>1. cl[n].lease \in Nat /\ until \in [Nodes -> Nat]
    BY DEF TypeOK, Client
<1> QED BY <1>1 DEF Leased

\* The commit of a transaction that the function wanted is of a request it may make.
LEMMA CommitIsAllowed ==
    ASSUME Inv, NEW n \in Nodes, cl[n].step = "commit", cl[n].req # NoRequest
    PROVE  /\ cl[n].req \in Request /\ cl[n].call \in Call /\ cl[n].call \in calls[n]
           /\ cl[n].req.op \in Conditional /\ cl[n].req.node = n /\ cl[n].won
           /\ Makes(cl[n].call, cl[n].req)
           /\ cl[n].fresh => Allows(cl[n].call, cl[n].req)
<1>1. cl[n] \in Client /\ CallInv(n)
    BY DEF Inv, TypeOK, FirestoreInv
<1>2. cl[n].req \in Request
    BY <1>1 DEF Client
<1>3. cl[n].call \in Call
    BY <1>1, CallsType DEF CallInv, Inv, TypeOK
<1> QED BY <1>1, <1>2, <1>3 DEF CallInv, Makes

LEMMA CommittedKeeps ==
    ASSUME Inv, NEW n \in Nodes, Committed(n)
    PROVE  Inv'
<1>0. /\ cl \in [Nodes -> Client] /\ cl[n].won \in BOOLEAN
      /\ cl[n].step = "commit" /\ UNCHANGED <<calls, now, stray>>
    BY DEF Inv, TypeOK, Client, Committed
<1>1. CASE cl[n].req = NoRequest
  <2>1. /\ cl' = [cl EXCEPT ![n] = Idle("none")] /\ until' = Leased(n, cl[n].won)
        /\ UNCHANGED <<doc, last, late>>
      BY <1>1 DEF Committed, Answer
  <2>2. until' \in [Nodes -> Nat]
      BY <1>0, <2>1, LeasedType DEF Inv
  <2> QED BY <1>0, <2>1, <2>2, GoesIdle
<1>2. CASE cl[n].req # NoRequest
  <2>1. /\ cl[n].fresh /\ Write(cl[n].req) /\ late' = Others
        /\ cl' = [Touch(cl) EXCEPT ![n] = Idle("none")] /\ until' = Leased(n, cl[n].won)
      BY <1>2 DEF Committed, Answer
  <2>2. doc' \in Doc /\ (Exists' => doc'.val # None) /\ last' \in Ops
      BY <1>0, <1>2, <2>1, CommitIsAllowed, WriteType DEF Inv
  <2>3. until' \in [Nodes -> Nat]
      BY <1>0, <2>1, LeasedType DEF Inv
  <2>4. cl' = [m \in Nodes |-> IF m \in {n} THEN Idle("none") ELSE Touch(cl)[m]]
      BY <1>0, <2>1, TouchType
  <2> QED BY <1>0, <2>1, <2>2, <2>3, <2>4, DocumentChanges
<1> QED BY <1>1, <1>2

LEMMA AbortedKeeps ==
    ASSUME Inv, NEW n \in Nodes, Aborted(n)
    PROVE  Inv'
<1>0. /\ cl \in [Nodes -> Client] /\ cl[n] \in Client /\ cl[n].attempt <= MaxAttempts
      /\ until \in [Nodes -> Nat] /\ cl[n].step = "commit" /\ now \in Nat
      /\ UNCHANGED <<calls, doc, now, late, stray, until, last>>
    BY DEF Inv, TypeOK, Aborted
<1>1. CASE cl[n].attempt = MaxAttempts
  <2>1. cl' = [cl EXCEPT ![n] = Idle("none")]
      BY <1>1 DEF Aborted
  <2> QED BY <1>0, <2>1, GoesIdle
<1>2. CASE cl[n].attempt # MaxAttempts
  <2> DEFINE d == [cl[n] EXCEPT !.step = "body", !.attempt = cl[n].attempt + 1, !.req = NoRequest]
  <2>1. cl' = [cl EXCEPT ![n] = d]
      BY <1>2 DEF Aborted
  <2>2. cl[n].attempt \in Nat /\ cl[n].attempt + 1 \in Nat
      BY <1>0 DEF Client
  <2>3. d \in Client /\ d.attempt = cl[n].attempt + 1 /\ d.step = "body" /\ d.call = cl[n].call
      BY <1>0, <2>2 DEF Client
  <2> HIDE DEF d
  <2>4. d.attempt <= MaxAttempts
      BY <1>0, <1>2, <2>2, <2>3, BoundAssumption
  <2>5. cl'[n] = d
      BY <1>0, <2>1
  <2>6. CallInv(n)'
      BY <1>0, <2>3, <2>5 DEF CallInv, Inv, FirestoreInv
  <2>7. late' \subseteq Request /\ LateInv'
      BY <1>0, LateKept DEF Inv, FirestoreInv, TypeOK
  <2> QED BY <1>0, <2>1, <2>3, <2>4, <2>6, <2>7, OneNode
<1> QED BY <1>1, <1>2

LEMMA DeletedKeeps ==
    ASSUME Inv, NEW n \in Nodes, NEW answered \in BOOLEAN, Deleted(n, answered)
    PROVE  Inv'
<1> DEFINE S == IF answered THEN {n} ELSE {}
<1>1. cl \in [Nodes -> Client] /\ Touch(cl) \in [Nodes -> Client]
    BY TouchType DEF Inv, TypeOK
<1>2. cl' = [m \in Nodes |-> IF m \in S THEN Idle("none") ELSE Touch(cl)[m]] /\ S \in SUBSET Nodes
    BY <1>1 DEF Deleted
<1>3. doc' \in Doc /\ ~Exists' /\ last' \in Ops
    BY DEF Deleted, NoDoc, Doc, Exists, Ops
<1> HIDE DEF S
<1>4. UNCHANGED <<calls, now, stray>> /\ late' = Others /\ until' \in [Nodes -> Nat]
    BY DEF Deleted, Inv, TypeOK
<1> QED BY <1>2, <1>3, <1>4, DocumentChanges

LEMMA GivesUpKeeps ==
    ASSUME Inv, NEW n \in Nodes, GivesUp(n)
    PROVE  Inv'
<1>0. /\ cl \in [Nodes -> Client] /\ until \in [Nodes -> Nat] /\ now \in Nat
      /\ stray' \in 0..MaxLate /\ cl' = [cl EXCEPT ![n] = Idle("none")]
      /\ UNCHANGED <<calls, doc, now, until, last>> /\ CallInv(n)
    BY BoundAssumption DEF Inv, TypeOK, GivesUp, FirestoreInv
<1>1. PICK r \in Request :
          /\ late' = late \cup {r} /\ r.node = n
          /\ \/ r.op = "delete" /\ \E c \in calls[n] : c.op = "delete"
             \/ r.op \in Conditional /\ \E c \in calls[n] : Makes(c, r) /\ Allows(c, r)
  <2>1. CASE /\ cl[n].step = "commit" /\ cl[n].req # NoRequest /\ cl[n].fresh
             /\ late' = late \cup {cl[n].req}
      BY <2>1, CommitIsAllowed
  <2>2. CASE /\ cl[n].step = "delete"
             /\ late' = late \cup {[NoRequest EXCEPT !.node = n, !.op = "delete"]}
    <3> DEFINE r == [NoRequest EXCEPT !.node = n, !.op = "delete"]
    <3>1. r \in Request /\ r.node = n /\ r.op = "delete"
        BY DEF NoRequest, Request, Ops
    <3>2. cl[n].call \in calls[n] /\ cl[n].call.op = "delete"
        BY <1>0, <2>2 DEF CallInv
    <3> QED BY <2>2, <3>1, <3>2
  <2> QED BY <2>1, <2>2 DEF GivesUp
<1>2. late' \subseteq Request
    BY <1>1 DEF Inv, TypeOK
<1>3. LateInv'
  <2>1. \A c, q : Allows(c, q) => Allows(c, q)'
      BY <1>0, AllowsKept DEF Inv
  <2> QED BY <1>0, <1>1, <2>1 DEF LateInv, Inv, FirestoreInv, Makes
<1>4. cl'[n] = Idle("none") /\ \A m \in Nodes \ {n} : cl'[m] = cl[m]
    BY <1>0
<1>5. ASSUME NEW m \in Nodes PROVE CallInv(m)'
  <2>1. CASE m = n
      BY <1>4, <2>1, CallIdle
  <2>2. CASE m # n
      BY <1>0, <1>4, <2>2, CallKept DEF Inv, FirestoreInv
  <2> QED BY <2>1, <2>2
<1>6. cl' \in [Nodes -> Client] /\ \A m \in Nodes : cl'[m].attempt <= MaxAttempts
  <2>1. Idle("none") \in Client /\ Idle("none").attempt <= MaxAttempts
      BY IdleIsClient, BoundAssumption
  <2> QED BY <1>0, <1>4, <2>1 DEF Inv, TypeOK
<1>7. TypeOK'
    BY <1>0, <1>2, <1>6 DEF Inv, TypeOK, Exists
<1> QED BY <1>3, <1>5, <1>7 DEF Inv, FirestoreInv

\* A late request is of a node, and finds the document as it was made for it.
LEMMA LateIsAllowed ==
    ASSUME Inv, NEW r \in late
    PROVE  /\ r \in Request /\ r.node \in Nodes
           /\ \/ r.op = "delete" /\ \E c \in calls[r.node] : c.op = "delete"
              \/ /\ r.op \in Conditional
                 /\ \E c \in calls[r.node] : c \in Call /\ Makes(c, r) /\ Allows(c, r)
<1>1. r \in Request /\ r.node \in Nodes
    BY DEF Inv, TypeOK, Request
<1> QED BY <1>1, CallsType DEF Inv, TypeOK, FirestoreInv, LateInv

LEMMA ArrivesLateKeeps ==
    ASSUME Inv, NEW r \in late, ArrivesLate(r)
    PROVE  Inv'
<1>1. doc' \in Doc /\ (Exists' => doc'.val # None) /\ last' \in Ops
  <2>1. CASE r.op = "delete"
      BY <2>1 DEF ArrivesLate, Write, NoDoc, Doc, Exists, Ops
  <2>2. CASE r.op # "delete"
      BY <2>2, LateIsAllowed, WriteType DEF ArrivesLate, Inv
  <2> QED BY <2>1, <2>2
<1>2. Touch(cl) \in [Nodes -> Client]
    BY TouchType DEF Inv, TypeOK
<1>3. cl' = [m \in Nodes |-> IF m \in {} THEN Idle("none") ELSE Touch(cl)[m]]
    BY <1>2 DEF ArrivesLate
<1>4. UNCHANGED <<calls, now, stray>> /\ late' \subseteq Others /\ until' \in [Nodes -> Nat]
    BY DEF ArrivesLate, Inv, TypeOK
<1>5. {} \in SUBSET Nodes
    OBVIOUS
<1> QED BY <1>1, <1>3, <1>4, <1>5, DocumentChanges

LEMMA PolicyKeeps == ASSUME Inv, Policy PROVE Inv'
<1>1. doc' \in Doc /\ ~Exists' /\ last' \in Ops \cup {"none"}
    BY DEF Policy, NoDoc, Doc, Exists, Inv, TypeOK
<1>2. Touch(cl) \in [Nodes -> Client]
    BY TouchType DEF Inv, TypeOK
<1>3. cl' = [m \in Nodes |-> IF m \in {} THEN Idle("none") ELSE Touch(cl)[m]]
    BY <1>2 DEF Policy
<1>4. UNCHANGED <<calls, now, stray>> /\ late' \subseteq Others /\ until' \in [Nodes -> Nat]
    BY DEF Policy, Inv, TypeOK
<1>5. {} \in SUBSET Nodes
    OBVIOUS
<1> QED BY <1>1, <1>3, <1>4, <1>5, DocumentChanges

LEMMA TickKeeps == ASSUME Inv, Tick PROVE Inv'
<1>1. now \in Nat /\ now' = now + 1
    BY DEF Inv, TypeOK, Tick
<1>2. now' \in Nat /\ now <= now' /\ UNCHANGED <<calls, doc, cl, late, stray, until, last>>
    BY <1>1 DEF Tick
<1>3. TypeOK'
    BY <1>2 DEF Inv, TypeOK, Exists
<1>4. \A n \in Nodes : CallInv(n)'
    BY <1>2, CallKept DEF Inv, FirestoreInv
<1>5. LateInv'
    BY <1>2, LateKept DEF Inv, FirestoreInv
<1> QED BY <1>3, <1>4, <1>5 DEF Inv, FirestoreInv

LEMMA NextKeeps == Inv /\ [Next]_vars => Inv'
<1> SUFFICES ASSUME Inv, [Next]_vars PROVE Inv'
    OBVIOUS
<1>1. ASSUME NEW n \in Nodes, NEW c \in calls[n], Begin(n, c) PROVE Inv'
    BY <1>1, BeginKeeps
<1>2. ASSUME NEW n \in Nodes, Body(n) PROVE Inv'
    BY <1>2, BodyKeeps
<1>3. ASSUME NEW n \in Nodes, Committed(n) PROVE Inv'
    BY <1>3, CommittedKeeps
<1>4. ASSUME NEW n \in Nodes, Aborted(n) PROVE Inv'
    BY <1>4, AbortedKeeps
<1>5. ASSUME NEW n \in Nodes, NEW answered \in BOOLEAN, Deleted(n, answered) PROVE Inv'
    BY <1>5, DeletedKeeps
<1>6. ASSUME NEW n \in Nodes, GetJudged(n) PROVE Inv'
  <2>1. PICK answer \in {"none", "present", "absent"} : cl' = [cl EXCEPT ![n] = Idle(answer)]
      BY <1>6 DEF GetJudged
  <2>2. UNCHANGED <<calls, doc, now, stray, last, late>> /\ until' \in [Nodes -> Nat]
      BY <1>6 DEF GetJudged, Inv, TypeOK
  <2> QED BY <2>1, <2>2, GoesIdle
<1>7. ASSUME NEW n \in Nodes, Fails(n) PROVE Inv'
  <2>1. cl' = [cl EXCEPT ![n] = Idle("none")]
      BY <1>7 DEF Fails
  <2>2. UNCHANGED <<calls, doc, now, stray, last, late>> /\ until' \in [Nodes -> Nat]
      BY <1>7 DEF Fails, Inv, TypeOK
  <2> QED BY <2>1, <2>2, GoesIdle
<1>8. ASSUME NEW n \in Nodes, GivesUp(n) PROVE Inv'
    BY <1>8, GivesUpKeeps
<1>9. ASSUME NEW r \in late, ArrivesLate(r) PROVE Inv'
    BY <1>9, ArrivesLateKeeps
<1>10. CASE Policy
    BY <1>10, PolicyKeeps
<1>11. CASE Tick
    BY <1>11, TickKeeps
<1>12. CASE UNCHANGED vars
  <2>1. UNCHANGED <<calls, doc, now, cl, late, stray, until, last>>
      BY <1>12 DEF vars
  <2>2. TypeOK'
      BY <2>1 DEF Inv, TypeOK, Exists
  <2>3. now \in Nat
      BY DEF Inv, TypeOK
  <2>4. (\A n \in Nodes : CallInv(n)') /\ LateInv'
      BY <2>1, <2>3, CallKept, LateKept DEF Inv, FirestoreInv
  <2> QED BY <2>2, <2>4 DEF Inv, FirestoreInv
<1> QED
    BY <1>1, <1>2, <1>3, <1>4, <1>5, <1>6, <1>7, <1>8, <1>9, <1>10, <1>11, <1>12 DEF Next

\* However transactions interleave, are run again, given up or arrive late: what a
\* commit that goes through writes was judged on the document it replaces, and the
\* answer of a call is the judgement of the run of its function that committed.
THEOREM Invariance == Spec => [](TypeOK /\ FirestoreInv)
<1>1. Spec => []Inv
    BY InitHolds, NextKeeps, PTL DEF Spec
<1> QED BY <1>1, PTL DEF Inv

\* The document, the transactions and the late requests keep their types, a document
\* has a value, and no transaction is tried more than MaxAttempts times.
THEOREM TypeCorrect == Spec => []TypeOK
  BY Invariance, PTL

-----------------------------------------------------------------------------
\* The store is a LeaseStore.

\* Carrying out a request that the document allows is a change of the contract.
LEMMA WriteIsChange ==
    ASSUME Inv, NEW r \in Request, NEW c \in calls[r.node], c \in Call, Makes(c, r), Allows(c, r),
           r.op \in Conditional, Write(r), UNCHANGED <<calls, now>>
    PROVE  Store!Change(r.node, c)
<1>1. /\ doc \in Doc /\ r.node \in Nodes /\ now \in Nat /\ last' = c.op /\ c.op = r.op
      /\ c.ttl = r.ttl /\ c.ttl \in Nat
    BY DEF Inv, TypeOK, Request, Write, Makes, Call
<1>2. CASE r.op = "delete_if"
  <2>1. entry' = {}
      BY <1>2 DEF Write, entry, NoDoc, Exists
  <2>2. \E e \in entry : e.val = c.old
      BY <1>2 DEF Allows, entry
  <2> QED BY <1>1, <1>2, <2>1, <2>2 DEF Store!Delete, Store!Change
<1>3. CASE r.op # "delete_if"
  <2>1. doc' = [val |-> r.val, owner |-> r.node, ttl |-> c.ttl, updated |-> now]
      BY <1>1, <1>3 DEF Write, Conditional
  <2>2. r.node # None
      BY <1>1, NoneAssumption
  <2>3. entry' = {[val |-> r.val, owner |-> r.node, expires |-> ExpiryAt(now, c.ttl)]}
      BY <2>1, <2>2 DEF entry, Exists, Expires, ExpiryAt
  <2>4. entry' = Store!Written(r.node, r.val, c.ttl)
      BY <2>3 DEF Store!Written, Store!ExpiryAt, ExpiryAt
  <2>5. CASE r.op = "put"
    <3>1. r.val = c.val
        BY <2>5 DEF Makes
    <3>2. ASSUME NEW e \in entry PROVE ~Store!Live(e, now + Skew)
      <4>1. Exists /\ e.expires = Expires
          BY DEF entry
      <4>2. Expires # 0 /\ Expires <= now + Skew
          BY <2>5, <4>1 DEF Allows
      <4>3. Expires \in Nat
          BY <1>1, ExpiryType DEF Expires, Doc
      <4> QED BY <1>1, <4>1, <4>2, <4>3, ClockAssumption DEF Store!Live
    <3>3. Store!PutIfAbsent(r.node, c)
        BY <1>1, <2>4, <2>5, <3>1, <3>2 DEF Store!PutIfAbsent
    <3> QED BY <1>1, <3>3 DEF Store!Change
  <2>6. CASE r.op = "cas"
    <3>1. r.val = c.val /\ Exists /\ doc.val = c.old
        BY <2>6 DEF Makes, Allows
    <3>2. \E e \in entry : Store!StillLive(e) /\ e.val = c.old
        BY <3>1 DEF entry, Store!StillLive
    <3>3. Store!CompareAndSwap(r.node, c)
        BY <1>1, <2>4, <2>6, <3>1, <3>2 DEF Store!CompareAndSwap
    <3> QED BY <1>1, <3>3 DEF Store!Change
  <2>7. CASE r.op = "renew"
    <3>1. Exists /\ c.ttl # 0 /\ Expires # 0 /\ doc.owner = r.node /\ doc.val = r.val
        BY <1>1, <2>7 DEF Allows
    <3> DEFINE e == [val |-> doc.val, owner |-> doc.owner, expires |-> Expires]
    <3>2. entry = {e}
        BY <3>1 DEF entry
    <3>3. entry' = Store!Written(r.node, e.val, c.ttl)
        BY <2>4, <3>1
    <3>4. c.ttl > 0
        BY <1>1, <3>1
    <3>5. Store!Renew(r.node, c)
        BY <1>1, <2>7, <3>1, <3>2, <3>3, <3>4 DEF Store!Renew, Store!StillLive
    <3> QED BY <1>1, <3>5 DEF Store!Change
  <2> QED BY <1>3, <2>5, <2>6, <2>7 DEF Conditional
<1> QED BY <1>2, <1>3

\* A delete is a change of the contract on whatever document it finds.
LEMMA DeleteIsChange ==
    ASSUME NEW n \in Nodes, NEW c \in calls[n], c.op = "delete",
           doc' = NoDoc, last' = "delete", UNCHANGED <<calls, now>>
    PROVE  Store!Change(n, c)
<1>1. entry' = {}
    BY DEF entry, NoDoc, Exists
<1> QED BY <1>1 DEF Store!Delete, Store!Change

LEMMA StepRefines ==
    ASSUME Inv, [Next]_vars
    PROVE  [Store!Next]_(Store!vars)
<1> USE DEF Store!vars
<1>1. ASSUME UNCHANGED <<calls, doc, now, last>> PROVE UNCHANGED Store!vars
    BY <1>1 DEF entry, Expires, ExpiryAt, Exists
<1>2. ASSUME NEW n \in Nodes, NEW c \in calls[n], Store!Change(n, c) PROVE Store!Next
  <2>1. DOMAIN calls = Nodes
      BY UsesAssumption DEF Inv, TypeOK
  <2> QED BY <1>2, <2>1 DEF Store!Next
<1>3. ASSUME NEW n \in Nodes,
             \/ Body(n) \/ Aborted(n) \/ GetJudged(n) \/ Fails(n) \/ GivesUp(n)
             \/ \E c \in calls[n] : Begin(n, c)
      PROVE  UNCHANGED <<calls, doc, now, last>>
    BY <1>3 DEF Body, Aborted, GetJudged, Fails, GivesUp, Begin
<1>4. ASSUME NEW n \in Nodes, Committed(n) PROVE [Store!Next]_(Store!vars)
  <2>1. CASE cl[n].req = NoRequest
      BY <1>1, <1>4, <2>1 DEF Committed
  <2>2. CASE cl[n].req # NoRequest
    <3>1. cl[n].step = "commit" /\ cl[n].fresh /\ Write(cl[n].req) /\ UNCHANGED <<calls, now>>
        BY <1>4, <2>2 DEF Committed
    <3>2. Store!Change(n, cl[n].call) /\ cl[n].call \in calls[n]
        BY <2>2, <3>1, CommitIsAllowed, WriteIsChange
    <3> QED BY <1>2, <3>2
  <2> QED BY <2>1, <2>2
<1>5. ASSUME NEW n \in Nodes, NEW answered \in BOOLEAN, Deleted(n, answered)
      PROVE  [Store!Next]_(Store!vars)
  <2>1. cl[n].call \in calls[n] /\ cl[n].call.op = "delete"
      BY <1>5 DEF Deleted, Inv, FirestoreInv, CallInv
  <2>2. doc' = NoDoc /\ last' = "delete" /\ UNCHANGED <<calls, now>>
      BY <1>5 DEF Deleted
  <2> QED BY <1>2, <2>1, <2>2, DeleteIsChange
<1>6. ASSUME NEW r \in late, ArrivesLate(r) PROVE [Store!Next]_(Store!vars)
  <2>1. Write(r) /\ UNCHANGED <<calls, now>> /\ r \in Request /\ r.node \in Nodes
      BY <1>6, LateIsAllowed DEF ArrivesLate
  <2>2. CASE r.op = "delete"
    <3>1. PICK c \in calls[r.node] : c.op = "delete"
        BY <2>2, LateIsAllowed DEF Conditional
    <3>2. doc' = NoDoc /\ last' = "delete"
        BY <2>1, <2>2 DEF Write
    <3> QED BY <1>2, <2>1, <3>1, <3>2, DeleteIsChange
  <2>3. CASE r.op # "delete"
    <3>1. PICK c \in calls[r.node] : c \in Call /\ Makes(c, r) /\ Allows(c, r)
        BY <2>3, LateIsAllowed
    <3>2. r.op \in Conditional
        BY <2>3, LateIsAllowed
    <3> QED BY <1>2, <2>1, <3>1, <3>2, WriteIsChange
  <2> QED BY <2>2, <2>3
<1>7. CASE Policy
  <2>1. Expires \in Nat /\ now \in Nat
      BY ExpiryType DEF Inv, TypeOK, Doc, Expires
  <2>2. \A e \in entry : ~Store!Live(e, now)
      BY <1>7, <2>1 DEF Policy, entry, Live, Store!Live
  <2>3. entry' = {} /\ UNCHANGED <<calls, now, last>>
      BY <1>7 DEF Policy, entry, NoDoc, Exists
  <2> QED BY <2>2, <2>3 DEF Store!Reap, Store!Next
<1>8. CASE Tick
    BY <1>8 DEF Tick, Store!Tick, Store!Next, entry, Expires, ExpiryAt, Exists
<1>9. CASE UNCHANGED vars
    BY <1>1, <1>9 DEF vars
<1> QED
    BY <1>1, <1>3, <1>4, <1>5, <1>6, <1>7, <1>8, <1>9 DEF Next

\* Every change of the document is one that the KVStore contract allows at that
\* instant, for transactions that are run again, answers that are lost and requests
\* that come late.
THEOREM Refinement == Spec => ImplementsLeaseStore
<1>1. Init => Store!Init
    BY DEF Init, Store!Init, entry, NoDoc, Exists
<1>2. Inv /\ [Next]_vars => [Store!Next]_(Store!vars)
    BY StepRefines
<1>3. Spec => []Inv
    BY Invariance, PTL DEF Inv
<1> QED BY <1>1, <1>2, <1>3, PTL DEF Spec, ImplementsLeaseStore, Store!Spec
-----------------------------------------------------------------------------
\* The key as a lock.

\* What a lock's call is, and that all leases are of one length.
LEMMA LockUse ==
    ASSUME Inv, LockDiscipline, NEW n \in Nodes, NEW c \in calls[n]
    PROVE  /\ c \in Call /\ c.op \in {"get", "put", "renew", "delete_if"}
           /\ c.op = "put" => c.val = n
           /\ c.op = "delete_if" => c.old = n
           /\ c.op \in {"put", "renew"} => c.ttl # 0 /\ \A d \in Leases : d.ttl = c.ttl
<1>1. c \in Call /\ LockCall(n, c)
    BY CallsType DEF Inv, TypeOK, LockDiscipline
<1>2. c.op \in {"put", "renew"} => c \in Leases
    BY DEF Leases
<1> QED BY <1>1, <1>2 DEF LockCall, LockDiscipline, Call

\* Time goes on, and beliefs are kept or given up.
LEMMA HeldBefore ==
    ASSUME NEW t \in Nat, NEW t2 \in Nat, t <= t2, NEW u \in Nat, NEW u2 \in Nat,
           u2 = u \/ u2 = 0, t2 + Skew < u2
    PROVE  t + Skew < u /\ u2 = u
  BY ClockAssumption

LEMMA LockDocKept ==
    ASSUME NEW d \in Doc, NEW t \in Nat, NEW t2 \in Nat, t <= t2,
           NEW u \in [Nodes -> Nat], NEW u2 \in [Nodes -> Nat],
           \A n \in Nodes : u2[n] = u[n] \/ u2[n] = 0, LockDocAt(d, u, t)
    PROVE  LockDocAt(d, u2, t2)
<1>1. d.updated \in Nat
    BY DEF Doc
<1>2. \A n \in Nodes : t2 + Skew < u2[n] => t + Skew < u[n] /\ u2[n] = u[n]
    BY HeldBefore
<1> QED BY <1>1, <1>2 DEF LockDocAt

\* A request that the document allows leaves a document that is its writer's, and
\* nobody else's lease is lost by it.
LEMMA LockWrite ==
    ASSUME Inv, LockDiscipline, LockDocAt(doc, until, now),
           NEW r \in Request, NEW c \in calls[r.node], Makes(c, r), Allows(c, r),
           r.op \in Conditional, r.op = "delete_if" => until[r.node] = 0,
           NEW d2 \in Doc, d2 = IF r.op \in {"delete", "delete_if"} THEN NoDoc
                     ELSE [val |-> r.val, owner |-> r.node, ttl |-> r.ttl, updated |-> now],
           NEW u2 \in [Nodes -> Nat], \A m \in Nodes \ {r.node} : u2[m] = until[m],
           \/ u2[r.node] = until[r.node]
           \/ r.op \in {"put", "renew"} /\ u2[r.node] <= now + r.ttl
    PROVE  LockDocAt(d2, u2, now)
<1>1. /\ now \in Nat /\ doc \in Doc /\ r.node \in Nodes /\ until \in [Nodes -> Nat]
      /\ r.ttl \in Nat /\ Skew \in Nat
    BY ClockAssumption DEF Inv, TypeOK, Request
<1>2. /\ r.op = c.op /\ r.ttl = c.ttl /\ r.op \in {"put", "renew", "delete_if"}
      /\ (r.op = "put" => r.val = r.node) /\ (r.op = "delete_if" => c.old = r.node)
      /\ (r.op # "delete_if" => r.ttl # 0 /\ \A d \in Leases : d.ttl = r.ttl)
    BY <1>1, LockUse DEF Makes, Conditional
<1>3. Expires \in Nat /\ doc.updated \in Nat /\ doc.ttl \in Nat
    BY <1>1, ExpiryType DEF Expires, Doc
<1>4. ASSUME NEW m \in Nodes, now + Skew < until[m]
      PROVE  Exists /\ doc.owner = m /\ until[m] <= Expires
    BY <1>4, NoneAssumption DEF LockDocAt, Exists, Expires
<1>5. CASE r.op = "delete_if"
  <2>1. Exists /\ doc.val = r.node
      BY <1>2, <1>5 DEF Allows
  <2>2. doc.owner = r.node /\ until[r.node] = 0
      BY <1>5, <2>1 DEF LockDocAt, Exists
  <2>3. ASSUME NEW m \in Nodes, now + Skew < u2[m] PROVE FALSE
    <3>1. u2[m] = until[m]
        BY <1>1, <1>5
    <3>2. m = r.node
        BY <1>4, <2>2, <2>3, <3>1
    <3> QED BY <1>1, <2>2, <2>3, <3>1, <3>2
  <2>4. d2.owner = None
      BY <1>5 DEF NoDoc
  <2> QED BY <2>3, <2>4 DEF LockDocAt
<1>6. CASE r.op # "delete_if"
  <2>1. d2 = [val |-> r.val, owner |-> r.node, ttl |-> r.ttl, updated |-> now]
      BY <1>2, <1>6
  <2>2. ExpiryAt(d2.updated, d2.ttl) = now + r.ttl
      BY <1>2, <1>6, <2>1 DEF ExpiryAt
  <2>3. r.val = r.node
    <3>1. CASE r.op = "put"
        BY <1>2, <3>1
    <3>2. CASE r.op = "renew"
        BY <3>2 DEF Allows, LockDocAt, Exists
    <3> QED BY <1>2, <1>6, <3>1, <3>2
  <2>4. ASSUME NEW m \in Nodes, now + Skew < u2[m]
        PROVE  m = r.node /\ u2[m] <= now + r.ttl
    <3>1. CASE r.op = "put"
      <4>1. ~(now + Skew < until[m])
        <5> SUFFICES ASSUME now + Skew < until[m] PROVE FALSE
            OBVIOUS
        <5>1. Exists /\ until[m] <= Expires
            BY <1>4
        <5>2. Expires <= now + Skew
            BY <3>1, <5>1 DEF Allows
        <5> QED BY <1>1, <1>3, <5>1, <5>2
      <4> QED BY <1>1, <2>4, <4>1
    <3>2. CASE r.op = "renew"
      <4>1. CASE now + Skew < until[m]
        <5>1. m = r.node /\ until[m] <= Expires
            BY <1>4, <3>2, <4>1 DEF Allows
        <5>2. doc.ttl = r.ttl /\ doc.updated <= now
          <6>1. doc.updated <= now /\ \A d \in Leases : doc.ttl = d.ttl
              BY <1>4, <4>1 DEF LockDocAt, Exists
          <6>2. c \in Leases
              BY <1>1, <1>2, <3>2, CallsType DEF Leases, Inv, TypeOK
          <6> QED BY <1>2, <6>1, <6>2
        <5>3. Expires <= now + r.ttl
            BY <1>1, <1>2, <1>3, <1>6, <5>2 DEF Expires, ExpiryAt
        <5> QED BY <1>1, <1>3, <5>1, <5>3
      <4>2. CASE ~(now + Skew < until[m])
          BY <1>1, <2>4, <4>2
      <4> QED BY <4>1, <4>2
    <3> QED BY <1>2, <1>6, <3>1, <3>2
  <2>5. d2.owner = r.node /\ d2.val = r.node /\ d2.ttl = r.ttl /\ d2.updated = now
      BY <2>1, <2>3
  <2> QED BY <1>1, <1>2, <1>6, <2>2, <2>4, <2>5 DEF LockDocAt
<1> QED BY <1>5, <1>6

\* A call goes on, or is over.
LEMMA LockCallKept ==
    ASSUME NEW k \in Client, NEW k2 \in Client, NEW u \in Nat, NEW u2 \in Nat,
           NEW t \in Nat, NEW t2 \in Nat, t <= t2, u2 = u \/ u2 = 0, LockCallAt(k, u, t),
           k2.step # "idle" => k.step # "idle", k2.step = "judge" => k.step = "judge",
           k2.call = k.call, k2.lease = k.lease, k2.seen = k.seen, k2.got = k.got,
           k.step # "idle" => k.call \in Call
    PROVE  LockCallAt(k2, u2, t2)
<1>1. t2 + Skew < u2 => t + Skew < u /\ u2 = u
    BY HeldBefore
<1>2. k.lease \in Nat
    BY DEF Client
<1>3. k.step # "idle" => k.call.ttl \in Nat
    BY DEF Call
<1> QED BY <1>1, <1>2, <1>3 DEF LockCallAt

LEMMA LockCallIdle ==
    ASSUME NEW answer \in {"none", "present"}, NEW u \in Nat, NEW t \in Nat
    PROVE  LockCallAt(Idle(answer), u, t)
  BY IdleIsClient DEF LockCallAt

\* The call of a node in LockCallKept, from the invariant.
LEMMA LockCallTypes ==
    ASSUME Inv, NEW n \in Nodes
    PROVE  /\ cl[n] \in Client /\ until[n] \in Nat /\ now \in Nat
           /\ cl[n].step # "idle" => cl[n].call \in calls[n] /\ cl[n].call \in Call
  BY CallsType DEF Inv, TypeOK, FirestoreInv, CallInv

\* The document stays; the calls and the late requests are as the step left them.
LEMMA LockQuiet ==
    ASSUME Inv, LockState, UNCHANGED <<calls, doc>>, now' \in Nat, now <= now',
           until' \in [Nodes -> Nat], \A m \in Nodes : until'[m] = until[m] \/ until'[m] = 0,
           \A m \in Nodes : LockCallAt(cl'[m], until'[m], now'),
           \A r \in late' : r.op = "delete_if" => until'[r.node] = 0
    PROVE  LockState'
<1>1. LockDocAt(doc, until', now')
    BY LockDocKept DEF Inv, TypeOK, LockState
<1>2. Leases' = Leases
    BY DEF Leases
<1> QED BY <1>1, <1>2 DEF LockState, LockDocAt, LockCallAt

\* The document changes: what was still on its way of the lock's requests is outdated.
LEMMA LockChanged ==
    ASSUME Inv, LockState, LockDocAt(doc', until', now), UNCHANGED <<calls, now>>,
           \A m \in Nodes : LockCallAt(cl'[m], until'[m], now), late' \subseteq Others
    PROVE  LockState'
<1>1. Leases' = Leases
    BY DEF Leases
<1>2. \A r \in late' : r.op # "delete_if"
    BY DEF Others
<1> QED BY <1>1, <1>2 DEF LockState, LockDocAt, LockCallAt

\* Nodes whose call the step does not end.
LEMMA LockCallOf ==
    ASSUME Inv, LockState, NEW m \in Nodes, now' \in Nat, now <= now',
           until'[m] \in Nat, until'[m] = until[m] \/ until'[m] = 0,
           cl'[m] = cl[m] \/ cl'[m] = Touch(cl)[m]
    PROVE  LockCallAt(cl'[m], until'[m], now')
<1>1. /\ cl[m] \in Client /\ until[m] \in Nat /\ now \in Nat
      /\ cl[m].step # "idle" => cl[m].call \in Call
    BY LockCallTypes
<1>2. LockCallAt(cl[m], until[m], now)
    BY DEF LockState
<1>3. CASE cl'[m] = cl[m]
    BY <1>1, <1>2, <1>3, LockCallKept
<1>4. CASE cl'[m] = Touch(cl)[m]
  <2> DEFINE d == Touch(cl)[m]
  <2>1. cl \in [Nodes -> Client]
      BY DEF Inv, TypeOK
  <2>2. /\ d \in Client /\ d.step = cl[m].step /\ d.call = cl[m].call /\ d.seen = cl[m].seen
        /\ d.lease = cl[m].lease /\ d.got = cl[m].got
    <3>1. d \in Client
        BY <2>1, TouchType
    <3> QED BY <2>1, <3>1, TouchType, Zenon
  <2> HIDE DEF d
  <2>3. LockCallAt(d, until'[m], now')
      BY <1>1, <1>2, <2>2, LockCallKept
  <2> QED BY <1>4, <2>3 DEF d
<1> QED BY <1>3, <1>4

LEMMA LockBegin ==
    ASSUME Inv, LockDiscipline, LockState, NEW n \in Nodes, NEW c \in calls[n], Begin(n, c)
    PROVE  LockState'
<1>0. /\ c \in Call /\ until \in [Nodes -> Nat] /\ now \in Nat /\ doc \in Doc
      /\ cl \in [Nodes -> Client] /\ UNCHANGED <<calls, doc, now, late, stray, last>>
    BY CallsType DEF Inv, TypeOK, Begin
<1>1. /\ until' \in [Nodes -> Nat] /\ \A m \in Nodes \ {n} : until'[m] = until[m]
      /\ IF c.op \in {"delete", "delete_if"} THEN until'[n] = 0 ELSE until'[n] = until[n]
    BY <1>0 DEF Begin
<1>2. \A m \in Nodes \ {n} : cl'[m] = cl[m]
    BY <1>0 DEF Begin
<1>3. LockCallAt(cl'[n], until'[n], now)
  <2>1. CASE c.op = "renew" /\ c.ttl = 0
    <3>1. cl'[n] = Idle("none")
        BY <1>0, <2>1 DEF Begin
    <3> QED BY <1>0, <1>1, <3>1, LockCallIdle
  <2>2. CASE ~(c.op = "renew" /\ c.ttl = 0)
    <3> DEFINE s == CASE c.op = "delete" -> "delete" [] c.op = "get" -> "judge" [] OTHER -> "body"
               seen == IF c.op = "get" THEN doc ELSE NoDoc
               lease == IF c.op \in {"put", "renew"} THEN now + c.ttl ELSE 0
               d == [Idle("none") EXCEPT !.step = s, !.call = c, !.attempt = 1, !.seen = seen,
                                         !.lease = lease]
    <3>1. cl'[n] = d
        BY <1>0, <2>2 DEF Begin
    <3>2. d.step = s /\ d.call = c /\ d.seen = seen /\ d.lease = lease /\ d.got = "none"
        BY DEF Idle
    <3>3. s = "judge" => c.op = "get"
        BY <1>0 DEF Call, Ops
    <3>4. c.op \in {"put", "renew"} => lease <= now + c.ttl
        BY <1>0 DEF Call
    <3>5. s = "judge" /\ now + Skew < until'[n] =>
              seen.owner # None /\ until'[n] <= ExpiryAt(seen.updated, seen.ttl)
      <4> SUFFICES ASSUME s = "judge", now + Skew < until'[n]
                   PROVE  seen.owner # None /\ until'[n] <= ExpiryAt(seen.updated, seen.ttl)
          OBVIOUS
      <4>1. c.op = "get" /\ until'[n] = until[n]
          BY <1>1, <3>3
      <4>2. seen = doc
          BY <4>1
      <4> QED BY <4>1, <4>2, NoneAssumption DEF LockState, LockDocAt
    <3> HIDE DEF s, seen, lease, d
    <3>6. LockCallAt(d, until'[n], now)
        BY <1>1, <3>2, <3>4, <3>5 DEF LockCallAt
    <3> QED BY <3>1, <3>6
  <2> QED BY <2>1, <2>2
<1>4. \A m \in Nodes : until'[m] = until[m] \/ until'[m] = 0
    BY <1>1
<1>5. \A m \in Nodes : LockCallAt(cl'[m], until'[m], now')
    BY <1>0, <1>1, <1>2, <1>3, <1>4, LockCallOf
<1>6. \A r \in late' : r.op = "delete_if" => until'[r.node] = 0
    BY <1>0, <1>1 DEF LockState, Inv, TypeOK, Request
<1> QED BY <1>0, <1>1, <1>4, <1>5, <1>6, LockQuiet

\* A step of one call that leaves the document and what its node thinks.
LEMMA LockOneCall ==
    ASSUME Inv, LockState, NEW n \in Nodes, NEW k, cl' = [cl EXCEPT ![n] = k],
           LockCallAt(k, until[n], now), UNCHANGED <<calls, doc, now, until>>,
           \A r \in late' : r.op = "delete_if" => until[r.node] = 0
    PROVE  LockState'
<1>1. cl \in [Nodes -> Client] /\ now \in Nat /\ until \in [Nodes -> Nat]
    BY DEF Inv, TypeOK
<1>2. cl'[n] = k /\ \A m \in Nodes \ {n} : cl'[m] = cl[m]
    BY <1>1
<1>3. \A m \in Nodes : LockCallAt(cl'[m], until'[m], now')
    BY <1>1, <1>2, LockCallOf
<1> QED BY <1>1, <1>3, LockQuiet

LEMMA LockBody ==
    ASSUME Inv, LockState, NEW n \in Nodes, Body(n)
    PROVE  LockState'
<1>0. /\ cl[n] \in Client /\ until[n] \in Nat /\ now \in Nat /\ cl[n].step = "body"
      /\ cl[n].call \in Call /\ UNCHANGED <<calls, doc, now, late, stray, until, last>>
    BY LockCallTypes DEF Body
<1>1. PICK won, req :
          cl' = [cl EXCEPT ![n] =
                   [cl[n] EXCEPT !.step = "commit", !.won = won, !.req = req, !.fresh = TRUE]]
  <2>1. PICK t \in Clock :
            cl' = [cl EXCEPT ![n].step = "commit",
                             ![n].won = Verdict(n, Judgement(n, t)),
                             ![n].req = IF Judgement(n, t) THEN Payload(n) ELSE NoRequest,
                             ![n].fresh = TRUE]
      BY DEF Body
  <2> QED BY <1>0, <2>1 DEF Inv, TypeOK
<1> DEFINE k == [cl[n] EXCEPT !.step = "commit", !.won = won, !.req = req, !.fresh = TRUE]
<1>2. /\ k.step = "commit" /\ k.call = cl[n].call /\ k.lease = cl[n].lease
      /\ k.got = cl[n].got
    BY <1>0 DEF Client
<1> HIDE DEF k
<1>3. LockCallAt(k, until[n], now)
    BY <1>0, <1>2 DEF LockCallAt, LockState
<1>4. \A r \in late' : r.op = "delete_if" => until[r.node] = 0
    BY <1>0 DEF LockState
<1>5. cl' = [cl EXCEPT ![n] = k]
    BY <1>1 DEF k
<1> QED BY <1>0, <1>3, <1>4, <1>5, LockOneCall

LEMMA LockCommitted ==
    ASSUME Inv, LockDiscipline, LockState, NEW n \in Nodes, Committed(n)
    PROVE  LockState'
<1>0. /\ cl \in [Nodes -> Client] /\ cl[n].won \in BOOLEAN /\ cl[n].lease \in Nat
      /\ cl[n].step = "commit" /\ UNCHANGED <<calls, now, stray>> /\ CallInv(n)
      /\ now \in Nat /\ doc \in Doc /\ until \in [Nodes -> Nat] /\ cl[n].call \in calls[n]
    BY LockCallTypes DEF Inv, TypeOK, Client, Committed, FirestoreInv
<1>1. CASE cl[n].req = NoRequest
  <2>1. /\ cl' = [cl EXCEPT ![n] = Idle("none")] /\ until' = Leased(n, cl[n].won)
        /\ UNCHANGED <<doc, last, late>>
      BY <1>1 DEF Committed, Answer
  <2>2. ~cl[n].won
      BY <1>0, <1>1 DEF CallInv
  <2>3. until' = until \/ until' = [until EXCEPT ![n] = 0]
      BY <2>1, <2>2 DEF Leased
  <2>4. /\ until' \in [Nodes -> Nat] /\ \A m \in Nodes \ {n} : until'[m] = until[m]
        /\ until'[n] = until[n] \/ until'[n] = 0
      BY <1>0, <2>3
  <2>5. cl'[n] = Idle("none") /\ \A m \in Nodes \ {n} : cl'[m] = cl[m]
      BY <1>0, <2>1
  <2>6. \A m \in Nodes : until'[m] = until[m] \/ until'[m] = 0
      BY <2>4
  <2>7. \A m \in Nodes : LockCallAt(cl'[m], until'[m], now')
      BY <1>0, <2>4, <2>5, <2>6, LockCallOf, LockCallIdle
  <2>8. \A r \in late' : r.op = "delete_if" => until'[r.node] = 0
      BY <2>1, <2>6 DEF LockState, Inv, TypeOK, Request
  <2> QED BY <1>0, <2>1, <2>4, <2>6, <2>7, <2>8, LockQuiet
<1>2. CASE cl[n].req # NoRequest
  <2> DEFINE r == cl[n].req
  <2>1. /\ cl[n].fresh /\ Write(r) /\ late' = Others
        /\ cl' = [Touch(cl) EXCEPT ![n] = Idle("none")] /\ until' = Leased(n, cl[n].won)
      BY <1>2 DEF Committed, Answer
  <2>2. /\ r \in Request /\ r.node = n /\ Makes(cl[n].call, r) /\ Allows(cl[n].call, r)
        /\ r.op \in Conditional /\ cl[n].won /\ cl[n].call \in Call
      BY <1>0, <1>2, <2>1, CommitIsAllowed
  <2>3. doc' \in Doc
      BY <2>1, <2>2, WriteType DEF Inv
  <2>4. r.op = cl[n].call.op /\ r.ttl = cl[n].call.ttl
      BY <2>2 DEF Makes
  <2>5. /\ until' \in [Nodes -> Nat] /\ \A m \in Nodes \ {n} : until'[m] = until[m]
        /\ \/ until'[n] = until[n]
           \/ r.op \in {"put", "renew"} /\ until'[n] = cl[n].lease
      BY <1>0, <2>1, <2>2, <2>4 DEF Leased
  <2>6. LockCallAt(cl[n], until[n], now)
      BY DEF LockState
  <2>7. r.op \in {"put", "renew"} => cl[n].lease <= now + r.ttl
      BY <1>0, <2>4, <2>6 DEF LockCallAt
  <2>8. r.op = "delete_if" => until[n] = 0
      BY <1>0, <2>4, <2>6 DEF LockCallAt
  <2>9. doc' = IF r.op \in {"delete", "delete_if"} THEN NoDoc
               ELSE [val |-> r.val, owner |-> r.node, ttl |-> r.ttl, updated |-> now]
      BY <2>1 DEF Write
  <2> HIDE DEF r
  <2>10. LockDocAt(doc', until', now)
      BY <1>0, <2>2, <2>3, <2>5, <2>7, <2>8, <2>9, LockWrite DEF LockState
  <2>11. cl'[n] = Idle("none") /\ \A m \in Nodes \ {n} : cl'[m] = Touch(cl)[m]
      BY <1>0, <2>1, TouchType
  <2>12. \A m \in Nodes : LockCallAt(cl'[m], until'[m], now')
      BY <1>0, <2>5, <2>11, LockCallOf, LockCallIdle
  <2> QED BY <1>0, <2>1, <2>10, <2>12, LockChanged
<1> QED BY <1>1, <1>2

LEMMA LockArrivesLate ==
    ASSUME Inv, LockDiscipline, LockState, NEW r \in late, ArrivesLate(r)
    PROVE  LockState'
<1>0. /\ Write(r) /\ cl' = Touch(cl) /\ late' \subseteq Others
      /\ UNCHANGED <<calls, now, stray, until>>
      /\ now \in Nat /\ doc \in Doc /\ until \in [Nodes -> Nat]
    BY DEF ArrivesLate, Inv, TypeOK
<1>1. r \in Request /\ r.node \in Nodes
    BY LateIsAllowed
<1>2. r.op # "delete"
    BY <1>1, LateIsAllowed, LockUse DEF Conditional
<1>3. PICK c \in calls[r.node] : c \in Call /\ Makes(c, r) /\ Allows(c, r)
    BY <1>2, LateIsAllowed
<1>4. r.op \in Conditional
    BY <1>2, LateIsAllowed
<1>5. doc' \in Doc
    BY <1>0, <1>1, <1>3, <1>4, WriteType DEF Inv
<1>6. doc' = IF r.op \in {"delete", "delete_if"} THEN NoDoc
             ELSE [val |-> r.val, owner |-> r.node, ttl |-> r.ttl, updated |-> now]
    BY <1>0 DEF Write
<1>7. LockDocAt(doc', until, now)
    BY <1>0, <1>1, <1>3, <1>4, <1>5, <1>6, LockWrite DEF LockState
<1>8. \A m \in Nodes : LockCallAt(cl'[m], until'[m], now')
    BY <1>0, LockCallOf
<1> QED BY <1>0, <1>7, <1>8, LockChanged

LEMMA LockPolicy ==
    ASSUME Inv, LockState, Policy
    PROVE  LockState'
<1>0. /\ Exists /\ ~Live(Expires, now) /\ doc' = NoDoc /\ cl' = Touch(cl) /\ late' = Others
      /\ UNCHANGED <<calls, now, stray, until, last>>
      /\ now \in Nat /\ doc \in Doc /\ until \in [Nodes -> Nat]
    BY DEF Policy, Inv, TypeOK
<1>1. Expires \in Nat /\ Expires <= now
    BY <1>0, ExpiryType DEF Expires, Doc, Live
<1>2. \A n \in Nodes : now + Skew < until[n] => until[n] <= Expires
    BY DEF LockState, LockDocAt, Expires
<1>3. \A n \in Nodes : ~(now + Skew < until[n])
    BY <1>0, <1>1, <1>2, ClockAssumption
<1>4. LockDocAt(NoDoc, until, now)
    BY <1>3 DEF LockDocAt, NoDoc
<1>5. \A m \in Nodes : LockCallAt(cl'[m], until'[m], now')
    BY <1>0, LockCallOf
<1> QED BY <1>0, <1>4, <1>5, LockChanged

LEMMA LockStep ==
    ASSUME Inv, LockDiscipline, LockState, [Next]_vars
    PROVE  LockState'
<1>0. cl \in [Nodes -> Client] /\ now \in Nat /\ until \in [Nodes -> Nat]
    BY DEF Inv, TypeOK
<1>1. ASSUME NEW n \in Nodes, NEW answer \in {"none", "present"},
             cl' = [cl EXCEPT ![n] = Idle(answer)],
             UNCHANGED <<calls, doc, now, until>>, late' = late
      PROVE  LockState'
  <2>1. LockCallAt(Idle(answer), until[n], now)
      BY <1>0, LockCallIdle
  <2> QED BY <1>1, <2>1, LockOneCall DEF LockState
<1>2. ASSUME NEW n \in Nodes, Aborted(n) PROVE LockState'
  <2>1. UNCHANGED <<calls, doc, now, late, until>>
      BY <1>2 DEF Aborted
  <2>2. CASE cl[n].attempt = MaxAttempts
      BY <1>1, <1>2, <2>1, <2>2 DEF Aborted
  <2>3. CASE cl[n].attempt # MaxAttempts
    <3> DEFINE k == [cl[n] EXCEPT !.step = "body", !.attempt = cl[n].attempt + 1, !.req = NoRequest]
    <3>1. cl' = [cl EXCEPT ![n] = k] /\ cl[n].step # "idle"
        BY <1>2, <2>3 DEF Aborted
    <3>2. k.step = "body" /\ k.call = cl[n].call /\ k.lease = cl[n].lease /\ k.got = cl[n].got
        BY <1>0 DEF Client
    <3> HIDE DEF k
    <3>3. LockCallAt(k, until[n], now)
        BY <3>1, <3>2 DEF LockCallAt, LockState
    <3> QED BY <2>1, <3>1, <3>3, LockOneCall DEF LockState
  <2> QED BY <2>2, <2>3
<1>3. ASSUME NEW n \in Nodes, NEW answered \in BOOLEAN, Deleted(n, answered) PROVE LockState'
  <2>1. cl[n].call \in calls[n] /\ cl[n].call.op = "delete"
      BY <1>3 DEF Deleted, Inv, FirestoreInv, CallInv
  <2> QED BY <2>1, LockUse
<1>4. ASSUME NEW n \in Nodes, GetJudged(n) PROVE LockState'
  <2>1. PICK t \in Clock :
            cl' = [cl EXCEPT ![n] = Idle(IF Present(cl[n].seen, t) THEN "present" ELSE "absent")]
      BY <1>4 DEF GetJudged
  <2>2. cl[n].step = "judge" /\ UNCHANGED <<calls, doc, now, late, until>>
      BY <1>4 DEF GetJudged
  <2>3. CASE Present(cl[n].seen, t)
      BY <1>1, <2>1, <2>2, <2>3
  <2>4. CASE ~Present(cl[n].seen, t)
    <3> DEFINE e == ExpiryAt(cl[n].seen.updated, cl[n].seen.ttl)
    <3>1. ~(now + Skew < until[n])
      <4> SUFFICES ASSUME now + Skew < until[n] PROVE FALSE
          OBVIOUS
      <4>1. cl[n].seen.owner # None /\ until[n] <= e
          BY <2>2 DEF LockState, LockCallAt
      <4>2. e \in Nat /\ t \in Nat /\ t <= now + Skew
          BY <1>0, ExpiryType, ClockAssumption DEF Client, Doc, Clock
      <4>3. e > t
          BY <1>0, <4>1, <4>2, ClockAssumption
      <4> QED BY <2>4, <4>1, <4>3 DEF Present, Live
    <3>2. LockCallAt(Idle("absent"), until[n], now)
        BY <3>1, IdleIsClient DEF LockCallAt
    <3> QED BY <2>1, <2>2, <2>4, <3>2, LockOneCall DEF LockState
  <2> QED BY <2>3, <2>4
<1>5. ASSUME NEW n \in Nodes, GivesUp(n) PROVE LockState'
  <2>1. /\ cl[n].step \in {"commit", "delete"} /\ cl' = [cl EXCEPT ![n] = Idle("none")]
        /\ UNCHANGED <<calls, doc, now, until>>
      BY <1>5 DEF GivesUp
  <2>2. cl[n].step # "delete"
      BY LockUse DEF Inv, FirestoreInv, CallInv
  <2>3. cl[n].step = "commit" /\ cl[n].req # NoRequest /\ late' = late \cup {cl[n].req}
      BY <1>5, <2>2 DEF GivesUp
  <2>4. cl[n].req.node = n /\ cl[n].req.op = cl[n].call.op
      BY <2>3, CommitIsAllowed DEF Makes
  <2>5. cl[n].req.op = "delete_if" => until[n] = 0
      BY <2>3, <2>4 DEF LockState, LockCallAt
  <2>6. \A r \in late' : r.op = "delete_if" => until[r.node] = 0
      BY <2>3, <2>4, <2>5 DEF LockState
  <2>7. LockCallAt(Idle("none"), until[n], now)
      BY <1>0, LockCallIdle
  <2> QED BY <2>1, <2>6, <2>7, LockOneCall
<1>6. CASE Tick
  <2>1. now' = now + 1 /\ UNCHANGED <<calls, doc, cl, late, until>>
      BY <1>6 DEF Tick
  <2>2. now' \in Nat /\ now <= now'
      BY <1>0, <2>1
  <2>3. \A m \in Nodes : LockCallAt(cl'[m], until'[m], now')
      BY <1>0, <2>1, <2>2, LockCallOf
  <2> QED BY <1>0, <2>1, <2>2, <2>3, LockQuiet DEF LockState
<1>7. CASE UNCHANGED vars
  <2>1. UNCHANGED <<calls, doc, now, cl, late, until>>
      BY <1>7 DEF vars
  <2>2. \A m \in Nodes : LockCallAt(cl'[m], until'[m], now')
      BY <1>0, <2>1, LockCallOf
  <2> QED BY <1>0, <2>1, <2>2, LockQuiet DEF LockState
<1>8. ASSUME NEW n \in Nodes, Fails(n) PROVE LockState'
    BY <1>1, <1>8 DEF Fails
<1>9. ASSUME NEW n \in Nodes, NEW c \in calls[n], Begin(n, c) PROVE LockState'
    BY <1>9, LockBegin
<1>10. ASSUME NEW n \in Nodes, Body(n) PROVE LockState'
    BY <1>10, LockBody
<1>11. ASSUME NEW n \in Nodes, Committed(n) PROVE LockState'
    BY <1>11, LockCommitted
<1>12. ASSUME NEW r \in late, ArrivesLate(r) PROVE LockState'
    BY <1>12, LockArrivesLate
<1>13. CASE Policy
    BY <1>13, LockPolicy
<1> QED
    BY <1>2, <1>3, <1>4, <1>5, <1>6, <1>7, <1>8, <1>9, <1>10, <1>11, <1>12, <1>13 DEF Next

\* How the key is used does not change in a behaviour.
LEMMA DisciplineKept == ASSUME Inv, [Next]_vars PROVE LockDiscipline' <=> LockDiscipline
<1>1. calls' = calls
    BY DEF Next, Begin, Body, Committed, Aborted, Deleted, GetJudged, Fails, GivesUp,
           ArrivesLate, Policy, Tick, vars
<1> QED BY <1>1 DEF LockDiscipline, Leases, LockCall

\* Of a key used as a lock: whoever thinks to hold it, the clock skew off, owns the
\* document, and the document outlasts what its owner thinks. So it stays through
\* transactions that are run again, commits that are given up and arrive late, and
\* releases that do.
THEOREM LockInvariance == Spec => []LockInv
<1>1. Init => LockInv
  <2> SUFFICES ASSUME Init PROVE LockState
      BY DEF LockInv
  <2>1. until = [n \in Nodes |-> 0] /\ now = 1 /\ late = {} /\ doc = NoDoc
        /\ \A n \in Nodes : cl[n] = Idle("none")
      BY DEF Init
  <2>2. LockDocAt(doc, until, now)
      BY <2>1, ClockAssumption DEF LockDocAt, NoDoc
  <2>3. \A n \in Nodes : LockCallAt(cl[n], until[n], now)
      BY <2>1, LockCallIdle
  <2> QED BY <2>1, <2>2, <2>3 DEF LockState
<1>2. Inv /\ LockInv /\ [Next]_vars => LockInv'
    BY LockStep, DisciplineKept DEF LockInv
<1>3. Spec => []Inv
    BY Invariance, PTL DEF Inv
<1> QED BY <1>1, <1>2, <1>3, PTL DEF Spec

\* Two nodes that use the key as a lock, and let go of it the clock skew early, never
\* hold it at the same time, however many nodes there are and however far the clocks
\* are apart: RunTransaction answers what the run that committed did (firestore.go).
THEOREM LockExcludes == Spec => []MutualExclusion
<1>1. LockInv => MutualExclusion
    BY DEF LockInv, LockState, LockDocAt, MutualExclusion, Holds
<1> QED BY <1>1, LockInvariance, PTL

\* A holder that asks finds the key present: Get judges the document it read by a
\* clock that is at most the skew ahead, and the lease ends later than that.
THEOREM HolderSeesIt == Spec => []HolderSeesLease
<1>1. LockInv => HolderSeesLease
    BY DEF LockInv, LockState, LockCallAt, HolderSeesLease, Holds
<1> QED BY <1>1, LockInvariance, PTL

=============================================================================
