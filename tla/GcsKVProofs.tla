----------------------------- MODULE GcsKVProofs -----------------------------
(***************************************************************************)
(* Proofs about the Cloud Storage store, for every set of nodes and calls, *)
(* every clock skew and every lease: the invariant, that the store is a    *)
(* LeaseStore, and that a lock kept in it excludes.                        *)
(***************************************************************************)
EXTENDS GcsKV, TLAPS

\* A step leaves the object alone, removes it, or gives it a new generation.
Fresh == obj' = obj \/ obj'.gen = 0 \/ obj'.gen >= nextGen

\* The facts about a step that carry what was read and requested over it.
Carries ==
    /\ Fresh
    /\ obj' \in Object /\ nextGen' \in Nat /\ now' \in Nat
    /\ nextGen <= nextGen' /\ now <= now'
    /\ UNCHANGED <<calls, age>>

\* The calls that write are the same after a step.
LEMMA LeasesCarried == calls' = calls => Leases' = Leases
  BY DEF Leases

-----------------------------------------------------------------------------
\* A request on its way in the network may count on the same things after a
\* step of somebody else.
LEMMA CountsCarried ==
    ASSUME TypeOK, Carries, NEW r \in Request, Counts(r)
    PROVE  Counts(r)'
  <1>1. r.gen < nextGen'
    BY DEF TypeOK, Carries, Counts, Request
  <1>2. ASSUME r.gen # 0, r.gen = obj'.gen
        PROVE  obj' = obj /\ r.gen = obj.gen
    BY <1>2 DEF TypeOK, Carries, Fresh, Counts, Request, Object
  <1>3. ASSUME r.gen # 0, r.gen = obj'.gen
        PROVE  /\ r.call.op = "put" => Expires' # 0 /\ Expires' <= now' + Skew
               /\ r.call.op \in {"cas", "delete_if"} => obj'.val = r.call.old
               /\ r.call.op = "renew" => /\ r.call.ttl # 0 /\ Expires' # 0
                                         /\ obj'.owner = r.node /\ obj'.val = r.val
    <2>1. obj' = obj /\ r.gen = obj.gen
      BY <1>2, <1>3
    <2>2. Expires' = Expires
      BY <2>1 DEF Expires, ExpiryAt
    <2>3. r.call.op = "put" => Expires \in Nat /\ Expires <= now' + Skew
      BY <1>3, <2>1, ClockAssumption DEF TypeOK, Object, Counts, Carries, Expires, ExpiryAt
    <2> QED
      BY <1>3, <2>1, <2>2, <2>3 DEF Counts
  <1> QED
    BY <1>1, <1>3 DEF Counts, Carries

\* So may a node whose own part of the state did not change.
LEMMA CallCarried ==
    ASSUME TypeOK, Carries, NEW n \in Nodes, CallInv(n), cl'[n] = cl[n]
    PROVE  CallInv(n)'
  <1>1. cl[n] \in Client
    BY DEF TypeOK
  <1>2. ASSUME cl[n].step \in Sending PROVE RequestOf(n)' = RequestOf(n) /\ RequestOf(n) \in Request
    BY <1>1, <1>2 DEF TypeOK, CallInv, RequestOf, Request, Client, EntryState, Call, Sending
  <1>3. cl[n].step \in Sending => Counts(RequestOf(n))'
    <2> SUFFICES ASSUME cl[n].step \in Sending PROVE Counts(RequestOf(n))'
      OBVIOUS
    <2> DEFINE r == RequestOf(n)
    <2>1. Counts(r) /\ r \in Request
      BY <1>2 DEF CallInv
    <2>2. r' = r
      BY <1>2
    <2> QED
      BY <2>1, <2>2, CountsCarried
  <1>4. /\ cl'[n].start <= now'
        /\ cl'[n].e.gen < nextGen \/ cl'[n].step # "body"
    BY <1>1 DEF TypeOK, Carries, CallInv, Client, EntryState
  <1>5. cl[n].step = "body" =>
           /\ cl[n].e.gen # 0 /\ cl[n].e.gen < nextGen'
           /\ cl[n].e.gen = obj'.gen => cl[n].e.owner = obj'.owner /\ cl[n].e.expires = Expires'
    BY <1>1 DEF TypeOK, Carries, Fresh, CallInv, Client, EntryState, Object, Expires, ExpiryAt
  <1> QED
    BY <1>3, <1>4, <1>5 DEF CallInv, Carries

\* What the store may do with a request that counts on the right things.
LEMMA ApplyCarries ==
    ASSUME TypeOK, ObjectInv, NEW r \in Request, Counts(r), Apply(r), UNCHANGED <<calls, age, now>>
    PROVE  /\ Carries
           /\ ObjectInv'
           /\ last' \in Ops \cup {"none"}
           /\ ~Matches(r) => UNCHANGED <<obj, nextGen, last>>
  <1>1. CASE ~Matches(r)
    BY <1>1, LeasesCarried DEF Apply, TypeOK, Carries, Fresh, ObjectInv
  <1>2. CASE Matches(r) /\ IsDelete(r.call)
    <2>1. obj' = NoObject /\ nextGen' = nextGen /\ last' = r.call.op
      BY <1>2 DEF Apply
    <2>2. NoObject \in Object
      BY DEF NoObject, Object
    <2>3. last' \in Ops
      BY <2>1 DEF Request, Call
    <2> QED
      BY <1>2, <2>1, <2>2, <2>3 DEF TypeOK, Carries, Fresh, ObjectInv, NoObject, Object
  <1>3. CASE Matches(r) /\ ~IsDelete(r.call)
    <2>1. /\ obj' = [gen |-> nextGen, val |-> r.val, owner |-> r.node,
                     ttl |-> r.call.ttl, updated |-> now]
          /\ nextGen' = nextGen + 1 /\ last' = r.call.op
      BY <1>3 DEF Apply
    <2>2. obj' \in Object /\ last' \in Ops
      BY <2>1 DEF TypeOK, Request, Call, Object
    <2>3. r.call.op \in Writes /\ r.call \in calls[r.node] /\ r.node \in Nodes
      BY <1>3 DEF Counts, IsDelete, Writes, Request, Call, Ops
    <2>4. r.call \in Leases'
      BY <2>3, LeasesCarried DEF Leases
    <2>5. obj'.ttl = r.call.ttl
      BY <2>1
    <2> QED
      BY <1>3, <2>1, <2>2, <2>4, <2>5 DEF TypeOK, Carries, Fresh, ObjectInv
  <1> QED
    BY <1>1, <1>2, <1>3

\* The state of node n alone has changed, and the rest of the network follows.
LEMMA OthersCarried ==
    ASSUME TypeOK, GcsInv, Carries, NEW n \in Nodes,
           \A m \in Nodes \ {n} : cl'[m] = cl[m], CallInv(n)'
    PROVE  \A m \in Nodes : CallInv(m)'
  BY CallCarried DEF GcsInv

LEMMA LateCarried ==
    ASSUME TypeOK, GcsInv, Carries
    PROVE  \A r \in late : Counts(r)'
  BY CountsCarried DEF GcsInv, TypeOK

\* A step that touches no object carries everything.
LEMMA StillCarries ==
    ASSUME TypeOK, UNCHANGED <<calls, age, obj, nextGen, now>>
    PROVE  Carries /\ (ObjectInv => ObjectInv')
  BY LeasesCarried DEF TypeOK, Carries, Fresh, ObjectInv

LEMMA IdleIsClient ==
    ASSUME NEW a \in {"none", "present", "absent"}
    PROVE  Idle(a) \in Client
  <1>1. NoEntry \in EntryState
    BY DEF NoEntry, EntryState
  <1> QED
    BY <1>1 DEF Idle, Client, Steps

LEMMA IdleHolds ==
    ASSUME NEW n \in Nodes, now' \in Nat, NEW a, cl'[n] = Idle(a)
    PROVE  CallInv(n)'
  BY DEF CallInv, Idle, Sending

-----------------------------------------------------------------------------
\* One lemma per action: each keeps the type and the invariant.
Inv == TypeOK /\ GcsInv

LEMMA InitHolds == Init => Inv
  <1> SUFFICES ASSUME Init PROVE Inv
    OBVIOUS
  <1>1. \A n \in Nodes : cl[n] = Idle("none")
    BY DEF Init
  <1>2. cl \in [Nodes -> Client]
    BY <1>1, IdleIsClient DEF Init
  <1>3. TypeOK
    BY <1>2, UsesAssumption DEF Init, TypeOK, NoObject, Object, Use
  <1>4. \A n \in Nodes : CallInv(n)
    BY <1>1 DEF Init, CallInv, Idle, Sending
  <1> QED
    BY <1>3, <1>4 DEF Inv, GcsInv, Init, ObjectInv, NoObject

\* A node goes idle and the object stays: what ReturnFalse, Fails and an answer
\* to Get have in common.
LEMMA GoesIdle ==
    ASSUME Inv, NEW n \in Nodes, NEW a \in {"none", "present", "absent"},
           cl' = [cl EXCEPT ![n] = Idle(a)],
           until' = until \/ until' = [until EXCEPT ![n] = 0],
           UNCHANGED <<calls, age, obj, nextGen, now, late, last>>
    PROVE  Inv'
  <1>1. Carries /\ ObjectInv'
    BY StillCarries DEF Inv, GcsInv
  <1>2. cl'[n] = Idle(a) /\ \A m \in Nodes \ {n} : cl'[m] = cl[m]
    BY DEF Inv, TypeOK
  <1>3. cl' \in [Nodes -> Client]
    BY IdleIsClient DEF Inv, TypeOK
  <1>4. TypeOK'
    BY <1>3 DEF Inv, TypeOK
  <1>5. \A m \in Nodes : CallInv(m)'
    <2>1. CallInv(n)'
      BY <1>2, IdleHolds DEF Inv, TypeOK
    <2> QED
      BY <1>1, <1>2, <2>1, OthersCarried DEF Inv
  <1>6. \A r \in late' : Counts(r)'
    BY <1>1, LateCarried DEF Inv
  <1> QED
    BY <1>1, <1>4, <1>5, <1>6 DEF Inv, GcsInv

LEMMA BeginKeeps ==
    ASSUME Inv, NEW n \in Nodes, NEW c \in calls[n], Begin(n, c)
    PROVE  Inv'
  <1> c \in Call
    BY DEF Inv, TypeOK
  <1>1. CASE c.op = "renew" /\ c.ttl = 0
    <2>1. cl' = [cl EXCEPT ![n] = Idle("none")] /\ until' = until
      BY <1>1 DEF Begin
    <2> QED
      BY <2>1, GoesIdle DEF Begin
  <1>2. CASE ~(c.op = "renew" /\ c.ttl = 0)
    <2> DEFINE d == [Idle("none") EXCEPT !.step = FirstStep(c), !.call = c,
                        !.start = IF c.op \in {"put", "renew"} THEN now ELSE 0]
    <2>1. cl' = [cl EXCEPT ![n] = d] /\ until' \in [Nodes -> Nat]
      BY <1>2 DEF Begin, Inv, TypeOK
    <2>2. FirstStep(c) \in Steps /\ FirstStep(c) \notin {"idle", "body"}
      BY DEF FirstStep, Steps, Sending
    <2>3. d \in Client
      BY <2>2 DEF Idle, Client, NoEntry, EntryState, Inv, TypeOK
    <2>4. cl' \in [Nodes -> Client] /\ cl'[n] = d /\ \A m \in Nodes \ {n} : cl'[m] = cl[m]
      BY <2>1, <2>3 DEF Inv, TypeOK
    <2>5. Carries /\ ObjectInv'
      BY StillCarries DEF Begin, Inv, GcsInv
    <2>6. /\ FirstStep(c) = "create" => c.op = "put"
          /\ FirstStep(c) = "attrs" => c.op # "delete"
          /\ FirstStep(c) \in Sending => c.op \in {"put", "delete"}
      BY DEF FirstStep, Sending
    <2>7. ASSUME c.op \in {"put", "delete"} PROVE Counts(RequestOf(n))'
      <3>1. RequestOf(n)' = [node |-> n, call |-> c, gen |-> 0, val |-> c.val]
        BY <2>4, <2>7 DEF RequestOf, Idle, NoEntry
      <3>2. 0 < nextGen'
        BY DEF Begin, Inv, GcsInv, ObjectInv, TypeOK, Object
      <3> QED
        BY <2>5, <2>7, <3>1, <3>2 DEF Counts, Carries
    <2>8. CallInv(n)'
      <3>1. now' = now /\ calls' = calls
        BY DEF Begin
      <3>2. /\ cl'[n].step = FirstStep(c) /\ cl'[n].call = c
            /\ cl'[n].start \in {0, now} /\ cl'[n].e = NoEntry
        BY <2>4 DEF Idle
      <3>3. 0 <= now /\ now <= now
        BY DEF Inv, TypeOK
      <3> QED
        BY <1>2, <2>2, <2>6, <2>7, <3>1, <3>2, <3>3 DEF CallInv
    <2>9. \A m \in Nodes : CallInv(m)'
      BY <2>4, <2>5, <2>8, OthersCarried DEF Inv
    <2>10. \A r \in late' : Counts(r)'
      BY <2>5, LateCarried DEF Inv, Begin
    <2>11. TypeOK'
      BY <2>1, <2>4 DEF Begin, Inv, TypeOK
    <2> QED
      BY <2>5, <2>9, <2>10, <2>11 DEF Inv, GcsInv
  <1> QED
    BY <1>1, <1>2

LEMMA ReturnFalseKeeps ==
    ASSUME Inv, NEW n \in Nodes, ReturnFalse(n), UNCHANGED <<calls, age, obj, nextGen, now, late, last>>
    PROVE  Inv'
  <1>1. until' = until \/ until' = [until EXCEPT ![n] = 0]
    BY DEF ReturnFalse
  <1> QED
    BY <1>1, GoesIdle DEF ReturnFalse

LEMMA AttrsKeeps ==
    ASSUME Inv, NEW n \in Nodes, Attrs(n)
    PROVE  Inv'
  <1>1. CASE obj.gen = 0
    BY <1>1, ReturnFalseKeeps DEF Attrs
  <1>2. CASE obj.gen # 0
    <2> DEFINE e == [gen |-> obj.gen, val |-> None, owner |-> obj.owner, expires |-> Expires]
    <2>1. cl' = [cl EXCEPT ![n].step = "body", ![n].e = e] /\ until' = until /\ cl[n].step = "attrs"
      BY <1>2 DEF Attrs
    <2>2. Expires \in Nat
      BY DEF Inv, TypeOK, Object, Expires, ExpiryAt
    <2>3. e \in EntryState
      BY <2>2 DEF EntryState, Inv, TypeOK, Object
    <2>4. cl[n] \in Client
      BY DEF Inv, TypeOK
    <2>5. cl'[n] = [cl[n] EXCEPT !.step = "body", !.e = e]
      BY <2>1 DEF Inv, TypeOK
    <2>6. cl'[n] \in Client
      BY <2>3, <2>4, <2>5 DEF Client, Steps
    <2>7. cl' \in [Nodes -> Client] /\ \A m \in Nodes \ {n} : cl'[m] = cl[m]
      BY <2>1, <2>5, <2>6 DEF Inv, TypeOK
    <2>8. Carries /\ ObjectInv'
      BY StillCarries DEF Attrs, Inv, GcsInv
    <2>9. CallInv(n)'
      <3>1. /\ cl'[n].step = "body" /\ cl'[n].e = e
            /\ cl'[n].call = cl[n].call /\ cl'[n].start = cl[n].start
        BY <2>4, <2>5 DEF Client
      <3>2. CallInv(n) /\ UNCHANGED <<calls, obj, nextGen, now>>
        BY DEF Inv, GcsInv, Attrs
      <3> QED
        BY <1>2, <2>1, <3>1, <3>2 DEF CallInv, Inv, GcsInv, ObjectInv, Sending, Expires, ExpiryAt
    <2>10. \A m \in Nodes : CallInv(m)'
      BY <2>7, <2>8, <2>9, OthersCarried DEF Inv
    <2>11. \A r \in late' : Counts(r)'
      BY <2>8, LateCarried DEF Inv, Attrs
    <2>12. TypeOK'
      BY <2>1, <2>7 DEF Attrs, Inv, TypeOK
    <2> QED
      BY <2>8, <2>10, <2>11, <2>12 DEF Inv, GcsInv
  <1> QED
    BY <1>1, <1>2

LEMMA BodyKeeps ==
    ASSUME Inv, NEW n \in Nodes, Body(n)
    PROVE  Inv'
  <1> DEFINE e == [cl[n].e EXCEPT !.val = obj.val]
             c == cl[n].call
  <1>1. CASE ReturnFalse(n)
    BY <1>1, ReturnFalseKeeps DEF Body
  <1>2. CASE cl' = [cl EXCEPT ![n] = Idle("present")] /\ until' = until
    BY <1>2, GoesIdle DEF Body
  <1>3. ASSUME NEW t \in Clock, Judgement(n, e, t), c.op # "get", obj.gen = cl[n].e.gen,
               cl' = [cl EXCEPT ![n].step = "send", ![n].e = e], until' = until
        PROVE  Inv'
    <2>1. cl[n] \in Client /\ obj \in Object /\ now \in Nat /\ CallInv(n) /\ cl[n].step = "body"
      BY DEF Inv, TypeOK, GcsInv, Body
    <2>2. UNCHANGED <<calls, age, obj, nextGen, now, late, last>>
      BY DEF Body
    <2>3. /\ e \in EntryState /\ e.gen = obj.gen /\ e.gen # 0 /\ e.gen < nextGen
          /\ e.val = obj.val /\ e.owner = obj.owner /\ e.expires = Expires
      BY <1>3, <2>1 DEF CallInv, Client, EntryState, Object
    <2>4. cl'[n] = [cl[n] EXCEPT !.step = "send", !.e = e]
      BY <1>3 DEF Inv, TypeOK
    <2>5. cl'[n] \in Client
      BY <2>1, <2>3, <2>4 DEF Client, Steps, Sending
    <2>6. cl' \in [Nodes -> Client] /\ \A m \in Nodes \ {n} : cl'[m] = cl[m]
      BY <1>3, <2>4, <2>5 DEF Inv, TypeOK
    <2>7. Carries /\ ObjectInv'
      BY <2>2, StillCarries DEF Inv, GcsInv
    <2>8. c \in calls[n] /\ c \in Call /\ c.op # "delete" /\ (c.op = "renew" => c.ttl # 0)
      BY <2>1 DEF CallInv, Inv, TypeOK
    <2>9. /\ cl'[n].step = "send" /\ cl'[n].e = e
          /\ cl'[n].call = c /\ cl'[n].start = cl[n].start
      BY <2>1, <2>4 DEF Client
    <2>10. Counts(RequestOf(n))'
      <3> DEFINE r == [node |-> n, call |-> c, gen |-> obj.gen,
                       val |-> IF c.op = "renew" THEN obj.val ELSE c.val]
      <3>1. RequestOf(n)' = r
        BY <2>3, <2>9 DEF RequestOf
      <3>2. c.op = "put" => Expires # 0 /\ Expires <= now + Skew
        <4>1. Expires \in Nat /\ t \in Nat /\ t <= now + Skew
          BY <2>1, ClockAssumption DEF Expires, ExpiryAt, Object, Clock
        <4> QED
          BY <1>3, <2>3, <4>1, <2>1, ClockAssumption DEF Judgement, Live
      <3>3. c.op \in {"cas", "delete_if"} => obj.val = c.old
        BY <1>3, <2>3 DEF Judgement
      <3>4. c.op = "renew" => Expires # 0 /\ obj.owner = n
        BY <1>3, <2>3 DEF Judgement
      <3>5. Counts(r)
        BY <1>3, <2>3, <2>8, <3>2, <3>3, <3>4 DEF Counts
      <3>6. Counts(RequestOf(n))' <=> Counts(r)
        BY <2>2, <3>1 DEF Counts, Expires, ExpiryAt
      <3> QED
        BY <3>5, <3>6
    <2>11. CallInv(n)'
      BY <2>1, <2>2, <2>8, <2>9, <2>10 DEF CallInv
    <2>12. \A m \in Nodes : CallInv(m)'
      BY <2>6, <2>7, <2>11, OthersCarried DEF Inv
    <2>13. \A r \in late' : Counts(r)'
      BY <2>2, <2>7, LateCarried DEF Inv
    <2>14. TypeOK'
      BY <1>3, <2>2, <2>6 DEF Inv, TypeOK
    <2> QED
      BY <2>7, <2>12, <2>13, <2>14 DEF Inv, GcsInv
  <1> QED
    BY <1>1, <1>2, <1>3 DEF Body

\* The request of a node that is sending is one the store may count on.
LEMMA SendingCounts ==
    ASSUME Inv, NEW n \in Nodes, cl[n].step \in Sending
    PROVE  RequestOf(n) \in Request /\ Counts(RequestOf(n))
  <1>1. cl[n] \in Client /\ CallInv(n)
    BY DEF Inv, TypeOK, GcsInv
  <1>2. cl[n].call \in Call
    BY <1>1 DEF CallInv, Sending, Inv, TypeOK
  <1> QED
    BY <1>1, <1>2 DEF CallInv, RequestOf, Request, Client, EntryState, Call

LEMMA AnsweredKeeps ==
    ASSUME Inv, NEW n \in Nodes, Answered(n)
    PROVE  Inv'
  <1> DEFINE r == RequestOf(n)
  <1>1. r \in Request /\ Counts(r) /\ Apply(r) /\ UNCHANGED <<calls, age, now, late>>
    BY SendingCounts DEF Answered
  <1>2. Carries /\ ObjectInv' /\ last' \in Ops \cup {"none"}
    BY <1>1, ApplyCarries DEF Inv, GcsInv
  <1>3. \A q \in late' : Counts(q)'
    BY <1>1, <1>2, LateCarried DEF Inv
  <1>4. cl[n] \in Client /\ CallInv(n) /\ cl[n].step \in Sending
    BY DEF Inv, TypeOK, GcsInv, Answered
  <1>5. CASE ~Matches(r) /\ cl[n].step = "send"
    <2>1. UNCHANGED <<calls, age, obj, nextGen, now, late, last>>
      BY <1>1, <1>5, ApplyCarries DEF Inv, GcsInv
    <2>2. ReturnFalse(n)
      BY <1>5 DEF Answered
    <2> QED
      BY <2>1, <2>2, ReturnFalseKeeps
  <1>6. CASE Matches(r)
    <2>1. cl' = [cl EXCEPT ![n] = Idle("none")] /\ until' = Leased(n)
      BY <1>6 DEF Answered
    <2>2. cl' \in [Nodes -> Client] /\ cl'[n] = Idle("none")
          /\ \A m \in Nodes \ {n} : cl'[m] = cl[m]
      BY <2>1, IdleIsClient DEF Inv, TypeOK
    <2>3. cl[n].start \in Nat /\ cl[n].call.ttl \in Nat
      BY <1>4 DEF CallInv, Client, Call, Sending, Inv, TypeOK
    <2>4. until' \in [Nodes -> Nat]
      BY <2>1, <2>3 DEF Leased, Inv, TypeOK
    <2>5. TypeOK'
      BY <1>1, <1>2, <2>2, <2>4 DEF Inv, TypeOK, Carries
    <2>6. CallInv(n)'
      BY <1>1, <2>2, IdleHolds DEF Inv, TypeOK
    <2>7. \A m \in Nodes : CallInv(m)'
      BY <1>2, <2>2, <2>6, OthersCarried DEF Inv
    <2> QED
      BY <1>2, <1>3, <2>5, <2>7 DEF Inv, GcsInv
  <1>7. CASE ~Matches(r) /\ cl[n].step = "create"
    <2>1. cl' = [cl EXCEPT ![n].step = "attrs"] /\ until' = until
      BY <1>7 DEF Answered
    <2>2. cl'[n] = [cl[n] EXCEPT !.step = "attrs"]
      BY <2>1 DEF Inv, TypeOK
    <2>3. cl'[n] \in Client
      BY <1>4, <2>2 DEF Client, Steps
    <2>4. cl' \in [Nodes -> Client] /\ \A m \in Nodes \ {n} : cl'[m] = cl[m]
      BY <2>1, <2>2, <2>3 DEF Inv, TypeOK
    <2>5. cl'[n].step = "attrs" /\ cl'[n].call = cl[n].call /\ cl'[n].start = cl[n].start
      BY <1>4, <2>2 DEF Client
    <2>6. CallInv(n)'
      BY <1>1, <1>4, <1>7, <2>5 DEF CallInv, Sending
    <2>7. \A m \in Nodes : CallInv(m)'
      BY <1>2, <2>4, <2>6, OthersCarried DEF Inv
    <2>8. TypeOK'
      BY <1>1, <1>2, <2>1, <2>4 DEF Inv, TypeOK, Carries
    <2> QED
      BY <1>2, <1>3, <2>7, <2>8 DEF Inv, GcsInv
  <1> QED
    BY <1>4, <1>5, <1>6, <1>7 DEF Sending

\* The client sends the same request again: what it counts on is the caller's
\* unchanged call, carried over its own write.
LEMMA RetriedKeeps ==
    ASSUME Inv, NEW n \in Nodes, Retried(n)
    PROVE  Inv'
  <1> DEFINE r == RequestOf(n)
  <1>1. r \in Request /\ Counts(r) /\ Apply(r) /\ UNCHANGED <<calls, age, now, late, until>>
    BY SendingCounts DEF Retried
  <1>2. Carries /\ ObjectInv' /\ last' \in Ops \cup {"none"}
    BY <1>1, ApplyCarries DEF Inv, GcsInv
  <1>3. \A q \in late' : Counts(q)'
    BY <1>1, <1>2, LateCarried DEF Inv
  <1>4. cl[n] \in Client /\ CallInv(n) /\ cl[n].step \in Sending
    BY DEF Inv, TypeOK, GcsInv, Retried
  <1>5. cl' = cl
    BY DEF Retried
  <1>8. cl' \in [Nodes -> Client] /\ \A m \in Nodes \ {n} : cl'[m] = cl[m]
    BY <1>5 DEF Inv, TypeOK
  <1>9. /\ cl'[n].step = cl[n].step /\ cl'[n].call = cl[n].call
        /\ cl'[n].start = cl[n].start /\ cl'[n].e = cl[n].e
    BY <1>5
  <1>10. r' = r
    BY <1>9 DEF RequestOf
  <1>11. Counts(r)'
    BY <1>1, <1>2, <1>10, CountsCarried DEF Inv
  <1>12. CallInv(n)'
    BY <1>1, <1>4, <1>9, <1>11 DEF CallInv, Sending
  <1>13. \A m \in Nodes : CallInv(m)'
    BY <1>2, <1>8, <1>12, OthersCarried DEF Inv
  <1>14. TypeOK'
    BY <1>1, <1>2, <1>8 DEF Inv, TypeOK, Carries
  <1> QED
    BY <1>2, <1>3, <1>13, <1>14 DEF Inv, GcsInv

LEMMA FailsKeeps ==
    ASSUME Inv, NEW n \in Nodes, Fails(n)
    PROVE  Inv'
  BY GoesIdle DEF Fails

\* The request stays in the network, and with it what it counts on.
LEMMA GivesUpKeeps ==
    ASSUME Inv, NEW n \in Nodes, GivesUp(n)
    PROVE  Inv'
  <1> DEFINE r == RequestOf(n)
  <1>1. r \in Request /\ Counts(r)
    BY SendingCounts DEF GivesUp
  <1>2. /\ cl' = [cl EXCEPT ![n] = Idle("none")]
        /\ late' = late \cup {r}
        /\ UNCHANGED <<calls, age, obj, nextGen, now, until, last>>
    BY DEF GivesUp
  <1>3. Carries /\ ObjectInv'
    BY <1>2, StillCarries DEF Inv, GcsInv
  <1>4. /\ cl' \in [Nodes -> Client] /\ cl'[n] = Idle("none")
        /\ \A m \in Nodes \ {n} : cl'[m] = cl[m]
    BY <1>2, IdleIsClient DEF Inv, TypeOK
  <1>5. CallInv(n)'
    BY <1>2, <1>4, IdleHolds DEF Inv, TypeOK
  <1>6. \A m \in Nodes : CallInv(m)'
    BY <1>3, <1>4, <1>5, OthersCarried DEF Inv
  <1>7. ASSUME NEW q \in late' PROVE Counts(q)'
    <2>1. q \in Request /\ Counts(q)
      BY <1>1, <1>2, <1>7 DEF Inv, GcsInv, TypeOK
    <2> QED
      BY <1>3, <2>1, CountsCarried DEF Inv
  <1>8. TypeOK'
    BY <1>1, <1>2, <1>4 DEF Inv, TypeOK
  <1> QED
    BY <1>3, <1>6, <1>7, <1>8 DEF Inv, GcsInv

\* The steps that leave every node alone.
LEMMA NodesUntouched ==
    ASSUME Inv, Carries, ObjectInv', last' \in Ops \cup {"none"},
           late' \subseteq late, UNCHANGED <<cl, until>>
    PROVE  Inv'
  <1>1. \A m \in Nodes : CallInv(m)'
    BY CallCarried DEF Inv, GcsInv
  <1>2. \A q \in late' : Counts(q)'
    BY LateCarried DEF Inv
  <1>3. TypeOK'
    BY DEF Inv, TypeOK, Carries
  <1> QED
    BY <1>1, <1>2, <1>3 DEF Inv, GcsInv

LEMMA ArrivesLateKeeps ==
    ASSUME Inv, NEW r \in late, ArrivesLate(r)
    PROVE  Inv'
  <1>1. r \in Request /\ Counts(r)
    BY DEF Inv, GcsInv, TypeOK
  <1>2. Carries /\ ObjectInv' /\ last' \in Ops \cup {"none"}
    BY <1>1, ApplyCarries DEF ArrivesLate, Inv, GcsInv
  <1> QED
    BY <1>2, NodesUntouched DEF ArrivesLate

LEMMA LifecycleKeeps == ASSUME Inv, Lifecycle PROVE Inv'
  <1>1. NoObject \in Object /\ NoObject.gen = 0 /\ NoObject.updated = 0
    BY DEF NoObject, Object
  <1>2. Carries /\ ObjectInv'
    BY <1>1 DEF Lifecycle, Inv, GcsInv, TypeOK, Object, Carries, Fresh, ObjectInv
  <1> QED
    BY <1>2, NodesUntouched DEF Lifecycle, Inv, TypeOK

LEMMA TickKeeps == ASSUME Inv, Tick PROVE Inv'
  <1>1. Carries /\ ObjectInv'
    BY LeasesCarried DEF Tick, Inv, GcsInv, TypeOK, Object, Carries, Fresh, ObjectInv
  <1> QED
    BY <1>1, NodesUntouched DEF Tick, Inv, TypeOK

LEMMA NextKeeps == Inv /\ [Next]_vars => Inv'
  <1> SUFFICES ASSUME Inv, [Next]_vars PROVE Inv'
    OBVIOUS
  <1>1. CASE UNCHANGED vars
    <2>1. Carries /\ ObjectInv'
      BY <1>1, StillCarries DEF vars, Inv, GcsInv
    <2> QED
      BY <1>1, <2>1, NodesUntouched DEF vars, Inv, TypeOK
  <1>2. CASE Next
    BY <1>2, BeginKeeps, AttrsKeeps, BodyKeeps, AnsweredKeeps, RetriedKeeps,
       FailsKeeps, GivesUpKeeps, ArrivesLateKeeps, LifecycleKeeps, TickKeeps DEF Next
  <1> QED
    BY <1>1, <1>2

\* Type correctness, and what every request in flight may count on: the object
\* is still the one it was computed from, or the request will be refused.
THEOREM Invariance == Spec => [](TypeOK /\ GcsInv)
  <1>1. Spec => []Inv
    BY InitHolds, NextKeeps, PTL DEF Spec
  <1> QED
    BY <1>1, PTL DEF Inv

\* Every reachable state is well typed, the requests on their way included.
THEOREM TypeCorrect == Spec => []TypeOK
  BY Invariance, PTL

-----------------------------------------------------------------------------
\* The store is a LeaseStore.

\* A request that is carried out is the operation it was sent for.
LEMMA ApplyIsChange ==
    ASSUME Inv, NEW r \in Request, Counts(r), Apply(r), UNCHANGED <<calls, now>>
    PROVE  Store!Change(r.node, r.call) \/ UNCHANGED <<entry, now, last>>
  <1> DEFINE c == r.call
             n == r.node
  <1>1. obj \in Object /\ c \in Call /\ n \in Nodes /\ now \in Nat
    BY DEF Inv, TypeOK, Request
  <1>2. CASE ~Matches(r)
    BY <1>2 DEF Apply, entry, Expires, ExpiryAt
  <1>3. CASE Matches(r) /\ IsDelete(c)
    <2>1. entry' = {} /\ last' = c.op
      BY <1>3 DEF Apply, entry, NoObject
    <2>2. c.op = "delete_if" => obj.gen # 0 /\ obj.val = c.old
      BY <1>3 DEF Counts, Matches
    <2>3. c.op = "delete_if" => \E e \in entry : e.val = c.old
      BY <2>2 DEF entry
    <2>4. Store!Delete(n, c)
      BY <1>3, <2>1, <2>3 DEF Store!Delete, IsDelete
    <2> QED
      BY <2>1, <2>4 DEF Store!Change
  <1>4. CASE Matches(r) /\ ~IsDelete(c)
    <2>1. /\ obj' = [gen |-> nextGen, val |-> r.val, owner |-> n, ttl |-> c.ttl, updated |-> now]
          /\ last' = c.op
      BY <1>4 DEF Apply
    <2>2. nextGen # 0
      BY DEF Inv, GcsInv, ObjectInv, TypeOK, Object
    <2>3. entry' = {[val |-> r.val, owner |-> n, expires |-> ExpiryAt(now, c.ttl)]}
      BY <2>1, <2>2 DEF entry, Expires, ExpiryAt
    <2>4. entry' = Store!Written(n, r.val, c.ttl)
      BY <2>3 DEF Store!Written, Store!ExpiryAt, ExpiryAt
    <2>5. r.gen = obj.gen /\ c.op \in {"put", "cas", "renew"}
      BY <1>1, <1>4 DEF Matches, IsDelete, Call, Ops, Counts
    <2>6. CASE c.op = "put"
      <3>1. r.val = c.val
        BY <2>6 DEF Counts
      <3>2. ASSUME NEW e \in entry PROVE ~Store!Live(e, now + Skew)
        <4>1. obj.gen # 0 /\ e.expires = Expires
          BY <3>2 DEF entry
        <4>2. Expires # 0 /\ Expires <= now + Skew
          BY <2>5, <2>6, <4>1 DEF Counts
        <4>3. Expires \in Nat
          BY <1>1 DEF Expires, ExpiryAt, Object
        <4> QED
          BY <1>1, <4>1, <4>2, <4>3, ClockAssumption DEF Store!Live
      <3>3. Store!PutIfAbsent(n, c)
        BY <2>4, <2>6, <3>1, <3>2 DEF Store!PutIfAbsent
      <3> QED
        BY <2>1, <3>3 DEF Store!Change
    <2>7. CASE c.op = "cas"
      <3>1. r.val = c.val /\ obj.gen # 0 /\ obj.val = c.old
        BY <2>5, <2>7 DEF Counts
      <3>2. \E e \in entry : Store!StillLive(e) /\ e.val = c.old
        BY <3>1 DEF entry, Store!StillLive
      <3>3. Store!CompareAndSwap(n, c)
        BY <2>4, <2>7, <3>1, <3>2 DEF Store!CompareAndSwap
      <3> QED
        BY <2>1, <3>3 DEF Store!Change
    <2>8. CASE c.op = "renew"
      <3>1. obj.gen # 0 /\ c.ttl # 0 /\ Expires # 0 /\ obj.owner = n /\ obj.val = r.val
        BY <2>5, <2>8 DEF Counts
      <3> DEFINE e == [val |-> obj.val, owner |-> obj.owner, expires |-> Expires]
      <3>2. entry = {e}
        BY <3>1 DEF entry
      <3>3. entry' = Store!Written(n, e.val, c.ttl)
        BY <2>4, <3>1
      <3>4. c.ttl > 0
        BY <1>1, <3>1 DEF Call
      <3>5. Store!Renew(n, c)
        BY <2>8, <3>1, <3>2, <3>3, <3>4 DEF Store!Renew, Store!StillLive
      <3> QED
        BY <2>1, <3>5 DEF Store!Change
    <2> QED
      BY <2>5, <2>6, <2>7, <2>8
  <1> QED
    BY <1>2, <1>3, <1>4

\* Nothing changes the calls that the nodes make, or the lifecycle rule.
LEMMA UseStays == [Next]_vars => UNCHANGED <<calls, age>>
  BY DEF Next, Begin, Attrs, Body, Answered, Retried, Fails, GivesUp, ArrivesLate,
         Lifecycle, Tick, vars

LEMMA StepRefines ==
    ASSUME LifecycleHarmless, Inv, [Next]_vars
    PROVE  [Store!Next]_(Store!vars)
  <1> USE DEF Store!vars
  <1>1. ASSUME UNCHANGED <<calls, obj, now, last>> PROVE UNCHANGED Store!vars
    BY <1>1 DEF entry, Expires, ExpiryAt
  <1>2. ASSUME NEW r \in Request, Counts(r), Apply(r), UNCHANGED <<calls, now>>
        PROVE  [Store!Next]_(Store!vars)
    <2>1. r.node \in Nodes /\ r.call \in calls[r.node] /\ DOMAIN calls = Nodes
      BY <1>2 DEF Counts, Request, Inv, TypeOK
    <2>2. Store!Change(r.node, r.call) \/ UNCHANGED <<entry, now, last>>
      BY <1>2, ApplyIsChange
    <2> QED
      BY <1>2, <2>1, <2>2 DEF Store!Next
  <1>3. ASSUME NEW n \in Nodes,
               Attrs(n) \/ Body(n) \/ Fails(n) \/ GivesUp(n) \/ \E c \in calls[n] : Begin(n, c)
        PROVE  UNCHANGED <<calls, obj, now, last>>
    BY <1>3 DEF Attrs, Body, Fails, GivesUp, Begin
  <1>4. ASSUME NEW n \in Nodes, Answered(n) \/ Retried(n)
        PROVE  [Store!Next]_(Store!vars)
    <2>1. cl[n].step \in Sending /\ Apply(RequestOf(n)) /\ UNCHANGED <<calls, now>>
      BY <1>4 DEF Answered, Retried
    <2> QED
      BY <1>2, <2>1, SendingCounts
  <1>5. ASSUME NEW r \in late, ArrivesLate(r)
        PROVE  [Store!Next]_(Store!vars)
    <2>1. r \in Request /\ Counts(r) /\ Apply(r) /\ UNCHANGED <<calls, now>>
      BY <1>5 DEF ArrivesLate, Inv, GcsInv, TypeOK
    <2> QED
      BY <1>2, <2>1
  <1>6. CASE Lifecycle
    <2>1. \E c \in Leases : obj.ttl = c.ttl
      BY <1>6 DEF Lifecycle, Inv, GcsInv, ObjectInv
    <2>2. obj.ttl \in 1..age
      BY <1>6, <2>1 DEF Lifecycle, LifecycleHarmless
    <2>3. Expires # 0 /\ Expires <= now /\ Expires \in Nat /\ now \in Nat
      BY <1>6, <2>2, ClockAssumption DEF Lifecycle, Expires, ExpiryAt, Inv, TypeOK, Object
    <2>4. \A e \in entry : ~Store!Live(e, now)
      BY <2>3 DEF entry, Store!Live
    <2>5. entry' = {} /\ UNCHANGED <<calls, now, last>>
      BY <1>6 DEF Lifecycle, entry, NoObject
    <2> QED
      BY <2>4, <2>5 DEF Store!Reap, Store!Next
  <1>7. CASE Tick
    BY <1>7 DEF Tick, Store!Tick, Store!Next, entry, Expires, ExpiryAt
  <1>8. CASE UNCHANGED vars
    BY <1>1, <1>8 DEF vars
  <1> QED
    BY <1>1, <1>3, <1>4, <1>5, <1>6, <1>7, <1>8 DEF Next

\* Every operation that changes the key does so as the KVStore contract allows
\* at that instant, however the requests behind it interleaved, provided that
\* the bucket's lifecycle rule leaves live leases alone.
THEOREM Refinement == Spec /\ LifecycleHarmless => ImplementsLeaseStore
  <1>1. Init => Store!Init
    BY DEF Init, Store!Init, entry, NoObject
  <1>2. LifecycleHarmless /\ Inv /\ [Next]_vars => [Store!Next]_(Store!vars)
    BY StepRefines
  <1>3. Spec => []Inv
    BY Invariance, PTL DEF Inv
  <1>4. LifecycleHarmless /\ [Next]_vars => LifecycleHarmless'
    BY UseStays DEF LifecycleHarmless, Leases
  <1> QED
    BY <1>1, <1>2, <1>3, <1>4, PTL DEF Spec, ImplementsLeaseStore, Store!Spec

-----------------------------------------------------------------------------
\* The lock.

\* What the discipline makes of the calls that can be in flight.
LEMMA LockRequest ==
    ASSUME LockDiscipline, NEW r \in Request, Counts(r)
    PROVE  /\ r.call.op \in {"put", "renew", "delete_if"}
           /\ r.call.op = "put" => r.val = r.node
           /\ r.call.op = "delete_if" => r.call.old = r.node
           /\ r.call.op \in Writes =>
                 /\ r.call.ttl \in Nat \ {0}
                 /\ \A c \in Leases : c.ttl = r.call.ttl
  <1>1. r.node \in Nodes /\ r.call \in calls[r.node] /\ r.call \in Call
    BY DEF Request, Counts
  <1>2. LockCall(r.node, r.call) /\ r.call.op # "get"
    BY <1>1 DEF LockDiscipline, Counts
  <1>3. r.call.op \in Writes => r.call \in Leases
    BY <1>1 DEF Leases
  <1>4. r.call.ttl \in Nat
    BY <1>1 DEF Call
  <1> QED
    BY <1>2, <1>3, <1>4 DEF LockCall, LockDiscipline, Writes, Counts

\* Carrying out a request takes the lock from nobody who holds it.
LEMMA ApplyKeepsLock ==
    ASSUME Inv, LockDiscipline, LockKept, NEW r \in Request, Counts(r), Apply(r), now' = now,
           r.call.op = "delete_if" /\ r.gen = obj.gen => until[r.node] = 0
    PROVE  /\ obj'.gen # 0 =>
                 /\ obj'.val = obj'.owner
                 /\ \A c \in Leases : obj'.ttl = c.ttl
           /\ \A n \in Nodes : Holds(n) => obj'.gen # 0 /\ obj'.owner = n /\ until[n] <= Expires'
           /\ Matches(r) /\ r.call.op \in Writes =>
                 obj'.gen # 0 /\ obj'.owner = r.node /\ Expires' = now + r.call.ttl
           /\ Matches(r) /\ r.call.op \in Writes => \A n \in Nodes \ {r.node} : ~Holds(n)
  <1> DEFINE c == r.call
  <1>1. /\ obj \in Object /\ c \in Call /\ r.node \in Nodes /\ now \in Nat /\ nextGen \in Nat
        /\ nextGen # 0 /\ obj.updated <= now /\ until \in [Nodes -> Nat]
    BY DEF Inv, TypeOK, Request, GcsInv, ObjectInv, Object
  <1>2. Expires \in Nat
    BY <1>1 DEF Expires, ExpiryAt, Object
  <1>3. CASE ~Matches(r)
    BY <1>3 DEF Apply, LockKept, Expires, ExpiryAt
  <1>4. CASE Matches(r) /\ c.op = "delete_if"
    <2>1. obj' = NoObject /\ obj.gen = r.gen /\ r.gen # 0
      BY <1>4 DEF Apply, IsDelete, Matches, Counts
    <2>2. obj.owner = r.node
      BY <1>4, <2>1, LockRequest DEF Counts, LockKept
    <2>3. until[r.node] = 0
      BY <1>4, <2>1
    <2>4. ASSUME NEW n \in Nodes PROVE ~Holds(n)
      <3>1. n # r.node => ~Holds(n)
        BY <2>2 DEF LockKept
      <3>2. ~Holds(r.node)
        BY <1>1, <2>3, ClockAssumption DEF Holds
      <3> QED
        BY <3>1, <3>2
    <2> QED
      BY <1>4, <2>1, <2>4 DEF NoObject, Writes
  <1>5. CASE Matches(r) /\ c.op \in Writes
    <2>1. /\ obj' = [gen |-> nextGen, val |-> r.val, owner |-> r.node, ttl |-> c.ttl, updated |-> now]
          /\ r.gen = obj.gen
      BY <1>5 DEF Apply, IsDelete, Matches, Writes
    <2>2. /\ c.ttl \in Nat \ {0}
          /\ \A d \in Leases : d.ttl = c.ttl
      BY <1>5, LockRequest
    <2>3. Expires' = now + c.ttl
      BY <2>1, <2>2 DEF Expires, ExpiryAt
    <2>4. CASE c.op = "put"
      <3>1. ASSUME NEW n \in Nodes PROVE ~Holds(n)
        <4>1. obj.gen # 0 => Expires <= now + Skew
          BY <2>1, <2>4 DEF Counts
        <4> QED
          BY <1>1, <1>2, <4>1, ClockAssumption DEF LockKept, Holds
      <3>2. r.val = r.node
        BY <2>4, LockRequest
      <3> QED
        BY <1>1, <2>1, <2>2, <2>3, <3>1, <3>2
    <2>5. CASE c.op = "renew"
      <3>1. obj.gen # 0 /\ obj.owner = r.node /\ obj.val = r.val
        BY <2>1, <2>5 DEF Counts
      <3>2. r.val = r.node
        BY <3>1 DEF LockKept
      <3>3. \A n \in Nodes \ {r.node} : ~Holds(n)
        BY <3>1 DEF LockKept
      <3>4. obj.ttl = c.ttl
        BY <1>1, <1>5, <3>1 DEF LockKept, Counts, Leases
      <3>5. Expires <= now + c.ttl
        BY <1>1, <2>2, <3>4 DEF Expires, ExpiryAt, Object
      <3>6. Holds(r.node) => until[r.node] <= now + c.ttl
        BY <1>1, <1>2, <2>2, <3>5 DEF LockKept
      <3> QED
        BY <1>1, <2>1, <2>2, <2>3, <3>2, <3>3, <3>6
    <2> QED
      BY <1>5, <2>4, <2>5, LockRequest DEF Writes
  <1> QED
    BY <1>3, <1>4, <1>5, LockRequest DEF Writes

\* LockKept on what the object and the nodes' beliefs become in a step.
LockObject(o, u, t) ==
    /\ o.gen # 0 =>
          /\ o.val = o.owner
          /\ \A c \in Leases : o.ttl = c.ttl
    /\ \A n \in Nodes : t + Skew < u[n] =>
          o.gen # 0 /\ o.owner = n /\ u[n] <= ExpiryAt(o.updated, o.ttl)

\* ... and on the releases that are on their way.
NoRelease ==
    /\ \A n \in Nodes : cl[n].step # "idle" /\ cl[n].call.op = "delete_if" => until[n] = 0
    /\ \A r \in late : r.call.op = "delete_if" /\ r.gen = obj.gen => until[r.node] = 0

LEMMA LockSplit ==
    /\ LockKept  <=> LockObject(obj, until, now)  /\ NoRelease
    /\ LockKept' <=> LockObject(obj, until, now)' /\ NoRelease'
  BY DEF LockKept, LockObject, NoRelease, Holds, Expires

\* A belief can only be given up while the object stays.
LEMMA LockWeakens ==
    ASSUME Inv, LockKept, NEW n \in Nodes, UNCHANGED <<calls, now, obj>>,
           until' = until \/ until' = [until EXCEPT ![n] = 0]
    PROVE  /\ LockObject(obj, until, now)'
           /\ \A m \in Nodes : until[m] = 0 => until'[m] = 0
  <1>1. until \in [Nodes -> Nat] /\ now \in Nat
    BY DEF Inv, TypeOK
  <1>2. \A m \in Nodes : until'[m] = until[m] \/ until'[m] = 0
    BY <1>1
  <1> QED
    BY <1>1, <1>2, LockSplit, LeasesCarried, ClockAssumption DEF LockObject

LEMMA LockStep ==
    ASSUME Inv, LockDiscipline, LifecycleHarmless, LockKept, [Next]_vars
    PROVE  LockKept'
  <1> USE LockSplit DEF NoRelease
  <1>0. /\ until \in [Nodes -> Nat] /\ now \in Nat /\ cl \in [Nodes -> Client]
        /\ obj \in Object /\ late \subseteq Request
        /\ UNCHANGED <<calls, age>> /\ Leases' = Leases
    BY UseStays, LeasesCarried DEF Inv, TypeOK
  \* Steps after which node n is in another place, with the object as it was.
  <1>1. ASSUME NEW n \in Nodes, NEW d, cl' = [cl EXCEPT ![n] = d],
               until' = until \/ until' = [until EXCEPT ![n] = 0],
               d.step # "idle" /\ d.call.op = "delete_if" => until'[n] = 0,
               UNCHANGED <<obj, now, late>>
        PROVE  LockKept'
    <2>1. LockObject(obj, until, now)' /\ \A m \in Nodes : until[m] = 0 => until'[m] = 0
      BY <1>0, <1>1, LockWeakens
    <2>2. cl'[n] = d /\ \A m \in Nodes \ {n} : cl'[m] = cl[m]
      BY <1>0, <1>1
    <2>3. \A m \in Nodes : cl'[m].step # "idle" /\ cl'[m].call.op = "delete_if" => until'[m] = 0
      BY <1>1, <2>1, <2>2
    <2>4. \A r \in late' : r.call.op = "delete_if" /\ r.gen = obj'.gen => until'[r.node] = 0
      BY <1>0, <1>1, <2>1 DEF Request
    <2> QED
      BY <2>1, <2>3, <2>4
  <1>2. ASSUME NEW n \in Nodes, ReturnFalse(n), UNCHANGED <<obj, now, late>> PROVE LockKept'
    BY <1>1, <1>2 DEF ReturnFalse, Idle
  <1>3. ASSUME NEW n \in Nodes, NEW c \in calls[n], Begin(n, c) PROVE LockKept'
    <2>1. CASE c.op = "renew" /\ c.ttl = 0
      <3>1. /\ cl' = [cl EXCEPT ![n] = Idle("none")] /\ until' = until
            /\ UNCHANGED <<obj, now, late>>
        BY <1>3, <2>1 DEF Begin
      <3>2. Idle("none").step = "idle"
        BY DEF Idle
      <3> QED
        BY <1>1, <3>1, <3>2
    <2>2. CASE ~(c.op = "renew" /\ c.ttl = 0)
      <3> DEFINE d == [Idle("none") EXCEPT !.step = FirstStep(c), !.call = c,
                          !.start = IF c.op \in {"put", "renew"} THEN now ELSE 0]
      <3>1. cl' = [cl EXCEPT ![n] = d]
        BY <1>3, <2>2 DEF Begin
      <3>2. c.op = "delete_if" => until'[n] = 0
        BY <1>0, <1>3 DEF Begin
      <3>3. until' = until \/ until' = [until EXCEPT ![n] = 0]
        BY <1>3 DEF Begin
      <3>4. d.call = c
        BY DEF Idle
      <3> HIDE DEF d
      <3> QED
        BY <1>1, <1>3, <3>1, <3>2, <3>3, <3>4 DEF Begin
    <2> QED
      BY <2>1, <2>2
  \* A node that keeps its call keeps what LockKept says of it.
  <1>4. ASSUME NEW n \in Nodes, NEW s, NEW e, cl[n].step # "idle",
               cl' = [cl EXCEPT ![n].step = s, ![n].e = e], UNCHANGED <<obj, now, late, until>>
        PROVE  LockKept'
    <2> DEFINE d == [cl[n] EXCEPT !.step = s, !.e = e]
    <2>1. cl' = [cl EXCEPT ![n] = d]
      BY <1>0, <1>4
    <2>2. d.call = cl[n].call
      BY <1>0 DEF Client
    <2>3. d.call.op = "delete_if" => until'[n] = 0
      BY <1>4, <2>2
    <2> HIDE DEF d
    <2> QED
      BY <1>1, <1>4, <2>1, <2>3
  <1>5. ASSUME NEW n \in Nodes, Attrs(n) PROVE LockKept'
    <2>1. CASE obj.gen = 0
      BY <1>2, <1>5, <2>1 DEF Attrs
    <2>2. CASE obj.gen # 0
      <3> DEFINE e == [gen |-> obj.gen, val |-> None, owner |-> obj.owner, expires |-> Expires]
      <3>1. /\ cl[n].step = "attrs" /\ UNCHANGED <<obj, now, late, until>>
            /\ cl' = [cl EXCEPT ![n].step = "body", ![n].e = e]
        BY <1>5, <2>2 DEF Attrs
      <3> HIDE DEF e
      <3> QED
        BY <1>4, <3>1
    <2> QED
      BY <2>1, <2>2
  <1>6. ASSUME NEW n \in Nodes, Body(n) PROVE LockKept'
    <2> DEFINE e == [cl[n].e EXCEPT !.val = obj.val]
    <2>1. UNCHANGED <<obj, now, late>> /\ cl[n].step = "body"
      BY <1>6 DEF Body
    <2>2. CASE ReturnFalse(n)
      BY <1>2, <2>1, <2>2
    <2>3. CASE cl' = [cl EXCEPT ![n] = Idle("present")] /\ until' = until
      BY <1>1, <2>1, <2>3 DEF Idle
    <2>4. CASE cl' = [cl EXCEPT ![n].step = "send", ![n].e = e] /\ until' = until
      BY <1>4, <2>1, <2>4
    <2> QED
      BY <1>6, <2>2, <2>3, <2>4 DEF Body
  \* A release on its way is outdated by any change of the object.
  <1>7. ASSUME NEW r \in Request, Counts(r), Apply(r), now' = now,
               NEW q \in late, q.call.op = "delete_if", q.gen = obj'.gen
        PROVE  obj' = obj
    <2>1. Carries
      BY <1>0, <1>7, ApplyCarries DEF Inv, GcsInv
    <2>2. q.gen # 0 /\ q.gen < nextGen /\ q.gen \in Nat /\ nextGen \in Nat
      BY <1>0, <1>7 DEF Inv, GcsInv, TypeOK, Counts, Request
    <2> QED
      BY <1>7, <2>1, <2>2 DEF Carries, Fresh
  <1>8. ASSUME NEW r \in Request, Counts(r), Apply(r), UNCHANGED <<now, until>>,
               late' \subseteq late,
               r.call.op = "delete_if" /\ r.gen = obj.gen => until[r.node] = 0,
               \A m \in Nodes : cl'[m].step = cl[m].step /\ cl'[m].call = cl[m].call
        PROVE  LockKept'
    <2>1. LockObject(obj, until, now)'
      BY <1>0, <1>8, ApplyKeepsLock DEF LockObject, Holds, Expires
    <2>2. \A q \in late' : q.call.op = "delete_if" /\ q.gen = obj'.gen => until'[q.node] = 0
      BY <1>7, <1>8
    <2> QED
      BY <1>8, <2>1, <2>2
  <1>9. ASSUME NEW n \in Nodes, cl[n].step \in Sending
        PROVE  RequestOf(n).call.op = "delete_if" => until[n] = 0
    BY <1>9 DEF RequestOf, Sending
  <1>10. ASSUME NEW n \in Nodes, Retried(n) PROVE LockKept'
    <2> DEFINE r == RequestOf(n)
    <2>1. r \in Request /\ Counts(r) /\ Apply(r) /\ r.node = n /\ UNCHANGED <<now, until, late>>
      BY <1>10, SendingCounts DEF Retried, RequestOf
    <2>2. \A m \in Nodes : cl'[m].step = cl[m].step /\ cl'[m].call = cl[m].call
      BY <1>0, <1>10 DEF Retried, Client
    <2>3. r.call.op = "delete_if" => until[r.node] = 0
      BY <1>9, <1>10, <2>1 DEF Retried
    <2> QED
      BY <1>8, <2>1, <2>2, <2>3
  <1>11. ASSUME NEW r \in late, ArrivesLate(r) PROVE LockKept'
    <2>1. r \in Request /\ Counts(r)
      BY DEF Inv, GcsInv, TypeOK
    <2> QED
      BY <1>8, <1>11, <2>1 DEF ArrivesLate
  <1>12. ASSUME NEW n \in Nodes, Answered(n) PROVE LockKept'
    <2> DEFINE r == RequestOf(n)
    <2>1. /\ r \in Request /\ Counts(r) /\ Apply(r) /\ r.node = n /\ r.call = cl[n].call
          /\ UNCHANGED <<now, late>> /\ cl[n].step \in Sending
      BY <1>12, SendingCounts DEF Answered, RequestOf
    <2>2. r.call.op = "delete_if" => until[r.node] = 0
      BY <1>9, <2>1
    <2>3. CASE ~Matches(r) /\ cl[n].step = "send"
      BY <1>2, <1>12, <2>1, <2>3 DEF Answered, Apply
    <2>4. CASE ~Matches(r) /\ cl[n].step = "create"
      <3>1. cl' = [cl EXCEPT ![n].step = "attrs"] /\ until' = until
        BY <1>12, <2>4 DEF Answered
      <3>2. cl' = [cl EXCEPT ![n].step = "attrs", ![n].e = cl[n].e]
        BY <1>0, <3>1 DEF Client
      <3>3. UNCHANGED <<obj, now, late, until>>
        BY <2>1, <2>4, <3>1 DEF Apply
      <3> QED
        BY <1>4, <2>4, <3>2, <3>3
    <2>5. CASE Matches(r)
      <3>1. cl' = [cl EXCEPT ![n] = Idle("none")] /\ until' = Leased(n)
        BY <1>12, <2>5 DEF Answered
      <3>2. cl'[n].step = "idle" /\ \A m \in Nodes \ {n} : cl'[m] = cl[m]
        BY <1>0, <3>1 DEF Idle
      <3>3. \A m \in Nodes \ {n} : until'[m] = until[m]
        BY <1>0, <3>1 DEF Leased
      <3>4. LockObject(obj, until, now)'
        <4>1. CASE r.call.op \in Writes
          <5>1. /\ obj'.gen # 0 /\ obj'.owner = n /\ Expires' = now + r.call.ttl
                /\ obj'.val = obj'.owner
                /\ \A c \in Leases : obj'.ttl = c.ttl
                /\ \A m \in Nodes \ {n} : ~Holds(m)
            BY <2>1, <2>2, <2>5, <4>1, ApplyKeepsLock
          <5>2. until' = [until EXCEPT ![n] = cl[n].start + r.call.ttl]
            BY <2>1, <3>1, <4>1, LockRequest DEF Leased, Writes
          <5>3. cl[n].start \in Nat /\ cl[n].start <= now /\ r.call.ttl \in Nat
            BY <1>0, <2>1 DEF Client, Inv, GcsInv, CallInv, Request, Call
          <5>4. until'[n] <= Expires'
            BY <1>0, <5>1, <5>2, <5>3
          <5> QED
            BY <1>0, <2>1, <3>3, <5>1, <5>4 DEF LockObject, Holds, Expires
        <4>2. CASE r.call.op \notin Writes
          <5>1. until' = until
            BY <2>1, <3>1, <4>2 DEF Leased, Writes
          <5> QED
            BY <1>0, <2>1, <2>2, <5>1, ApplyKeepsLock DEF LockObject, Holds, Expires
        <4> QED
          BY <4>1, <4>2
      <3>5. ASSUME NEW q \in late', q.call.op = "delete_if", q.gen = obj'.gen
            PROVE  until'[q.node] = 0
        <4>1. obj' = obj /\ q.gen # 0 /\ q.node \in Nodes /\ q.gen < nextGen
          BY <1>0, <1>7, <2>1, <3>5 DEF Inv, GcsInv, Counts, Request
        <4>2. r.call.op \in Writes => obj'.gen = nextGen
          BY <2>1, <2>5 DEF Apply, IsDelete, Writes
        <4>3. r.call.op \notin Writes
          BY <1>0, <3>5, <4>1, <4>2 DEF Inv, TypeOK, Request
        <4>4. until' = until
          BY <2>1, <3>1, <4>3 DEF Leased, Writes
        <4> QED
          BY <2>1, <3>5, <4>1, <4>4
      <3> QED
        BY <3>2, <3>3, <3>4, <3>5
    <2> QED
      BY <2>1, <2>3, <2>4, <2>5 DEF Sending
  <1>13. ASSUME NEW n \in Nodes, Fails(n) PROVE LockKept'
    BY <1>1, <1>13 DEF Fails, Idle
  <1>14. ASSUME NEW n \in Nodes, GivesUp(n) PROVE LockKept'
    <2>1. /\ cl' = [cl EXCEPT ![n] = Idle("none")] /\ late' = late \cup {RequestOf(n)}
          /\ UNCHANGED <<obj, now, until>> /\ RequestOf(n).node = n
      BY <1>14 DEF GivesUp, RequestOf
    <2>2. \A m \in Nodes : cl'[m].step # "idle" => cl'[m] = cl[m]
      BY <1>0, <2>1 DEF Idle
    <2>3. RequestOf(n).call.op = "delete_if" => until[n] = 0
      BY <1>9, <1>14 DEF GivesUp
    <2>4. LockObject(obj, until, now)'
      BY <1>0, <2>1 DEF LockObject
    <2> QED
      BY <2>1, <2>2, <2>3, <2>4
  <1>15. CASE Lifecycle
    <2>1. \E c \in Leases : obj.ttl = c.ttl
      BY <1>15 DEF Lifecycle, Inv, GcsInv, ObjectInv
    <2>2. obj.ttl \in 1..age
      BY <1>15, <2>1 DEF Lifecycle, LifecycleHarmless
    <2>3. ExpiryAt(obj.updated, obj.ttl) <= now
      BY <1>0, <1>15, <2>2 DEF Lifecycle, ExpiryAt, Object, Inv, TypeOK
    <2>4. \A n \in Nodes : ~(now + Skew < until[n])
      <3>1. ExpiryAt(obj.updated, obj.ttl) \in Nat
        BY <1>0 DEF ExpiryAt, Object
      <3> QED
        BY <1>0, <2>3, <3>1, ClockAssumption DEF LockObject
    <2>5. obj'.gen = 0 /\ UNCHANGED <<now, cl, late, until>>
      BY <1>15 DEF Lifecycle, NoObject
    <2>6. LockObject(obj, until, now)'
      BY <2>4, <2>5 DEF LockObject
    <2>7. \A q \in late : q.call.op = "delete_if" => q.gen # 0
      BY DEF Inv, GcsInv, Counts
    <2> QED
      BY <2>5, <2>6, <2>7
  <1>16. CASE Tick
    <2>1. LockObject(obj, until, now)'
      BY <1>0, <1>16, ClockAssumption DEF Tick, LockObject
    <2> QED
      BY <1>16, <2>1 DEF Tick
  <1>17. CASE UNCHANGED vars
    BY <1>0, <1>17 DEF vars, LockKept, Holds, Expires
  <1> QED
    BY <1>3, <1>5, <1>6, <1>10, <1>11, <1>12, <1>13, <1>14, <1>15, <1>16, <1>17 DEF Next

\* The inductive invariant of the lock: the object of a node that thinks it holds
\* the lease is there, is its own and outlasts the node's belief, and no release on
\* its way (Delete with a value) is aimed at it.
THEOREM LockInvariance == Spec => []LockInv
  <1>1. Init => LockKept
    BY ClockAssumption DEF Init, LockKept, NoObject, Holds, Idle
  <1>2. Inv /\ LockInv /\ [Next]_vars => LockInv'
    <2> SUFFICES ASSUME Inv, LockInv, [Next]_vars, LockDiscipline', LifecycleHarmless'
                 PROVE  LockKept'
      BY DEF LockInv
    <2>1. LockDiscipline /\ LifecycleHarmless
      BY UseStays, LeasesCarried DEF LockDiscipline, LifecycleHarmless
    <2> QED
      BY <2>1, LockStep DEF LockInv
  <1>3. Spec => []Inv
    BY Invariance, PTL DEF Inv
  <1>4. Init => LockInv
    BY <1>1 DEF LockInv
  <1> QED
    BY <1>2, <1>3, <1>4, PTL DEF Spec

\* A lease claimed, renewed and released under one's own value is a lock: with a
\* store whose answers get lost and whose requests come late, and clocks that
\* differ by Skew, no two nodes hold it at once, as long as the lifecycle rule
\* waits out every lease.
THEOREM LockExcludes == Spec => []MutualExclusion
  <1>1. LockInv => MutualExclusion
    BY DEF LockInv, LockKept, MutualExclusion
  <1> QED
    BY <1>1, LockInvariance, PTL
=============================================================================
