--------------------------- MODULE DynamoKVProofs ---------------------------
(***************************************************************************)
(* Proofs about the DynamoDB store, for every set of nodes and calls,      *)
(* every clock skew, every length of a second and every lease: that no     *)
(* request, repeated or late, takes a lease that counts, and that a lock   *)
(* kept in whole seconds excludes and is seen by the one who holds it.     *)
(***************************************************************************)
EXTENDS DynamoKV, TLAPS

\* r is a request that a node makes of one of the calls of k, by a clock that is at
\* most Skew ahead of t.
Asked(k, r, t) ==
    /\ \E c \in k[r.node] :
          /\ r.op = c.op /\ r.val = c.val /\ r.old = c.old
          /\ r.op = "renew" => c.ttl # 0
          /\ c.ttl # 0 => r.expires # Permanent
    /\ r.at <= Unix(t + Skew)

DynamoInv ==
    /\ Skew <= now
    /\ \A n \in Nodes : cl[n].step = "sent" => Asked(use.calls, cl[n].req, now)
    /\ \A r \in late : Asked(use.calls, r, now)

Inv == TypeOK /\ DynamoInv

\* The time at which the second of a deadline is over.
End(e) == (e + 1) * Second

\* The key as a lock: the item of a node that thinks it holds the lease is its own, and
\* its last second ends after what the node thinks, a skew off.
LockItemAt(i, u, t) ==
    /\ i.owner # None => i.val = i.owner /\ i.expires # Permanent
    /\ \A n \in Nodes : t + 2 * Skew < u[n] => i.owner = n /\ u[n] - Skew < End(i.expires)

\* What a call of a node that thinks it has the lease until u stands on: it gave the
\* lease up before it asked for the release, and the deadline it sends is not before
\* the one it has.
LockCallAt(k, u, t) ==
    /\ k.step = "sent" /\ k.req.op = "delete_if" => u = 0
    /\ k.step = "sent" /\ k.req.op \in {"put", "renew"} =>
          /\ k.lease - Skew < End(k.req.expires)
          /\ \A c \in Leases : k.lease <= t + c.ttl
    /\ k.step = "sent" /\ k.req.op = "renew" => u - Skew < End(k.req.expires)
    /\ k.step = "read" /\ t + 2 * Skew < u =>
          k.seen.owner # None /\ u - Skew < End(k.seen.expires)
    /\ t + 2 * Skew + Second <= u => k.got # "absent"

LockState ==
    /\ LockItemAt(item, until, now)
    /\ \A n \in Nodes : LockCallAt(cl[n], until[n], now)
    /\ \A n \in Nodes : \A c \in Leases : until[n] <= now + c.ttl
LockStateInv == LockDiscipline => LockState

-----------------------------------------------------------------------------
\* Whole seconds.

LEMMA UnixBounds ==
    ASSUME NEW t \in Int
    PROVE  Unix(t) \in Int /\ Unix(t) * Second <= t /\ t < (Unix(t) + 1) * Second
  BY ClockAssumption DEF Unix

LEMMA UnixGrows ==
    ASSUME NEW t \in Int, NEW u \in Int, t <= u
    PROVE  Unix(t) <= Unix(u)
  BY ClockAssumption DEF Unix

LEMMA UnixNat == ASSUME NEW t \in Nat PROVE Unix(t) \in Nat
  BY ClockAssumption DEF Unix

LEMMA WholeSeconds ==
    ASSUME NEW ttl \in Nat, ttl % Second = 0
    PROVE  ttl \div Second \in Nat /\ (ttl \div Second) * Second = ttl
  BY ClockAssumption

LEMMA EndType == ASSUME NEW e \in Int PROVE End(e) \in Int
  BY ClockAssumption DEF End

\* Before the end of its second a deadline has not passed, on a clock in whole seconds.
LEMMA BeforeEnd == ASSUME NEW t \in Int, NEW e \in Int, t < End(e) PROVE Unix(t) <= e
  BY ClockAssumption DEF Unix, End

LEMMA EndGrows == ASSUME NEW d \in Int, NEW e \in Int, d <= e PROVE End(d) <= End(e)
  BY ClockAssumption DEF End

\* A deadline that ends after a time of the clock is not a negative one.
LEMMA EndAfterStart ==
    ASSUME NEW t \in Nat, NEW u \in Nat, NEW e \in Int, t + 2 * Skew < u, u - Skew < End(e)
    PROVE  e > -1
<1>1. ASSUME e <= -1 PROVE FALSE
  <2>1. End(e) <= End(-1) /\ End(-1) = 0 /\ End(e) \in Int
      BY <1>1, EndGrows, EndType, ClockAssumption DEF End
  <2> QED BY <2>1, ClockAssumption
<1> QED BY <1>1

LEMMA ExpiryType ==
    ASSUME NEW t \in Nat, NEW ttl \in Nat
    PROVE  ExpiryAt(t, ttl) \in Int /\ (ttl # 0 => ExpiryAt(t, ttl) # Permanent)
<1>1. Unix(t) \in Nat /\ ttl \div Second \in Nat
    BY UnixNat, ClockAssumption
<1> QED BY <1>1 DEF ExpiryAt, Permanent

\* Rounded down twice, the deadline still ends later than the lease, a skew off.
LEMMA RoundedDeadline ==
    ASSUME NEW m \in Nat, NEW t \in Nat, m <= t + Skew, NEW ttl \in Nat, ttl # 0, ttl % Second = 0
    PROVE  (m + ttl) - Skew < End(ExpiryAt(t, ttl))
<1> DEFINE q == ttl \div Second
           x == Unix(t)
<1>1. x \in Int /\ t < (x + 1) * Second
    BY UnixBounds
<1>2. q \in Nat /\ q * Second = ttl
    BY WholeSeconds
<1>3. End(ExpiryAt(t, ttl)) = (x + q + 1) * Second
    BY <1>1, <1>2 DEF End, ExpiryAt
<1> HIDE DEF q, x
<1>4. (x + q + 1) * Second = (x + 1) * Second + q * Second
    BY <1>1, <1>2, ClockAssumption
<1>5. (x + 1) * Second \in Int
    BY <1>1, ClockAssumption
<1> QED BY <1>1, <1>2, <1>3, <1>4, <1>5, ClockAssumption

\* A deadline that ends a skew after what a holder thinks has lapsed on nobody's clock.
LEMMA HeldIsNotLapsed ==
    ASSUME NEW t \in Nat, NEW u \in Nat, NEW e \in Int, NEW at \in Int,
           t + 2 * Skew < u, u - Skew < End(e), at <= Unix(t + Skew)
    PROVE  ~Lapsed(e, at)
<1>1. End(e) \in Int /\ t + Skew \in Int /\ Unix(t + Skew) \in Int
    BY EndType, UnixBounds, ClockAssumption
<1>2. t + Skew < End(e)
    BY <1>1, ClockAssumption
<1>3. Unix(t + Skew) <= e
    BY <1>1, <1>2, BeforeEnd
<1> QED BY <1>1, <1>3 DEF Lapsed

\* With a second to spare it is valid on every clock.
LEMMA HeldIsValid ==
    ASSUME NEW t \in Nat, NEW u \in Nat, NEW e \in Int, NEW s \in Nat, s <= t + Skew,
           t + 2 * Skew + Second <= u, u - Skew < End(e)
    PROVE  e > Unix(s)
<1>1. Unix(s) \in Int /\ Unix(s) * Second <= s
    BY UnixBounds
<1>2. s < e * Second
  <2>1. End(e) = e * Second + Second /\ e * Second \in Int
      BY ClockAssumption DEF End
  <2> QED BY <2>1, ClockAssumption
<1>3. Unix(s) * Second < e * Second
    BY <1>1, <1>2, ClockAssumption
<1> QED BY <1>1, <1>3, ClockAssumption

-----------------------------------------------------------------------------
\* The types, and that every request is of a call.

LEMMA CallsType ==
    ASSUME use \in Uses, NEW n \in Nodes
    PROVE  use.calls[n] \subseteq Call
  BY UsesAssumption

LEMMA AtType ==
    ASSUME NEW s \in Steps \ {"sent"}, NEW answer \in {"none", "present", "absent"}
    PROVE  /\ At(s, answer) \in Client /\ At(s, answer).step = s
           /\ At(s, answer).got = answer
<1>1. NoItem \in Item
    BY DEF NoItem, Item, Permanent
<1> QED BY <1>1 DEF At, Client

LEMMA AskedLater ==
    ASSUME NEW k, NEW r, NEW t \in Nat, NEW t2 \in Nat, t <= t2, r.at \in Int, Asked(k, r, t)
    PROVE  Asked(k, r, t2)
<1>1. t + Skew \in Int /\ t2 + Skew \in Int /\ t + Skew <= t2 + Skew
    BY ClockAssumption
<1>2. Unix(t + Skew) <= Unix(t2 + Skew) /\ Unix(t + Skew) \in Int /\ Unix(t2 + Skew) \in Int
    BY <1>1, UnixGrows, UnixBounds
<1> QED BY <1>2 DEF Asked

LEMMA SentRequest ==
    ASSUME Inv, NEW n \in Nodes, cl[n].step = "sent"
    PROVE  /\ cl[n].req \in Request /\ cl[n].req.node = n /\ Asked(use.calls, cl[n].req, now)
           /\ cl[n].lease \in Nat
<1>1. cl[n] \in Client /\ cl[n].req.node = n /\ Asked(use.calls, cl[n].req, now)
    BY DEF Inv, TypeOK, DynamoInv
<1> QED BY <1>1, NoneAssumption DEF Client, NoRequest

LEMMA LateRequest ==
    ASSUME Inv, NEW r \in late
    PROVE  r \in Request /\ r.node \in Nodes /\ Asked(use.calls, r, now)
  BY DEF Inv, TypeOK, DynamoInv, Request

\* What is left to show of a step.
LEMMA Keeps ==
    ASSUME Inv, use' = use, item' \in Item, table' \in {"absent", "creating", "active"},
           ttlOn' \in BOOLEAN, Exists' => table' = "active" /\ item'.val # None,
           now' \in Nat, now <= now', stray' \in 0..MaxLate, cl' \in [Nodes -> Client],
           \A n \in Nodes : cl'[n].step = "sent" =>
              cl'[n].req.node = n /\ Asked(use.calls, cl'[n].req, now),
           late' \subseteq Request, \A r \in late' : Asked(use.calls, r, now),
           until' \in [Nodes -> Nat]
    PROVE  Inv'
<1>1. now \in Nat /\ Skew <= now /\ Skew \in Nat
    BY ClockAssumption DEF Inv, TypeOK, DynamoInv
<1>2. TypeOK'
    BY DEF Inv, TypeOK
<1>3. ASSUME NEW n \in Nodes, cl'[n].step = "sent" PROVE Asked(use'.calls, cl'[n].req, now')
  <2>1. cl'[n].req \in Request
      BY <1>3, NoneAssumption DEF Client, NoRequest
  <2>2. cl'[n].req.at \in Int
      BY <2>1 DEF Request
  <2> QED BY <1>1, <1>3, <2>2, AskedLater
<1>4. ASSUME NEW r \in late' PROVE Asked(use'.calls, r, now')
  <2>1. r.at \in Int
      BY DEF Request
  <2> QED BY <1>1, <2>1, AskedLater
<1>5. Skew <= now'
    BY <1>1
<1> QED BY <1>2, <1>3, <1>4, <1>5 DEF Inv, DynamoInv, Asked

\* A node that is in a part of its start or done with a call.
LEMMA KeepsAt ==
    ASSUME Inv, NEW n \in Nodes, NEW s \in Steps \ {"sent"},
           NEW answer \in {"none", "present", "absent"}, cl' = [cl EXCEPT ![n] = At(s, answer)],
           UNCHANGED <<use, now, late, stray>>, until' \in [Nodes -> Nat],
           item' \in Item, table' \in {"absent", "creating", "active"},
           ttlOn' \in BOOLEAN, Exists' => table' = "active" /\ item'.val # None
    PROVE  Inv'
<1>1. cl \in [Nodes -> Client] /\ At(s, answer) \in Client /\ At(s, answer).step # "sent"
    BY AtType DEF Inv, TypeOK
<1>2. /\ cl' \in [Nodes -> Client] /\ cl'[n].step # "sent"
      /\ \A m \in Nodes \ {n} : cl'[m] = cl[m]
    BY <1>1
<1>3. \A m \in Nodes : cl'[m].step = "sent" =>
          cl'[m].req.node = m /\ Asked(use.calls, cl'[m].req, now)
    BY <1>2, SentRequest
<1>4. late' \subseteq Request /\ \A r \in late' : Asked(use.calls, r, now)
    BY LateRequest
<1>5. now \in Nat /\ now' \in Nat /\ now <= now' /\ stray' \in 0..MaxLate
    BY DEF Inv, TypeOK
<1> QED BY <1>2, <1>3, <1>4, <1>5, Keeps

\* Nothing but the item, the late requests and what nodes think.
LEMMA KeepsCalls ==
    ASSUME Inv, UNCHANGED <<use, cl>>, now' \in Nat, now <= now', stray' \in 0..MaxLate,
           until' \in [Nodes -> Nat], late' \subseteq late,
           item' \in Item, table' \in {"absent", "creating", "active"},
           ttlOn' \in BOOLEAN, Exists' => table' = "active" /\ item'.val # None
    PROVE  Inv'
<1>1. cl' \in [Nodes -> Client]
    BY DEF Inv, TypeOK
<1>2. \A m \in Nodes : cl'[m].step = "sent" =>
          cl'[m].req.node = m /\ Asked(use.calls, cl'[m].req, now)
    BY SentRequest
<1>3. late' \subseteq Request /\ \A r \in late' : Asked(use.calls, r, now)
    BY LateRequest
<1> QED BY <1>1, <1>2, <1>3, Keeps

LEMMA ApplyType ==
    ASSUME Inv, NEW r \in Request, Apply(r)
    PROVE  item' \in Item /\ (Exists' => table = "active" /\ item'.val # None)
<1>1. item \in Item /\ (Exists => item.val # None) /\ table = "active"
    BY DEF Inv, TypeOK, Apply
<1>2. r.val \in Values /\ r.node \in Nodes /\ r.expires \in Int
    BY DEF Request
<1>3. CASE ~Condition(r)
    BY <1>1, <1>3 DEF Apply, Exists
<1>4. CASE Condition(r)
  <2>1. item' = Effect(r)
      BY <1>4 DEF Apply
  <2>2. CASE r.op \in {"put", "cas"}
    <3>1. item' = [val |-> r.val, owner |-> r.node, expires |-> r.expires]
        BY <2>1, <2>2 DEF Effect
    <3> QED BY <1>1, <1>2, <3>1, NoneAssumption DEF Item
  <2>3. CASE r.op \in {"delete", "delete_if"}
    <3>1. item' = NoItem
        BY <2>1, <2>3 DEF Effect
    <3> QED BY <3>1 DEF NoItem, Item, Exists, Permanent
  <2>4. CASE r.op = "renew"
    <3>1. item' = [item EXCEPT !.expires = r.expires]
        BY <2>1, <2>4 DEF Effect
    <3> QED BY <1>1, <1>2, <3>1 DEF Item, Exists
  <2> QED BY <1>4, <2>2, <2>3, <2>4 DEF Condition
<1> QED BY <1>3, <1>4

LEMMA LeasedType ==
    ASSUME Inv, NEW n \in Nodes, NEW yes \in BOOLEAN
    PROVE  /\ Leased(n, yes) \in [Nodes -> Nat]
           /\ \A m \in Nodes \ {n} : Leased(n, yes)[m] = until[m]
<1>1. cl[n].lease \in Nat /\ until \in [Nodes -> Nat]
    BY DEF Inv, TypeOK, Client
<1> QED BY <1>1 DEF Leased

-----------------------------------------------------------------------------
\* Every action keeps the types and the invariant.

LEMMA InitHolds == Init => Inv
<1> SUFFICES ASSUME Init PROVE Inv
    OBVIOUS
<1>1. use \in Uses /\ use.kvCreate \in BOOLEAN
    BY UsesAssumption DEF Init
<1>2. NoItem \in Item /\ NoItem.owner = None
    BY DEF NoItem, Item, Permanent
<1>3. PICK s \in {"describe", "ready"} : \A n \in Nodes : cl[n] = At(s, "none")
    BY DEF Init
<1>4. s \in Steps \ {"sent"}
    BY DEF Steps, Boot
<1>5. \A n \in Nodes : cl[n] \in Client /\ cl[n].step # "sent"
    BY <1>3, <1>4, AtType
<1>6. now \in Nat /\ Skew <= now
    BY ClockAssumption DEF Init
<1>7. cl \in [Nodes -> Client]
    BY <1>5 DEF Init
<1>8. TypeOK
    BY <1>1, <1>2, <1>5, <1>6, <1>7, LateAssumption DEF Init, TypeOK, Exists
<1>9. DynamoInv
    BY <1>5, <1>6 DEF DynamoInv, Init
<1> QED BY <1>8, <1>9 DEF Inv

\* The request of a call, by two readings of the node's clock.
LEMMA RequestType ==
    ASSUME Inv, NEW n \in Nodes, NEW c \in use.calls[n], NEW t \in Clock, NEW u \in Clock,
           ~(c.op = "renew" /\ c.ttl = 0)
    PROVE  /\ RequestOf(n, c, t, u) \in Request /\ RequestOf(n, c, t, u).node = n
           /\ Asked(use.calls, RequestOf(n, c, t, u), now)
           /\ t \in Nat /\ c \in Call
<1>1. c \in Call /\ now \in Nat /\ Skew <= now
    BY CallsType DEF Inv, TypeOK, DynamoInv
<1>2. t \in Nat /\ u \in Nat /\ u <= now + Skew /\ now + Skew \in Nat
    BY <1>1, ClockAssumption DEF Clock
<1>3. ExpiryAt(t, c.ttl) \in Int /\ (c.ttl # 0 => ExpiryAt(t, c.ttl) # Permanent)
    BY <1>1, <1>2, ExpiryType DEF Call
<1>4. Unix(u) \in Int /\ Unix(u) <= Unix(now + Skew)
    BY <1>2, UnixBounds, UnixGrows
<1> DEFINE r == RequestOf(n, c, t, u)
<1>5. /\ r.node = n /\ r.op = c.op /\ r.val = c.val /\ r.old = c.old
      /\ r.expires = ExpiryAt(t, c.ttl) /\ r.at = Unix(u)
    BY DEF RequestOf
<1>6. r \in Request
    BY <1>1, <1>3, <1>4 DEF RequestOf, Request, Call
<1> HIDE DEF r
<1>7. Asked(use.calls, r, now)
    BY <1>3, <1>4, <1>5 DEF Asked
<1> QED BY <1>1, <1>2, <1>5, <1>6, <1>7 DEF r

LEMMA SendKeeps ==
    ASSUME Inv, NEW n \in Nodes, NEW c \in use.calls[n], Send(n, c)
    PROVE  Inv'
<1>0. /\ c \in Call /\ cl \in [Nodes -> Client] /\ now \in Nat /\ until \in [Nodes -> Nat]
      /\ UNCHANGED <<use, item, table, ttlOn, now, late, stray>>
    BY CallsType DEF Inv, TypeOK, Send
<1>1. until' \in [Nodes -> Nat]
    BY <1>0 DEF Send
<1>2. /\ item' \in Item /\ table' \in {"absent", "creating", "active"} /\ ttlOn' \in BOOLEAN
      /\ Exists' => table' = "active" /\ item'.val # None
    BY <1>0 DEF Inv, TypeOK, Exists
<1>3. CASE c.op = "renew" /\ c.ttl = 0
  <2>1. cl' = [cl EXCEPT ![n] = At("ready", "none")]
      BY <1>3 DEF Send
  <2>2. "ready" \in Steps \ {"sent"}
      BY DEF Steps
  <2> QED BY <1>0, <1>1, <1>2, <2>1, <2>2, KeepsAt
<1>4. CASE ~(c.op = "renew" /\ c.ttl = 0)
  <2> DEFINE lease == IF c.op \in {"put", "renew"} THEN now + c.ttl ELSE 0
  <2>1. PICK t \in Clock, u \in Clock :
            cl' = [cl EXCEPT ![n] = [step |-> "sent", req |-> RequestOf(n, c, t, u),
                                     lease |-> lease, seen |-> NoItem, got |-> "none"]]
      BY <1>4 DEF Send
  <2> DEFINE r == RequestOf(n, c, t, u)
             d == [step |-> "sent", req |-> r, lease |-> lease, seen |-> NoItem, got |-> "none"]
  <2>2. r \in Request /\ r.node = n /\ Asked(use.calls, r, now)
      BY <1>4, RequestType
  <2>3. lease \in Nat /\ NoItem \in Item
      BY <1>0 DEF Call, NoItem, Item, Permanent
  <2> HIDE DEF r, lease
  <2>4. d \in Client
      BY <2>2, <2>3 DEF Client, Steps
  <2>5. /\ cl' \in [Nodes -> Client] /\ cl'[n].req = r
        /\ \A m \in Nodes \ {n} : cl'[m] = cl[m]
      BY <1>0, <2>1, <2>4 DEF r
  <2>6. \A m \in Nodes : cl'[m].step = "sent" =>
            cl'[m].req.node = m /\ Asked(use.calls, cl'[m].req, now)
      BY <2>2, <2>5, SentRequest
  <2>7. late' \subseteq Request /\ \A q \in late' : Asked(use.calls, q, now)
      BY <1>0, LateRequest
  <2>8. now' \in Nat /\ now <= now' /\ stray' \in 0..MaxLate
      BY <1>0 DEF Inv, TypeOK
  <2> QED BY <1>0, <1>1, <1>2, <2>5, <2>6, <2>7, <2>8, Keeps
<1> QED BY <1>3, <1>4

LEMMA StragglesKeeps ==
    ASSUME Inv, NEW n \in Nodes, Straggles(n)
    PROVE  Inv'
<1>1. /\ cl[n].step = "sent" /\ late' = late \cup {cl[n].req}
      /\ stray < MaxLate /\ stray' = stray + 1
      /\ UNCHANGED <<use, item, table, ttlOn, now, cl, until>>
    BY DEF Straggles
<1>2. cl[n].req \in Request /\ Asked(use.calls, cl[n].req, now)
    BY <1>1, SentRequest
<1>3. late' \subseteq Request /\ \A r \in late' : Asked(use.calls, r, now)
    BY <1>1, <1>2, LateRequest
<1>4. stray' \in 0..MaxLate /\ now' \in Nat /\ now <= now'
    BY <1>1, LateAssumption DEF Inv, TypeOK
<1>5. \A m \in Nodes : cl'[m].step = "sent" =>
          cl'[m].req.node = m /\ Asked(use.calls, cl'[m].req, now)
    BY <1>1, SentRequest
<1>6. /\ item' \in Item /\ table' \in {"absent", "creating", "active"} /\ ttlOn' \in BOOLEAN
      /\ Exists' => table' = "active" /\ item'.val # None
    BY <1>1 DEF Inv, TypeOK, Exists
<1>7. cl' \in [Nodes -> Client] /\ until' \in [Nodes -> Nat]
    BY <1>1 DEF Inv, TypeOK
<1> QED BY <1>1, <1>3, <1>4, <1>5, <1>6, <1>7, Keeps

LEMMA GetItemKeeps ==
    ASSUME Inv, NEW n \in Nodes, GetItem(n)
    PROVE  Inv'
<1>0. /\ cl \in [Nodes -> Client] /\ item \in Item
      /\ cl' = [cl EXCEPT ![n].step = "read", ![n].seen = item]
      /\ UNCHANGED <<use, item, table, ttlOn, now, late, stray, until>>
    BY DEF GetItem, Inv, TypeOK
<1> DEFINE d == [cl[n] EXCEPT !.step = "read", !.seen = item]
<1>1. d \in Client /\ d.step = "read"
    BY <1>0 DEF Client, Steps
<1>2. cl' = [cl EXCEPT ![n] = d]
    BY <1>0
<1> HIDE DEF d
<1>3. /\ cl' \in [Nodes -> Client] /\ cl'[n].step = "read"
      /\ \A m \in Nodes \ {n} : cl'[m] = cl[m]
    BY <1>0, <1>1, <1>2
<1>4. \A m \in Nodes : cl'[m].step = "sent" =>
          cl'[m].req.node = m /\ Asked(use.calls, cl'[m].req, now)
    BY <1>3, SentRequest
<1>5. late' \subseteq Request /\ \A q \in late' : Asked(use.calls, q, now)
    BY <1>0, LateRequest
<1>6. /\ table' \in {"absent", "creating", "active"} /\ ttlOn' \in BOOLEAN
      /\ Exists' => table' = "active" /\ item'.val # None
    BY <1>0 DEF Inv, TypeOK, Exists
<1>7. now' \in Nat /\ now <= now' /\ stray' \in 0..MaxLate /\ until' \in [Nodes -> Nat]
    BY <1>0 DEF Inv, TypeOK
<1> QED BY <1>0, <1>3, <1>4, <1>5, <1>6, <1>7, Keeps

LEMMA NextKeeps == Inv /\ [Next]_vars => Inv'
<1> SUFFICES ASSUME Inv, [Next]_vars PROVE Inv'
    OBVIOUS
<1>0. /\ item \in Item /\ table \in {"absent", "creating", "active"} /\ ttlOn \in BOOLEAN
      /\ (Exists => table = "active" /\ item.val # None)
      /\ now \in Nat /\ stray \in 0..MaxLate /\ until \in [Nodes -> Nat]
    BY DEF Inv, TypeOK
<1>1. \A s \in Boot \cup {"ready", "down"} : s \in Steps \ {"sent"}
    BY DEF Steps, Boot
<1>2. ASSUME NEW n \in Nodes, NEW s \in Boot \cup {"ready", "down"}, Goto(n, s),
             UNCHANGED <<use, item, now, late, stray, until>>,
             table' \in {"absent", "creating", "active"}, ttlOn' \in BOOLEAN,
             table' = table \/ ~Exists
      PROVE  Inv'
  <2>1. Exists' => table' = "active" /\ item'.val # None
      BY <1>0, <1>2 DEF Exists
  <2> QED BY <1>0, <1>1, <1>2, <2>1, KeepsAt DEF Goto
<1>3. ASSUME NEW n \in Nodes, Describe(n) PROVE Inv'
    BY <1>0, <1>2, <1>3 DEF Describe, Boot
<1>4. ASSUME NEW n \in Nodes, Create(n) PROVE Inv'
    BY <1>0, <1>2, <1>4 DEF Create, Boot
<1>5. ASSUME NEW n \in Nodes, Waited(n) PROVE Inv'
    BY <1>0, <1>2, <1>5 DEF Waited, Boot
<1>6. ASSUME NEW n \in Nodes, EnableTtl(n) PROVE Inv'
    BY <1>0, <1>2, <1>6 DEF EnableTtl, Boot
<1>7. ASSUME NEW n \in Nodes, ProvisionFails(n) PROVE Inv'
    BY <1>0, <1>2, <1>7 DEF ProvisionFails, Boot
<1>8. ASSUME NEW n \in Nodes, Restart(n) PROVE Inv'
    BY <1>0, <1>2, <1>8 DEF Restart, Boot
<1>9. ASSUME NEW n \in Nodes, Fails(n) PROVE Inv'
    BY <1>0, <1>2, <1>9 DEF Fails, Boot
<1>10. ASSUME NEW n \in Nodes, NEW c \in use.calls[n], Send(n, c) PROVE Inv'
    BY <1>10, SendKeeps
<1>11. ASSUME NEW n \in Nodes, Answered(n) PROVE Inv'
  <2>1. /\ cl[n].step = "sent" /\ Apply(cl[n].req) /\ until' = Leased(n, Condition(cl[n].req))
        /\ Goto(n, "ready") /\ UNCHANGED <<use, table, ttlOn, now, late, stray>>
      BY <1>11 DEF Answered
  <2>2. item' \in Item /\ (Exists' => table = "active" /\ item'.val # None)
      BY <2>1, SentRequest, ApplyType
  <2>3. Condition(cl[n].req) \in BOOLEAN
      BY DEF Condition
  <2>4. until' \in [Nodes -> Nat]
      BY <2>1, <2>3, LeasedType
  <2> QED BY <1>0, <1>1, <2>1, <2>2, <2>4, KeepsAt DEF Goto
<1>12. ASSUME NEW n \in Nodes, Retried(n) PROVE Inv'
  <2>1. /\ cl[n].step = "sent" /\ Apply(cl[n].req)
        /\ UNCHANGED <<use, table, ttlOn, now, cl, late, stray, until>>
      BY <1>12 DEF Retried
  <2>2. item' \in Item /\ (Exists' => table = "active" /\ item'.val # None)
      BY <2>1, SentRequest, ApplyType
  <2> QED BY <1>0, <2>1, <2>2, KeepsCalls
<1>13. ASSUME NEW n \in Nodes, Straggles(n) PROVE Inv'
    BY <1>13, StragglesKeeps
<1>14. ASSUME NEW n \in Nodes, GetItem(n) PROVE Inv'
    BY <1>14, GetItemKeeps
<1>15. ASSUME NEW n \in Nodes, GetJudged(n) PROVE Inv'
  <2>1. PICK answer \in {"none", "present", "absent"} :
            cl' = [cl EXCEPT ![n] = At("ready", answer)]
      BY <1>15 DEF GetJudged
  <2>2. UNCHANGED <<use, item, table, ttlOn, now, late, stray, until>>
      BY <1>15 DEF GetJudged
  <2>3. Exists' => table' = "active" /\ item'.val # None
      BY <1>0, <2>2 DEF Exists
  <2> QED BY <1>0, <1>1, <2>1, <2>2, <2>3, KeepsAt
<1>16. ASSUME NEW r \in late, ArrivesLate(r) PROVE Inv'
  <2>1. /\ Apply(r) /\ late' \subseteq late /\ until' \in [Nodes -> Nat]
        /\ UNCHANGED <<use, table, ttlOn, now, cl, stray>>
      BY <1>0, <1>16 DEF ArrivesLate
  <2>2. item' \in Item /\ (Exists' => table = "active" /\ item'.val # None)
      BY <2>1, LateRequest, ApplyType
  <2> QED BY <1>0, <2>1, <2>2, KeepsCalls
<1>17. CASE TableActive
  <2>1. table' = "active" /\ ~Exists /\ UNCHANGED <<use, item, ttlOn, now, cl, late, stray, until>>
      BY <1>0, <1>17 DEF TableActive
  <2>2. ~Exists'
      BY <2>1 DEF Exists
  <2> QED BY <1>0, <2>1, <2>2, KeepsCalls
<1>18. CASE Reap
  <2>1. item' = NoItem /\ UNCHANGED <<use, table, ttlOn, now, cl, late, stray, until>>
      BY <1>18 DEF Reap
  <2>2. item' \in Item /\ ~Exists'
      BY <2>1 DEF NoItem, Item, Exists, Permanent
  <2> QED BY <1>0, <2>1, <2>2, KeepsCalls
<1>19. CASE Tick
  <2>1. now' = now + 1 /\ UNCHANGED <<use, item, table, ttlOn, cl, late, stray, until>>
      BY <1>19 DEF Tick
  <2>2. now' \in Nat /\ now <= now'
      BY <1>0, <2>1
  <2>3. Exists' => table' = "active" /\ item'.val # None
      BY <1>0, <2>1 DEF Exists
  <2> QED BY <1>0, <2>1, <2>2, <2>3, KeepsCalls
<1>20. CASE UNCHANGED vars
  <2>1. UNCHANGED <<use, item, table, ttlOn, now, cl, late, stray, until>>
      BY <1>20 DEF vars
  <2>2. Exists' => table' = "active" /\ item'.val # None
      BY <1>0, <2>1 DEF Exists
  <2> QED BY <1>0, <2>1, <2>2, KeepsCalls
<1> QED
    BY <1>3, <1>4, <1>5, <1>6, <1>7, <1>8, <1>9, <1>10, <1>11, <1>12, <1>13, <1>14, <1>15,
       <1>16, <1>17, <1>18, <1>19, <1>20 DEF Next

\* Every request, sent, repeated or late, is of a call some node makes, and carries a
\* clock that is at most the skew ahead of the true time; an item is only written
\* into a table that is active.
THEOREM Invariance == Spec => [](TypeOK /\ DynamoInv)
<1>1. Spec => []Inv
    BY InitHolds, NextKeeps, PTL DEF Spec
<1> QED BY <1>1, PTL DEF Inv

\* The item, the table, the nodes and the late requests keep their types, and nothing
\* is written before the table is active.
THEOREM TypeCorrect == Spec => []TypeOK
  BY Invariance, PTL

-----------------------------------------------------------------------------
\* No request takes a lease that counts.

\* A request that does something to an item that no clock can take for lapsed is not a
\* put_if_absent.
LEMMA HeldRequest ==
    ASSUME Inv, Held, NEW r \in Requests, r \in Request, Asked(use.calls, r, now),
           Apply(r), item' # item
    PROVE  Swapped \/ Deleted \/ Renewed
<1>1. item' = Effect(r) /\ Condition(r)
    BY DEF Apply
<1>2. item \in Item /\ now \in Nat /\ r.at \in Int /\ r.node \in Nodes
    BY DEF Inv, TypeOK, Request
<1>3. PICK c \in use.calls[r.node] :
          /\ r.op = c.op /\ r.val = c.val /\ r.old = c.old
          /\ r.op = "renew" => c.ttl # 0
          /\ c.ttl # 0 => r.expires # Permanent
    BY DEF Asked
<1>4. r.op # "put"
  <2>1. Unix(now + Skew) \in Int /\ item.expires \in Int
      BY <1>2, UnixBounds, ClockAssumption DEF Item
  <2>2. r.at <= Unix(now + Skew)
      BY DEF Asked
  <2>3. ~Lapsed(item.expires, r.at)
      BY <1>2, <2>1, <2>2 DEF Held, Lapsed
  <2> QED BY <1>1, <2>3 DEF Condition, Held
<1>5. CASE r.op = "cas"
    BY <1>1, <1>5 DEF Condition, Effect, Swapped
<1>6. CASE r.op \in {"delete", "delete_if"}
    BY <1>1, <1>6 DEF Condition, Effect, Deleted
<1>7. CASE r.op = "renew"
    BY <1>1, <1>3, <1>7 DEF Condition, Effect, Renewed
<1> QED BY <1>1, <1>4, <1>5, <1>6, <1>7 DEF Condition

\* A permanent item, or one whose lease no clock within the skew can take for lapsed,
\* is changed only by a request of a node for a swap that names the item's value, for a
\* delete that names it or names none, or for a renewal by the item's owner: not by
\* put_if_absent and not by the table's TTL, whatever is repeated or late and whatever the lengths of the leases.
THEOREM LeaseIsRespected == Spec => LeaseRespected
<1>1. Inv /\ [Next]_vars =>
          [Held /\ item' # item => Swapped \/ Deleted \/ Renewed]_vars
  <2> SUFFICES ASSUME Inv, Next, Held, item' # item PROVE Swapped \/ Deleted \/ Renewed
      OBVIOUS
  <2>1. ASSUME NEW n \in Nodes, Answered(n) \/ Retried(n) PROVE Swapped \/ Deleted \/ Renewed
    <3>1. cl[n].step = "sent" /\ Apply(cl[n].req)
        BY <2>1 DEF Answered, Retried
    <3>2. cl[n].req \in Requests
        BY <3>1 DEF Requests
    <3> QED BY <3>1, <3>2, SentRequest, HeldRequest
  <2>2. ASSUME NEW r \in late, ArrivesLate(r) PROVE Swapped \/ Deleted \/ Renewed
      BY <2>2, LateRequest, HeldRequest DEF ArrivesLate, Requests
  <2>3. ~Reap
    <3>1. now \in Nat /\ item \in Item
        BY DEF Inv, TypeOK
    <3>2. /\ Unix(now) <= Unix(now + Skew) /\ Unix(now) \in Int
          /\ Unix(now + Skew) \in Int /\ item.expires \in Int
        BY <3>1, UnixGrows, UnixBounds, ClockAssumption DEF Item
    <3> QED BY <3>2 DEF Reap, Lapsed, Held
  <2> QED BY <2>1, <2>2, <2>3 DEF Next, Describe, Create, Waited, EnableTtl, ProvisionFails,
             Restart, Send, Straggles, Fails, GetItem, GetJudged, TableActive, Tick
<1>2. Spec => []Inv
    BY Invariance, PTL DEF Inv
<1> QED BY <1>1, <1>2, PTL DEF Spec, LeaseRespected

-----------------------------------------------------------------------------
\* The key as a lock.

LEMMA LockUse ==
    ASSUME Inv, LockDiscipline, NEW n \in Nodes, NEW c \in use.calls[n]
    PROVE  /\ c \in Call /\ c.op \in {"get", "put", "renew", "delete_if"}
           /\ c.op = "put" => c.val = n
           /\ c.op = "delete_if" => c.old = n
           /\ c.op \in {"put", "renew"} =>
                 c.ttl # 0 /\ c.ttl % Second = 0 /\ \A d \in Leases : d.ttl = c.ttl
<1>1. c \in Call /\ LockCall(n, c)
    BY CallsType DEF Inv, TypeOK, LockDiscipline
<1>2. c.op \in {"put", "renew"} => c \in Leases
    BY DEF Leases
<1> QED BY <1>1, <1>2 DEF LockCall, LockDiscipline, Call

LEMMA LockRequest ==
    ASSUME Inv, LockDiscipline, NEW r \in Request, Asked(use.calls, r, now)
    PROVE  /\ r.op \in {"get", "put", "renew", "delete_if"}
           /\ r.op = "put" => r.val = r.node
           /\ r.op = "delete_if" => r.old = r.node
           /\ r.op \in {"put", "renew"} => r.expires # Permanent
<1>1. r.node \in Nodes
    BY DEF Request
<1> QED BY <1>1, LockUse DEF Asked

LEMMA HeldBefore ==
    ASSUME NEW t \in Nat, NEW t2 \in Nat, t <= t2, NEW u \in Nat, NEW u2 \in Nat,
           u2 = u \/ u2 = 0
    PROVE  /\ t2 + 2 * Skew < u2 => t + 2 * Skew < u /\ u2 = u
           /\ t2 + 2 * Skew + Second <= u2 => t + 2 * Skew + Second <= u /\ u2 = u
  BY ClockAssumption

LEMMA LockItemKept ==
    ASSUME NEW i, NEW t \in Nat, NEW t2 \in Nat, t <= t2,
           NEW u \in [Nodes -> Nat], NEW u2 \in [Nodes -> Nat],
           \A n \in Nodes : u2[n] = u[n] \/ u2[n] = 0, LockItemAt(i, u, t)
    PROVE  LockItemAt(i, u2, t2)
<1>1. \A n \in Nodes : t2 + 2 * Skew < u2[n] => t + 2 * Skew < u[n] /\ u2[n] = u[n]
    BY HeldBefore
<1> QED BY <1>1 DEF LockItemAt

\* Carrying out a request, whether its call hears of it or not.
LEMMA LockApply ==
    ASSUME Inv, LockDiscipline, LockItemAt(item, until, now),
           NEW r \in Request, Asked(use.calls, r, now), Apply(r),
           NEW u2 \in [Nodes -> Nat], \A m \in Nodes \ {r.node} : u2[m] = until[m],
           Condition(r) /\ now + 2 * Skew < u2[r.node] =>
              r.op # "delete_if" /\ (r.op = "renew" => u2[r.node] - Skew < End(r.expires)),
           \/ u2[r.node] = until[r.node] \/ u2[r.node] = 0
           \/ Condition(r) /\ r.op \in {"put", "renew"} /\ u2[r.node] - Skew < End(r.expires)
    PROVE  LockItemAt(item', u2, now)
<1>1. /\ now \in Nat /\ item \in Item /\ r.node \in Nodes /\ until \in [Nodes -> Nat]
      /\ r.expires \in Int /\ r.at \in Int /\ Skew \in Nat /\ End(r.expires) \in Int
    BY ClockAssumption, EndType DEF Inv, TypeOK, Request
<1>2. /\ r.op \in {"get", "put", "renew", "delete_if"}
      /\ r.op = "put" => r.val = r.node
      /\ r.op = "delete_if" => r.old = r.node
      /\ r.op \in {"put", "renew"} => r.expires # Permanent
    BY LockRequest
<1>3. CASE ~Condition(r)
  <2>1. item' = item
      BY <1>3 DEF Apply
  <2>2. \A m \in Nodes : u2[m] = until[m] \/ u2[m] = 0
      BY <1>3
  <2> QED BY <1>1, <2>1, <2>2, LockItemKept
<1>4. CASE Condition(r)
  <2>1. item' = Effect(r)
      BY <1>4 DEF Apply
  <2>2. CASE r.op = "put"
    <3>1. item' = [val |-> r.node, owner |-> r.node, expires |-> r.expires]
        BY <1>2, <2>1, <2>2 DEF Effect
    <3>2. ASSUME NEW m \in Nodes, now + 2 * Skew < until[m] PROVE FALSE
      <4>1. item.owner = m /\ until[m] - Skew < End(item.expires)
          BY <3>2 DEF LockItemAt
      <4>2. item.expires \in Int /\ r.at <= Unix(now + Skew)
          BY <1>1 DEF Item, Asked
      <4>3. ~Lapsed(item.expires, r.at)
          BY <1>1, <3>2, <4>1, <4>2, HeldIsNotLapsed
      <4> QED BY <1>4, <2>2, <4>1, <4>3, NoneAssumption DEF Condition, Exists
    <3>3. ASSUME NEW m \in Nodes, now + 2 * Skew < u2[m]
          PROVE  m = r.node /\ u2[m] - Skew < End(r.expires)
        BY <1>1, <3>2, <3>3
    <3> QED BY <1>2, <2>2, <3>1, <3>3 DEF LockItemAt
  <2>3. CASE r.op = "renew"
    <3>1. item' = [item EXCEPT !.expires = r.expires] /\ item.owner = r.node
        BY <1>4, <2>1, <2>3 DEF Effect, Condition
    <3>2. /\ item'.owner = r.node /\ item'.val = item.val /\ item'.expires = r.expires
        BY <1>1, <3>1 DEF Item
    <3>3. item.val = r.node
        BY <1>1, <3>1, NoneAssumption DEF LockItemAt
    <3>4. ASSUME NEW m \in Nodes, now + 2 * Skew < u2[m]
          PROVE  m = r.node /\ u2[m] - Skew < End(r.expires)
      <4>1. CASE m # r.node
        <5>1. item.owner = m
            BY <3>4, <4>1 DEF LockItemAt
        <5> QED BY <3>1, <4>1, <5>1
      <4>2. CASE m = r.node
          BY <1>1, <1>4, <2>3, <3>4, <4>2
      <4> QED BY <4>1, <4>2
    <3> QED BY <1>2, <2>3, <3>2, <3>3, <3>4 DEF LockItemAt
  <2>4. CASE r.op = "delete_if"
    <3>1. item' = NoItem /\ Exists /\ item.val = r.node
        BY <1>2, <1>4, <2>1, <2>4 DEF Effect, Condition
    <3>2. item.owner = r.node
        BY <3>1 DEF LockItemAt, Exists
    <3>3. ASSUME NEW m \in Nodes, now + 2 * Skew < u2[m] PROVE FALSE
      <4>1. CASE m = r.node
          BY <1>1, <1>4, <2>4, <3>3, <4>1
      <4>2. CASE m # r.node
        <5>1. item.owner = m
            BY <3>3, <4>2 DEF LockItemAt
        <5> QED BY <3>2, <4>2, <5>1
      <4> QED BY <4>1, <4>2
    <3> QED BY <3>1, <3>3 DEF LockItemAt, NoItem
  <2> QED BY <1>2, <1>4, <2>2, <2>3, <2>4 DEF Condition
<1> QED BY <1>3, <1>4

LEMMA LeaseTtl ==
    ASSUME Inv, NEW c \in Leases
    PROVE  c.ttl \in Nat
<1>1. PICK n \in Nodes : c \in use.calls[n]
    BY DEF Leases
<1> QED BY <1>1, CallsType DEF Inv, TypeOK, Call

\* A call that goes on.
LEMMA LockCallKept ==
    ASSUME Inv, NEW k \in Client, NEW u \in Nat, NEW u2 \in Nat, u2 = u \/ u2 = 0,
           NEW t \in Nat, NEW t2 \in Nat, t <= t2, LockCallAt(k, u, t),
           k.step = "sent" => k.req \in Request
    PROVE  LockCallAt(k, u2, t2)
<1>1. /\ t2 + 2 * Skew < u2 => t + 2 * Skew < u /\ u2 = u
      /\ t2 + 2 * Skew + Second <= u2 => t + 2 * Skew + Second <= u /\ u2 = u
    BY HeldBefore
<1>2. k.step = "sent" /\ k.req.op \in {"put", "renew"} => \A c \in Leases : k.lease <= t2 + c.ttl
  <2> SUFFICES ASSUME k.step = "sent", k.req.op \in {"put", "renew"}, NEW c \in Leases
               PROVE  k.lease <= t2 + c.ttl
      OBVIOUS
  <2>1. k.lease \in Nat /\ c.ttl \in Nat /\ k.lease <= t + c.ttl
      BY LeaseTtl DEF Client, LockCallAt
  <2> QED BY <2>1
<1>3. k.step = "sent" /\ k.req.op = "renew" => u2 - Skew < End(k.req.expires)
  <2> SUFFICES ASSUME k.step = "sent", k.req.op = "renew" PROVE u2 - Skew < End(k.req.expires)
      OBVIOUS
  <2>1. End(k.req.expires) \in Int /\ u - Skew < End(k.req.expires)
      BY EndType DEF LockCallAt, Request
  <2> QED BY <2>1, ClockAssumption
<1> QED BY <1>1, <1>2, <1>3 DEF LockCallAt

LEMMA LockCallDone ==
    ASSUME NEW s \in Steps \ {"sent", "read"}, NEW answer \in {"none", "present"},
           NEW u \in Nat, NEW t \in Nat
    PROVE  LockCallAt(At(s, answer), u, t)
  BY AtType DEF LockCallAt

\* What is left to show of a step: the item, the calls, and that no node thinks it has
\* the lease for longer than one from now.
LEMMA LockKeeps ==
    ASSUME Inv, use' = use, LockItemAt(item', until', now'),
           \A m \in Nodes : LockCallAt(cl'[m], until'[m], now'),
           \A m \in Nodes : \A c \in Leases : until'[m] <= now' + c.ttl
    PROVE  LockState'
<1>1. Leases' = Leases
    BY DEF Leases
<1> QED BY <1>1 DEF LockState, LockItemAt, LockCallAt

LEMMA LockBound ==
    ASSUME Inv, LockState, NEW m \in Nodes, NEW t2 \in Nat, now <= t2, NEW u2 \in Nat,
           u2 = until[m] \/ u2 = 0, NEW c \in Leases
    PROVE  u2 <= t2 + c.ttl
<1>1. c.ttl \in Nat /\ now \in Nat /\ until[m] \in Nat /\ until[m] <= now + c.ttl
    BY LeaseTtl DEF Inv, TypeOK, LockState
<1> QED BY <1>1

\* Nodes whose call the step leaves alone.
LEMMA LockCallOf ==
    ASSUME Inv, LockState, NEW m \in Nodes, NEW t2 \in Nat, now <= t2,
           NEW u2 \in Nat, u2 = until[m] \/ u2 = 0
    PROVE  LockCallAt(cl[m], u2, t2)
<1>1. cl[m] \in Client /\ until[m] \in Nat /\ now \in Nat
    BY DEF Inv, TypeOK
<1>2. cl[m].step = "sent" => cl[m].req \in Request
    BY SentRequest
<1> QED BY <1>1, <1>2, LockCallKept DEF LockState

\* A step that changes the item and not the calls, and may take a lease from its node.
LEMMA LockItemStep ==
    ASSUME Inv, LockState, UNCHANGED <<use, cl, now>>, LockItemAt(item', until', now),
           until' \in [Nodes -> Nat], \A m \in Nodes : until'[m] = until[m] \/ until'[m] = 0
    PROVE  LockState'
<1>1. now \in Nat /\ until \in [Nodes -> Nat]
    BY DEF Inv, TypeOK
<1>2. \A m \in Nodes : LockCallAt(cl'[m], until'[m], now')
    BY <1>1, LockCallOf
<1>3. \A m \in Nodes : \A c \in Leases : until'[m] <= now' + c.ttl
    BY <1>1, LockBound
<1> QED BY <1>2, <1>3, LockKeeps

\* A step of one call that leaves the item and what its node thinks.
LEMMA LockOneCall ==
    ASSUME Inv, LockState, NEW n \in Nodes, NEW k, cl' = [cl EXCEPT ![n] = k],
           LockCallAt(k, until[n], now), UNCHANGED <<use, item, now, until>>
    PROVE  LockState'
<1>1. cl \in [Nodes -> Client] /\ now \in Nat /\ until \in [Nodes -> Nat]
    BY DEF Inv, TypeOK
<1>2. cl'[n] = k /\ \A m \in Nodes \ {n} : cl'[m] = cl[m]
    BY <1>1
<1>3. \A m \in Nodes : LockCallAt(cl'[m], until'[m], now')
    BY <1>1, <1>2, LockCallOf
<1>4. \A m \in Nodes : \A c \in Leases : until'[m] <= now' + c.ttl
    BY <1>1, LockBound
<1> QED BY <1>3, <1>4, LockKeeps DEF LockState

LEMMA LockSend ==
    ASSUME Inv, LockDiscipline, LockState, NEW n \in Nodes, NEW c \in use.calls[n], Send(n, c)
    PROVE  LockState'
<1>0. /\ c \in Call /\ cl \in [Nodes -> Client] /\ now \in Nat /\ until \in [Nodes -> Nat]
      /\ item \in Item /\ UNCHANGED <<use, item, table, ttlOn, now, late, stray>>
    BY CallsType DEF Inv, TypeOK, Send
<1>1. /\ until' \in [Nodes -> Nat] /\ \A m \in Nodes \ {n} : until'[m] = until[m]
      /\ IF c.op \in {"delete", "delete_if"} THEN until'[n] = 0 ELSE until'[n] = until[n]
    BY <1>0 DEF Send
<1>2. \A m \in Nodes \ {n} : cl'[m] = cl[m]
    BY <1>0 DEF Send
<1>3. \A m \in Nodes : until'[m] = until[m] \/ until'[m] = 0
    BY <1>1
<1>4. LockCallAt(cl'[n], until'[n], now)
  <2>1. CASE c.op = "renew" /\ c.ttl = 0
    <3>1. cl'[n] = At("ready", "none")
        BY <1>0, <2>1 DEF Send
    <3>2. "ready" \in Steps \ {"sent", "read"}
        BY DEF Steps
    <3> QED BY <1>0, <1>1, <3>1, <3>2, LockCallDone
  <2>2. CASE ~(c.op = "renew" /\ c.ttl = 0)
    <3> DEFINE lease == IF c.op \in {"put", "renew"} THEN now + c.ttl ELSE 0
    <3>1. PICK t \in Clock, u \in Clock :
              cl'[n] = [step |-> "sent", req |-> RequestOf(n, c, t, u),
                        lease |-> lease, seen |-> NoItem, got |-> "none"]
        BY <1>0, <2>2 DEF Send
    <3> DEFINE r == RequestOf(n, c, t, u)
               d == [step |-> "sent", req |-> r, lease |-> lease, seen |-> NoItem, got |-> "none"]
    <3>2. t \in Nat /\ now <= t + Skew /\ r \in Request
      <4>1. t \in Nat /\ r \in Request
          BY <2>2, RequestType
      <4> QED BY <1>0, <4>1, ClockAssumption DEF Clock
    <3>3. r.op = c.op /\ r.expires = ExpiryAt(t, c.ttl)
        BY DEF RequestOf
    <3>4. ASSUME c.op \in {"put", "renew"}
          PROVE  /\ lease = now + c.ttl
                 /\ lease - Skew < End(r.expires) /\ \A x \in Leases : x.ttl = c.ttl
      <4>1. c.ttl \in Nat /\ c.ttl # 0 /\ c.ttl % Second = 0 /\ \A x \in Leases : x.ttl = c.ttl
          BY <1>0, <3>4, LockUse DEF Call
      <4>2. (now + c.ttl) - Skew < End(ExpiryAt(t, c.ttl))
          BY <1>0, <3>2, <4>1, RoundedDeadline
      <4> QED BY <3>3, <3>4, <4>1, <4>2
    <3>5. c.op = "renew" => until'[n] - Skew < End(r.expires)
      <4> SUFFICES ASSUME c.op = "renew" PROVE until'[n] - Skew < End(r.expires)
          OBVIOUS
      <4>1. c \in Leases /\ until'[n] = until[n]
          BY <1>1 DEF Leases
      <4>2. until[n] <= lease
          BY <3>4, <4>1 DEF LockState
      <4>3. r.expires \in Int
          BY <3>2 DEF Request
      <4>4. End(r.expires) \in Int /\ lease \in Nat
          BY <1>0, <4>3, EndType DEF Call
      <4>5. until[n] - Skew < End(r.expires)
        <5> HIDE DEF lease, r
        <5> QED BY <1>0, <3>4, <4>2, <4>4, ClockAssumption
      <4> QED BY <4>1, <4>5
    <3>6. c.op \in {"put", "renew"} => \A x \in Leases : lease <= now + x.ttl
      <4>1. lease \in Int
          BY <1>0 DEF Call
      <4> HIDE DEF lease
      <4> QED BY <3>4, <4>1
    <3>7. d.step = "sent" /\ d.req = r /\ d.lease = lease /\ d.got = "none"
        OBVIOUS
    <3> HIDE DEF d, r, lease
    <3>8. c.op = "delete_if" => until'[n] = 0
        BY <1>1
    <3>9. LockCallAt(d, until'[n], now)
        BY <3>3, <3>4, <3>5, <3>6, <3>7, <3>8 DEF LockCallAt
    <3> QED BY <3>1, <3>9 DEF d, r
  <2> QED BY <2>1, <2>2
<1>5. LockItemAt(item', until', now')
    BY <1>0, <1>1, <1>3, LockItemKept DEF LockState
<1>6. \A m \in Nodes : LockCallAt(cl'[m], until'[m], now')
    BY <1>0, <1>1, <1>2, <1>3, <1>4, LockCallOf
<1>7. \A m \in Nodes : \A x \in Leases : until'[m] <= now' + x.ttl
    BY <1>0, <1>1, <1>3, LockBound
<1> QED BY <1>0, <1>5, <1>6, <1>7, LockKeeps

LEMMA LockAnswered ==
    ASSUME Inv, LockDiscipline, LockState, NEW n \in Nodes, Answered(n)
    PROVE  LockState'
<1> DEFINE r == cl[n].req
           yes == Condition(r)
<1>1. /\ cl[n].step = "sent" /\ Apply(r) /\ until' = Leased(n, yes)
      /\ cl' = [cl EXCEPT ![n] = At("ready", "none")]
      /\ UNCHANGED <<use, table, ttlOn, now, late, stray>>
      /\ now \in Nat /\ until \in [Nodes -> Nat] /\ cl \in [Nodes -> Client]
    BY DEF Answered, Goto, Inv, TypeOK
<1>2. r \in Request /\ r.node = n /\ Asked(use.calls, r, now) /\ cl[n].lease \in Nat
    BY <1>1, SentRequest
<1>3. LockCallAt(cl[n], until[n], now)
    BY DEF LockState
<1>4. yes \in BOOLEAN
    BY DEF Condition
<1>5. /\ until' \in [Nodes -> Nat] /\ \A m \in Nodes \ {n} : until'[m] = until[m]
    BY <1>1, <1>4, LeasedType
<1>6. \/ until'[n] = until[n] \/ until'[n] = 0
      \/ yes /\ r.op \in {"put", "renew"} /\ until'[n] = cl[n].lease
    BY <1>1 DEF Leased
<1>7. /\ r.op = "delete_if" => until[n] = 0
      /\ r.op = "renew" => until[n] - Skew < End(r.expires)
      /\ r.op \in {"put", "renew"} =>
            cl[n].lease - Skew < End(r.expires) /\ \A c \in Leases : cl[n].lease <= now + c.ttl
    BY <1>1, <1>3 DEF LockCallAt
<1>13. now + 2 * Skew < until'[n] =>
          r.op # "delete_if" /\ (r.op = "renew" => until'[n] - Skew < End(r.expires))
  <2>1. until[n] \in Nat /\ until'[n] \in Nat /\ now \in Nat
      BY <1>1, <1>5
  <2>2. r.op = "delete_if" => until'[n] = 0
      BY <1>6, <1>7
  <2> QED BY <1>6, <1>7, <2>1, <2>2, ClockAssumption
<1> HIDE DEF r
<1>8. LockItemAt(item', until', now)
    BY <1>1, <1>2, <1>5, <1>6, <1>7, <1>13, LockApply DEF LockState
<1>9. cl'[n] = At("ready", "none") /\ \A m \in Nodes \ {n} : cl'[m] = cl[m]
    BY <1>1
<1>10. "ready" \in Steps \ {"sent", "read"}
    BY DEF Steps
<1>11. ASSUME NEW m \in Nodes PROVE LockCallAt(cl'[m], until'[m], now')
  <2>1. CASE m = n
      BY <1>1, <1>5, <1>9, <1>10, <2>1, LockCallDone
  <2>2. CASE m # n
    <3>1. cl'[m] = cl[m] /\ until'[m] = until[m] /\ until'[m] \in Nat /\ now' = now
        BY <1>1, <1>5, <1>9, <2>2
    <3> QED BY <1>1, <3>1, LockCallOf
  <2> QED BY <2>1, <2>2
<1>12. \A m \in Nodes : \A c \in Leases : until'[m] <= now' + c.ttl
    BY <1>1, <1>5, <1>6, <1>7, LockBound
<1> QED BY <1>1, <1>8, <1>11, <1>12, LockKeeps

LEMMA LockGet ==
    ASSUME Inv, LockState, NEW n \in Nodes, GetItem(n)
    PROVE  LockState'
<1>0. /\ cl \in [Nodes -> Client] /\ cl[n] \in Client /\ now \in Nat /\ until[n] \in Nat
      /\ cl' = [cl EXCEPT ![n].step = "read", ![n].seen = item]
      /\ UNCHANGED <<use, item, table, ttlOn, now, late, stray, until>>
    BY DEF GetItem, Inv, TypeOK
<1> DEFINE k == [cl[n] EXCEPT !.step = "read", !.seen = item]
<1>1. cl' = [cl EXCEPT ![n] = k] /\ k.step = "read" /\ k.seen = item /\ k.got = cl[n].got
    BY <1>0 DEF Client
<1> HIDE DEF k
<1>2. now + 2 * Skew < until[n] => item.owner # None /\ until[n] - Skew < End(item.expires)
    BY NoneAssumption DEF LockState, LockItemAt
<1>3. LockCallAt(k, until[n], now)
    BY <1>1, <1>2 DEF LockCallAt, LockState
<1> QED BY <1>0, <1>1, <1>3, LockOneCall

LEMMA LockJudged ==
    ASSUME Inv, LockState, NEW n \in Nodes, GetJudged(n)
    PROVE  LockState'
<1>0. /\ cl[n] \in Client /\ now \in Nat /\ until[n] \in Nat /\ Skew <= now
      /\ cl[n].step = "read" /\ UNCHANGED <<use, item, now, until>>
    BY DEF GetJudged, Inv, TypeOK, DynamoInv
<1>1. PICK t \in Clock :
          cl' = [cl EXCEPT ![n] =
                   At("ready", IF Present(cl[n].seen, t) THEN "present" ELSE "absent")]
    BY DEF GetJudged
<1>2. "ready" \in Steps \ {"sent", "read"}
    BY DEF Steps
<1>3. CASE Present(cl[n].seen, t)
  <2>1. LockCallAt(At("ready", "present"), until[n], now)
      BY <1>0, <1>2, LockCallDone
  <2> QED BY <1>0, <1>1, <1>3, <2>1, LockOneCall
<1>4. CASE ~Present(cl[n].seen, t)
  <2> DEFINE e == cl[n].seen.expires
  <2>1. ~(now + 2 * Skew + Second <= until[n])
    <3> SUFFICES ASSUME now + 2 * Skew + Second <= until[n] PROVE FALSE
        OBVIOUS
    <3>1. now + 2 * Skew < until[n]
        BY <1>0, ClockAssumption
    <3>2. cl[n].seen.owner # None /\ until[n] - Skew < End(e)
        BY <1>0, <3>1 DEF LockState, LockCallAt
    <3>3. e \in Int
        BY <1>0 DEF Client, Item
    <3>4. t \in Nat /\ t <= now + Skew
        BY <1>0, ClockAssumption DEF Clock
    <3>5. e > Unix(t)
        BY <1>0, <3>2, <3>3, <3>4, HeldIsValid
    <3> QED BY <1>4, <3>2, <3>5 DEF Present
  <2>2. At("ready", "absent").step = "ready"
      BY <1>2, AtType
  <2>3. LockCallAt(At("ready", "absent"), until[n], now)
      BY <2>1, <2>2 DEF LockCallAt
  <2> QED BY <1>0, <1>1, <1>4, <2>3, LockOneCall
<1> QED BY <1>3, <1>4

\* A request that comes late: it either leaves its own node's lease as long as it was or
\* cuts it short, and then the node is no longer counted as its holder.
LEMMA LockLate ==
    ASSUME Inv, LockDiscipline, LockState, NEW r \in late, ArrivesLate(r)
    PROVE  LockState'
<1>0. /\ now \in Nat /\ until \in [Nodes -> Nat] /\ item \in Item
      /\ LockItemAt(item, until, now)
    BY DEF Inv, TypeOK, LockState
<1>1. /\ Apply(r) /\ UNCHANGED <<use, now, cl>>
      /\ until' = IF CutsShort(r) THEN [until EXCEPT ![r.node] = 0] ELSE until
    BY DEF ArrivesLate
<1>2. r \in Request /\ r.node \in Nodes /\ r.expires \in Int /\ Asked(use.calls, r, now)
    BY LateRequest DEF Request
<1>3. /\ until' \in [Nodes -> Nat]
      /\ \A m \in Nodes \ {r.node} : until'[m] = until[m]
      /\ until'[r.node] = IF CutsShort(r) THEN 0 ELSE until[r.node]
    BY <1>0, <1>1, <1>2
<1>4. ASSUME Condition(r), now + 2 * Skew < until'[r.node]
      PROVE  r.op # "delete_if" /\ (r.op = "renew" => until'[r.node] - Skew < End(r.expires))
  <2>1. until'[r.node] = until[r.node] /\ ~CutsShort(r)
      BY <1>0, <1>3, <1>4, ClockAssumption
  <2>2. /\ item.owner = r.node /\ until[r.node] - Skew < End(item.expires)
        /\ item.expires \in Int /\ until[r.node] \in Nat
      BY <1>0, <1>2, <1>4, <2>1 DEF LockItemAt, Item
  <2>3. item.expires > -1
      BY <1>0, <1>4, <2>1, <2>2, EndAfterStart
  <2>4. r.op # "delete_if"
    <3>1. r.op = "delete_if" => Effect(r).expires = -1
        BY DEF Effect, NoItem, Permanent
    <3> QED BY <1>4, <2>1, <2>2, <2>3, <3>1 DEF CutsShort
  <2>5. ASSUME r.op = "renew" PROVE until'[r.node] - Skew < End(r.expires)
    <3>1. Effect(r).expires = r.expires
        BY <1>0, <2>5 DEF Effect, Item
    <3>2. item.expires <= r.expires
        BY <1>2, <1>4, <2>1, <2>2, <3>1 DEF CutsShort
    <3>3. End(item.expires) <= End(r.expires)
        BY <1>2, <2>2, <3>2, EndGrows
    <3>4. End(item.expires) \in Int /\ End(r.expires) \in Int
        BY <1>2, <2>2, EndType
    <3>5. until[r.node] - Skew < End(r.expires)
        BY <2>2, <3>3, <3>4, ClockAssumption
    <3> QED BY <2>1, <3>5
  <2> QED BY <2>4, <2>5
<1>5. LockItemAt(item', until', now)
    BY <1>0, <1>1, <1>2, <1>3, <1>4, LockApply
<1> QED BY <1>1, <1>3, <1>5, LockItemStep

LEMMA LockStep ==
    ASSUME Inv, LockDiscipline, LockState, [Next]_vars
    PROVE  LockState'
<1>0. /\ cl \in [Nodes -> Client] /\ now \in Nat /\ until \in [Nodes -> Nat]
      /\ LockItemAt(item, until, now)
    BY DEF Inv, TypeOK, LockState
<1>1. ASSUME NEW n \in Nodes, NEW s \in Boot \cup {"ready", "down"}, Goto(n, s),
             UNCHANGED <<use, item, now, until>>
      PROVE  LockState'
  <2>1. s \in Steps \ {"sent", "read"}
      BY DEF Steps, Boot
  <2>2. LockCallAt(At(s, "none"), until[n], now)
      BY <1>0, <2>1, LockCallDone
  <2> QED BY <1>1, <2>2, LockOneCall DEF Goto
<1>2. ASSUME UNCHANGED <<use, item, now, cl, until>> PROVE LockState'
    BY <1>0, <1>2, LockItemStep
<1>3. ASSUME NEW n \in Nodes,
             \/ Describe(n) \/ Create(n) \/ Waited(n) \/ EnableTtl(n)
             \/ ProvisionFails(n) \/ Restart(n) \/ Fails(n)
      PROVE  LockState'
    BY <1>1, <1>3 DEF Describe, Create, Waited, EnableTtl, ProvisionFails, Restart, Fails, Boot
<1>4. ASSUME NEW n \in Nodes, NEW c \in use.calls[n], Send(n, c) PROVE LockState'
    BY <1>4, LockSend
<1>5. ASSUME NEW n \in Nodes, Answered(n) PROVE LockState'
    BY <1>5, LockAnswered
<1>6. ASSUME NEW n \in Nodes, Retried(n) PROVE LockState'
  <2> DEFINE r == cl[n].req
  <2>1. cl[n].step = "sent" /\ Apply(r) /\ UNCHANGED <<use, now, cl, until>>
      BY <1>6 DEF Retried
  <2>2. r \in Request /\ r.node = n /\ Asked(use.calls, r, now)
      BY <2>1, SentRequest
  <2>3. /\ r.op = "delete_if" => until[n] = 0
        /\ r.op = "renew" => until[n] - Skew < End(r.expires)
      BY <2>1 DEF LockState, LockCallAt
  <2> HIDE DEF r
  <2>4. LockItemAt(item', until, now)
      BY <1>0, <2>1, <2>2, <2>3, ClockAssumption, LockApply
  <2> QED BY <1>0, <2>1, <2>4, LockItemStep
<1>7. ASSUME NEW n \in Nodes, Straggles(n) PROVE LockState'
    BY <1>2, <1>7 DEF Straggles
<1>8. ASSUME NEW n \in Nodes, GetItem(n) PROVE LockState'
    BY <1>8, LockGet
<1>9. ASSUME NEW n \in Nodes, GetJudged(n) PROVE LockState'
    BY <1>9, LockJudged
<1>10. ASSUME NEW r \in late, ArrivesLate(r) PROVE LockState'
    BY <1>10, LockLate
<1>11. CASE TableActive
    BY <1>2, <1>11 DEF TableActive
<1>12. CASE Reap
  <2>1. /\ Exists /\ Lapsed(item.expires, Unix(now)) /\ item' = NoItem
        /\ UNCHANGED <<use, now, cl, until>> /\ item.expires \in Int
      BY <1>12 DEF Reap, Inv, TypeOK, Item
  <2>2. Unix(now) \in Int /\ Unix(now) <= Unix(now + Skew)
      BY <1>0, UnixBounds, UnixGrows, ClockAssumption
  <2>3. \A m \in Nodes : ~(now + 2 * Skew < until[m])
      BY <1>0, <2>1, <2>2, HeldIsNotLapsed DEF LockItemAt
  <2>4. LockItemAt(NoItem, until, now)
      BY <2>3 DEF LockItemAt, NoItem
  <2> QED BY <1>0, <2>1, <2>4, LockItemStep
<1>13. CASE Tick
  <2>1. now' = now + 1 /\ UNCHANGED <<use, item, cl, until>>
      BY <1>13 DEF Tick
  <2>2. now' \in Nat /\ now <= now'
      BY <1>0, <2>1
  <2>3. LockItemAt(item', until', now')
      BY <1>0, <2>1, <2>2, LockItemKept
  <2>4. \A m \in Nodes : LockCallAt(cl'[m], until'[m], now')
      BY <1>0, <2>1, <2>2, LockCallOf
  <2>5. \A m \in Nodes : \A c \in Leases : until'[m] <= now' + c.ttl
      BY <1>0, <2>1, <2>2, LockBound
  <2> QED BY <2>1, <2>3, <2>4, <2>5, LockKeeps
<1>14. CASE UNCHANGED vars
    BY <1>2, <1>14 DEF vars
<1> QED
    BY <1>3, <1>4, <1>5, <1>6, <1>7, <1>8, <1>9, <1>10, <1>11, <1>12, <1>13, <1>14 DEF Next

\* How the key is used does not change in a behaviour.
LEMMA DisciplineKept == ASSUME [Next]_vars PROVE LockDiscipline' <=> LockDiscipline
<1>1. use' = use
    BY DEF Next, Describe, Create, Waited, EnableTtl, ProvisionFails, Restart, Send, Answered,
           Retried, Straggles, Fails, GetItem, GetJudged, ArrivesLate, TableActive, Reap, Tick, vars
<1> QED BY <1>1 DEF LockDiscipline, Leases, LockCall

LEMMA LockStateHolds == Spec => []LockStateInv
<1>1. Init => LockStateInv
  <2> SUFFICES ASSUME Init, LockDiscipline PROVE LockState
      BY DEF LockStateInv
  <2>1. Inv /\ now \in Nat /\ until = [n \in Nodes |-> 0] /\ item = NoItem
      BY InitHolds DEF Init, Inv, TypeOK
  <2>2. PICK s \in {"describe", "ready"} : \A n \in Nodes : cl[n] = At(s, "none")
      BY DEF Init
  <2>3. s \in Steps \ {"sent", "read"}
      BY DEF Steps, Boot
  <2>4. \A n \in Nodes : LockCallAt(cl[n], until[n], now)
      BY <2>1, <2>2, <2>3, LockCallDone
  <2>5. LockItemAt(item, until, now)
      BY <2>1, ClockAssumption DEF LockItemAt, NoItem
  <2>6. \A n \in Nodes : \A c \in Leases : until[n] <= now + c.ttl
      BY <2>1, LeaseTtl
  <2> QED BY <2>4, <2>5, <2>6 DEF LockState
<1>2. Inv /\ LockStateInv /\ [Next]_vars => LockStateInv'
    BY LockStep, DisciplineKept DEF LockStateInv
<1>3. Spec => []Inv
    BY Invariance, PTL DEF Inv
<1> QED BY <1>1, <1>2, <1>3, PTL DEF Spec

\* Of a key used as a lock with a lease of whole seconds: the item of a holder is
\* there, is its own and lapses on no clock before the holder thinks it does, although
\* item() and Renew round the deadline down twice, and whatever is repeated or comes
\* late. A lease ends early only by a late renewal or release of the holder itself.
THEOREM LockInvariance == Spec => []LockInv
<1>1. LockStateInv => LockInv
    BY NoneAssumption DEF LockStateInv, LockState, LockItemAt, LockInv, Holds, Exists, End
<1>2. Spec => []LockStateInv
    BY LockStateHolds
<1> QED BY <1>1, <1>2, PTL

\* Two nodes that use the key as a lock, and let go of it two clock skews early, never
\* hold it at the same time, for every number of nodes, skew and length of a second and
\* any late request, but for a node that cut its own lease short by one.
THEOREM LockExcludes == Spec => []MutualExclusion
<1>1. LockInv => MutualExclusion
    BY DEF LockInv, MutualExclusion
<1>2. Spec => []LockInv
    BY LockInvariance
<1> QED BY <1>1, <1>2, PTL

\* A holder with a second of its lease left beyond the skews, that asks, finds the key
\* present, however long the answer of GetItem takes.
THEOREM HolderSeesIt == Spec => []HolderSeesLease
<1>1. LockStateInv => HolderSeesLease
    BY DEF LockStateInv, LockState, LockCallAt, HolderSeesLease
<1>2. Spec => []LockStateInv
    BY LockStateHolds
<1> QED BY <1>1, <1>2, PTL

=============================================================================
