------------------------------ MODULE LeaseStore ------------------------------
(***************************************************************************)
(* What a KVStore promises about one key: conditional writes and leases,   *)
(* each operation atomic. This is the in-memory store of memkv, whose      *)
(* mutex makes it exactly that (Lag = FALSE, Skew = 0); the remote stores  *)
(* are weaker in two ways the constants name.                              *)
(*                                                                         *)
(* An operation that answers false or only reads leaves the state as it    *)
(* is, so it is a stuttering step here.                                    *)
(***************************************************************************)
EXTENDS Naturals

CONSTANTS
    Skew,   \* how far a caller's clock may be off the store's
    Lag     \* TRUE: compare_and_swap and renew may find the lease live and
            \* write after it has lapsed, if nobody wrote in between

VARIABLES
    calls,  \* calls[n]: the calls node n may make, the same all along
    entry,  \* the entry under the key: {} or a singleton
    now,    \* the store's clock
    last    \* the operation that last changed the entry

vars == <<calls, entry, now, last>>

\* A permanent entry has a zero expiry.
Live(e, t) == e.expires = 0 \/ e.expires > t

ExpiryAt(t, ttl) == IF ttl = 0 THEN 0 ELSE t + ttl

Written(n, val, ttl) == {[val |-> val, owner |-> n, expires |-> ExpiryAt(now, ttl)]}

StillLive(e) == Lag \/ Live(e, now)

PutIfAbsent(n, c) ==
    /\ c.op = "put"
    /\ \A e \in entry : ~Live(e, now + Skew)
    /\ entry' = Written(n, c.val, c.ttl)

CompareAndSwap(n, c) ==
    /\ c.op = "cas"
    /\ \E e \in entry : StillLive(e) /\ e.val = c.old
    /\ entry' = Written(n, c.val, c.ttl)

Renew(n, c) ==
    /\ c.op = "renew" /\ c.ttl > 0
    /\ \E e \in entry :
          /\ StillLive(e) /\ e.expires # 0 /\ e.owner = n
          /\ entry' = Written(n, e.val, c.ttl)

Delete(n, c) ==
    /\ \/ c.op = "delete"
       \/ c.op = "delete_if" /\ \E e \in entry : e.val = c.old
    /\ entry' = {}

Change(n, c) ==
    /\ PutIfAbsent(n, c) \/ CompareAndSwap(n, c) \/ Renew(n, c) \/ Delete(n, c)
    /\ last' = c.op
    /\ UNCHANGED <<calls, now>>

\* A lazy janitor (DynamoDB's TTL, a bucket's lifecycle rule) drops an entry
\* that no longer counts anyway.
Reap ==
    /\ \A e \in entry : ~Live(e, now)
    /\ entry' = {}
    /\ UNCHANGED <<calls, now, last>>

Tick == now' = now + 1 /\ UNCHANGED <<calls, entry, last>>

Next ==
    \/ \E n \in DOMAIN calls : \E c \in calls[n] : Change(n, c)
    \/ Reap
    \/ Tick

Init == entry = {} /\ now = 1 /\ last = "none"

Spec == Init /\ [][Next]_vars
=============================================================================
