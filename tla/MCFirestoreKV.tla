---------------------------- MODULE MCFirestoreKV ----------------------------
EXTENDS FirestoreKV, TLC

CONSTANTS a, b

C(op, val, old, ttl) == [op |-> op, val |-> val, old |-> old, ttl |-> ttl]

\* The key as a lock: a claims, keeps, checks and releases it, b claims it.
Lock ==
    (a :> {C("put", a, a, 3), C("renew", a, a, 3), C("delete_if", a, a, 3), C("get", a, a, 0)}) @@
    (b :> {C("put", b, b, 3)})

\* Permanent values, swaps and plain deletes.
Mixed ==
    (a :> {C("put", a, a, 1), C("cas", a, b, 2)}) @@
    (b :> {C("put", b, a, 0), C("cas", b, a, 0), C("renew", b, b, 0), C("renew", b, b, 1),
           C("delete", b, b, 0)})

LockAndMixed == {Lock, Mixed}
=============================================================================
