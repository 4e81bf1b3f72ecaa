------------------------------ MODULE MCDynamoKV ------------------------------
EXTENDS DynamoKV, TLC

CONSTANTS a, b

C(op, val, old, ttl) == [op |-> op, val |-> val, old |-> old, ttl |-> ttl]

\* The key as a lock with a lease of two seconds: a claims, keeps, checks and
\* releases it, b claims it.
Lock ==
    (a :> {C("put", a, a, 4), C("renew", a, a, 4), C("delete_if", a, a, 4), C("get", a, a, 0)}) @@
    (b :> {C("put", b, b, 4)})

\* Leases shorter than a second, permanent values, swaps and plain deletes.
Mixed ==
    (a :> {C("put", a, a, 1), C("cas", a, b, 2), C("renew", a, a, 2)}) @@
    (b :> {C("cas", b, a, 0), C("renew", b, b, 0), C("delete", b, b, 0)})

\* A claim each, on a table that the nodes create.
Claims == [n \in Nodes |-> {C("put", n, n, 4)}]

LockMixedCreate ==
    {[calls |-> Lock, kvCreate |-> FALSE], [calls |-> Mixed, kvCreate |-> FALSE],
     [calls |-> Claims, kvCreate |-> TRUE]}
=============================================================================
