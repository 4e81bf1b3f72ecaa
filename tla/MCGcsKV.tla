------------------------------- MODULE MCGcsKV -------------------------------
EXTENDS GcsKV, TLC

CONSTANTS a, b

C(op, val, old, ttl) == [op |-> op, val |-> val, old |-> old, ttl |-> ttl]
U(of_a, of_b, drop)  == [calls |-> (a :> of_a) @@ (b :> of_b), age |-> drop]

\* The key as a lock with a lease of 3, in a bucket that drops objects of that age:
\* a claims, keeps and releases it, b claims it.
Lock ==
    U({C("put", a, a, 3), C("renew", a, a, 3), C("delete_if", a, a, 3)},
      {C("put", b, b, 3)}, 3)

\* Leases that are swapped for a permanent value, and removed whatever they are.
Swaps ==
    U({C("put", a, a, 1), C("delete", a, a, 1)},
      {C("cas", b, a, 0), C("renew", b, b, 1)}, 0)

\* A permanent value, released by the value it shares with a lease.
Permanent ==
    U({C("put", a, a, 1), C("get", a, a, 0)},
      {C("put", b, a, 0), C("renew", b, b, 0), C("delete_if", b, a, 0)}, 0)

LockAndMore == {Lock, Swaps, Permanent}

\* For the claim about Get: one node that keeps its lease, and a reader.
RenewAndGet ==
    {U({C("put", a, a, 3), C("renew", a, a, 3)}, {C("get", b, b, 0)}, 0)}
=============================================================================
