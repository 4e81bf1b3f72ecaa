----------------------------- MODULE MCRegistrar -----------------------------
EXTENDS Registrar, TLC

CONSTANTS a, b, c, x, y, z, pd, other

\* c is started at the address of a once a is gone.
Addrs == (a :> x) @@ (b :> y) @@ (c :> x)
Ids   == (x :> "ip-x") @@ (y :> "ip-y") @@ (z :> "ip-z")

Reg(ns, addr) == [namespace |-> ns, service |-> pd, address |-> addr]
Look(ns, h)   == [namespace |-> ns, service |-> pd, health |-> h]

\* Every instance publishes one endpoint; b was told of no address and names its
\* own, and the default namespace.
Single ==
    [regs |-> (a :> {Reg(None, None)}) @@ (b :> {Reg(Default, y)}) @@ (c :> {Reg(None, None)}),
     queries |-> {Look(None, "ALL"), Look(None, "HEALTHY")},
     pool |-> [n \in Nodes |-> n # b]]

\* a has two addresses and registers twice; b is a service, without an address;
\* c publishes in another namespace.
Dual ==
    [regs |-> (a :> {Reg(None, None), Reg(None, z)}) @@ (b :> {Reg(None, None)})
              @@ (c :> {Reg(other, None)}),
     queries |-> {Look(None, ""), Look(other, "ALL")},
     pool |-> [n \in Nodes |-> n # b]]

SingleAndDual == {Single, Dual}
DualOnly      == {Dual}
=============================================================================
