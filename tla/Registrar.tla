------------------------------ MODULE Registrar ------------------------------
(***************************************************************************)
(* Registration and lookup in Service Directory (gcp/discovery.go): the    *)
(* endpoints of the directory, the instances that publish themselves in it *)
(* with register() and deregister(), and those that look peers up with     *)
(* instances(). Requests fail, lose their answer or arrive after their     *)
(* call was cancelled; instances die without deregistering, and a later    *)
(* one may be given the address of one that is gone.                       *)
(***************************************************************************)
EXTENDS Naturals, FiniteSets

CONSTANTS
    Nodes,          \* instances; a replacement is another one
    Addresses, Services, Namespaces,
    Default,        \* the namespace of -namespace
    None,           \* the empty string
    Addr,           \* Addr[n]: the address of instance n on the network
    EndpointID,     \* EndpointID[a]: the endpoint id of address a
    Uses,           \* what scripts do: the registrations and queries of each instance
    MaxEndpoints,   \* the most endpoints a lookup returns
    MaxFaults       \* bound on the requests that go wrong, over the whole run

\* Empty fields mean the provider's defaults.
Registration ==
    [namespace : Namespaces \cup {None}, service : Services, address : Addresses \cup {None}]
Health == {"", "ALL", "HEALTHY"}
Query  == [namespace : Namespaces \cup {None}, service : Services, health : Health]

\* endpointID() writes every other character as a dash and cuts the id at 63 bytes, so
\* ids need not tell two addresses apart.
ASSUME NodesAssumption ==
    /\ Default \in Namespaces
    /\ None \notin Namespaces \cup Services \cup Addresses \cup Nodes
    /\ Addr \in [Nodes -> Addresses]
    /\ DOMAIN EndpointID = Addresses
ASSUME UsesAssumption ==
    Uses \subseteq [regs : [Nodes -> SUBSET Registration], queries : SUBSET Query,
                    pool : [Nodes -> BOOLEAN]]
ASSUME BoundAssumption == MaxEndpoints \in Nat \ {0} /\ MaxFaults \in Nat

\* Mutant of Path: the id keeps nothing of the address, as when it is cut short.
PathCutShort(ns, svc, addr) == <<ns, svc, EndpointID[CHOOSE a \in Addresses : TRUE]>>

\* An endpoint's resource name.
Path(ns, svc, addr) == <<ns, svc, EndpointID[addr]>>
Paths == Namespaces \X Services \X {EndpointID[a] : a \in Addresses}

VARIABLES
    use,             \* what the scripts of this behaviour do
    dir,             \* dir[p]: the address endpoint p publishes and who wrote it
    up,              \* up[n]: instance n is yet to start, runs or is gone
    address,         \* address[n]: the Registrar's own address
    registered,      \* registered[n], registeredAddr[n]: what Deregister removes
    registeredAddr,
    cl,              \* cl[n]: the call of n that is under way
    late,            \* requests whose call is over and that may still arrive
    faults,          \* how many requests went wrong
    doubt            \* history: doubt[n] when a call of n failed half way, or a late
                     \* request undid it

vars == <<use, dir, up, address, registered, registeredAddr, cl, late, faults, doubt>>

Endpoint   == [address : Addresses, by : Nodes]
NoEndpoint == [address |-> None, by |-> None]
Published(p) == dir[p] # NoEndpoint

Steps  == {"idle", "clear", "create", "note", "remove", "forget"}
Idle   == [step |-> "idle", path |-> <<>>, service |-> None, address |-> None]
Client == [step : Steps, path : Paths \cup {<<>>}, service : Services \cup {None},
           address : Addresses \cup {None}]
Request == [op : {"create", "delete"}, node : Nodes, path : Paths, address : Addresses]

Init ==
    /\ use \in Uses
    /\ dir = [p \in Paths |-> NoEndpoint]
    /\ up = [n \in Nodes |-> "new"]
    /\ address = [n \in Nodes |-> None]
    /\ registered = [n \in Nodes |-> None]
    /\ registeredAddr = [n \in Nodes |-> None]
    /\ cl = [n \in Nodes |-> Idle]
    /\ late = {} /\ faults = 0
    /\ doubt = [n \in Nodes |-> FALSE]

Running(n) == up[n] = "up"
At(n, s)   == Running(n) /\ cl[n].step = s
Goto(n, s) == cl' = [cl EXCEPT ![n].step = s]
Return(n)  == cl' = [cl EXCEPT ![n] = Idle]
Fault      == faults < MaxFaults /\ faults' = faults + 1

-----------------------------------------------------------------------------
\* Instances.

\* Registrar() reads the address from the identity: it is empty on a service and
\* on a job, and on a worker pool when the metadata server does not answer. The
\* network gives an address out again only when its last holder is gone; requests
\* of that holder may still be on their way.
Start(n) ==
    /\ up[n] = "new"
    /\ \A m \in Nodes \ {n} : Addr[m] = Addr[n] => ~Running(m)
    /\ up' = [up EXCEPT ![n] = "up"]
    /\ \E a \in {None} \cup (IF use.pool[n] THEN {Addr[n]} ELSE {}) :
          address' = [address EXCEPT ![n] = a]
    /\ UNCHANGED <<use, dir, registered, registeredAddr, cl, late, faults, doubt>>

\* The process ends, after its script or in the middle of a call.
Stop(n) ==
    /\ Running(n)
    /\ up' = [up EXCEPT ![n] = "gone"]
    /\ UNCHANGED <<use, dir, address, registered, registeredAddr, cl, late, faults, doubt>>

-----------------------------------------------------------------------------
\* Service Directory (external): a create needs the name to be free.
Apply(r) ==
    dir' = CASE r.op = "delete"                      -> [dir EXCEPT ![r.path] = NoEndpoint]
             [] r.op = "create" /\ ~Published(r.path) ->
                   [dir EXCEPT ![r.path] = [address |-> r.address, by |-> r.node]]
             [] OTHER                                -> dir

RequestOf(n) ==
    [op |-> IF cl[n].step = "create" THEN "create" ELSE "delete", node |-> n,
     path |-> cl[n].path, address |-> cl[n].address]

Requesting(n) == Running(n) /\ cl[n].step \in {"clear", "create", "remove"}

\* The answer is lost and the client library sends the request again.
Retried(n) ==
    /\ Requesting(n) /\ Fault
    /\ Apply(RequestOf(n))
    /\ UNCHANGED <<use, up, address, registered, registeredAddr, cl, late, doubt>>

\* The request is cancelled with its call and may still arrive.
Cancelled(n) ==
    /\ Requesting(n) /\ Fault
    /\ late' = late \cup {RequestOf(n)}
    /\ doubt' = [doubt EXCEPT ![n] = TRUE]
    /\ Return(n)
    /\ UNCHANGED <<use, dir, up, address, registered, registeredAddr>>

\* A late delete takes whatever is under its name by now.
Undoes(r) == {r.node} \cup (IF r.op = "delete" THEN {dir[r.path].by} ELSE {})

ArrivesLate(r) ==
    /\ Apply(r)
    /\ late' = late \ {r}
    /\ doubt' = [n \in Nodes |-> doubt[n] \/ n \in Undoes(r)]
    /\ UNCHANGED <<use, up, address, registered, registeredAddr, cl, faults>>

-----------------------------------------------------------------------------
\* Register.

OrDefault(x, d) == IF x = None THEN d ELSE x

\* Refused when there is no address to publish.
Register(n, reg) ==
    LET addr == OrDefault(reg.address, address[n])
    IN  /\ At(n, "idle")
        /\ addr # None
        /\ cl' = [cl EXCEPT ![n] =
                     [step |-> "clear", service |-> reg.service, address |-> addr,
                      path |-> Path(OrDefault(reg.namespace, Default), reg.service, addr)]]
        /\ UNCHANGED <<use, dir, up, address, registered, registeredAddr, late, faults, doubt>>

\* Whatever was under this address is removed; an error is ignored, and the delete
\* that it was about may still arrive after the create.
Clear(n) ==
    /\ At(n, "clear")
    /\ \/ Apply(RequestOf(n)) /\ UNCHANGED <<late, faults, doubt>>
       \/ Fault /\ UNCHANGED <<dir, late, doubt>>
       \/ /\ Fault
          /\ late' = late \cup {RequestOf(n)}
          /\ doubt' = [doubt EXCEPT ![n] = TRUE]
          /\ UNCHANGED dir
    /\ Goto(n, "create")
    /\ UNCHANGED <<use, up, address, registered, registeredAddr>>

\* A request of n that is answered settles what there is, unless an earlier one
\* is still on its way.
Sure(n) == doubt' = [doubt EXCEPT ![n] = \E r \in late : r.node = n]

Created(n) ==
    /\ At(n, "create") /\ ~Published(cl[n].path)
    /\ Apply(RequestOf(n)) /\ Sure(n) /\ Goto(n, "note")
    /\ UNCHANGED <<use, up, address, registered, registeredAddr, late, faults>>

\* Mutant of CreateFails: the endpoint is noted all the same.
CreateFailsNoted(n) ==
    /\ At(n, "create") /\ Fault /\ Goto(n, "note")
    /\ UNCHANGED <<use, dir, up, address, registered, registeredAddr, late, doubt>>

\* ALREADY_EXISTS or another error: nothing is noted. An endpoint that the call
\* removed, or created without hearing of it, makes what is noted doubtful.
CreateFails(n) ==
    /\ At(n, "create")
    /\ \/ Published(cl[n].path) /\ UNCHANGED faults
       \/ Fault
    /\ doubt' = [doubt EXCEPT ![n] = TRUE]
    /\ Return(n)
    /\ UNCHANGED <<use, dir, up, address, registered, registeredAddr, late>>

\* Mutant of Note: only the service is noted.
NoteService(n) ==
    /\ At(n, "note")
    /\ registered' = [registered EXCEPT ![n] = cl[n].service]
    /\ Return(n)
    /\ UNCHANGED <<use, dir, up, address, registeredAddr, late, faults, doubt>>

Note(n) ==
    /\ At(n, "note")
    /\ registered' = [registered EXCEPT ![n] = cl[n].service]
    /\ registeredAddr' = [registeredAddr EXCEPT ![n] = cl[n].address]
    /\ Return(n)
    /\ UNCHANGED <<use, dir, up, address, late, faults, doubt>>

-----------------------------------------------------------------------------
\* Deregister.

\* Nothing to do when nothing is noted.
Deregister(n) ==
    /\ At(n, "idle")
    /\ registered[n] # None
    /\ cl' = [cl EXCEPT ![n] =
                 [step |-> "remove", service |-> None, address |-> registeredAddr[n],
                  path |-> Path(Default, registered[n], registeredAddr[n])]]
    /\ UNCHANGED <<use, dir, up, address, registered, registeredAddr, late, faults, doubt>>

\* NOT_FOUND will do as well.
Removed(n) ==
    /\ At(n, "remove")
    /\ Apply(RequestOf(n)) /\ Sure(n) /\ Goto(n, "forget")
    /\ UNCHANGED <<use, up, address, registered, registeredAddr, late, faults>>

\* Mutant of RemoveFails: any error counts as removed.
RemoveFailsForgets(n) ==
    /\ At(n, "remove") /\ Fault /\ Goto(n, "forget")
    /\ UNCHANGED <<use, dir, up, address, registered, registeredAddr, late, doubt>>

\* Another error: what was noted is kept, for a later call.
RemoveFails(n) ==
    /\ At(n, "remove") /\ Fault
    /\ doubt' = [doubt EXCEPT ![n] = TRUE]
    /\ Return(n)
    /\ UNCHANGED <<use, dir, up, address, registered, registeredAddr, late>>

Forget(n) ==
    /\ At(n, "forget")
    /\ registered' = [registered EXCEPT ![n] = None]
    /\ Return(n)
    /\ UNCHANGED <<use, dir, up, address, registeredAddr, late, faults, doubt>>

-----------------------------------------------------------------------------
\* Discover.

\* Endpoints have no health: a filter is refused. The answer holds at most
\* MaxEndpoints of them.
Under(q) == {p \in Paths : Published(p) /\ p[1] = OrDefault(q.namespace, Default) /\ p[2] = q.service}

Honours(q) == q.health \in {"", "ALL"}

\* What a lookup can return.
Discover(q) ==
    LET kept == IF Cardinality(Under(q)) < MaxEndpoints THEN Cardinality(Under(q)) ELSE MaxEndpoints
    IN  IF Honours(q)
        THEN {{dir[p].address : p \in ps} : ps \in {s \in SUBSET Under(q) : Cardinality(s) = kept}}
        ELSE {}

Next ==
    \/ \E n \in Nodes :
          \/ Start(n) \/ Stop(n)
          \/ \E reg \in use.regs[n] : Register(n, reg)
          \/ Clear(n) \/ Created(n) \/ CreateFails(n) \/ Note(n)
          \/ Deregister(n) \/ Removed(n) \/ RemoveFails(n) \/ Forget(n)
          \/ Retried(n) \/ Cancelled(n)
    \/ \E r \in late : ArrivesLate(r)

Spec == Init /\ [][Next]_vars

-----------------------------------------------------------------------------
\* Type invariant; what Deregister needs is noted together.
TypeOK ==
    /\ use \in Uses
    /\ dir \in [Paths -> Endpoint \cup {NoEndpoint}]
    /\ \A p \in Paths : Published(p) => p[3] = EndpointID[dir[p].address]
    /\ up \in [Nodes -> {"new", "up", "gone"}]
    /\ address \in [Nodes -> Addresses \cup {None}]
    /\ registered \in [Nodes -> Services \cup {None}]
    /\ registeredAddr \in [Nodes -> Addresses \cup {None}]
    /\ \A n \in Nodes : registered[n] # None => registeredAddr[n] # None
    /\ cl \in [Nodes -> Client]
    /\ late \subseteq Request
    /\ faults \in 0..MaxFaults
    /\ doubt \in [Nodes -> BOOLEAN]

\* The registrations of a script that publishes one endpoint, the way the shipped
\* ones do: in the default namespace, at the instance's own address.
OneEndpoint(n) ==
    \E svc \in Services : \A reg \in use.regs[n] :
       /\ reg.service = svc
       /\ reg.namespace \in {None, Default}
       /\ reg.address \in {None, Addr[n]}

Settled(n) == cl[n].step = "idle" /\ ~doubt[n]

\* "so a restarted instance does not reclaim its own entry and the old one lingers
\* until something removes it": an instance that published one endpoint, is in no
\* call, and had none fail half way since its last answer, leaves it behind only if
\* it did not deregister.
NothingLeft ==
    \A n \in Nodes : OneEndpoint(n) /\ Settled(n) /\ registered[n] = None =>
       \A p \in Paths : dir[p].by # n

\* A lookup that did not hit the cap returns every running instance that is
\* registered, whoever else had or has which address, unless a request of its own
\* went wrong since its last answer or a late one took its endpoint.
PeersFound ==
    \A q \in use.queries : \A seen \in Discover(q) :
       Cardinality(Under(q)) <= MaxEndpoints => \A n \in Nodes :
          (/\ OneEndpoint(n) /\ Running(n) /\ Settled(n)
           /\ registered[n] = q.service /\ OrDefault(q.namespace, Default) = Default)
          => registeredAddr[n] \in seen

\* "it is unique among live instances on the network": the endpoint of a running
\* instance goes, or changes, only by a delete of that instance, or by one that an
\* earlier holder of its address left on its way.
Requests == late \cup {RequestOf(n) : n \in {m \in Nodes : Requesting(m)}}
FromBefore(r, n) == r \in late /\ up[r.node] = "gone" /\ Addr[r.node] = Addr[n]
OnlyItsOwn ==
    [][\A p \in Paths : LET n == dir[p].by IN
         Published(p) /\ Running(n) /\ (\A m \in Nodes : OneEndpoint(m)) /\ dir'[p] # dir[p]
         => \E r \in Requests :
               r.path = p /\ r.op = "delete" /\ (r.node = n \/ FromBefore(r, n))]_vars

-----------------------------------------------------------------------------
\* What the repository says of registration and the code does not do.

\* discovery.go: "registered is what we published, kept for Deregister", and "a
\* dual-stack instance registers twice": once all calls of an instance came to an
\* end and nothing is noted, nothing it published is left.
DeregisteredIsGone ==
    \A n \in Nodes : Settled(n) /\ registered[n] = None => \A p \in Paths : dir[p].by # n
=============================================================================
