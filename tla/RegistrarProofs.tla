--------------------------- MODULE RegistrarProofs ---------------------------
(***************************************************************************)
(* Proofs about registration in Service Directory, for every set of        *)
(* instances, addresses and services, every way scripts register, and any  *)
(* number of requests that fail, are repeated or arrive late: what an      *)
(* instance leaves behind, that lookups find it, and that nobody but       *)
(* itself takes its endpoint away while it runs.                           *)
(***************************************************************************)
EXTENDS Registrar, FiniteSetTheorems, TLAPS

\* An address that m may publish.
Owned(m, addr) == \E reg \in use.regs[m] : addr = OrDefault(reg.address, Addr[m])

\* What a call and what is noted of it stand on.
NodeInv(n) ==
    /\ address[n] \in {None, Addr[n]}
    /\ up[n] = "new" => cl[n].step = "idle" /\ registered[n] = None
    /\ cl[n].step # "idle" =>
          /\ cl[n].path \in Paths /\ cl[n].address \in Addresses
          /\ cl[n].path[3] = EndpointID[cl[n].address] /\ Owned(n, cl[n].address)
    /\ cl[n].step \in {"clear", "create", "note"} => cl[n].service \in Services
    /\ cl[n].step \in {"remove", "forget"} => registered[n] # None
    /\ registered[n] # None => Owned(n, registeredAddr[n])

\* A late request is of an instance that has started, and that has doubts for it.
LateInv ==
    \A r \in late :
       /\ r.path[3] = EndpointID[r.address] /\ Owned(r.node, r.address)
       /\ up[r.node] # "new" /\ doubt[r.node]

\* An address has one running holder.
Alone == \A m, n \in Nodes : m # n /\ Addr[m] = Addr[n] /\ Running(n) => ~Running(m)

FiniteInv == IsFiniteSet({p \in Paths : Published(p)})

RegistrarInv == (\A n \in Nodes : NodeInv(n)) /\ LateInv /\ Alone /\ FiniteInv

Inv == TypeOK /\ RegistrarInv

\* An instance that publishes one endpoint, as svc, and where.
OneAt(n, svc) ==
    \A reg \in use.regs[n] :
       /\ reg.service = svc
       /\ reg.namespace \in {None, Default}
       /\ reg.address \in {None, Addr[n]}
Home(n, svc) == Path(Default, svc, Addr[n])

\* Everything it does is there. Nothing is left there when it has nothing noted.
HomeOf(n, svc) ==
    /\ cl[n].step # "idle" => cl[n].path = Home(n, svc) /\ cl[n].address = Addr[n]
    /\ cl[n].step \in {"clear", "create", "note"} => cl[n].service = svc
    /\ registered[n] # None => registered[n] = svc /\ registeredAddr[n] = Addr[n]
    /\ \A r \in late : r.node = n => r.path = Home(n, svc)
    /\ \A p \in Paths : dir[p].by = n => p = Home(n, svc)
NoneLeft(n) ==
    /\ ~doubt[n]
    /\ cl[n].step = "forget" \/ (cl[n].step \in {"idle", "clear"} /\ registered[n] = None)
    => \A p \in Paths : dir[p].by # n
HomeInv ==
    \A n \in Nodes : \A svc \in Services : OneAt(n, svc) => HomeOf(n, svc) /\ NoneLeft(n)

\* The id of an instance's address is that of nobody else's endpoint.
OwnIds ==
    \A m, n \in Nodes : \A reg \in use.regs[m] :
       EndpointID[OrDefault(reg.address, Addr[m])] = EndpointID[Addr[n]] => Addr[m] = Addr[n]

\* What a running instance has noted, or is about to, is in the directory.
There(n, svc) ==
    /\ Running(n) /\ ~doubt[n]
    /\ cl[n].step = "note" \/ (cl[n].step = "idle" /\ registered[n] # None)
    => dir[Home(n, svc)] = [address |-> Addr[n], by |-> n]
ThereInv ==
    OwnIds => \A n \in Nodes : \A svc \in Services : OneAt(n, svc) => There(n, svc)

-----------------------------------------------------------------------------
\* Types and what the directory does with a request.

LEMMA NoneApart == None \notin Nodes /\ None \notin Addresses /\ None \notin Services
  BY NodesAssumption

LEMMA UseType ==
    ASSUME use \in Uses, NEW n \in Nodes
    PROVE  use.regs[n] \subseteq Registration
  BY UsesAssumption

LEMMA PathType ==
    ASSUME NEW ns \in Namespaces, NEW svc \in Services, NEW addr \in Addresses
    PROVE  /\ Path(ns, svc, addr) \in Paths
           /\ Path(ns, svc, addr)[1] = ns /\ Path(ns, svc, addr)[2] = svc
           /\ Path(ns, svc, addr)[3] = EndpointID[addr]
  BY DEF Path, Paths

LEMMA IdleIsClient == Idle \in Client /\ Idle.step = "idle"
  BY DEF Idle, Client, Steps

DirOK(d) ==
    /\ d \in [Paths -> Endpoint \cup {NoEndpoint}]
    /\ \A p \in Paths : d[p] # NoEndpoint => p[3] = EndpointID[d[p].address]
    /\ IsFiniteSet({p \in Paths : d[p] # NoEndpoint})

LEMMA DirHolds == ASSUME Inv PROVE DirOK(dir)
  BY DEF Inv, TypeOK, RegistrarInv, FiniteInv, DirOK, Published

LEMMA ApplyEffect ==
    ASSUME Inv, NEW r \in Request, r.path[3] = EndpointID[r.address], Apply(r)
    PROVE  /\ DirOK(dir')
           /\ \A p \in Paths \ {r.path} : dir'[p] = dir[p]
           /\ r.op = "delete" => dir'[r.path] = NoEndpoint
           /\ r.op = "create" /\ Published(r.path) => dir'[r.path] = dir[r.path]
           /\ r.op = "create" /\ ~Published(r.path) =>
                 dir'[r.path] = [address |-> r.address, by |-> r.node]
           /\ \A p \in Paths : dir'[p].by \in {dir[p].by, None, r.node}
<1>1. /\ r.op \in {"create", "delete"} /\ r.path \in Paths /\ r.address \in Addresses
      /\ r.node \in Nodes /\ DirOK(dir) /\ dir \in [Paths -> Endpoint \cup {NoEndpoint}]
    BY DirHolds DEF Request, DirOK
<1>2. NoEndpoint.by = None /\ NoEndpoint.address = None
    BY DEF NoEndpoint
<1> DEFINE e == [address |-> r.address, by |-> r.node]
           S == {p \in Paths : dir[p] # NoEndpoint}
<1>3. e \in Endpoint /\ e.by = r.node /\ e.address = r.address
    BY <1>1 DEF Endpoint
<1>4. CASE r.op = "delete"
  <2>1. dir' = [dir EXCEPT ![r.path] = NoEndpoint]
      BY <1>4 DEF Apply
  <2>2. /\ dir' \in [Paths -> Endpoint \cup {NoEndpoint}] /\ dir'[r.path] = NoEndpoint
        /\ \A p \in Paths \ {r.path} : dir'[p] = dir[p]
      BY <1>1, <2>1
  <2>3. {p \in Paths : dir'[p] # NoEndpoint} = S \ {r.path}
      BY <1>1, <2>2
  <2>4. IsFiniteSet(S \ {r.path})
      BY <1>1, FS_RemoveElement DEF DirOK
  <2> QED BY <1>1, <1>2, <1>4, <2>2, <2>3, <2>4 DEF DirOK
<1>5. CASE r.op = "create" /\ ~Published(r.path)
  <2>1. dir' = [dir EXCEPT ![r.path] = e]
      BY <1>5 DEF Apply
  <2>2. /\ dir' \in [Paths -> Endpoint \cup {NoEndpoint}] /\ dir'[r.path] = e
        /\ \A p \in Paths \ {r.path} : dir'[p] = dir[p]
      BY <1>1, <1>3, <2>1
  <2>3. e # NoEndpoint
      BY <1>1, <1>2, <1>3, NoneApart
  <2>4. {p \in Paths : dir'[p] # NoEndpoint} = S \cup {r.path}
      BY <1>1, <2>2, <2>3
  <2>5. IsFiniteSet(S \cup {r.path})
      BY <1>1, FS_AddElement DEF DirOK
  <2>6. \A p \in Paths : dir'[p] # NoEndpoint => p[3] = EndpointID[dir'[p].address]
      BY <1>1, <1>3, <2>2 DEF DirOK
  <2>7. \A p \in Paths : dir'[p].by \in {dir[p].by, None, r.node}
      BY <1>3, <2>2
  <2> HIDE DEF e
  <2> QED BY <1>5, <2>2, <2>4, <2>5, <2>6, <2>7 DEF DirOK, e
<1>6. CASE r.op = "create" /\ Published(r.path)
  <2>1. dir' = dir
      BY <1>6 DEF Apply
  <2> QED BY <1>1, <1>6, <2>1
<1> QED BY <1>1, <1>4, <1>5, <1>6

\* The request of a call under way.
LEMMA RequestType ==
    ASSUME Inv, NEW n \in Nodes, cl[n].step # "idle"
    PROVE  /\ RequestOf(n) \in Request /\ RequestOf(n).node = n
           /\ RequestOf(n).path = cl[n].path /\ RequestOf(n).address = cl[n].address
           /\ RequestOf(n).path[3] = EndpointID[RequestOf(n).address]
           /\ RequestOf(n).op = IF cl[n].step = "create" THEN "create" ELSE "delete"
           /\ Owned(n, RequestOf(n).address) /\ cl[n].path \in Paths
<1>1. /\ cl[n].path \in Paths /\ cl[n].address \in Addresses
      /\ cl[n].path[3] = EndpointID[cl[n].address] /\ Owned(n, cl[n].address)
    BY DEF Inv, RegistrarInv, NodeInv
<1> QED BY <1>1 DEF RequestOf, Request

-----------------------------------------------------------------------------
\* What a step leaves of the invariant.

LEMMA NodeKept ==
    ASSUME NEW m \in Nodes, NodeInv(m), cl'[m] = cl[m], use' = use, address'[m] = address[m],
           registered'[m] = registered[m], registeredAddr'[m] = registeredAddr[m],
           up'[m] = up[m] \/ up'[m] # "new"
    PROVE  NodeInv(m)'
  BY DEF NodeInv, Owned

LEMMA LateKept ==
    ASSUME LateInv, late' \subseteq late, use' = use, \A m \in Nodes : up[m] # "new" => up'[m] # "new",
           \A r \in late' : r.node \in Nodes /\ doubt'[r.node]
    PROVE  LateInv'
  BY DEF LateInv, Owned

LEMMA AloneKept ==
    ASSUME Alone, \A m \in Nodes : Running(m)' => Running(m)
    PROVE  Alone'
  BY DEF Alone, Running

\* A step of the call of one instance.
LEMMA CallStep ==
    ASSUME Inv, NEW n \in Nodes, NEW k \in Client, cl' = [cl EXCEPT ![n] = k], NodeInv(n)',
           UNCHANGED <<use, up, address, late>>, DirOK(dir'), faults' \in 0..MaxFaults,
           registered' \in [Nodes -> Services \cup {None}],
           registeredAddr' \in [Nodes -> Addresses \cup {None}],
           \A m \in Nodes \ {n} :
              registered'[m] = registered[m] /\ registeredAddr'[m] = registeredAddr[m],
           registered'[n] # None => registeredAddr'[n] # None,
           doubt' \in [Nodes -> BOOLEAN], \A r \in late : doubt'[r.node]
    PROVE  Inv'
<1>1. cl' \in [Nodes -> Client] /\ \A m \in Nodes \ {n} : cl'[m] = cl[m]
    BY DEF Inv, TypeOK
<1>2. TypeOK'
    BY <1>1 DEF Inv, TypeOK, DirOK, Published
<1>3. \A m \in Nodes : NodeInv(m)'
    BY <1>1, NodeKept DEF Inv, RegistrarInv
<1>4. LateInv'
    BY LateKept DEF Inv, RegistrarInv, TypeOK, Request
<1>5. Alone'
    BY AloneKept DEF Inv, RegistrarInv, Running
<1>6. FiniteInv'
    BY DEF DirOK, FiniteInv, Published
<1> QED BY <1>2, <1>3, <1>4, <1>5, <1>6 DEF Inv, RegistrarInv

\* A doubt that a call leaves as it is, or has, or settles.
LEMMA DoubtKept ==
    ASSUME Inv, NEW n \in Nodes,
           \/ doubt' = doubt \/ doubt' = [doubt EXCEPT ![n] = TRUE] \/ Sure(n)
    PROVE  doubt' \in [Nodes -> BOOLEAN] /\ \A r \in late : doubt'[r.node]
<1>1. doubt \in [Nodes -> BOOLEAN] /\ \A r \in late : r.node \in Nodes /\ doubt[r.node]
    BY DEF Inv, TypeOK, RegistrarInv, LateInv, Request
<1>2. CASE doubt' = doubt
    BY <1>1, <1>2
<1>3. CASE doubt' = [doubt EXCEPT ![n] = TRUE]
    BY <1>1, <1>3
<1>4. CASE Sure(n)
    BY <1>1, <1>4 DEF Sure
<1> QED BY <1>2, <1>3, <1>4

\* A call that is over, with what was noted as it was.
LEMMA Returns ==
    ASSUME Inv, NEW n \in Nodes, Running(n), Return(n),
           UNCHANGED <<use, dir, up, address, registered, registeredAddr, late>>,
           faults' \in 0..MaxFaults, doubt' = [doubt EXCEPT ![n] = TRUE]
    PROVE  Inv'
<1>1. cl' = [cl EXCEPT ![n] = Idle] /\ Idle \in Client /\ cl'[n] = Idle /\ Idle.step = "idle"
    BY IdleIsClient DEF Return, Inv, TypeOK
<1>2. NodeInv(n)'
    BY <1>1 DEF NodeInv, Inv, RegistrarInv, Running, Owned
<1>3. doubt' \in [Nodes -> BOOLEAN] /\ \A r \in late : doubt'[r.node]
    BY DoubtKept
<1>4. DirOK(dir')
    BY DirHolds
<1>5. /\ registered' \in [Nodes -> Services \cup {None}]
      /\ registeredAddr' \in [Nodes -> Addresses \cup {None}]
      /\ registered'[n] # None => registeredAddr'[n] # None
    BY DEF Inv, TypeOK
<1> QED BY <1>1, <1>2, <1>3, <1>4, <1>5, CallStep

\* A call that goes on to its step s.
LEMMA GoesOn ==
    ASSUME Inv, NEW n \in Nodes, NEW s \in {"create", "note", "forget"}, Running(n), Goto(n, s),
           IF s = "forget" THEN cl[n].step = "remove" ELSE cl[n].step \in {"clear", "create"},
           UNCHANGED <<use, up, address, registered, registeredAddr, late>>, DirOK(dir'),
           faults' \in 0..MaxFaults, doubt' = doubt \/ Sure(n)
    PROVE  Inv'
<1> DEFINE k == [cl[n] EXCEPT !.step = s]
<1>1. cl \in [Nodes -> Client] /\ cl[n] \in Client
    BY DEF Inv, TypeOK
<1>2. /\ k \in Client /\ k.step = s /\ k.path = cl[n].path /\ k.address = cl[n].address
      /\ k.service = cl[n].service
    BY <1>1 DEF Client, Steps
<1>3. cl' = [cl EXCEPT ![n] = k]
    BY <1>1 DEF Goto
<1> HIDE DEF k
<1>4. cl'[n] = k
    BY <1>1, <1>3
<1>5. NodeInv(n)'
    BY <1>2, <1>4 DEF NodeInv, Inv, RegistrarInv, Running, Owned
<1>6. doubt' \in [Nodes -> BOOLEAN] /\ \A r \in late : doubt'[r.node]
    BY DoubtKept
<1>7. /\ registered' \in [Nodes -> Services \cup {None}]
      /\ registeredAddr' \in [Nodes -> Addresses \cup {None}]
      /\ registered'[n] # None => registeredAddr'[n] # None
    BY DEF Inv, TypeOK
<1> QED BY <1>2, <1>3, <1>5, <1>6, <1>7, CallStep

-----------------------------------------------------------------------------
\* Every action keeps the types and the invariant.

LEMMA InitHolds == Init => Inv
<1> SUFFICES ASSUME Init PROVE Inv
    OBVIOUS
<1>1. \A n \in Nodes : cl[n] = Idle /\ Idle \in Client /\ Idle.step = "idle"
    BY IdleIsClient DEF Init
<1>2. \A p \in Paths : dir[p] = NoEndpoint
    BY DEF Init
<1>3. TypeOK
    BY <1>1, <1>2, BoundAssumption, NodesAssumption DEF Init, TypeOK, Published
<1>4. {p \in Paths : Published(p)} = {}
    BY <1>2 DEF Published
<1>5. FiniteInv
    BY <1>4, FS_EmptySet DEF FiniteInv
<1>6. \A n \in Nodes : NodeInv(n)
    BY <1>1 DEF Init, NodeInv
<1>7. LateInv /\ Alone
    BY DEF Init, LateInv, Alone, Running
<1> QED BY <1>3, <1>5, <1>6, <1>7 DEF Inv, RegistrarInv

LEMMA FaultType == ASSUME Inv, Fault \/ UNCHANGED faults PROVE faults' \in 0..MaxFaults
  BY BoundAssumption DEF Inv, TypeOK, Fault

LEMMA StartKeeps ==
    ASSUME Inv, NEW n \in Nodes, Start(n)
    PROVE  Inv'
<1>1. /\ up[n] = "new" /\ up' = [up EXCEPT ![n] = "up"]
      /\ UNCHANGED <<use, dir, registered, registeredAddr, cl, late, faults, doubt>>
      /\ up \in [Nodes -> {"new", "up", "gone"}] /\ address \in [Nodes -> Addresses \cup {None}]
    BY DEF Start, Inv, TypeOK
<1>2. PICK addr \in {None, Addr[n]} : address' = [address EXCEPT ![n] = addr]
    BY DEF Start
<1>3. addr \in Addresses \cup {None}
    BY <1>2, NodesAssumption
<1>4. /\ address' \in [Nodes -> Addresses \cup {None}] /\ address'[n] = addr
      /\ \A m \in Nodes \ {n} : address'[m] = address[m]
    BY <1>1, <1>2, <1>3
<1>5. /\ up' \in [Nodes -> {"new", "up", "gone"}] /\ up'[n] = "up"
      /\ \A m \in Nodes \ {n} : up'[m] = up[m]
    BY <1>1
<1>6. TypeOK'
    BY <1>1, <1>4, <1>5 DEF Inv, TypeOK, Published
<1>7. ASSUME NEW m \in Nodes PROVE NodeInv(m)'
  <2>1. CASE m = n
      BY <1>1, <1>2, <1>4, <1>5, <2>1 DEF NodeInv, Inv, RegistrarInv, Owned
  <2>2. CASE m # n
      BY <1>1, <1>4, <1>5, <2>2, NodeKept DEF Inv, RegistrarInv
  <2> QED BY <2>1, <2>2
<1>8. \A r \in late : r.node \in Nodes /\ doubt[r.node] /\ up[r.node] # "new"
    BY DEF Inv, TypeOK, RegistrarInv, LateInv, Request
<1>9. LateInv'
    BY <1>1, <1>5, <1>8, LateKept DEF Inv, RegistrarInv
<1>10. ASSUME NEW i \in Nodes, NEW j \in Nodes, i # j, Addr[i] = Addr[j], Running(j)'
       PROVE  ~Running(i)'
  <2>1. CASE j = n
      BY <1>5, <1>10, <2>1 DEF Start, Running
  <2>2. CASE j # n
    <3>1. Running(j)
        BY <1>5, <1>10, <2>2 DEF Running
    <3>2. i # n
        BY <1>10, <3>1 DEF Start
    <3> QED BY <1>5, <1>10, <3>1, <3>2 DEF Inv, RegistrarInv, Alone, Running
  <2> QED BY <2>1, <2>2
<1>11. Alone'
    BY <1>1, <1>10 DEF Alone
<1>12. FiniteInv'
    BY <1>1 DEF FiniteInv, Published, Inv, RegistrarInv
<1> QED BY <1>6, <1>7, <1>9, <1>11, <1>12 DEF Inv, RegistrarInv

LEMMA StopKeeps ==
    ASSUME Inv, NEW n \in Nodes, Stop(n)
    PROVE  Inv'
<1>1. /\ Running(n) /\ up' = [up EXCEPT ![n] = "gone"]
      /\ UNCHANGED <<use, dir, address, registered, registeredAddr, cl, late, faults, doubt>>
      /\ up \in [Nodes -> {"new", "up", "gone"}]
    BY DEF Stop, Inv, TypeOK
<1>2. /\ up' \in [Nodes -> {"new", "up", "gone"}] /\ up'[n] = "gone"
      /\ \A m \in Nodes \ {n} : up'[m] = up[m]
    BY <1>1
<1>3. TypeOK'
    BY <1>1, <1>2 DEF Inv, TypeOK, Published
<1>4. \A m \in Nodes : NodeInv(m)'
    BY <1>1, <1>2, NodeKept DEF Inv, RegistrarInv
<1>5. \A r \in late : r.node \in Nodes /\ doubt[r.node]
    BY DEF Inv, TypeOK, RegistrarInv, LateInv, Request
<1>6. LateInv'
    BY <1>1, <1>2, <1>5, LateKept DEF Inv, RegistrarInv
<1>7. Alone'
    BY <1>1, <1>2, AloneKept DEF Inv, RegistrarInv, Running
<1>8. FiniteInv'
    BY <1>1 DEF FiniteInv, Published, Inv, RegistrarInv
<1> QED BY <1>3, <1>4, <1>6, <1>7, <1>8 DEF Inv, RegistrarInv

LEMMA RegisterKeeps ==
    ASSUME Inv, NEW n \in Nodes, NEW reg \in use.regs[n], Register(n, reg)
    PROVE  Inv'
<1> DEFINE addr == OrDefault(reg.address, address[n])
           ns   == OrDefault(reg.namespace, Default)
           k    == [step |-> "clear", service |-> reg.service, address |-> addr,
                    path |-> Path(ns, reg.service, addr)]
<1>1. /\ Running(n) /\ addr # None /\ cl' = [cl EXCEPT ![n] = k]
      /\ UNCHANGED <<use, dir, up, address, registered, registeredAddr, late, faults, doubt>>
      /\ cl \in [Nodes -> Client]
    BY DEF Register, At, Inv, TypeOK
<1>2. reg \in Registration /\ reg.service \in Services
    BY UseType DEF Inv, TypeOK, Registration
<1>3. ns \in Namespaces
    BY <1>2, NodesAssumption DEF OrDefault, Registration
<1>4. address[n] \in {None, Addr[n]} /\ Addr[n] \in Addresses
    BY NodesAssumption DEF Inv, RegistrarInv, NodeInv
<1>5. addr \in Addresses /\ addr = OrDefault(reg.address, Addr[n])
    BY <1>1, <1>2, <1>4 DEF OrDefault, Registration
<1>6. Path(ns, reg.service, addr) \in Paths /\ Path(ns, reg.service, addr)[3] = EndpointID[addr]
    BY <1>2, <1>3, <1>5, PathType
<1> HIDE DEF addr, ns
<1>7. k \in Client
    BY <1>2, <1>5, <1>6 DEF Client, Steps
<1>8. /\ cl'[n].step = "clear" /\ cl'[n].path = Path(ns, reg.service, addr)
      /\ cl'[n].address = addr /\ cl'[n].service = reg.service
    BY <1>1
<1>9. NodeInv(n)'
    BY <1>1, <1>2, <1>5, <1>6, <1>8 DEF NodeInv, Inv, RegistrarInv, Owned, Running
<1>10. doubt' \in [Nodes -> BOOLEAN] /\ \A r \in late : doubt'[r.node]
    BY <1>1, DoubtKept
<1>11. DirOK(dir') /\ faults' \in 0..MaxFaults
    BY <1>1, DirHolds, FaultType
<1>12. /\ registered' \in [Nodes -> Services \cup {None}]
       /\ registeredAddr' \in [Nodes -> Addresses \cup {None}]
       /\ registered'[n] # None => registeredAddr'[n] # None
    BY <1>1 DEF Inv, TypeOK
<1> HIDE DEF k
<1> QED BY <1>1, <1>7, <1>9, <1>10, <1>11, <1>12, CallStep

LEMMA NoteKeeps ==
    ASSUME Inv, NEW n \in Nodes, Note(n)
    PROVE  Inv'
<1>1. /\ Running(n) /\ cl[n].step = "note" /\ cl' = [cl EXCEPT ![n] = Idle]
      /\ registered' = [registered EXCEPT ![n] = cl[n].service]
      /\ registeredAddr' = [registeredAddr EXCEPT ![n] = cl[n].address]
      /\ UNCHANGED <<use, dir, up, address, late, faults, doubt>>
      /\ registered \in [Nodes -> Services \cup {None}]
      /\ registeredAddr \in [Nodes -> Addresses \cup {None}] /\ cl \in [Nodes -> Client]
    BY DEF Note, At, Return, Inv, TypeOK
<1>2. cl[n].service \in Services /\ cl[n].address \in Addresses /\ Owned(n, cl[n].address)
    BY <1>1 DEF Inv, RegistrarInv, NodeInv
<1>3. /\ registered' \in [Nodes -> Services \cup {None}] /\ registered'[n] = cl[n].service
      /\ registeredAddr' \in [Nodes -> Addresses \cup {None}]
      /\ registeredAddr'[n] = cl[n].address /\ registeredAddr'[n] # None
      /\ \A m \in Nodes \ {n} :
            registered'[m] = registered[m] /\ registeredAddr'[m] = registeredAddr[m]
    BY <1>1, <1>2, NoneApart
<1>4. cl'[n] = Idle /\ Idle.step = "idle" /\ Idle \in Client
    BY <1>1, IdleIsClient
<1>5. NodeInv(n)'
    BY <1>1, <1>2, <1>3, <1>4 DEF NodeInv, Inv, RegistrarInv, Owned, Running
<1>6. doubt' \in [Nodes -> BOOLEAN] /\ \A r \in late : doubt'[r.node]
    BY <1>1, DoubtKept
<1>7. DirOK(dir') /\ faults' \in 0..MaxFaults
    BY <1>1, DirHolds, FaultType
<1> QED BY <1>1, <1>3, <1>4, <1>5, <1>6, <1>7, CallStep

LEMMA DeregisterKeeps ==
    ASSUME Inv, NEW n \in Nodes, Deregister(n)
    PROVE  Inv'
<1> DEFINE p == Path(Default, registered[n], registeredAddr[n])
           k == [step |-> "remove", service |-> None, address |-> registeredAddr[n], path |-> p]
<1>1. /\ Running(n) /\ registered[n] # None /\ cl' = [cl EXCEPT ![n] = k]
      /\ UNCHANGED <<use, dir, up, address, registered, registeredAddr, late, faults, doubt>>
      /\ cl \in [Nodes -> Client]
    BY DEF Deregister, At, Inv, TypeOK
<1>2. registered[n] \in Services /\ registeredAddr[n] \in Addresses
    BY <1>1 DEF Inv, TypeOK
<1>3. p \in Paths /\ p[3] = EndpointID[registeredAddr[n]]
    BY <1>2, PathType, NodesAssumption
<1> HIDE DEF p
<1>4. k \in Client
    BY <1>2, <1>3 DEF Client, Steps
<1>5. cl'[n].step = "remove" /\ cl'[n].path = p /\ cl'[n].address = registeredAddr[n]
    BY <1>1
<1>6. NodeInv(n)'
    BY <1>1, <1>2, <1>3, <1>5 DEF NodeInv, Inv, RegistrarInv, Owned, Running
<1>7. doubt' \in [Nodes -> BOOLEAN] /\ \A r \in late : doubt'[r.node]
    BY <1>1, DoubtKept
<1>8. DirOK(dir') /\ faults' \in 0..MaxFaults
    BY <1>1, DirHolds, FaultType
<1>9. /\ registered' \in [Nodes -> Services \cup {None}]
      /\ registeredAddr' \in [Nodes -> Addresses \cup {None}]
      /\ registered'[n] # None => registeredAddr'[n] # None
    BY <1>1 DEF Inv, TypeOK
<1> HIDE DEF k
<1> QED BY <1>1, <1>4, <1>6, <1>7, <1>8, <1>9, CallStep

LEMMA ForgetKeeps ==
    ASSUME Inv, NEW n \in Nodes, Forget(n)
    PROVE  Inv'
<1>1. /\ Running(n) /\ cl' = [cl EXCEPT ![n] = Idle]
      /\ registered' = [registered EXCEPT ![n] = None]
      /\ UNCHANGED <<use, dir, up, address, registeredAddr, late, faults, doubt>>
      /\ registered \in [Nodes -> Services \cup {None}]
      /\ registeredAddr \in [Nodes -> Addresses \cup {None}] /\ cl \in [Nodes -> Client]
    BY DEF Forget, At, Return, Inv, TypeOK
<1>2. /\ registered' \in [Nodes -> Services \cup {None}] /\ registered'[n] = None
      /\ \A m \in Nodes \ {n} : registered'[m] = registered[m]
    BY <1>1
<1>3. cl'[n] = Idle /\ Idle.step = "idle" /\ Idle \in Client
    BY <1>1, IdleIsClient
<1>4. NodeInv(n)'
    BY <1>1, <1>2, <1>3 DEF NodeInv, Inv, RegistrarInv, Running
<1>5. doubt' \in [Nodes -> BOOLEAN] /\ \A r \in late : doubt'[r.node]
    BY <1>1, DoubtKept
<1>6. DirOK(dir') /\ faults' \in 0..MaxFaults
    BY <1>1, DirHolds, FaultType
<1> QED BY <1>1, <1>2, <1>3, <1>4, <1>5, <1>6, CallStep

\* Nothing but the directory and the late requests.
LEMMA DirStep ==
    ASSUME Inv, UNCHANGED <<use, up, address, registered, registeredAddr, cl>>, DirOK(dir'),
           late' \subseteq late, faults' \in 0..MaxFaults, doubt' \in [Nodes -> BOOLEAN],
           \A r \in late : doubt'[r.node]
    PROVE  Inv'
<1>1. TypeOK'
    BY DEF Inv, TypeOK, DirOK, Published
<1>2. \A m \in Nodes : NodeInv(m)'
    BY NodeKept DEF Inv, RegistrarInv
<1>3. LateInv'
    BY LateKept DEF Inv, RegistrarInv, TypeOK, Request
<1>4. Alone'
    BY AloneKept DEF Inv, RegistrarInv, Running
<1>5. FiniteInv'
    BY DEF DirOK, FiniteInv, Published
<1> QED BY <1>1, <1>2, <1>3, <1>4, <1>5 DEF Inv, RegistrarInv

\* A request that is left on its way, whatever its call does next.
LEMMA LeavesLate ==
    ASSUME Inv, NEW n \in Nodes, Running(n), cl[n].step # "idle", Fault,
           late' = late \cup {RequestOf(n)}, doubt' = [doubt EXCEPT ![n] = TRUE],
           NEW k \in Client, cl' = [cl EXCEPT ![n] = k], NodeInv(n)',
           UNCHANGED <<use, dir, up, address, registered, registeredAddr>>
    PROVE  Inv'
<1>1. cl \in [Nodes -> Client] /\ doubt \in [Nodes -> BOOLEAN]
    BY DEF Inv, TypeOK
<1> DEFINE q == RequestOf(n)
<1>2. q \in Request /\ q.node = n /\ q.path[3] = EndpointID[q.address] /\ Owned(n, q.address)
    BY RequestType
<1>3. late' = late \cup {q}
    OBVIOUS
<1> HIDE DEF q
<1>4. cl' \in [Nodes -> Client] /\ \A m \in Nodes \ {n} : cl'[m] = cl[m]
    BY <1>1
<1>5. doubt' \in [Nodes -> BOOLEAN] /\ doubt'[n] /\ \A r \in late : doubt'[r.node]
    BY <1>1, DoubtKept
<1>6. faults' \in 0..MaxFaults
    BY FaultType
<1>7. TypeOK'
    BY <1>2, <1>4, <1>3, <1>5, <1>6 DEF Inv, TypeOK, Published
<1>8. \A m \in Nodes : NodeInv(m)'
    BY <1>4, NodeKept DEF Inv, RegistrarInv
<1>9. LateInv'
    BY <1>2, <1>3, <1>5 DEF LateInv, Inv, RegistrarInv, Owned, Running
<1>10. Alone'
    BY AloneKept DEF Inv, RegistrarInv, Running
<1>11. FiniteInv'
    BY DEF FiniteInv, Published, Inv, RegistrarInv
<1> QED BY <1>7, <1>8, <1>9, <1>10, <1>11 DEF Inv, RegistrarInv

LEMMA CancelledKeeps ==
    ASSUME Inv, NEW n \in Nodes, Cancelled(n)
    PROVE  Inv'
<1>1. /\ Running(n) /\ cl[n].step # "idle" /\ Fault /\ late' = late \cup {RequestOf(n)}
      /\ doubt' = [doubt EXCEPT ![n] = TRUE] /\ cl' = [cl EXCEPT ![n] = Idle]
      /\ UNCHANGED <<use, dir, up, address, registered, registeredAddr>>
      /\ cl \in [Nodes -> Client]
    BY DEF Cancelled, Requesting, Return, Inv, TypeOK
<1>2. cl'[n] = Idle /\ Idle.step = "idle" /\ Idle \in Client
    BY <1>1, IdleIsClient
<1>3. NodeInv(n)'
    BY <1>1, <1>2 DEF NodeInv, Inv, RegistrarInv, Running, Owned
<1> QED BY <1>1, <1>2, <1>3, LeavesLate

LEMMA ClearKeeps ==
    ASSUME Inv, NEW n \in Nodes, Clear(n)
    PROVE  Inv'
<1>1. /\ Running(n) /\ cl[n].step = "clear" /\ Goto(n, "create")
      /\ UNCHANGED <<use, up, address, registered, registeredAddr>>
    BY DEF Clear, At
<1>2. CASE /\ UNCHANGED <<late, doubt>>
           /\ \/ Apply(RequestOf(n)) /\ UNCHANGED faults
              \/ Fault /\ UNCHANGED dir
  <2>1. DirOK(dir')
      BY <1>1, <1>2, RequestType, ApplyEffect, DirHolds
  <2>2. faults' \in 0..MaxFaults
      BY <1>2, FaultType
  <2> QED BY <1>1, <1>2, <2>1, <2>2, GoesOn
<1>3. CASE /\ Fault /\ late' = late \cup {RequestOf(n)} /\ doubt' = [doubt EXCEPT ![n] = TRUE]
           /\ UNCHANGED dir
  <2> DEFINE k == [cl[n] EXCEPT !.step = "create"]
  <2>1. cl \in [Nodes -> Client] /\ cl[n] \in Client
      BY DEF Inv, TypeOK
  <2>2. /\ k \in Client /\ k.step = "create" /\ k.path = cl[n].path /\ k.address = cl[n].address
        /\ k.service = cl[n].service
      BY <2>1 DEF Client, Steps
  <2>3. cl' = [cl EXCEPT ![n] = k]
      BY <1>1, <2>1 DEF Goto
  <2> HIDE DEF k
  <2>4. cl'[n] = k
      BY <2>1, <2>3
  <2>5. NodeInv(n)'
      BY <1>1, <2>2, <2>4 DEF NodeInv, Inv, RegistrarInv, Running, Owned
  <2> QED BY <1>1, <1>3, <2>2, <2>3, <2>5, LeavesLate
<1> QED BY <1>2, <1>3 DEF Clear

LEMMA NextKeeps == Inv /\ [Next]_vars => Inv'
<1> SUFFICES ASSUME Inv, [Next]_vars PROVE Inv'
    OBVIOUS
<1>1. ASSUME NEW n \in Nodes, Start(n) PROVE Inv'
    BY <1>1, StartKeeps
<1>2. ASSUME NEW n \in Nodes, Stop(n) PROVE Inv'
    BY <1>2, StopKeeps
<1>3. ASSUME NEW n \in Nodes, NEW reg \in use.regs[n], Register(n, reg) PROVE Inv'
    BY <1>3, RegisterKeeps
<1>4. ASSUME NEW n \in Nodes, Clear(n) PROVE Inv'
    BY <1>4, ClearKeeps
<1>5. ASSUME NEW n \in Nodes, Created(n) PROVE Inv'
  <2>1. /\ Running(n) /\ cl[n].step = "create" /\ Goto(n, "note") /\ Apply(RequestOf(n)) /\ Sure(n)
        /\ UNCHANGED <<use, up, address, registered, registeredAddr, late, faults>>
      BY <1>5 DEF Created, At
  <2>2. DirOK(dir') /\ faults' \in 0..MaxFaults
      BY <2>1, RequestType, ApplyEffect, FaultType
  <2> QED BY <2>1, <2>2, GoesOn
<1>6. ASSUME NEW n \in Nodes, CreateFails(n) \/ RemoveFails(n) PROVE Inv'
  <2>1. /\ Running(n) /\ Return(n) /\ doubt' = [doubt EXCEPT ![n] = TRUE]
        /\ UNCHANGED <<use, dir, up, address, registered, registeredAddr, late>>
        /\ Fault \/ UNCHANGED faults
      BY <1>6 DEF CreateFails, RemoveFails, At
  <2>2. faults' \in 0..MaxFaults
      BY <2>1, FaultType
  <2> QED BY <2>1, <2>2, Returns
<1>7. ASSUME NEW n \in Nodes, Note(n) PROVE Inv'
    BY <1>7, NoteKeeps
<1>8. ASSUME NEW n \in Nodes, Deregister(n) PROVE Inv'
    BY <1>8, DeregisterKeeps
<1>9. ASSUME NEW n \in Nodes, Removed(n) PROVE Inv'
  <2>1. /\ Running(n) /\ cl[n].step = "remove" /\ Goto(n, "forget") /\ Apply(RequestOf(n)) /\ Sure(n)
        /\ UNCHANGED <<use, up, address, registered, registeredAddr, late, faults>>
      BY <1>9 DEF Removed, At
  <2>2. DirOK(dir') /\ faults' \in 0..MaxFaults
      BY <2>1, RequestType, ApplyEffect, FaultType
  <2> QED BY <2>1, <2>2, GoesOn
<1>10. ASSUME NEW n \in Nodes, Forget(n) PROVE Inv'
    BY <1>10, ForgetKeeps
<1>11. ASSUME NEW n \in Nodes, Retried(n) PROVE Inv'
  <2>1. /\ cl[n].step # "idle" /\ Fault /\ Apply(RequestOf(n))
        /\ UNCHANGED <<use, up, address, registered, registeredAddr, cl, late, doubt>>
      BY <1>11 DEF Retried, Requesting
  <2>2. DirOK(dir') /\ faults' \in 0..MaxFaults
      BY <2>1, RequestType, ApplyEffect, FaultType
  <2>3. doubt' \in [Nodes -> BOOLEAN] /\ \A r \in late : doubt'[r.node]
      BY <2>1, DoubtKept
  <2> QED BY <2>1, <2>2, <2>3, DirStep
<1>12. ASSUME NEW n \in Nodes, Cancelled(n) PROVE Inv'
    BY <1>12, CancelledKeeps
<1>13. ASSUME NEW r \in late, ArrivesLate(r) PROVE Inv'
  <2>1. /\ Apply(r) /\ late' \subseteq late
        /\ doubt' = [n \in Nodes |-> doubt[n] \/ n \in Undoes(r)]
        /\ UNCHANGED <<use, up, address, registered, registeredAddr, cl, faults>>
      BY <1>13 DEF ArrivesLate
  <2>2. r \in Request /\ r.node \in Nodes /\ r.path[3] = EndpointID[r.address]
      BY DEF Inv, TypeOK, RegistrarInv, LateInv, Request
  <2>3. DirOK(dir') /\ faults' \in 0..MaxFaults
      BY <2>1, <2>2, ApplyEffect, FaultType
  <2>4. doubt \in [Nodes -> BOOLEAN] /\ \A q \in late : q.node \in Nodes /\ doubt[q.node]
      BY DEF Inv, TypeOK, RegistrarInv, LateInv, Request
  <2>5. doubt' \in [Nodes -> BOOLEAN] /\ \A q \in late : doubt'[q.node]
      BY <2>1, <2>4
  <2> QED BY <2>1, <2>3, <2>5, DirStep
<1>14. CASE UNCHANGED vars
  <2>1. UNCHANGED <<use, dir, up, address, registered, registeredAddr, cl, late, faults, doubt>>
      BY <1>14 DEF vars
  <2>2. DirOK(dir') /\ faults' \in 0..MaxFaults
      BY <2>1, DirHolds, FaultType
  <2>3. doubt' \in [Nodes -> BOOLEAN] /\ \A r \in late : doubt'[r.node]
      BY <2>1 DEF Inv, TypeOK, RegistrarInv, LateInv
  <2> QED BY <2>1, <2>2, <2>3, DirStep
<1> QED
    BY <1>1, <1>2, <1>3, <1>4, <1>5, <1>6, <1>7, <1>8, <1>9, <1>10, <1>11, <1>12, <1>13, <1>14
    DEF Next

\* Whatever requests fail, are repeated or come late: an instance only ever publishes
\* addresses it was given or has, an instance whose request is still on its way has its
\* doubts, and an address has one running holder.
THEOREM Invariance == Spec => [](TypeOK /\ RegistrarInv)
<1>1. Spec => []Inv
    BY InitHolds, NextKeeps, PTL DEF Spec
<1> QED BY <1>1, PTL DEF Inv

\* The directory, the instances and their calls keep their types, an endpoint is under
\* the id of its address, and what Deregister needs is noted together.
THEOREM TypeCorrect == Spec => []TypeOK
  BY Invariance, PTL

-----------------------------------------------------------------------------
\* Who does what in a step.

\* A step of m, or of a late request of its.
Acts(m) ==
    \/ Start(m) \/ Stop(m)
    \/ \E reg \in use.regs[m] : Register(m, reg)
    \/ Clear(m) \/ Created(m) \/ CreateFails(m) \/ Note(m)
    \/ Deregister(m) \/ Removed(m) \/ RemoveFails(m) \/ Forget(m)
    \/ Retried(m) \/ Cancelled(m)
    \/ \E r \in late : r.node = m /\ ArrivesLate(r)

\* The step is not about n.
Aside(n) ==
    /\ use' = use /\ cl'[n] = cl[n] /\ (doubt[n] => doubt'[n]) /\ up'[n] = up[n]
    /\ registered'[n] = registered[n] /\ registeredAddr'[n] = registeredAddr[n]
    /\ \A r \in late' : r.node = n => r \in late

\* What m asks of the directory: about an address it may publish.
Asks(m, r) ==
    /\ r \in Request /\ r \in Requests /\ r.node = m
    /\ r.path[3] = EndpointID[r.address] /\ Owned(m, r.address)
    /\ r \in late \/ Running(m)

LEMMA SomebodyActs == ASSUME Inv, Next PROVE \E m \in Nodes : Acts(m)
<1>1. \A r \in late : r.node \in Nodes
    BY DEF Inv, TypeOK, Request
<1> QED BY <1>1 DEF Next, Acts

LEMMA AsksOwn ==
    ASSUME Inv, NEW m \in Nodes, Requesting(m)
    PROVE  Asks(m, RequestOf(m))
<1>1. cl[m].step # "idle" /\ Running(m) /\ RequestOf(m) \in Requests
    BY DEF Requesting, Requests
<1> QED BY <1>1, RequestType DEF Asks

LEMMA DirectoryStep ==
    ASSUME Inv, NEW m \in Nodes, Acts(m)
    PROVE  dir' = dir \/ \E r : Asks(m, r) /\ Apply(r) /\ (Running(m) \/ ArrivesLate(r))
<1>1. CASE Clear(m) \/ Created(m) \/ Removed(m) \/ Retried(m)
  <2>1. Requesting(m) /\ Running(m) /\ (dir' = dir \/ Apply(RequestOf(m)))
      BY <1>1 DEF Clear, Created, Removed, Retried, Requesting, At
  <2> QED BY <2>1, AsksOwn
<1>2. ASSUME NEW r \in late, r.node = m, ArrivesLate(r)
      PROVE  Asks(m, r) /\ Apply(r)
    BY <1>2 DEF Asks, Requests, ArrivesLate, Inv, TypeOK, RegistrarInv, LateInv
<1> QED
    BY <1>1, <1>2 DEF Acts, Start, Stop, Register, CreateFails, Note, Deregister, RemoveFails,
                      Forget, Cancelled

LEMMA OthersAside ==
    ASSUME Inv, NEW m \in Nodes, NEW n \in Nodes, m # n, Acts(m)
    PROVE  Aside(n)
<1>1. /\ cl \in [Nodes -> Client] /\ doubt \in [Nodes -> BOOLEAN]
      /\ up \in [Nodes -> {"new", "up", "gone"}]
      /\ registered \in [Nodes -> Services \cup {None}]
      /\ registeredAddr \in [Nodes -> Addresses \cup {None}]
    BY DEF Inv, TypeOK
<1> USE DEF Aside
<1>2. CASE Start(m) \/ Stop(m)
    BY <1>1, <1>2 DEF Start, Stop
<1>3. ASSUME NEW reg \in use.regs[m], Register(m, reg) PROVE Aside(n)
    BY <1>1, <1>3 DEF Register
<1>4. CASE Clear(m) \/ Created(m) \/ Removed(m)
  <2>1. /\ late' \subseteq late \cup {RequestOf(m)} /\ RequestOf(m).node = m
        /\ UNCHANGED <<use, up, registered, registeredAddr>>
      BY <1>4 DEF Clear, Created, Removed, RequestOf
  <2>2. cl'[n] = cl[n] /\ doubt'[n] = doubt[n]
      BY <1>1, <1>4 DEF Clear, Created, Removed, Goto, Sure
  <2> QED BY <2>1, <2>2
<1>5. CASE CreateFails(m) \/ RemoveFails(m) \/ Note(m) \/ Forget(m)
    BY <1>1, <1>5 DEF CreateFails, RemoveFails, Note, Forget, Return
<1>6. CASE Deregister(m)
    BY <1>1, <1>6 DEF Deregister
<1>7. CASE Retried(m)
    BY <1>7 DEF Retried
<1>8. CASE Cancelled(m)
  <2>1. /\ late' = late \cup {RequestOf(m)} /\ cl' = [cl EXCEPT ![m] = Idle]
        /\ doubt' = [doubt EXCEPT ![m] = TRUE]
        /\ UNCHANGED <<use, up, registered, registeredAddr>>
      BY <1>8 DEF Cancelled, Return
  <2>2. RequestOf(m).node = m
      BY DEF RequestOf
  <2> QED BY <1>1, <2>1, <2>2
<1>9. ASSUME NEW r \in late, r.node = m, ArrivesLate(r) PROVE Aside(n)
    BY <1>1, <1>9 DEF ArrivesLate
<1> HIDE DEF Aside
<1> QED BY <1>2, <1>3, <1>4, <1>5, <1>6, <1>7, <1>8, <1>9 DEF Acts

-----------------------------------------------------------------------------
\* An instance with one endpoint, and what it leaves there.

LEMMA HomeType ==
    ASSUME NEW n \in Nodes, NEW svc \in Services
    PROVE  /\ Home(n, svc) \in Paths /\ Home(n, svc)[1] = Default /\ Home(n, svc)[2] = svc
           /\ Home(n, svc)[3] = EndpointID[Addr[n]] /\ Addr[n] \in Addresses
  BY PathType, NodesAssumption DEF Home

\* A step that leaves the call and what is noted.
LEMMA HomeKept ==
    ASSUME NEW n \in Nodes, NEW svc \in Services, HomeOf(n, svc), NoneLeft(n),
           cl'[n] = cl[n], registered'[n] = registered[n], registeredAddr'[n] = registeredAddr[n],
           doubt[n] => doubt'[n], \A r \in late' : r.node = n => r \in late,
           \A p \in Paths : dir'[p].by = n => dir[p].by = n
    PROVE  HomeOf(n, svc)' /\ NoneLeft(n)'
  BY DEF HomeOf, NoneLeft, Home, Path

\* What a request does to the endpoints of n.
LEMMA HomeDir ==
    ASSUME Inv, NEW n \in Nodes, NEW svc \in Services, HomeOf(n, svc),
           NEW r, Asks(r.node, r), Apply(r), r.node = n => r.path = Home(n, svc)
    PROVE  /\ \A p \in Paths : dir'[p].by = n => p = Home(n, svc)
           /\ r.node # n \/ r.op = "delete" => \A p \in Paths : dir'[p].by = n => dir[p].by = n
           /\ r.node = n /\ r.op = "delete" => \A p \in Paths : dir'[p].by # n
<1>1. /\ r \in Request /\ r.path[3] = EndpointID[r.address] /\ n # None
    BY NoneApart DEF Asks
<1>2. /\ \A p \in Paths \ {r.path} : dir'[p] = dir[p]
      /\ r.op = "delete" => dir'[r.path] = NoEndpoint
      /\ \A p \in Paths : dir'[p].by \in {dir[p].by, None, r.node}
    BY <1>1, ApplyEffect
<1>3. NoEndpoint.by = None
    BY DEF NoEndpoint
<1>4. r.path \in Paths
    BY <1>1 DEF Request
<1> QED BY <1>1, <1>2, <1>3, <1>4 DEF HomeOf

LEMMA HomeRegister ==
    ASSUME Inv, NEW n \in Nodes, NEW svc \in Services, OneAt(n, svc), HomeOf(n, svc), NoneLeft(n),
           NEW reg \in use.regs[n], Register(n, reg)
    PROVE  HomeOf(n, svc)' /\ NoneLeft(n)'
<1> DEFINE addr == OrDefault(reg.address, address[n])
           ns   == OrDefault(reg.namespace, Default)
<1>1. /\ addr # None /\ cl[n].step = "idle"
      /\ cl'[n] = [step |-> "clear", service |-> reg.service, address |-> addr,
                   path |-> Path(ns, reg.service, addr)]
      /\ UNCHANGED <<use, dir, registered, registeredAddr, late, doubt>>
    BY DEF Register, At, Inv, TypeOK
<1>2. reg.service = svc /\ ns = Default
    BY DEF OneAt, OrDefault
<1>3. addr = Addr[n]
    BY <1>1 DEF OneAt, OrDefault, Inv, RegistrarInv, NodeInv
<1>4. /\ cl'[n].step = "clear" /\ cl'[n].service = svc /\ cl'[n].address = Addr[n]
      /\ cl'[n].path = Home(n, svc)
    BY <1>1, <1>2, <1>3 DEF Home
<1> QED BY <1>1, <1>4 DEF HomeOf, NoneLeft, Home, Path

\* What n does is there.
LEMMA HomeActs ==
    ASSUME Inv, NEW n \in Nodes, NEW svc \in Services, OneAt(n, svc), HomeOf(n, svc), NoneLeft(n),
           Acts(n)
    PROVE  HomeOf(n, svc)' /\ NoneLeft(n)'
<1>0. /\ cl \in [Nodes -> Client] /\ cl[n] \in Client /\ doubt \in [Nodes -> BOOLEAN]
      /\ registered \in [Nodes -> Services \cup {None}]
      /\ registeredAddr \in [Nodes -> Addresses \cup {None}] /\ NodeInv(n)
    BY DEF Inv, TypeOK, RegistrarInv
<1>1. Idle.step = "idle"
    BY IdleIsClient
<1>2. cl[n].step # "idle" => RequestOf(n).path = Home(n, svc) /\ RequestOf(n).node = n
    BY RequestType DEF HomeOf
<1>3. CASE Start(n) \/ Stop(n)
    BY <1>3, HomeKept DEF Start, Stop
<1>4. ASSUME NEW reg \in use.regs[n], Register(n, reg) PROVE HomeOf(n, svc)' /\ NoneLeft(n)'
    BY <1>4, HomeRegister
\* The call goes on after a request.
<1>5. ASSUME NEW s \in {"create", "note", "forget"}, Requesting(n), Goto(n, s),
             s \in {"create", "note"} => cl[n].step \in {"clear", "create"},
             UNCHANGED <<registered, registeredAddr>>,
             \A r \in late' : r.node = n => r.path = Home(n, svc),
             dir' = dir \/ Apply(RequestOf(n)),
             s = "forget" => cl[n].step = "remove" /\ Apply(RequestOf(n))
      PROVE  HomeOf(n, svc)' /\ NoneLeft(n)'
  <2>1. /\ cl'[n].step = s /\ cl'[n].path = cl[n].path /\ cl'[n].address = cl[n].address
        /\ cl'[n].service = cl[n].service
      BY <1>0, <1>5 DEF Goto, Client
  <2>2. cl[n].step # "idle"
      BY <1>5 DEF Requesting
  <2>3. \A p \in Paths : dir'[p].by = n => p = Home(n, svc)
      BY <1>2, <1>5, <2>2, AsksOwn, HomeDir DEF HomeOf
  <2>4. HomeOf(n, svc)'
      BY <1>5, <2>1, <2>2, <2>3 DEF HomeOf, Home, Path
  <2>5. s = "forget" => \A p \in Paths : dir'[p].by # n
    <3> SUFFICES ASSUME s = "forget" PROVE \A p \in Paths : dir'[p].by # n
        OBVIOUS
    <3>1. RequestOf(n).op = "delete"
        BY <1>5 DEF RequestOf
    <3> QED BY <1>2, <1>5, <2>2, <3>1, AsksOwn, HomeDir
  <2> QED BY <2>1, <2>4, <2>5 DEF NoneLeft
<1>6. CASE Clear(n)
  <2>1. cl[n].step = "clear" /\ late' \subseteq late \cup {RequestOf(n)}
      BY <1>6 DEF Clear, At
  <2>2. \A r \in late' : r.node = n => r.path = Home(n, svc)
      BY <1>2, <2>1 DEF HomeOf
  <2> QED BY <1>5, <1>6, <2>2 DEF Clear, At, Requesting
<1>7. CASE Created(n)
    BY <1>5, <1>7 DEF Created, At, Requesting, HomeOf
<1>8. CASE Removed(n)
    BY <1>5, <1>8 DEF Removed, At, Requesting, HomeOf
\* The call ends in doubt.
<1>9. ASSUME cl' = [cl EXCEPT ![n] = Idle], doubt' = [doubt EXCEPT ![n] = TRUE],
             UNCHANGED <<dir, registered, registeredAddr>>,
             \A r \in late' : r.node = n => r.path = Home(n, svc)
      PROVE  HomeOf(n, svc)' /\ NoneLeft(n)'
  <2>1. cl'[n].step = "idle" /\ doubt'[n]
      BY <1>0, <1>1, <1>9
  <2> QED BY <1>9, <2>1 DEF HomeOf, NoneLeft, Home, Path
<1>10. CASE CreateFails(n) \/ RemoveFails(n)
    BY <1>9, <1>10 DEF CreateFails, RemoveFails, Return, HomeOf
<1>11. CASE Cancelled(n)
  <2>1. cl[n].step # "idle" /\ late' = late \cup {RequestOf(n)}
      BY <1>11 DEF Cancelled, Requesting
  <2>2. \A r \in late' : r.node = n => r.path = Home(n, svc)
      BY <1>2, <2>1 DEF HomeOf
  <2> QED BY <1>9, <1>11, <2>2 DEF Cancelled, Return
<1>12. CASE Note(n)
  <2>1. /\ cl[n].step = "note" /\ cl'[n].step = "idle" /\ registered'[n] = cl[n].service
        /\ registeredAddr'[n] = cl[n].address /\ UNCHANGED <<dir, late, doubt>>
      BY <1>0, <1>1, <1>12 DEF Note, At, Return
  <2>2. registered'[n] = svc /\ registeredAddr'[n] = Addr[n] /\ svc # None
      BY <2>1, NoneApart DEF HomeOf
  <2> QED BY <2>1, <2>2 DEF HomeOf, NoneLeft, Home, Path
<1>13. CASE Deregister(n)
  <2>1. /\ registered[n] # None /\ UNCHANGED <<dir, registered, registeredAddr, late, doubt>>
        /\ cl'[n] = [step |-> "remove", service |-> None, address |-> registeredAddr[n],
                     path |-> Path(Default, registered[n], registeredAddr[n])]
      BY <1>0, <1>13 DEF Deregister
  <2>2. cl'[n].step = "remove" /\ cl'[n].address = Addr[n] /\ cl'[n].path = Home(n, svc)
      BY <2>1 DEF HomeOf, Home
  <2> QED BY <2>1, <2>2 DEF HomeOf, NoneLeft, Home, Path
<1>14. CASE Forget(n)
  <2>1. /\ cl[n].step = "forget" /\ cl'[n].step = "idle" /\ registered'[n] = None
        /\ UNCHANGED <<dir, registeredAddr, late, doubt>>
      BY <1>0, <1>1, <1>14 DEF Forget, At, Return
  <2> QED BY <2>1 DEF HomeOf, NoneLeft, Home, Path
<1>15. CASE Retried(n)
  <2>1. /\ Requesting(n) /\ Apply(RequestOf(n))
        /\ UNCHANGED <<registered, registeredAddr, cl, late, doubt>>
      BY <1>15 DEF Retried
  <2>2. cl[n].step \in {"clear", "create", "remove"} /\ Asks(n, RequestOf(n))
      BY <2>1, AsksOwn DEF Requesting
  <2>3. \A p \in Paths : dir'[p].by = n => p = Home(n, svc)
      BY <1>2, <2>1, <2>2, HomeDir
  <2>4. HomeOf(n, svc)'
      BY <2>1, <2>3 DEF HomeOf, Home, Path
  <2>5. cl[n].step = "clear" => \A p \in Paths : dir'[p].by # n
    <3> SUFFICES ASSUME cl[n].step = "clear" PROVE \A p \in Paths : dir'[p].by # n
        OBVIOUS
    <3>1. RequestOf(n).op = "delete"
        BY DEF RequestOf
    <3> QED BY <1>2, <2>1, <2>2, <3>1, HomeDir
  <2> QED BY <2>1, <2>2, <2>4, <2>5 DEF NoneLeft
<1>16. ASSUME NEW r \in late, r.node = n, ArrivesLate(r)
       PROVE  HomeOf(n, svc)' /\ NoneLeft(n)'
  <2>1. /\ Apply(r) /\ late' \subseteq late /\ doubt'[n]
        /\ UNCHANGED <<registered, registeredAddr, cl>>
      BY <1>16 DEF ArrivesLate, Undoes
  <2>2. r.path = Home(n, svc) /\ doubt'[n]
      BY <1>0, <1>16, <2>1 DEF HomeOf
  <2>3. Asks(n, r)
      BY <1>16 DEF Asks, Requests, Inv, TypeOK, RegistrarInv, LateInv
  <2>4. \A p \in Paths : dir'[p].by = n => p = Home(n, svc)
      BY <1>16, <2>1, <2>2, <2>3, HomeDir
  <2>5. HomeOf(n, svc)'
      BY <2>1, <2>4 DEF HomeOf, Home, Path
  <2> QED BY <2>2, <2>5 DEF NoneLeft
<1> QED
    BY <1>3, <1>4, <1>6, <1>7, <1>8, <1>10, <1>11, <1>12, <1>13, <1>14, <1>15, <1>16 DEF Acts

LEMMA UseKept == ASSUME [Next]_vars PROVE use' = use
  BY DEF Next, Start, Stop, Register, Clear, Created, CreateFails, Note, Deregister, Removed,
         RemoveFails, Forget, Retried, Cancelled, ArrivesLate, vars

LEMMA HomeStep == Inv /\ HomeInv /\ [Next]_vars => HomeInv'
<1> SUFFICES ASSUME Inv, HomeInv, [Next]_vars,
                    NEW n \in Nodes, NEW svc \in Services, OneAt(n, svc)'
             PROVE  HomeOf(n, svc)' /\ NoneLeft(n)'
    BY DEF HomeInv
<1>1. OneAt(n, svc) /\ HomeOf(n, svc) /\ NoneLeft(n)
    BY UseKept DEF OneAt, HomeInv
<1>2. CASE UNCHANGED vars
    BY <1>1, <1>2, HomeKept DEF vars
<1>3. CASE Next
  <2>1. PICK m \in Nodes : Acts(m)
      BY <1>3, SomebodyActs
  <2>2. CASE m = n
      BY <1>1, <2>1, <2>2, HomeActs
  <2>3. CASE m # n
    <3>1. Aside(n)
        BY <2>1, <2>3, OthersAside
    <3>2. \A p \in Paths : dir'[p].by = n => dir[p].by = n
      <4>1. ASSUME NEW r, Asks(m, r), Apply(r)
            PROVE  \A p \in Paths : dir'[p].by = n => dir[p].by = n
        <5>1. r.node = m
            BY <4>1 DEF Asks
        <5> QED BY <1>1, <2>3, <4>1, <5>1, HomeDir
      <4> QED BY <2>1, <4>1, DirectoryStep
    <3> QED BY <1>1, <3>1, <3>2, HomeKept DEF Aside
  <2> QED BY <2>2, <2>3
<1> QED BY <1>2, <1>3

LEMMA HomeHolds == Spec => []HomeInv
<1>1. Init => HomeInv
  <2> SUFFICES ASSUME Init, NEW n \in Nodes, NEW svc \in Services
               PROVE  HomeOf(n, svc) /\ NoneLeft(n)
      BY DEF HomeInv
  <2>1. \A p \in Paths : dir[p].by = None
      BY DEF Init, NoEndpoint
  <2>2. cl[n].step = "idle" /\ registered[n] = None /\ late = {} /\ n # None
      BY NoneApart, IdleIsClient DEF Init
  <2> QED BY <2>1, <2>2 DEF HomeOf, NoneLeft
<1>2. Spec => []Inv
    BY Invariance, PTL DEF Inv
<1> QED BY <1>1, <1>2, HomeStep, PTL DEF Spec

\* An instance that publishes one endpoint, whose calls all came to an end, leaves it
\* behind only if it did not deregister: Deregister keeps what it could not remove,
\* and Register notes nothing that it does not hear was created.
THEOREM NothingIsLeft == Spec => []NothingLeft
<1>1. HomeInv => NothingLeft
  <2> SUFFICES ASSUME HomeInv, NEW n \in Nodes, OneEndpoint(n), Settled(n), registered[n] = None
               PROVE  \A p \in Paths : dir[p].by # n
      BY DEF NothingLeft
  <2>1. PICK svc \in Services : OneAt(n, svc)
      BY DEF OneEndpoint, OneAt
  <2> QED BY <2>1 DEF HomeInv, NoneLeft, Settled
<1> QED BY <1>1, HomeHolds, PTL

-----------------------------------------------------------------------------
\* Whose endpoint a running instance's is.

\* Nobody else asks anything about the endpoint of a running instance, save what an
\* earlier holder of its address left on its way.
LEMMA Untouched ==
    ASSUME Inv, OwnIds, NEW n \in Nodes, NEW svc \in Services, Running(n),
           NEW m \in Nodes, m # n, NEW r, Asks(m, r), r.path = Home(n, svc)
    PROVE  ~Running(m) /\ FromBefore(r, n)
<1>1. EndpointID[r.address] = EndpointID[Addr[n]]
    BY HomeType DEF Asks
<1>2. PICK reg \in use.regs[m] : r.address = OrDefault(reg.address, Addr[m])
    BY DEF Asks, Owned
<1>3. Addr[m] = Addr[n]
    BY <1>1, <1>2 DEF OwnIds
<1>4. ~Running(m)
    BY <1>3 DEF Inv, RegistrarInv, Alone
<1>5. r \in late /\ r.node = m
    BY <1>4 DEF Asks
<1>6. up[m] # "new" /\ up[m] \in {"new", "up", "gone"}
    BY <1>5 DEF Inv, TypeOK, RegistrarInv, LateInv
<1> QED BY <1>3, <1>4, <1>5, <1>6 DEF FromBefore, Running

LEMMA ThereStep ==
    ASSUME Inv, OwnIds, NEW n \in Nodes, NEW svc \in Services, OneAt(n, svc), HomeOf(n, svc),
           There(n, svc), [Next]_vars
    PROVE  There(n, svc)'
<1>0. /\ cl \in [Nodes -> Client] /\ cl[n] \in Client /\ doubt \in [Nodes -> BOOLEAN]
      /\ up \in [Nodes -> {"new", "up", "gone"}]
      /\ registered \in [Nodes -> Services \cup {None}] /\ NodeInv(n) /\ Home(n, svc) \in Paths
    BY HomeType DEF Inv, TypeOK, RegistrarInv
<1>1. Home(n, svc)' = Home(n, svc) /\ Idle.step = "idle"
    BY IdleIsClient DEF Home, Path
<1>2. CASE UNCHANGED vars
    BY <1>1, <1>2 DEF vars, There, Running
<1>3. ASSUME NEW m \in Nodes, m # n, Acts(m) PROVE There(n, svc)'
  <2>1. Aside(n)
      BY <1>3, OthersAside
  <2>2. ASSUME Running(n), dir[Home(n, svc)] = [address |-> Addr[n], by |-> n], ~doubt'[n]
        PROVE  dir'[Home(n, svc)] = dir[Home(n, svc)]
    <3>1. ASSUME NEW r, Asks(m, r), Apply(r), Running(m) \/ ArrivesLate(r)
          PROVE  dir'[Home(n, svc)] = dir[Home(n, svc)]
      <4>1. r \in Request /\ r.path[3] = EndpointID[r.address] /\ r.op \in {"create", "delete"}
          BY <3>1 DEF Asks, Request
      <4>2. CASE r.path # Home(n, svc)
          BY <1>0, <3>1, <4>1, <4>2, ApplyEffect
      <4>3. CASE r.path = Home(n, svc)
        <5>1. ArrivesLate(r)
            BY <1>3, <2>2, <3>1, <4>3, Untouched
        <5>2. dir[r.path].by = n
            BY <2>2, <4>3
        <5>3. r.op # "delete"
            BY <2>2, <5>1, <5>2 DEF ArrivesLate, Undoes
        <5>4. Published(r.path)
            BY <2>2, <4>3, NoneApart DEF Published, NoEndpoint
        <5> QED BY <3>1, <4>1, <4>3, <5>3, <5>4, ApplyEffect
      <4> QED BY <4>2, <4>3
    <3> QED BY <1>3, <3>1, DirectoryStep
  <2> QED BY <1>1, <2>1, <2>2 DEF There, Aside, Running
<1>4. CASE Acts(n)
  <2>1. CASE Start(n)
    <3>1. cl'[n].step = "idle" /\ registered'[n] = None
        BY <1>0, <2>1 DEF Start, NodeInv
    <3> QED BY <3>1 DEF There
  <2>2. CASE Stop(n)
    <3>1. ~Running(n)'
        BY <1>0, <2>2 DEF Stop, Running
    <3> QED BY <3>1 DEF There
  <2>3. ASSUME cl'[n].step \in {"clear", "create", "remove", "forget"} PROVE There(n, svc)'
      BY <2>3 DEF There
  <2>4. ASSUME NEW reg \in use.regs[n], Register(n, reg) PROVE There(n, svc)'
      BY <1>0, <2>3, <2>4 DEF Register
  <2>5. CASE Clear(n) \/ Deregister(n) \/ Removed(n) \/ Retried(n)
      BY <1>0, <2>3, <2>5 DEF Clear, Deregister, Removed, Retried, Requesting, Goto, Client
  <2>6. CASE Created(n)
    <3> DEFINE r == RequestOf(n)
    <3>1. Running(n) /\ cl[n].step = "create" /\ ~Published(cl[n].path) /\ Apply(r)
        BY <2>6 DEF Created, At
    <3>2. /\ r \in Request /\ r.path[3] = EndpointID[r.address] /\ r.op = "create"
          /\ r.path = Home(n, svc) /\ r.address = Addr[n] /\ r.node = n
        BY <3>1, RequestType DEF HomeOf
    <3>3. ~Published(r.path)
        BY <3>1, <3>2 DEF HomeOf
    <3> HIDE DEF r
    <3>4. dir'[Home(n, svc)] = [address |-> Addr[n], by |-> n]
        BY <3>1, <3>2, <3>3, ApplyEffect
    <3> QED BY <1>1, <3>4 DEF There
  <2>7. CASE CreateFails(n) \/ RemoveFails(n) \/ Cancelled(n)
    <3>1. doubt'[n]
        BY <1>0, <2>7 DEF CreateFails, RemoveFails, Cancelled
    <3> QED BY <3>1 DEF There
  <2>8. CASE Note(n)
    <3>1. cl[n].step = "note" /\ UNCHANGED <<dir, up, doubt>>
        BY <2>8 DEF Note, At
    <3> QED BY <1>1, <3>1 DEF There, Running
  <2>9. CASE Forget(n)
    <3>1. cl'[n].step = "idle" /\ registered'[n] = None
        BY <1>0, <1>1, <2>9 DEF Forget, Return
    <3> QED BY <3>1 DEF There
  <2>10. ASSUME NEW r \in late, r.node = n, ArrivesLate(r) PROVE There(n, svc)'
    <3>1. doubt'[n]
        BY <1>0, <2>10 DEF ArrivesLate, Undoes
    <3> QED BY <3>1 DEF There
  <2> QED BY <1>4, <2>1, <2>2, <2>4, <2>5, <2>6, <2>7, <2>8, <2>9, <2>10 DEF Acts
<1>5. CASE Next
  <2>1. PICK m \in Nodes : Acts(m)
      BY <1>5, SomebodyActs
  <2> QED BY <1>3, <1>4, <2>1
<1> QED BY <1>2, <1>5

LEMMA ThereHolds == Spec => []ThereInv
<1>1. Init => ThereInv
  <2> SUFFICES ASSUME Init, NEW n \in Nodes, NEW svc \in Services PROVE There(n, svc)
      BY DEF ThereInv
  <2>1. ~Running(n)
      BY DEF Init, Running
  <2> QED BY <2>1 DEF There
<1>2. Inv /\ HomeInv /\ ThereInv /\ [Next]_vars => ThereInv'
  <2> SUFFICES ASSUME Inv, HomeInv, ThereInv, [Next]_vars, OwnIds',
                      NEW n \in Nodes, NEW svc \in Services, OneAt(n, svc)'
               PROVE  There(n, svc)'
      BY DEF ThereInv
  <2>1. OwnIds /\ OneAt(n, svc)
      BY UseKept DEF OwnIds, OneAt
  <2>2. HomeOf(n, svc) /\ There(n, svc)
      BY <2>1 DEF HomeInv, ThereInv
  <2> QED BY <2>1, <2>2, ThereStep
<1>3. Spec => []Inv
    BY Invariance, PTL DEF Inv
<1> QED BY <1>1, <1>2, <1>3, HomeHolds, PTL DEF Spec

\* A lookup that did not hit the cap returns every running instance that is registered,
\* is in no call, had no request go wrong since its last answer and lost its endpoint to
\* no late one, whoever else had or has which address, provided that no other instance
\* publishes an address with the same endpoint id.
THEOREM PeersAreFound == Spec => [](OwnIds => PeersFound)
<1>1. Inv /\ HomeInv /\ ThereInv => (OwnIds => PeersFound)
  <2> SUFFICES ASSUME Inv, HomeInv, ThereInv, OwnIds, NEW q \in use.queries, NEW seen \in Discover(q)
               PROVE  Cardinality(Under(q)) <= MaxEndpoints => \A n \in Nodes :
                         (/\ OneEndpoint(n) /\ Running(n) /\ Settled(n)
                          /\ registered[n] = q.service /\ OrDefault(q.namespace, Default) = Default)
                         => registeredAddr[n] \in seen
      BY DEF PeersFound
  <2>1. q \in Query
      BY UsesAssumption DEF Inv, TypeOK
  <2>2. Honours(q)
      BY DEF Discover
  <2>4. ASSUME Cardinality(Under(q)) <= MaxEndpoints, NEW n \in Nodes, OneEndpoint(n), Running(n),
               Settled(n), registered[n] = q.service, OrDefault(q.namespace, Default) = Default
        PROVE  registeredAddr[n] \in seen
    <3>1. PICK svc \in Services : OneAt(n, svc)
        BY <2>4 DEF OneEndpoint, OneAt
    <3>2. HomeOf(n, svc) /\ There(n, svc)
        BY <3>1 DEF HomeInv, ThereInv
    <3>3. registered[n] # None
        BY <2>1, <2>4, NoneApart DEF Query
    <3>4. registered[n] = svc /\ registeredAddr[n] = Addr[n]
        BY <3>2, <3>3 DEF HomeOf
    <3>5. dir[Home(n, svc)] = [address |-> Addr[n], by |-> n]
        BY <2>4, <3>2, <3>3 DEF There, Settled
    <3>6. Published(Home(n, svc)) /\ dir[Home(n, svc)].address = Addr[n]
        BY <3>5, NoneApart DEF Published, NoEndpoint
    <3>7. Home(n, svc) \in Under(q)
        BY <2>4, <3>4, <3>6, HomeType DEF Under
    <3>8. IsFiniteSet(Under(q))
      <4>1. Under(q) \in SUBSET {p \in Paths : Published(p)}
          BY DEF Under
      <4> QED BY <4>1, FS_Subset DEF Inv, RegistrarInv, FiniteInv
    <3>9. PICK ps \in SUBSET Under(q) :
              Cardinality(ps) = Cardinality(Under(q)) /\ seen = {dir[p].address : p \in ps}
      <4>1. Cardinality(Under(q)) \in Nat
          BY <3>8, FS_CardinalityType
      <4>2. (IF Cardinality(Under(q)) < MaxEndpoints THEN Cardinality(Under(q)) ELSE MaxEndpoints)
               = Cardinality(Under(q))
          BY <2>4, <4>1, BoundAssumption
      <4>3. seen \in {{dir[p].address : p \in ps} :
                         ps \in {s \in SUBSET Under(q) : Cardinality(s) = Cardinality(Under(q))}}
          BY <2>2, <4>2 DEF Discover
      <4> QED BY <4>3
    <3>10. ps = Under(q)
        BY <3>8, <3>9, FS_Subset
    <3> QED BY <3>4, <3>6, <3>7, <3>9, <3>10
  <2> QED BY <2>4
<1>2. Spec => []Inv
    BY Invariance, PTL DEF Inv
<1> QED BY <1>1, <1>2, HomeHolds, ThereHolds, PTL

\* What endpointID() makes of two addresses is two ids, as it is for IP addresses,
\* which are shorter than its 63 bytes.
IdsDiffer == \A i, j \in Addresses : EndpointID[i] = EndpointID[j] => i = j

\* While an instance runs, its endpoint goes or changes only by a delete of its own, or
\* by one that an earlier holder of its address left on its way: whoever else registers
\* and deregisters, and is late with either.
THEOREM OnlyItsOwnGoes == IdsDiffer => (Spec => OnlyItsOwn)
<1> SUFFICES ASSUME IdsDiffer PROVE Spec => OnlyItsOwn
    OBVIOUS
<1> DEFINE Step == \A p \in Paths : LET n == dir[p].by IN
             Published(p) /\ Running(n) /\ (\A m \in Nodes : OneEndpoint(m)) /\ dir'[p] # dir[p]
             => \E r \in Requests :
                   r.path = p /\ r.op = "delete" /\ (r.node = n \/ FromBefore(r, n))
<1>1. Inv /\ HomeInv /\ [Next]_vars => [Step]_vars
  <2> SUFFICES ASSUME Inv, HomeInv, Next, NEW p \in Paths, Published(p), Running(dir[p].by),
                      \A m \in Nodes : OneEndpoint(m), dir'[p] # dir[p]
               PROVE  \E r \in Requests :
                         r.path = p /\ r.op = "delete" /\ (r.node = dir[p].by \/ FromBefore(r, dir[p].by))
      OBVIOUS
  <2> DEFINE n == dir[p].by
  <2>1. n \in Nodes
      BY DEF Inv, TypeOK, Published, Endpoint
  <2> HIDE DEF n
  <2>2. PICK svc \in Services : OneAt(n, svc)
      BY <2>1 DEF OneEndpoint, OneAt
  <2>3. p = Home(n, svc)
      BY <2>1, <2>2 DEF HomeInv, HomeOf, n
  <2>4. OwnIds
    <3> SUFFICES ASSUME NEW i \in Nodes, NEW j \in Nodes, NEW reg \in use.regs[i],
                        EndpointID[OrDefault(reg.address, Addr[i])] = EndpointID[Addr[j]]
                 PROVE  Addr[i] = Addr[j]
        BY DEF OwnIds
    <3>1. OrDefault(reg.address, Addr[i]) = Addr[i]
        BY DEF OneEndpoint, OrDefault
    <3> QED BY <3>1, NodesAssumption DEF IdsDiffer
  <2>5. PICK m \in Nodes : Acts(m)
      BY SomebodyActs
  <2>6. PICK r : Asks(m, r) /\ Apply(r)
      BY <2>5, DirectoryStep
  <2>7. r \in Request /\ r \in Requests /\ r.node = m /\ r.path[3] = EndpointID[r.address]
      BY <2>6 DEF Asks
  <2>8. r.path = p /\ r.op = "delete"
    <3>1. r.path = p
        BY <2>6, <2>7, ApplyEffect
    <3>2. r.op \in {"create", "delete"}
        BY <2>7 DEF Request
    <3> QED BY <2>6, <2>7, <3>1, <3>2, ApplyEffect
  <2>9. m = n \/ FromBefore(r, n)
      BY <2>1, <2>2, <2>3, <2>4, <2>6, <2>8, Untouched DEF n
  <2> QED BY <2>7, <2>8, <2>9 DEF n
<1>2. Spec => []Inv
    BY Invariance, PTL DEF Inv
<1> QED BY <1>1, <1>2, HomeHolds, PTL DEF Spec, OnlyItsOwn

=============================================================================
