------------------------- MODULE PortAllocatorProofs -------------------------
(***************************************************************************)
(* Proofs about PortAllocator, for every port range and all claim lists:   *)
(* its type invariant, that its roll-back is dead code, that its grants    *)
(* are sound, and that it implements PortTable.  The argument is a count:  *)
(* what the loop has picked and what it has still to pick make up the      *)
(* distinct local ports, and these fit into what was available when the    *)
(* call began, that is into available_ports \union ports.                  *)
(***************************************************************************)
EXTENDS PortAllocator, FiniteSetTheorems, TLAPS

\* The inductive invariant.
Count ==
    IF pc = "pick"
    THEN /\ claims \in ClaimLists
         /\ ValidClaims(claims, available_ports \union ports)
         /\ Cardinality(ports) + left = Cardinality(LocalPorts(claims))
    ELSE ports = {}

Disjoint == available_ports \cap ports = {}

IInv == TypeOK /\ Disjoint /\ Count /\ GrantIsSound
------------------------------------------------------------------------------
\* The port range is finite, and so is every part of it.
LEMMA PartsAreFinite ==
    ASSUME NEW S \in SUBSET PortRange
    PROVE  IsFiniteSet(S) /\ Cardinality(S) \in Nat
<1>1. PortRange = RangeStart .. (RangeEnd - 1)
  BY DEF PortRange
<1>2. IsFiniteSet(PortRange)
  BY <1>1, RangeAssumption, FS_Interval
<1> QED
  BY <1>2, FS_Subset, FS_CardinalityType

\* A claim list has finitely many local ports.
LEMMA LocalPortsAreFinite ==
    ASSUME NEW cs \in ClaimLists
    PROVE  IsFiniteSet(LocalPorts(cs)) /\ Cardinality(LocalPorts(cs)) \in Nat
<1> DEFINE f == [i \in 1 .. Len(cs) |-> cs[i].local_port]
<1>1. cs \in Seq([local_port : Nat, protocol : Protocols, remote_port : Nat])
  BY ClaimAssumption
<1>2. DOMAIN cs = 1 .. Len(cs) /\ Len(cs) \in Nat
  BY <1>1
<1>3. f \in Surjection(1 .. Len(cs), LocalPorts(cs))
  BY <1>2 DEF Surjection, LocalPorts
<1>4. IsFiniteSet(1 .. Len(cs))
  BY <1>2, FS_Interval
<1> QED
  BY <1>3, <1>4, FS_Surjection, FS_CardinalityType

\* The loop never finds the table empty (port_allocator.rs:100).
LEMMA RoomIsLeft ==
    IInv => NeverRollsBack
<1> SUFFICES ASSUME IInv, pc = "pick", left > 0, available_ports = {}
             PROVE  FALSE
  BY DEF NeverRollsBack
<1>1. available_ports \union ports = ports
  OBVIOUS
<1>2. Cardinality(LocalPorts(claims)) <= Cardinality(ports)
  BY <1>1 DEF IInv, Count, ValidClaims
<1>3. Cardinality(ports) \in Nat /\ left \in Nat
  BY PartsAreFinite DEF IInv, TypeOK
<1> QED
  BY <1>2, <1>3 DEF IInv, Count

\* A pairing with as many ports as local ports uses all of them: the zip of
\* the code leaves no picked port behind.
LEMMA PairingUsesAll ==
    ASSUME NEW cs \in ClaimLists, NEW S \in SUBSET PortRange,
           Cardinality(S) = Cardinality(LocalPorts(cs)),
           NEW f \in Pairings(cs, S)
    PROVE  {f[a] : a \in LocalPorts(cs)} = S
<1>1. f \in Injection(LocalPorts(cs), S)
  BY DEF Pairings, Injection, IsInjective
<1>2. IsFiniteSet(S)
  BY PartsAreFinite
<1>3. f \in Surjection(LocalPorts(cs), S)
  BY <1>1, <1>2, LocalPortsAreFinite, FS_Injection
<1> QED
  BY <1>3 DEF Surjection
------------------------------------------------------------------------------
\* The replies that carry no endpoints.
LEMMA PlainReplies ==
    /\ Table!Done.ok \in BOOLEAN /\ Table!Done.endpoints = {}
    /\ Table!Err.ok \in BOOLEAN /\ Table!Err.endpoints = {}
    /\ RemotePorts({}) = {}
  BY DEF Table!Done, Table!Err, RemotePorts

LEMMA InvariantHoldsInitially == Init => IInv
  BY DEF Init, IInv, TypeOK, Disjoint, Count, GrantIsSound, Table!Done,
         RemotePorts

\* Every call, and every step of the loop, keeps the invariant.
LEMMA InvariantIsKept == IInv /\ [Next]_vars => IInv'
<1> SUFFICES ASSUME IInv, [Next]_vars PROVE IInv'
  OBVIOUS
<1> USE DEF IInv, TypeOK, Disjoint, Count, GrantIsSound
<1>1. CASE allocate_port
  BY <1>1, PlainReplies DEF allocate_port, PortRange
<1>2. ASSUME NEW cs \in ClaimLists, allocate_ports(cs)
      PROVE  IInv'
  <2>1. CASE ~ ValidClaims(cs, available_ports)
    BY <1>2, <2>1, PlainReplies DEF allocate_ports, PortRange
  <2>2. CASE ValidClaims(cs, available_ports)
    <3>1. /\ pc' = "pick" /\ claims' = cs
          /\ left' = Cardinality(LocalPorts(cs))
          /\ pc = "idle" /\ UNCHANGED <<available_ports, ports, result>>
      BY <1>2, <2>2 DEF allocate_ports
    <3>2. left' \in Nat
      BY <3>1, LocalPortsAreFinite
    <3>3. ports' = {} /\ available_ports' \union ports' = available_ports
      BY <3>1
    <3>4. Cardinality(ports') + left' = Cardinality(LocalPorts(claims'))
      BY <3>1, <3>2, <3>3, FS_EmptySet
    <3> QED
      BY <2>2, <3>1, <3>2, <3>3, <3>4
  <2> QED
    BY <2>1, <2>2
<1>3. CASE PickPort
  <2>1. available_ports # {}
    BY <1>3, RoomIsLeft DEF PickPort, NeverRollsBack
  <2>2. PICK n \in available_ports :
           /\ available_ports' = available_ports \ {n}
           /\ ports' = ports \union {n}
    BY <1>3, <2>1 DEF PickPort
  <2>3. /\ pc = "pick" /\ left > 0
        /\ left' = left - 1 /\ UNCHANGED <<pc, claims, result>>
    BY <1>3, <2>1 DEF PickPort
  <2>4. Cardinality(ports') = Cardinality(ports) + 1
    BY <2>2, PartsAreFinite, FS_AddElement
  <2>5. available_ports' \union ports' = available_ports \union ports
    BY <2>2
  <2>6. Cardinality(ports') + left' = Cardinality(LocalPorts(claims'))
    BY <2>3, <2>4, PartsAreFinite
  <2>7. TypeOK'
    BY <2>2, <2>3 DEF PortRange
  <2>8. ValidClaims(claims', available_ports' \union ports')
    BY <2>3, <2>5
  <2>9. Disjoint' /\ Count' /\ GrantIsSound'
    BY <2>2, <2>3, <2>6, <2>8
  <2> QED
    BY <2>7, <2>9
<1>4. CASE MakeEndpoints
  <2>1. PICK f \in Pairings(claims, ports) :
           Return(Table!Given(EndpointsOf(claims, f)))
    BY <1>4 DEF MakeEndpoints
  <2>2. /\ result' = Table!Given(EndpointsOf(claims, f))
        /\ pc' = "idle" /\ claims' = <<>> /\ left' = 0 /\ ports' = {}
        /\ pc = "pick" /\ UNCHANGED available_ports
    BY <1>4, <2>1 DEF MakeEndpoints, Return
  <2>3. /\ result'.ok = TRUE
        /\ result'.endpoints = EndpointsOf(claims, f)
    BY <2>2 DEF Table!Given
  <2>4. \A e \in EndpointsOf(claims, f) :
           /\ e.local_port \in LocalPorts(claims)
           /\ e.remote_port = f[e.local_port]
    BY DEF EndpointsOf, LocalPorts
  <2>5. \A a \in LocalPorts(claims) : f[a] \in ports
    BY DEF Pairings
  <2>6. \A a, b \in LocalPorts(claims) : f[a] = f[b] => a = b
    BY DEF Pairings
  <2>7. RemotePorts(result'.endpoints) \subseteq PortRange
    BY <2>3, <2>4, <2>5 DEF RemotePorts
  <2>8. GrantIsSound'
    BY <2>2, <2>3, <2>4, <2>5, <2>6 DEF PortRange
  <2> QED
    BY <2>2, <2>3, <2>7, <2>8 DEF PortRange
<1>5. ASSUME NEW port \in AnyPort, release_port(port)
      PROVE  IInv'
  <2>1. /\ pc = "idle" /\ UNCHANGED <<pc, claims, left, ports>>
        /\ result' \in {Table!Done, Table!Err}
        /\ available_ports' \in SUBSET PortRange
    BY <1>5 DEF release_port, Releasable
  <2>2. result'.ok \in BOOLEAN /\ result'.endpoints = {}
    BY <2>1, PlainReplies
  <2> QED
    BY <2>1, <2>2, PlainReplies DEF PortRange
<1>6. CASE UNCHANGED vars
  BY <1>6 DEF vars, PortRange
<1> QED
  BY <1>1, <1>2, <1>3, <1>4, <1>5, <1>6 DEF Next

LEMMA Invariance == Spec => []IInv
<1> QED
  BY InvariantHoldsInitially, InvariantIsKept, PTL DEF Spec

\* The table never leaves the configured range, nor do the ports returned.
THEOREM TypeCorrect == Spec => []TypeOK
<1>1. IInv => TypeOK
  BY DEF IInv
<1> QED
  BY <1>1, Invariance, PTL

\* The branch of allocate_ports that rolls back (port_allocator.rs:100) is
\* never taken, whatever the range and the claims.
THEOREM RollBackIsDead == Spec => []NeverRollsBack
  BY RoomIsLeft, Invariance, PTL

\* Endpoints that allocate_ports returns have been taken out of the table,
\* and only TCP and UDP of one local port share a remote port.
THEOREM GrantsAreSound == Spec => []GrantIsSound
<1>1. IInv => GrantIsSound
  BY DEF IInv
<1> QED
  BY <1>1, Invariance, PTL
------------------------------------------------------------------------------
LEMMA InitRefines == Init => Table!Init
  BY DEF Init, Table!Init

\* PortTable reads the claims as PortAllocator does.
LEMMA SameData ==
    /\ \A cs, S : Table!ValidClaims(cs, S) = ValidClaims(cs, S)
    /\ \A cs, S : Table!Pairings(cs, S) = Pairings(cs, S)
    /\ \A cs, f : Table!EndpointsOf(cs, f) = EndpointsOf(cs, f)
    /\ \A cs : Table!LocalPorts(cs) = LocalPorts(cs)
  BY DEF Table!ValidClaims, ValidClaims, Table!Pairings, Pairings,
         Table!EndpointsOf, EndpointsOf, Table!LocalPorts, LocalPorts,
         Table!Cardinality, Cardinality

\* A step of the allocator is a call of PortTable or leaves it unchanged.
LEMMA StepRefines ==
    IInv /\ [Next]_vars => [Table!Next]_(Table!vars)
<1> SUFFICES ASSUME IInv, [Next]_vars
             PROVE  Table!Next \/ UNCHANGED Table!vars
  BY DEF Table!vars
<1> USE DEF IInv, TypeOK, Disjoint, Count
<1>1. CASE allocate_port
  <2>1. available_ports \union ports = available_ports /\ ports' = {}
    BY <1>1 DEF allocate_port
  <2>2. Table!TakeOne
    BY <1>1, <2>1 DEF allocate_port, Table!TakeOne
  <2> QED
    BY <2>2 DEF Table!Next
<1>2. ASSUME NEW cs \in ClaimLists, allocate_ports(cs)
      PROVE  Table!Next \/ UNCHANGED Table!vars
  <2>1. /\ available_ports \union ports = available_ports
        /\ UNCHANGED <<available_ports, ports>>
    BY <1>2 DEF allocate_ports
  <2>2. CASE ValidClaims(cs, available_ports)
    BY <1>2, <2>1, <2>2 DEF allocate_ports, Table!vars
  <2>3. CASE ~ ValidClaims(cs, available_ports)
    <3>1. Table!Refuse(cs)
      BY <1>2, <2>1, <2>3, SameData DEF allocate_ports, Table!Refuse
    <3> QED
      BY <3>1 DEF Table!Next
  <2> QED
    BY <2>2, <2>3
<1>3. CASE PickPort
  <2>1. available_ports # {}
    BY <1>3, RoomIsLeft DEF PickPort, NeverRollsBack
  <2>2. UNCHANGED <<available_ports \union ports, result>>
    BY <1>3, <2>1 DEF PickPort
  <2> QED
    BY <2>2 DEF Table!vars
<1>4. CASE MakeEndpoints
  <2> DEFINE table == available_ports \union ports
  <2>1. PICK f \in Pairings(claims, ports) :
           Return(Table!Given(EndpointsOf(claims, f)))
    BY <1>4 DEF MakeEndpoints
  <2>2. /\ result' = Table!Given(EndpointsOf(claims, f))
        /\ ports' = {} /\ UNCHANGED available_ports
        /\ pc = "pick" /\ left = 0
    BY <1>4, <2>1 DEF MakeEndpoints, Return
  <2>3. Cardinality(ports) = Cardinality(LocalPorts(claims))
    BY <2>2, PartsAreFinite
  <2>4. {f[a] : a \in LocalPorts(claims)} = ports
    BY <2>2, <2>3, PairingUsesAll
  <2>5. f \in Pairings(claims, table)
    BY DEF Pairings
  <2>6. table' = table \ {f[a] : a \in LocalPorts(claims)}
    BY <2>2, <2>4
  <2>7. Table!Grant(claims)
    BY <2>2, <2>5, <2>6, SameData DEF Table!Grant
  <2> QED
    BY <2>2, <2>7 DEF Table!Next
<1>5. ASSUME NEW port \in AnyPort, release_port(port)
      PROVE  Table!Next \/ UNCHANGED Table!vars
  <2>1. available_ports \union ports = available_ports /\ ports' = {}
    BY <1>5 DEF release_port
  <2>2. Table!PutBack(port)
    BY <1>5, <2>1 DEF release_port, Releasable, Table!PutBack
  <2> QED
    BY <2>2 DEF Table!Next
<1>6. CASE UNCHANGED vars
  BY <1>6 DEF vars, Table!vars
<1> QED
  BY <1>1, <1>2, <1>3, <1>4, <1>5, <1>6 DEF Next

\* allocate_ports, iteration by iteration and with its roll-back, is one
\* atomic grant or refusal of PortTable.
THEOREM AllocatorImplementsTable == Spec => ImplementsTable
  BY InitRefines, StepRefines, Invariance, PTL
     DEF Spec, ImplementsTable, Table!Spec
==============================================================================
