---------------------------- MODULE PortAllocator ----------------------------
(***************************************************************************)
(* ownserver_server/src/port_allocator.rs.  A call runs under the store's  *)
(* alloc mutex; allocate_ports is modelled one loop iteration per step so  *)
(* that the roll-back branch is there to be (not) reached.                 *)
(***************************************************************************)
EXTENDS EndpointClaims

CONSTANTS
    RangeStart, RangeEnd,   \* Range<u16>, half-open
    ClaimLists,             \* the claim lists clients send
    AnyPort                 \* the ports release_port is called with

ASSUME RangeAssumption == RangeStart \in Nat /\ RangeEnd \in Nat

ASSUME ClaimAssumption ==
    ClaimLists \subseteq
        Seq([local_port : Nat, protocol : Protocols, remote_port : Nat])

ASSUME AnyPortAssumption == AnyPort \subseteq Nat

PortRange == RangeStart .. (RangeEnd - 1)

VARIABLES
    available_ports,  \* the allocator's table
    pc,               \* "idle", or "pick" inside allocate_ports
    claims,           \* allocate_ports: its argument
    left,             \* allocate_ports: iterations left of `for _ in 0..num_ports`
    ports,            \* allocate_ports: ports picked so far
    result            \* value returned by the last call

vars == <<available_ports, pc, claims, left, ports, result>>

Table == INSTANCE PortTable
            WITH table <- available_ports \union ports, reply <- result

TypeOK ==
    /\ available_ports \in SUBSET PortRange
    /\ pc \in {"idle", "pick"}
    /\ claims \in ClaimLists \union {<<>>}
    /\ left \in Nat
    /\ ports \in SUBSET PortRange
    /\ result.ok \in BOOLEAN
    /\ RemotePorts(result.endpoints) \subseteq PortRange
------------------------------------------------------------------------------
Init ==
    /\ available_ports = PortRange
    /\ pc = "idle"
    /\ claims = <<>>
    /\ left = 0
    /\ ports = {}
    /\ result = Table!Done

allocate_port ==
    /\ pc = "idle"
    /\ IF available_ports = {}
       THEN result' = Table!Err /\ UNCHANGED available_ports
       ELSE \E n \in available_ports :
               /\ available_ports' = available_ports \ {n}
               /\ result' = Table!Done
    /\ UNCHANGED <<pc, claims, left, ports>>

\* allocate_ports up to its loop: aggregate and validate.
allocate_ports(client_claims) ==
    /\ pc = "idle"
    /\ IF ValidClaims(client_claims, available_ports)
       THEN /\ pc' = "pick"
            /\ claims' = client_claims
            /\ left' = Cardinality(LocalPorts(client_claims))
            /\ UNCHANGED result
       ELSE /\ result' = Table!Err
            /\ UNCHANGED <<pc, claims, left>>
    /\ UNCHANGED <<available_ports, ports>>

Return(value) ==
    /\ pc' = "idle"
    /\ claims' = <<>>
    /\ left' = 0
    /\ ports' = {}
    /\ result' = value

\* One iteration; with nothing to choose the picked ports go back.
PickPort ==
    /\ pc = "pick"
    /\ left > 0
    /\ IF available_ports = {}
       THEN /\ available_ports' = available_ports \union ports
            /\ Return(Table!Err)
       ELSE /\ \E n \in available_ports :
                  /\ available_ports' = available_ports \ {n}
                  /\ ports' = ports \union {n}
            /\ left' = left - 1
            /\ UNCHANGED <<pc, claims, result>>

\* After the loop: zip the aggregated claims with the picked ports.
MakeEndpoints ==
    /\ pc = "pick"
    /\ left = 0
    /\ \E f \in Pairings(claims, ports) :
          Return(Table!Given(EndpointsOf(claims, f)))
    /\ UNCHANGED available_ports

\* Mutant: any port that is not available can be released.
ReleasableAnywhere(port) == port \notin available_ports

Releasable(port) == port \in PortRange /\ port \notin available_ports

release_port(port) ==
    /\ pc = "idle"
    /\ IF Releasable(port)
       THEN /\ available_ports' = available_ports \union {port}
            /\ result' = Table!Done
       ELSE /\ result' = Table!Err
            /\ UNCHANGED available_ports
    /\ UNCHANGED <<pc, claims, left, ports>>

Next ==
    \/ allocate_port
    \/ \E client_claims \in ClaimLists : allocate_ports(client_claims)
    \/ PickPort
    \/ MakeEndpoints
    \/ \E port \in AnyPort : release_port(port)

Spec == Init /\ [][Next]_vars
------------------------------------------------------------------------------
\* The loop never finds the table empty, so the branch of allocate_ports
\* commented "should never happen" (port_allocator.rs:100) is dead code: the
\* count checked before the loop still suffices at every iteration.
NeverRollsBack ==
    (pc = "pick" /\ left > 0) => available_ports # {}

\* The endpoints just returned were all taken out of the table, they lie in
\* the range, two local ports never share a remote port, and TCP and UDP of
\* one local port always do.
GrantIsSound ==
    pc = "idle" =>
      \A d, e \in result.endpoints :
         /\ d.remote_port \in PortRange \ available_ports
         /\ d.local_port = e.local_port <=> d.remote_port = e.remote_port

\* The loop, with its roll-back, does what callers are promised: a call is
\* one atomic step of PortTable, and a refused call takes nothing.
ImplementsTable == Table!Spec
==============================================================================
