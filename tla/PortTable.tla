------------------------------ MODULE PortTable ------------------------------
(***************************************************************************)
(* What the port allocator promises its callers, one atomic step per call: *)
(* a granted claim list takes fresh ports out of the table, one for each   *)
(* local port, and a refused one takes none.  PortAllocator implements it. *)
(***************************************************************************)
EXTENDS EndpointClaims

CONSTANTS
    PortRange,    \* the ports the server may hand out
    ClaimLists,   \* the claim lists clients send
    AnyPort       \* the ports release_port is called with

VARIABLES
    table,        \* ports nobody holds
    reply         \* what the last call returned

vars == <<table, reply>>

Err       == [ok |-> FALSE, endpoints |-> {}]
Done      == [ok |-> TRUE,  endpoints |-> {}]
Given(es) == [ok |-> TRUE,  endpoints |-> es]

Init ==
    /\ table = PortRange
    /\ reply = Done

Grant(claims) ==
    \E f \in Pairings(claims, table) :
        /\ ValidClaims(claims, table)
        /\ table' = table \ {f[a] : a \in LocalPorts(claims)}
        /\ reply' = Given(EndpointsOf(claims, f))

Refuse(claims) ==
    /\ ~ ValidClaims(claims, table)
    /\ reply' = Err
    /\ UNCHANGED table

TakeOne ==
    \/ \E p \in table : table' = table \ {p} /\ reply' = Done
    \/ table = {} /\ reply' = Err /\ UNCHANGED table

PutBack(p) ==
    IF p \in PortRange \ table
    THEN table' = table \union {p} /\ reply' = Done
    ELSE reply' = Err /\ UNCHANGED table

Next ==
    \/ \E claims \in ClaimLists : Grant(claims) \/ Refuse(claims)
    \/ TakeOne
    \/ \E p \in AnyPort : PutBack(p)

Spec == Init /\ [][Next]_vars
=============================================================================
