--------------------------- MODULE EndpointClaims ---------------------------
(***************************************************************************)
(* The data of an allocation: what a client claims in its hello and which  *)
(* endpoints may be granted for it.  A claim names a local port, a         *)
(* protocol and the remote port it would like (0: any).  A claim list is a *)
(* sequence, as in the code: the same claim may appear twice.              *)
(***************************************************************************)
EXTENDS Integers, FiniteSets, Sequences

Protocols == {"TCP", "UDP"}

\* HashMap keys of aggregate_claims_by_local_port: the distinct local ports.
LocalPorts(claims) == {claims[i].local_port : i \in DOMAIN claims}

\* Mutant: room is counted one too generously.
ValidClaimsOffByOne(claims, available) ==
    /\ Cardinality(LocalPorts(claims)) <= Cardinality(available) + 1
    /\ \A i, j \in DOMAIN claims : claims[i] = claims[j] => i = j

\* validate_endpoint_claims against a table with the given available ports.
ValidClaims(claims, available) ==
    /\ Cardinality(LocalPorts(claims)) <= Cardinality(available)
    /\ \A i, j \in DOMAIN claims :
          /\ claims[i].local_port = claims[j].local_port
          /\ claims[i].protocol = claims[j].protocol
          => i = j
    /\ \A i \in DOMAIN claims : claims[i].remote_port = 0

\* Mutant: the same port may be drawn twice.
PairingsNotDistinct(claims, ports) == [LocalPorts(claims) -> ports]

\* One remote port for each distinct local port: the zip of the aggregated
\* claims (in the arbitrary order of a HashMap) with the chosen ports.
Pairings(claims, ports) ==
    {f \in [LocalPorts(claims) -> ports] :
        \A a, b \in LocalPorts(claims) : f[a] = f[b] => a = b}

\* Mutant: an endpoint carries the port that was asked for.
EndpointsAsClaimed(claims, f) ==
    {[protocol    |-> claims[i].protocol,
      local_port  |-> claims[i].local_port,
      remote_port |-> claims[i].remote_port] : i \in DOMAIN claims}

\* The endpoints that a pairing gives the claims; claims of the same local
\* port (TCP and UDP) share its remote port.
EndpointsOf(claims, f) ==
    {[protocol    |-> claims[i].protocol,
      local_port  |-> claims[i].local_port,
      remote_port |-> f[claims[i].local_port]] : i \in DOMAIN claims}

RemotePorts(endpoints) == {e.remote_port : e \in endpoints}
=============================================================================
