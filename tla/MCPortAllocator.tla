--------------------------- MODULE MCPortAllocator ---------------------------
(* Three ports; claim lists of up to four claims over four local ports,     *)
(* both protocols, with duplicates, and one claim that asks for a port.     *)
EXTENDS PortAllocator, TLC

MCClaims ==
    [local_port : {1, 2, 3, 4}, protocol : {"TCP"}, remote_port : {0}]
      \union
    {[local_port |-> 1, protocol |-> "UDP", remote_port |-> 0],
     [local_port |-> 2, protocol |-> "TCP", remote_port |-> 9]}

\* Sequences of at most four claims, of every length up to one more than the
\* number of ports.
MCClaimLists ==
    {s \in UNION {[1 .. n -> MCClaims] : n \in 0 .. 4} :
        \A i, j \in DOMAIN s :
           i < j => s[i].local_port <= s[j].local_port}
==============================================================================
