--------------------------- MODULE MCControlServer ---------------------------
(* Claim lists for the runs of ControlServer: one TCP endpoint, and TCP and *)
(* UDP of one local port, which share a remote port.                        *)
EXTENDS ControlServer, TLC

Claim(port, proto) ==
    [local_port |-> port, protocol |-> proto, remote_port |-> 0]

OneTCP == <<Claim(1, "TCP")>>
Shared == <<Claim(1, "TCP"), Claim(1, "UDP")>>

MCOneClaim     == {OneTCP}
MCSharedClaims == {Shared}

ConnSymmetry == Permutations(Conns)
==============================================================================
