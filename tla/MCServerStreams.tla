--------------------------- MODULE MCServerStreams ---------------------------
(* Claim lists for the runs of ServerStreams: one TCP endpoint.             *)
EXTENDS ServerStreams, TLC

MCOneClaim == {<<[local_port |-> 1, protocol |-> "TCP", remote_port |-> 0]>>}

Symmetry == Permutations(Conns) \union Permutations(Streams)
==============================================================================
