----------------------------- MODULE MCTcpTunnel -----------------------------
(* Instances of TcpTunnel: one stream, whose states are many; streams share *)
(* the two channels and nothing else.                                       *)
EXTENDS TcpTunnel
==============================================================================
