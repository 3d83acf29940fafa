----------------------------- MODULE MCUdpTunnel -----------------------------
(* Instances of UdpTunnel: two peers, each with an endpoint of its own, or    *)
(* the second sends to both.                                                  *)
EXTENDS UdpTunnel

CONSTANTS p1, p2, e1, e2

MCApart == {<<p1, e1>>, <<p2, e2>>}
MCRoutes == {<<p1, e1>>, <<p2, e1>>, <<p2, e2>>}
==============================================================================
