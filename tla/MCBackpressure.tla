--------------------------- MODULE MCBackpressure ----------------------------
(* Constants for the run of Backpressure: one connected client, and one     *)
(* whose window is over for the cleanup to find.                            *)
EXTENDS Backpressure

CONSTANTS c1, c2

MCClients == {c1}
MCExpired == {c2}
==============================================================================
