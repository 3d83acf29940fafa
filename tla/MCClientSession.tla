--------------------------- MODULE MCClientSession ---------------------------
(* Two ids: one client whose first hello may get lost on its way back.  The  *)
(* loop is not bounded.                                                      *)
EXTENDS ClientSession
==============================================================================
