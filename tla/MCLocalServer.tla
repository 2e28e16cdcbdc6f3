--------------------------- MODULE MCLocalServer ----------------------------
(***************************************************************************)
(* Instances of LocalServer for TLC: two clients, one of which may leave   *)
(* while the other plays, in both builds of the queue.                     *)
(***************************************************************************)
EXTENDS LocalServer
=============================================================================
