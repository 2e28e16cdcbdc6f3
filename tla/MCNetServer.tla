---------------------------- MODULE MCNetServer -----------------------------
(***************************************************************************)
(* NetServer with two clients, each of which sends one message, and one    *)
(* update: enough for a write, a read and a deletion of one client to be   *)
(* pending together, and for a client that is told of the other's removal. *)
(***************************************************************************)
EXTENDS NetServer

CONSTANTS c1, c2

MCClients == {c1, c2}
=============================================================================
