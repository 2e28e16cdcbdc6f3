--------------------------- MODULE MCLockedQueue ----------------------------
(***************************************************************************)
(* Instance of LockedQueue for TLC: two pushing threads, so that one can   *)
(* push between another's push and its signal.                             *)
(***************************************************************************)
EXTENDS LockedQueue
=============================================================================
