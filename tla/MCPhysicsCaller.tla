-------------------------- MODULE MCPhysicsCaller ---------------------------
(***************************************************************************)
(* Instance of PhysicsCaller for TLC: two characters and one static object *)
(* in at most five calls.                                                  *)
(***************************************************************************)
EXTENDS PhysicsCaller
=============================================================================
