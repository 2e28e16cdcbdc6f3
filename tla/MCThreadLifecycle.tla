------------------------- MODULE MCThreadLifecycle --------------------------
(***************************************************************************)
(* Instance of ThreadLifecycle for TLC: more than one thread waits for the *)
(* end, so that one notification has to wake them all.                     *)
(***************************************************************************)
EXTENDS ThreadLifecycle
=============================================================================
