-------------------------- MODULE MCLocklessQueue --------------------------
(***************************************************************************)
(* Instance of LocklessQueue for TLC: two pushing threads, three messages  *)
(* and three addresses, so that an address freed by the consumer is        *)
(* allocated again while another push still holds it as head->next.        *)
(***************************************************************************)
EXTENDS LocklessQueue
=============================================================================
