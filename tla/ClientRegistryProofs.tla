------------------------ MODULE ClientRegistryProofs ------------------------
(***************************************************************************)
(* What follows from ClientRegistry, and so holds of LocalServer and of    *)
(* NetServer as far as they implement it.                                  *)
(***************************************************************************)
EXTENDS ClientRegistry, TLAPS

RegistryInv ==
  /\ life \in [Clients -> {"new", "connected", "removed", "deleted"}]
  /\ RegisteredOrSpoke

LEMMA RegistryInvInit == Init => RegistryInv
BY DEF Init, RegistryInv, RegisteredOrSpoke

LEMMA RegistryInvStep == RegistryInv /\ [Next]_vars => RegistryInv'
<1> SUFFICES ASSUME RegistryInv, [Next]_vars PROVE RegistryInv'
  OBVIOUS
<1> USE DEF RegistryInv, RegisteredOrSpoke
<1>1. ASSUME NEW c \in Clients, Join(c) PROVE RegistryInv'
  BY <1>1 DEF Join, Becomes
<1>2. ASSUME NEW c \in Clients, Speak(c) PROVE RegistryInv'
  BY <1>2 DEF Speak
<1>3. ASSUME NEW c \in Clients, Hear(c) PROVE RegistryInv'
  BY <1>3 DEF Hear
<1>4. ASSUME NEW c \in Clients, Leave(c) PROVE RegistryInv'
  BY <1>4 DEF Leave, Becomes
<1>5. ASSUME NEW c \in Clients, Die(c) PROVE RegistryInv'
  BY <1>5 DEF Die, Becomes
<1>6. CASE UNCHANGED vars
  BY <1>6 DEF vars
<1> QED
  BY <1>1, <1>2, <1>3, <1>4, <1>5, <1>6 DEF Next

(* Whatever implements the registry passes no connected client by, and     *)
(* tells nobody who has not joined or has left, unless a message of its    *)
(* own was handled meanwhile (localserver.cpp:90-121, 178-182).            *)
THEOREM RegistryIsTrue == Spec => []RegisteredOrSpoke
<1>1. RegistryInv => RegisteredOrSpoke
  BY DEF RegistryInv
<1> QED
  BY RegistryInvInit, RegistryInvStep, <1>1, PTL DEF Spec
=============================================================================
