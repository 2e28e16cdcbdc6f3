--------------------------- MODULE ClientRegistry ---------------------------
(***************************************************************************)
(* What a server and its clients promise each other (ServerIface and       *)
(* ClientIface): a client joins once, speaks while it is connected, leaves *)
(* once and is deleted after that; the server knows whom to tell.          *)
(*                                                                         *)
(* A message may be handled long after it was sent, and whoever sent it is *)
(* then registered, also when it has left.                                 *)
(*                                                                         *)
(* LocalServer, with any clients, and NetServer, with any game server,     *)
(* implement this module: each stands for what it leaves out of the other. *)
(***************************************************************************)
CONSTANT Clients

VARIABLES life,        \* per client: "new", "connected", "removed" or "deleted"
          spoke,       \* the clients that have sent a message
          registered   \* the clients that updates go to

vars == <<life, spoke, registered>>

Init ==
  /\ life = [c \in Clients |-> "new"]
  /\ spoke = {}
  /\ registered = {}

Becomes(c, from, to) == life[c] = from /\ life' = [life EXCEPT ![c] = to]

(* addClient. *)
Join(c) ==
  /\ Becomes(c, "new", "connected")
  /\ registered' = registered \cup {c}
  /\ UNCHANGED spoke

(* pushMessage. *)
Speak(c) ==
  /\ life[c] = "connected"
  /\ spoke' = spoke \cup {c}
  /\ UNCHANGED <<life, registered>>

(* The server handles a message of c. *)
Hear(c) ==
  /\ c \in spoke
  /\ registered' = registered \cup {c}
  /\ UNCHANGED <<life, spoke>>

(* removeClient. *)
Leave(c) ==
  /\ Becomes(c, "connected", "removed")
  /\ registered' = registered \ {c}
  /\ UNCHANGED spoke

(* The client deletes itself. *)
Die(c) == Becomes(c, "removed", "deleted") /\ UNCHANGED <<spoke, registered>>

Next == \E c \in Clients : Join(c) \/ Speak(c) \/ Hear(c) \/ Leave(c) \/ Die(c)

Spec == Init /\ [][Next]_vars
-----------------------------------------------------------------------------
(* No update passes a connected client by, and none goes to a client that  *)
(* has not joined or that has left, unless a message of its own has been   *)
(* handled meanwhile (localserver.cpp:90-121, 178-182).                    *)
RegisteredOrSpoke ==
  \A c \in Clients : /\ life[c] = "connected" => c \in registered
                     /\ c \in registered => life[c] = "connected" \/ c \in spoke
=============================================================================
