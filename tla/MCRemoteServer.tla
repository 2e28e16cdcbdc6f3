--------------------------- MODULE MCRemoteServer ---------------------------
(***************************************************************************)
(* RemoteServer with one object, which is added, moved and deleted, and    *)
(* a key that is pressed and released.                                     *)
(***************************************************************************)
EXTENDS RemoteServer

MCIds == {1}
MCKeys == {"left"}
=============================================================================
