---------------------------- MODULE LocalClient -----------------------------
(***************************************************************************)
(* The client process, client/localclient.cpp and localclient_x11.cpp,     *)
(* with the drawables of client/opengl/glrender.cpp.  The main thread      *)
(* empties m_msg_queue into the renderer, handles the window's events and  *)
(* draws, once per frame, until m_finished is set; X11Platform has its      *)
(* window and how the process starts and ends.  Its server is in the       *)
(* same process (quintses.cpp) or behind RemoteServer (qntcli.cpp); this   *)
(* module has the client's actions and those of a server in the process,   *)
(* RemoteServer adds the other and closes the specification.               *)
(*                                                                         *)
(* The messages that arrive are about drawables.  A transform is a number  *)
(* from 1, and Unset is what m_matrix holds before the first.              *)
(***************************************************************************)
EXTENDS QueueOrder, Maps, Wire, X11Platform

CONSTANTS Ids,         \* the objects the server tells the client to draw
          Keys,        \* the keys the client looks at
          TransLimit,  \* bound on the number of transforms
          KeyLimit     \* bound on the number of key events

ASSUME ClientAssumption == TransLimit \in Nat /\ KeyLimit \in Nat

VARIABLES
  cliQueue,      \* m_msg_queue, oldest message first
  m_drawables,   \* std::map: per id its m_matrix
  keymap,        \* the keys that are down
  keys_changed,  \* platformEvents has seen a key
  m_finished,    \* the main loop is to end
  isLocal,       \* m_server->isLocal(), fixed when the process starts
  toServer,      \* the messages given to m_server->pushMessage, in order (a
                 \* remote server posts them)
  srvPhase,      \* a local server: "open", "closing", "closed", "lowered"
                 \* (m_running cleared) or "ended"
  asked,         \* history: what the client has been told to draw, and where
  used,          \* history: the ids it has been told to draw
  transforms,    \* history: the number of transforms so far
  keyEvents,     \* history: the number of key events so far
  userClosed     \* history: the window has been closed

mainVars == <<cliQueue, m_drawables, keymap, keys_changed, m_finished, cliPc,
              isLocal, toServer>>
feedVars == <<srvPhase, asked, used, transforms>>
userVars == <<keyEvents, userClosed>>
clientVars == <<mainVars, feedVars, userVars>>

Unset == 0

ClientInit ==
  /\ cliQueue = <<>>
  /\ m_drawables = EmptyMap
  /\ keymap = {}
  /\ keys_changed = FALSE
  /\ m_finished = FALSE
  /\ PlatformInit
  /\ isLocal \in BOOLEAN
  /\ toServer = <<>>
  /\ srvPhase = "open"
  /\ asked = EmptyMap
  /\ used = {}
  /\ transforms = 0
  /\ keyEvents = 0
  /\ userClosed = FALSE
-----------------------------------------------------------------------------
(* What a message does to a map of drawables: an object that is there is   *)
(* not added again, and a transform of one that is not is ignored.         *)
AddTo(map, msg)    == Insert(map, msg.objid, Unset)
DelFrom(map, msg)  == Erase(map, msg.objid)
(* Faulty variant: a transform makes the object it does not find. *)
TransAny(map, msg) == Assign(map, msg.objid, msg.transform)
TransIn(map, msg)  == IF msg.objid \in DOMAIN map THEN Assign(map, msg.objid, msg.transform)
                      ELSE map

Render(map, msg) == IF msg.type = "Add" THEN AddTo(map, msg)
                    ELSE IF msg.type = "Del" THEN DelFrom(map, msg)
                    ELSE TransIn(map, msg)
-----------------------------------------------------------------------------
(* The constructor with a server in the process: addClient and the request *)
(* for a player.                                                           *)
LocalStart ==
  /\ cliPc = "new"
  /\ isLocal
  /\ toServer' = Append(toServer, LoadPlayer)
  /\ cliPc' = "check"
  /\ UNCHANGED <<cliQueue, m_drawables, keymap, keys_changed, m_finished, isLocal,
                 feedVars, userVars>>

(* draw, swap the buffers, and while(!m_finished). *)
LoopCheck ==
  /\ cliPc = "check"
  /\ cliPc' = IF m_finished THEN "shutdown" ELSE "drain"
  /\ UNCHANGED <<cliQueue, m_drawables, keymap, keys_changed, m_finished, isLocal,
                 toServer, feedVars, userVars>>

(* try_pop finds a message, which goes to the renderer. *)
Dispatch ==
  /\ cliPc = "drain"
  /\ cliQueue # <<>>
  /\ m_drawables' = Render(m_drawables, NextOf(cliQueue))
  /\ cliQueue' = RestOf(cliQueue)
  /\ UNCHANGED <<keymap, keys_changed, m_finished, cliPc, isLocal, toServer,
                 feedVars, userVars>>

(* try_pop finds none; platformEvents begins. *)
Drained ==
  /\ cliPc = "drain"
  /\ cliQueue = <<>>
  /\ keys_changed' = FALSE
  /\ cliPc' = "events"
  /\ UNCHANGED <<cliQueue, m_drawables, keymap, m_finished, isLocal, toServer,
                 feedVars, userVars>>

(* adjustKeysym. *)
Adjust(k, key_press) == IF key_press THEN keymap \cup {k} ELSE keymap \ {k}

KeyEvent(k, key_press) ==
  /\ cliPc = "events"
  /\ keyEvents < KeyLimit
  /\ keymap' = Adjust(k, key_press)
  /\ keys_changed' = TRUE
  /\ keyEvents' = keyEvents + 1
  /\ UNCHANGED <<cliQueue, m_drawables, m_finished, cliPc, isLocal, toServer,
                 feedVars, userClosed>>

CloseWindow ==
  /\ cliPc = "events"
  /\ ~userClosed
  /\ userClosed' = TRUE
  /\ m_finished' = TRUE
  /\ UNCHANGED <<cliQueue, m_drawables, keymap, keys_changed, cliPc, isLocal, toServer,
                 feedVars, keyEvents>>

(* There is no event left: the server is told of the keys. *)
(* Faulty variant: the state is not sent when no key is down. *)
InputIfHeld == IF keys_changed /\ keymap # {} THEN <<Input(keymap)>> ELSE <<>>
InputOf == IF keys_changed THEN <<Input(keymap)>> ELSE <<>>

EventsDone ==
  /\ cliPc = "events"
  /\ toServer' = toServer \o InputOf
  /\ cliPc' = "check"
  /\ UNCHANGED <<cliQueue, m_drawables, keymap, keys_changed, m_finished, isLocal,
                 feedVars, userVars>>

(* After the loop a local server is asked to shut down; both kinds are     *)
(* then waited for.                                                        *)
LeaveLoop ==
  /\ cliPc = "shutdown"
  /\ toServer' = IF isLocal THEN Append(toServer, Shutdown) ELSE toServer
  /\ cliPc' = "stop"
  /\ UNCHANGED <<cliQueue, m_drawables, keymap, keys_changed, m_finished, isLocal,
                 feedVars, userVars>>

LocalWait ==
  /\ cliPc = "stop"
  /\ isLocal
  /\ srvPhase \in {"lowered", "ended"}
  /\ cliPc' = "delete"
  /\ UNCHANGED <<cliQueue, m_drawables, keymap, keys_changed, m_finished, isLocal,
                 toServer, feedVars, userVars>>

MainStep ==
  \/ LocalStart
  \/ LoopCheck
  \/ Dispatch
  \/ Drained
  \/ \E k \in Keys, key_press \in BOOLEAN : KeyEvent(k, key_press)
  \/ CloseWindow
  \/ EventsDone
  \/ LeaveLoop
  \/ LocalWait
-----------------------------------------------------------------------------
(* The server's side: an id is announced once and removed at most once,    *)
(* and transforms also go to clients that were not told of the object      *)
(* (LocalServer).                                                          *)
Feed(msg) ==
  /\ \/ /\ msg.type = "Add"
        /\ msg.objid \notin used
        /\ used' = used \cup {msg.objid}
        /\ asked' = Assign(asked, msg.objid, Unset)
        /\ UNCHANGED transforms
     \/ /\ msg.type = "Del"
        /\ msg.objid \in DOMAIN asked
        /\ asked' = Erase(asked, msg.objid)
        /\ UNCHANGED <<used, transforms>>
     \/ /\ msg.type = "Trans"
        /\ transforms < TransLimit
        /\ transforms' = transforms + 1
        /\ asked' = [id \in DOMAIN asked |-> IF id = msg.objid THEN msg.transform
                                            ELSE asked[id]]
        /\ UNCHANGED used
  /\ UNCHANGED srvPhase

ServerMsgs == {AddDrawable(id) : id \in Ids} \cup {DelDrawable(id) : id \in Ids}
                \cup {TransDrawable(id, transforms + 1) : id \in Ids}

(* ClientIface::pushMessage. *)
PushMessage(msg) ==
  /\ cliQueue' = Append(cliQueue, msg)
  /\ UNCHANGED <<m_drawables, keymap, keys_changed, m_finished, cliPc, isLocal, toServer>>

(* ClientIface::serverClosed. *)
ServerClosed ==
  /\ m_finished' = TRUE
  /\ UNCHANGED <<cliQueue, m_drawables, keymap, keys_changed, cliPc, isLocal, toServer>>

(* The main thread has not called addClient yet. *)
Starting == {"display", "config", "visual", "window", "context", "loader", "waitLoader", "new"}

LocalFeed ==
  /\ isLocal
  /\ cliPc \notin Starting
  /\ srvPhase = "open"
  /\ \E msg \in ServerMsgs : Feed(msg) /\ PushMessage(msg)
  /\ UNCHANGED userVars

(* The server handles the shutdown message, calls serverClosed and ends.   *)
LocalShutdown ==
  /\ srvPhase = "open"
  /\ Shutdown \in Contents(toServer)
  /\ srvPhase' = "closing"
  /\ UNCHANGED <<mainVars, asked, used, transforms, userVars>>

LocalClosed ==
  /\ srvPhase = "closing"
  /\ ServerClosed
  /\ srvPhase' = "closed"
  /\ UNCHANGED <<asked, used, transforms, userVars>>

LocalLowered ==
  /\ srvPhase = "closed"
  /\ srvPhase' = "lowered"
  /\ UNCHANGED <<mainVars, asked, used, transforms, userVars>>

(* The thread of a server clears m_running under the lock and notifies     *)
(* after it, and by then waitForTermination may have returned and main may *)
(* have deleted the server, its condition variable with it.  What a notify *)
(* of a dead condition variable does is undefined: nothing, or the process *)
(* dies.                                                                   *)
ServerDeleted == cliPc \in {"finish", "gone"}

LastNotify ==
  /\ cliPc' \in {cliPc} \cup (IF ServerDeleted THEN {"aborted"} ELSE {})
  /\ UNCHANGED <<cliQueue, m_drawables, keymap, keys_changed, m_finished, isLocal, toServer>>

LocalNotify ==
  /\ srvPhase = "lowered"
  /\ LastNotify
  /\ srvPhase' = "ended"
  /\ UNCHANGED <<asked, used, transforms, userVars>>

LocalServerStep == LocalShutdown \/ LocalClosed \/ LocalLowered \/ LocalNotify
=============================================================================
