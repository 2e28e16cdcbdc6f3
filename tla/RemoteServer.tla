---------------------------- MODULE RemoteServer ----------------------------
(***************************************************************************)
(* The server's proxy in the client process, client/remoteserver.cpp, with *)
(* the client.  Its thread runs an io_service: messages of the client are  *)
(* posted to it and written to the socket, and messages read from the      *)
(* socket go to the client.  io_service::run returns when it is stopped or *)
(* has nothing left to do, and does nothing more once it has returned.     *)
(*                                                                         *)
(* The peer is a server on the other end of a TCP connection: what it      *)
(* writes, field by field, arrives in order, and it may close at any time, *)
(* inside a message as well.  The fields after the type are read with a    *)
(* call that blocks the thread until they arrive.  A connection that cannot*)
(* be made, and one that breaks inside a message that is being read, throw *)
(* an exception nobody catches, which ends the process.                    *)
(***************************************************************************)
EXTENDS LocalClient

VARIABLES
  m_running,  \* the thread runs
  proxyPc,    \* "none", "start", "run", "body" (in readMsg), "closed", "lower",
              \* "notify" (m_running cleared) or "down"
  stopped,    \* the io_service has been stopped
  handlers,   \* the posted calls of writeMsg, oldest first
  reading,    \* an async_read is under way
  m_next_msg_type, \* what it has read
  wire,       \* the fields that have arrived from the peer
  unsent,     \* the fields the peer has still to write
  peer,       \* the peer's end of the connection: "open" or "closed"
  written     \* the fields written to the socket

ioVars == <<stopped, handlers, reading>>
peerVars == <<wire, unsent, peer>>
netVars == <<m_next_msg_type, peerVars, written>>
proxyVars == <<m_running, proxyPc, ioVars, netVars>>
vars == <<clientVars, platformVars, proxyVars>>

Init ==
  /\ ClientInit
  /\ m_running = FALSE
  /\ proxyPc = "none"
  /\ stopped = FALSE
  /\ handlers = <<>>
  /\ reading = FALSE
  /\ m_next_msg_type = 0
  /\ wire = <<>>
  /\ unsent = <<>>
  /\ peer = "open"
  /\ written = <<>>
-----------------------------------------------------------------------------
(* A step of the main thread: in a remote server the messages it pushes    *)
(* are posted.                                                             *)
PostedBy(step) == SubSeq(step, Len(toServer) + 1, Len(step))

Post(msgs) == handlers \o msgs

ClientStep ==
  /\ cliPc # "aborted"
  /\ MainStep
  /\ handlers' = IF isLocal THEN handlers ELSE Post(PostedBy(toServer'))
  /\ UNCHANGED <<m_running, proxyPc, stopped, reading, netVars>>

(* What the steps below change of the client is where its main thread is,  *)
(* if anything.                                                            *)
Go(from, to) ==
  /\ cliPc = from
  /\ cliPc' = to
  /\ UNCHANGED <<cliQueue, m_drawables, keymap, keys_changed, m_finished, isLocal,
                 feedVars, userVars>>

(* addClient connects and starts the thread... *)
Connect ==
  /\ ~isLocal
  /\ \/ Go("new", "waitRunning") /\ proxyPc' = "start"
     \/ Go("new", "aborted") /\ UNCHANGED proxyPc
  /\ UNCHANGED <<toServer, m_running, ioVars, netVars>>

(* ... waits until it runs, and only then gives the io_service something   *)
(* to do.  A thread that has run and ended before the wait looks leaves it *)
(* waiting.                                                                *)
SeeRunning ==
  /\ m_running
  /\ Go("waitRunning", "startRead")
  /\ UNCHANGED <<toServer, proxyVars>>

StartRead ==
  /\ Go("startRead", "load")
  /\ reading' = TRUE
  /\ UNCHANGED <<toServer, m_running, proxyPc, stopped, handlers, netVars>>

PostLoadPlayer ==
  /\ Go("load", "check")
  /\ toServer' = Append(toServer, LoadPlayer)
  /\ handlers' = Post(<<LoadPlayer>>)
  /\ UNCHANGED <<m_running, proxyPc, stopped, reading, netVars>>

(* Faulty variant: the io_service is not stopped. *)
LeaveService ==
  /\ ~isLocal
  /\ Go("stop", "wait")
  /\ UNCHANGED <<toServer, proxyVars>>

(* waitForTermination stops the io_service and waits. *)
StopService ==
  /\ ~isLocal
  /\ Go("stop", "wait")
  /\ stopped' = TRUE
  /\ UNCHANGED <<toServer, m_running, proxyPc, handlers, reading, netVars>>

(* Faulty variant: the wait is skipped. *)
SkipWait == Go("wait", "delete") /\ UNCHANGED <<toServer, proxyVars>>

SeeEnded ==
  /\ ~m_running
  /\ Go("wait", "delete")
  /\ UNCHANGED <<toServer, proxyVars>>
-----------------------------------------------------------------------------
(* The thread, RemoteServer::run. *)
ProxyUp ==
  /\ proxyPc = "start"
  /\ m_running' = TRUE
  /\ proxyPc' = "run"
  /\ UNCHANGED <<clientVars, ioVars, netVars>>

(* io_service::run returns: it is stopped or there is no work. *)
RunReturns ==
  /\ proxyPc = "run"
  /\ stopped \/ (handlers = <<>> /\ ~reading)
  /\ stopped' = TRUE
  /\ proxyPc' = "closed"
  /\ UNCHANGED <<clientVars, m_running, handlers, reading, netVars>>

Running == proxyPc = "run" /\ ~stopped

(* Faulty variant: the thread waits for a message before it writes. *)
ReadPending == handlers # <<>> /\ wire # <<>>
WritePending == handlers # <<>>

(* writeMsg.  A write that fails, in any of the fields, stops the          *)
(* io_service; those before it reach nobody.                               *)
WriteMsg ==
  /\ Running
  /\ WritePending
  /\ handlers' = Tail(handlers)
  /\ \/ written' = written \o Encode(ServerMsg, Head(handlers)) /\ UNCHANGED stopped
     \/ peer = "closed" /\ stopped' = TRUE /\ UNCHANGED written
  /\ UNCHANGED <<clientVars, m_running, proxyPc, reading, m_next_msg_type, peerVars>>

(* The type of a message has been read, and readMsg is called... *)
ReadType ==
  /\ Running
  /\ reading
  /\ wire # <<>>
  /\ m_next_msg_type' = Head(wire).value
  /\ wire' = Tail(wire)
  /\ proxyPc' = "body"
  /\ UNCHANGED <<clientVars, m_running, ioVars, unsent, peer, written>>

(* ... which reads the rest, passes the message on and starts to read the  *)
(* next.                                                                   *)
NextType == TypeOf(ClientMsg, m_next_msg_type)

ReadMsg ==
  /\ proxyPc = "body"
  /\ Arrived(NextType, wire)
  /\ PushMessage(Body(NextType, wire))
  /\ wire' = AfterBody(NextType, wire)
  /\ proxyPc' = "run"
  /\ UNCHANGED <<feedVars, userVars, m_running, ioVars, m_next_msg_type, unsent, peer, written>>

(* The peer has closed: the read of a type fails, or that of the rest,     *)
(* which nothing catches.                                                  *)
ReadError ==
  /\ Running
  /\ reading
  /\ wire = <<>>
  /\ peer = "closed"
  /\ reading' = FALSE
  /\ stopped' = TRUE
  /\ UNCHANGED <<clientVars, m_running, proxyPc, handlers, netVars>>

ReadThrows ==
  /\ proxyPc = "body"
  /\ ~Arrived(NextType, wire)
  /\ peer = "closed"
  /\ cliPc' = "aborted"
  /\ UNCHANGED <<cliQueue, m_drawables, keymap, keys_changed, m_finished, isLocal,
                 toServer, feedVars, userVars, proxyVars>>

(* m_client->serverClosed(). *)
ProxyClosed ==
  /\ proxyPc = "closed"
  /\ ServerClosed
  /\ proxyPc' = "lower"
  /\ UNCHANGED <<feedVars, userVars, m_running, ioVars, netVars>>

(* From here on nobody reads what arrives. *)
ProxyLower ==
  /\ proxyPc = "lower"
  /\ m_running' = FALSE
  /\ proxyPc' = "notify"
  /\ wire' = <<>> /\ unsent' = <<>>
  /\ UNCHANGED <<clientVars, ioVars, m_next_msg_type, peer, written>>

ProxyNotify ==
  /\ proxyPc = "notify"
  /\ LastNotify
  /\ proxyPc' = "down"
  /\ UNCHANGED <<feedVars, userVars, m_running, ioVars, netVars>>
-----------------------------------------------------------------------------
(* The peer: writeMsg of its RemoteClient, which writes the type of a      *)
(* message and then the fields.                                            *)
PeerFeed ==
  /\ proxyPc \notin {"none", "notify", "down"}
  /\ peer = "open"
  /\ unsent = <<>>
  /\ \E msg \in ServerMsgs : /\ Feed(msg)
                            /\ wire' = wire \o SubSeq(Encode(ClientMsg, msg), 1, 1)
                            /\ unsent' = Tail(Encode(ClientMsg, msg))
  /\ UNCHANGED <<mainVars, userVars, m_running, proxyPc, ioVars, m_next_msg_type, peer, written>>

PeerWrites ==
  /\ peer = "open"
  /\ unsent # <<>>
  /\ wire' = wire \o unsent
  /\ unsent' = <<>>
  /\ UNCHANGED <<clientVars, m_running, proxyPc, ioVars, m_next_msg_type, peer, written>>

(* What it wrote last may be lost with the connection. *)
PeerClose ==
  /\ proxyPc # "none"
  /\ peer = "open"
  /\ peer' = "closed"
  /\ \E n \in 0..Len(wire) : wire' = SubSeq(wire, 1, n)
  /\ unsent' = <<>>
  /\ UNCHANGED <<clientVars, m_running, proxyPc, ioVars, m_next_msg_type, written>>

(* A step that opens or closes the window; the drawables are the           *)
(* renderer's.                                                             *)
Elsewhere == UNCHANGED <<cliQueue, keymap, keys_changed, m_finished, isLocal, toServer,
                         feedVars, userVars, proxyVars>>

WindowStep ==
  /\ InitializePlatform \/ FinishLoader \/ FinalizePlatform
  /\ m_drawables' = IF "renderer" \in held' THEN m_drawables ELSE EmptyMap
  /\ Elsewhere

MainThread ==
  \/ WindowStep
  \/ /\ \/ ClientStep \/ Connect \/ SeeRunning \/ StartRead \/ PostLoadPlayer
        \/ StopService \/ SeeEnded
     /\ UNCHANGED platformVars

LoaderThread ==
  (LoaderUp \/ LoaderThrows \/ LoaderDown \/ LoaderNotify) /\ UNCHANGED m_drawables /\ Elsewhere

ProxyThread ==
  /\ \/ ProxyUp \/ RunReturns \/ WriteMsg \/ ReadType \/ ReadMsg \/ ReadError
     \/ ReadThrows \/ ProxyClosed \/ ProxyLower \/ ProxyNotify
  /\ UNCHANGED platformVars

ServerThread == LocalServerStep /\ UNCHANGED <<proxyVars, platformVars>>

Environment ==
  /\ (LocalFeed /\ UNCHANGED proxyVars) \/ PeerFeed \/ PeerWrites \/ PeerClose
  /\ UNCHANGED platformVars

Next ==
  cliPc # "aborted" /\ (MainThread \/ LoaderThread \/ ProxyThread \/ ServerThread \/ Environment)

Spec == Init /\ [][Next]_vars

(* The threads run.  The user owes no event; of the server it is only      *)
(* assumed that a shutdown message ends it, which is ShutdownCompletes of  *)
(* LocalServer, and that a message it has begun to write gets written      *)
(* unless the connection ends, as RemoteClient::writeMsg writes it in one  *)
(* go.                                                                     *)
Alive(step) == cliPc # "aborted" /\ step

Fairness == /\ WF_vars(Alive(MainThread))
            /\ WF_vars(Alive(LoaderThread))
            /\ WF_vars(Alive(ProxyThread))
            /\ WF_vars(Alive(ServerThread))
            /\ WF_vars(Alive(PeerWrites /\ UNCHANGED platformVars))

FairSpec == Spec /\ Fairness
-----------------------------------------------------------------------------
(* What the peer has sent or is sending, and what the client has read of it *)
(* and not yet passed on.                                                   *)
UnderWay == Decode(ClientMsg, (IF proxyPc = "body" THEN Pod(4, m_next_msg_type) ELSE <<>>) \o wire \o unsent)

(* What the renderer draws after these messages. *)
Drawn(map, msgs) ==
  LET after[n \in 0..Len(msgs)] == IF n = 0 THEN map ELSE Render(after[n - 1], msgs[n])
  IN  after[Len(msgs)]

(* As long as the connection is read, what the client draws, with the      *)
(* messages still under way applied to it, is what the server asked for:   *)
(* none is lost, applied twice or out of order between the server and the  *)
(* renderer, wherever the two threads are (localclient.cpp:28-39,          *)
(* remoteserver.cpp:121-128, glrender.cpp:22-57).                          *)
DrawsWhatIsAsked ==
  (peer = "open" /\ proxyPc \notin {"notify", "down"} /\ cliPc \notin {"gone", "aborted"})
    => Drawn(m_drawables, cliQueue \o UnderWay) = asked

IsInput(msg) == msg.type = "Input"

(* The keys that are down according to a sequence of messages. *)
KeysIn(msgs) ==
  LET inputs == {i \in 1..Len(msgs) : IsInput(msgs[i])}
  IN  IF inputs = {} THEN {} ELSE msgs[CHOOSE i \in inputs : \A j \in inputs : j <= i].state

(* Between two calls of platformEvents the last input the server has been  *)
(* or will be given is the state of the keyboard, the release of the last  *)
(* key included (localclient_x11.cpp:122-165, remoteserver.cpp:60-63).     *)
ServerKnowsKeys ==
  (cliPc \notin {"events", "aborted"} /\ peer = "open")
    => KeysIn(IF isLocal THEN toServer ELSE Decode(ServerMsg, written) \o handlers) = keymap

(* The client is destroyed once no thread calls it any more: those of the  *)
(* server have passed on their last message and called serverClosed before *)
(* waitForTermination returns, whoever closes first (localclient.cpp:44-48, *)
(* remoteserver.cpp:65-88).  All they may have left to do is the last      *)
(* notify, of the server's own condition variable, and that one may come   *)
(* after the server has been deleted (ProxyNotify, LocalNotify).           *)
NoCallsAfterWait ==
  cliPc \in {"delete", "finish", "gone"}
    => IF isLocal THEN srvPhase \in {"lowered", "ended"}
                  ELSE proxyPc \in {"notify", "down"}

(* What is typed reaches the peer: however often the keys change, the      *)
(* input last written catches up with them unless the connection ends      *)
(* (remoteserver.cpp:60-63 and 92-107).                                    *)
KeysReachPeer ==
  (~isLocal /\ cliPc = "check")
    ~> (KeysIn(Decode(ServerMsg, written)) = keymap \/ stopped \/ cliPc = "aborted")

(* The client ends when the window is closed or the server goes away, at   *)
(* any moment and whichever thread notices first: the main loop is left,   *)
(* the proxy's thread comes out of a message it is reading, stops and is   *)
(* waited for (localclient.cpp:25-50, remoteserver.cpp:65-90, 109-135).    *)
(* One end is different: a thread that has run and ended before addClient  *)
(* looks leaves the constructor waiting (remoteserver.cpp:40-43).          *)
MissedIt == cliPc = "waitRunning" /\ proxyPc = "down"

EndsWhenAsked ==
  (m_finished \/ peer = "closed") ~> (cliPc \in {"gone", "aborted"} \/ MissedIt)

(* "It does not return until the server or user signals a shutdown event"  *)
(* (client/localclient.hpp:31-32): the loop is left after the window has   *)
(* been closed or the server has closed the connection.                    *)
MainloopRunsUntilSignal ==
  cliPc = "shutdown" => (userClosed \/ peer = "closed")
=============================================================================
