----------------------------- MODULE NetServer ------------------------------
(***************************************************************************)
(* The server process, qntsrv.cpp, with its networked clients,             *)
(* server/remoteclient.cpp.  The main thread runs an io_service: accepted  *)
(* connections, finished reads, posted writes and posted deletions are     *)
(* handlers that it calls one after the other.  The threads of the game    *)
(* server call pushMessage and serverClosed of the clients; a watcher      *)
(* thread stops the io_service when the server has ended.                  *)
(*                                                                         *)
(* Of the game server this module keeps who is registered and how it ends; *)
(* LocalServer has the rest.  Two messages of clients matter here: a load  *)
(* request registers its sender, and anyone may ask for the shutdown.  The *)
(* inbox is a set, so they are handled in any order.                       *)
(***************************************************************************)
EXTENDS Integers, Sequences, FiniteSets

CONSTANTS Clients,    \* the RemoteClient objects
          PushLimit   \* bound on the updates of the game server

ASSUME NetAssumption == PushLimit \in Nat

VARIABLES
  object,      \* per client: "none", "accepted", "alive" or "deleted"
  peer,        \* the other end of its connection: "none", "up" or "gone"
  sockOpen,    \* m_socket is open
  reading,     \* an async_read is pending
  marked,      \* m_marked_for_delete
  partial,     \* the clients of whose message only the type has arrived
  accepting,   \* an async_accept is pending
  handlers,    \* what the io_service has to call, oldest first
  stopped,     \* the io_service has been stopped
  mainPc,      \* main(): "run", "done", or "aborted" by an exception
  lobby,       \* the server's m_lobby_clients
  playing,     \* the server's m_clients
  inbox,       \* the server's m_msg_queue
  srvPc,       \* the server: "loop", "finish", "close", "end" or "ended" (m_running
               \* has been cleared)
  fault,       \* the undefined behaviour the program has run into
  spoke,       \* history: the clients that have sent their message
  late,        \* history: clients registered by a message after their removal
  shutdown,    \* history: a shutdown message has been pushed
  pushes       \* history: the number of updates so far

connVars == <<object, peer, sockOpen, reading, marked, partial>>
loopVars == <<accepting, stopped, mainPc>>
serverVars == <<lobby, playing, inbox, srvPc>>
histVars == <<spoke, late, shutdown, pushes>>
vars == <<connVars, loopVars, handlers, serverVars, fault, histVars>>

Init ==
  /\ object = [c \in Clients |-> "none"]
  /\ peer = [c \in Clients |-> "none"]
  /\ sockOpen = [c \in Clients |-> FALSE]
  /\ reading = [c \in Clients |-> FALSE]
  /\ marked = [c \in Clients |-> FALSE]
  /\ partial = {}
  /\ accepting = TRUE
  /\ handlers = <<>>
  /\ stopped = FALSE
  /\ mainPc = "run"
  /\ lobby = {} /\ playing = {} /\ inbox = {}
  /\ srvPc = "loop"
  /\ fault = "none"
  /\ spoke = {} /\ late = {}
  /\ shutdown = FALSE
  /\ pushes = 0

Registered == lobby \cup playing
Deleted == {c \in Clients : object[c] = "deleted"}

Accept(c)   == [run |-> "accept", cli |-> c]
Read(c, got) == [run |-> "read", cli |-> c, got |-> got]  \* "known", "unknown", "error"
Write(c)    == [run |-> "write", cli |-> c]
Delete(c)   == [run |-> "delete", cli |-> c]

(* pushMessage posts a write to each client of S; a deleted one is a fault.*)
WritesTo(S) == LET order == CHOOSE q \in [1..Cardinality(S) -> S] : {q[i] : i \in DOMAIN q} = S
               IN  [i \in 1..Cardinality(S) |-> Write(order[i])]
Reached(S) == IF S \cap Deleted = {} THEN fault ELSE "dead client"
-----------------------------------------------------------------------------
(* Faulty variants: a write error is acted upon even after the first; a    *)
(* client is only removed from the players; the read is not started again; *)
(* a deleted socket keeps its read.                                        *)
EveryError(c) == TRUE
LobbyWith(c) == lobby
ReadOnce(c) == reading
KeepRead(c) == reading

(* The first error on a connection removes its client. *)
FirstError(c) == ~marked[c]

LobbyWithout(c) == lobby \ {c}

(* An async_read is started; deleting the socket cancels it. *)
StartRead(c) == [reading EXCEPT ![c] = TRUE]
CancelRead(c) == [reading EXCEPT ![c] = FALSE]

(* What a failing handler does, q being the handlers behind it: the server *)
(* removes the client and, if it plays, tells the others and the physics;  *)
(* the deletion of the client is posted.                                   *)
Disconnect(c, q) ==
  LET others == IF c \in playing THEN Registered \ {c} ELSE {}
  IN  /\ lobby' = LobbyWithout(c)
      /\ playing' = playing \ {c}
      /\ fault' = IF c \in playing /\ srvPc \in {"close", "end", "ended"}
                    THEN "dead physics" ELSE Reached(others)
      /\ marked' = [marked EXCEPT ![c] = TRUE]
      /\ handlers' = q \o WritesTo(others) \o <<Delete(c)>>
      /\ UNCHANGED <<partial, inbox, srvPc>>

Quietly(q) == handlers' = q /\ UNCHANGED <<marked, partial, serverVars, fault>>

(* The io_service calls the handler of the given kind for client c. *)
Calls(kind, c) ==
  /\ mainPc = "run"
  /\ ~stopped
  /\ handlers # <<>>
  /\ Head(handlers).run = kind
  /\ Head(handlers).cli = c

(* A handler is called on a deleted client. *)
DeadHandler(c) ==
  /\ Calls("read", c) \/ Calls("write", c)
  /\ c \in Deleted
  /\ fault' = "dead handler"
  /\ UNCHANGED <<connVars, loopVars, handlers, serverVars, histVars>>

(* handleAccept: spinup, and the next connection is waited for. *)
HandleAccept(c) ==
  /\ Calls("accept", c)
  /\ object' = [object EXCEPT ![c] = "alive"]
  /\ lobby' = lobby \cup {c}
  /\ reading' = StartRead(c)
  /\ accepting' = TRUE
  /\ handlers' = Tail(handlers) \o [i \in 1..Cardinality(playing) |-> Write(c)]
  /\ UNCHANGED <<peer, sockOpen, marked, partial, stopped, mainPc, playing, inbox, srvPc,
                 fault, histVars>>

(* writeMsg.  A write to a peer that has gone may still succeed. *)
WriteMsg(c) ==
  /\ Calls("write", c)
  /\ c \notin Deleted
  /\ \/ sockOpen[c] /\ Quietly(Tail(handlers))
     \/ /\ ~sockOpen[c] \/ peer[c] = "gone"
        /\ IF FirstError(c) THEN Disconnect(c, Tail(handlers)) ELSE Quietly(Tail(handlers))
  /\ UNCHANGED <<object, peer, sockOpen, reading, loopVars, histVars>>

(* Faulty variant: the mark is not looked at. *)
ReadsAnyway(c) == Calls("read", c) /\ Head(handlers).got = "known" /\ c \notin Deleted

(* readMsg, of a client that is not marked, when the type is known.  The   *)
(* rest of the message, of which a shutdown has none, is read with a call  *)
(* that blocks the thread until it has arrived; the message goes to the    *)
(* server, and the client is read on.                                      *)
Reads(c) ==
  /\ Calls("read", c)
  /\ Head(handlers).got = "known"
  /\ c \notin Deleted
  /\ ~marked[c]

ReadMsg(c, msg) ==
  /\ Reads(c)
  /\ c \notin partial
  /\ sockOpen[c] \/ msg.type = "Shutdown"
  /\ inbox' = inbox \cup {msg}
  /\ spoke' = spoke \cup {c}
  /\ shutdown' = (shutdown \/ msg.type = "Shutdown")
  /\ reading' = StartRead(c)
  /\ handlers' = Tail(handlers)
  /\ UNCHANGED <<object, peer, sockOpen, marked, partial, loopVars, lobby, playing, srvPc,
                 fault, late, pushes>>

(* The connection breaks within the message or the server has closed the   *)
(* socket: nobody catches the exception.                                   *)
ReadThrows(c) ==
  /\ Reads(c)
  /\ ~sockOpen[c] \/ (c \in partial /\ peer[c] = "gone")
  /\ mainPc' = "aborted"
  /\ UNCHANGED <<connVars, accepting, stopped, handlers, serverVars, fault, histVars>>

(* readMsg with an error or an unknown type, or of a marked client. *)
ReadEnds(c) ==
  /\ Calls("read", c)
  /\ c \notin Deleted
  /\ \/ marked[c] /\ Quietly(Tail(handlers))
     \/ ~marked[c] /\ Head(handlers).got # "known" /\ Disconnect(c, Tail(handlers))
  /\ UNCHANGED <<object, peer, sockOpen, reading, loopVars, histVars>>

(* deleteSelf: a read that is pending on the socket is cancelled, which    *)
(* calls its handler.                                                      *)
DeleteSelf(c) ==
  /\ Calls("delete", c)
  /\ object' = [object EXCEPT ![c] = "deleted"]
  /\ sockOpen' = [sockOpen EXCEPT ![c] = FALSE]
  /\ reading' = CancelRead(c)
  /\ handlers' = IF reading[c] THEN Append(Tail(handlers), Read(c, "error")) ELSE Tail(handlers)
  /\ UNCHANGED <<peer, marked, partial, loopVars, serverVars, fault, histVars>>

(* A pending read ends: the peer has gone or the socket has been closed. *)
ReadFails(c) ==
  /\ mainPc = "run"
  /\ reading[c]
  /\ ~sockOpen[c] \/ peer[c] = "gone"
  /\ reading' = CancelRead(c)
  /\ handlers' = Append(handlers, Read(c, "error"))
  /\ UNCHANGED <<object, peer, sockOpen, marked, partial, loopVars, serverVars, fault, histVars>>

(* run() returns when the io_service is stopped or has nothing left to do, *)
(* and main deletes the server.                                            *)
Work == handlers # <<>> \/ accepting \/ \E c \in Clients : reading[c]

RunReturns ==
  /\ mainPc = "run"
  /\ stopped \/ ~Work
  /\ mainPc' = "done"
  /\ fault' = IF srvPc = "ended" THEN fault ELSE "dead server"
  /\ UNCHANGED <<connVars, accepting, stopped, handlers, serverVars, histVars>>

Messages(c) == {[type |-> "LoadPlayer", sender |-> c], [type |-> "Shutdown"]}

IoThread ==
  \/ \E c \in Clients :
       \/ DeadHandler(c)
       \/ HandleAccept(c)
       \/ WriteMsg(c)
       \/ \E msg \in Messages(c) : ReadMsg(c, msg)
       \/ ReadThrows(c)
       \/ ReadEnds(c)
       \/ DeleteSelf(c)
       \/ ReadFails(c)
  \/ RunReturns
-----------------------------------------------------------------------------
(* loadPlayer registers whoever sent the message and tells the players. *)
LoadPlayer(c) ==
  /\ srvPc = "loop"
  /\ [type |-> "LoadPlayer", sender |-> c] \in inbox
  /\ inbox' = inbox \ {[type |-> "LoadPlayer", sender |-> c]}
  /\ lobby' = lobby \ {c}
  /\ playing' = playing \cup {c}
  /\ late' = IF marked[c] THEN late \cup {c} ELSE late
  /\ handlers' = handlers \o WritesTo(playing')
  /\ fault' = Reached(playing')
  /\ UNCHANGED <<connVars, loopVars, srvPc, spoke, shutdown, pushes>>

(* An update of the physics thread goes to everybody. *)
PushTransforms ==
  /\ srvPc \in {"loop", "finish"}
  /\ pushes < PushLimit
  /\ pushes' = pushes + 1
  /\ handlers' = handlers \o WritesTo(Registered)
  /\ fault' = Reached(Registered)
  /\ UNCHANGED <<connVars, loopVars, serverVars, spoke, late, shutdown>>

(* The shutdown message; delete m_physics; serverClosed; m_running is      *)
(* cleared, which is what the watcher waits for.  The thread's last notify *)
(* may come after main has deleted the server: RemoteServer has it.        *)
Becomes(from, to) ==
  /\ srvPc = from
  /\ srvPc' = to
  /\ UNCHANGED <<object, peer, reading, marked, partial, loopVars, handlers, lobby, playing,
                 inbox, histVars>>

HandleShutdown ==
  /\ [type |-> "Shutdown"] \in inbox
  /\ Becomes("loop", "finish")
  /\ UNCHANGED <<sockOpen, fault>>

DeletePhysics == Becomes("finish", "close") /\ UNCHANGED <<sockOpen, fault>>

CloseClients ==
  /\ Becomes("close", "end")
  /\ sockOpen' = [c \in Clients |-> sockOpen[c] /\ c \notin Registered]
  /\ fault' = Reached(Registered)

ServerEnds == Becomes("end", "ended") /\ UNCHANGED <<sockOpen, fault>>

ServerThread ==
  \/ \E c \in Clients : LoadPlayer(c)
  \/ HandleShutdown
  \/ DeletePhysics
  \/ CloseClients
  \/ ServerEnds

(* Faulty variant: the watcher only ends the accepting of connections. *)
WatcherCloses ==
  /\ srvPc = "ended"
  /\ accepting' = FALSE
  /\ UNCHANGED <<connVars, stopped, mainPc, handlers, serverVars, fault, histVars>>

(* The watcher thread, in waitForTermination until m_running is cleared. *)
Watcher ==
  /\ srvPc = "ended"
  /\ stopped' = TRUE
  /\ UNCHANGED <<connVars, accepting, mainPc, handlers, serverVars, fault, histVars>>
-----------------------------------------------------------------------------
(* The network: a connection is accepted, or accepting fails and is not    *)
(* tried again; the type of a message arrives and then the rest; a peer    *)
(* goes away.                                                              *)
PeerConnects(c) ==
  /\ accepting
  /\ object[c] = "none"
  /\ object' = [object EXCEPT ![c] = "accepted"]
  /\ peer' = [peer EXCEPT ![c] = "up"]
  /\ sockOpen' = [sockOpen EXCEPT ![c] = TRUE]
  /\ accepting' = FALSE
  /\ handlers' = Append(handlers, Accept(c))
  /\ UNCHANGED <<reading, marked, partial, stopped, mainPc, serverVars, fault, histVars>>

AcceptFails ==
  /\ accepting
  /\ accepting' = FALSE
  /\ UNCHANGED <<connVars, stopped, mainPc, handlers, serverVars, fault, histVars>>

PeerSends(c, got) ==
  /\ reading[c]
  /\ peer[c] = "up"
  /\ sockOpen[c]
  /\ c \notin spoke
  /\ reading' = CancelRead(c)
  /\ partial' = partial \cup {c}
  /\ handlers' = Append(handlers, Read(c, got))
  /\ UNCHANGED <<object, peer, sockOpen, marked, loopVars, serverVars, fault, histVars>>

PeerFinishes(c) ==
  /\ c \in partial
  /\ peer[c] = "up"
  /\ partial' = partial \ {c}
  /\ UNCHANGED <<object, peer, sockOpen, reading, marked, loopVars, handlers, serverVars,
                 fault, histVars>>

PeerLeaves(c) ==
  /\ peer[c] = "up"
  /\ peer' = [peer EXCEPT ![c] = "gone"]
  /\ UNCHANGED <<object, sockOpen, reading, marked, partial, loopVars, handlers, serverVars,
                 fault, histVars>>

(* SignalHandler::signal. *)
Signal ==
  /\ ~shutdown
  /\ shutdown' = TRUE
  /\ inbox' = inbox \cup {[type |-> "Shutdown"]}
  /\ UNCHANGED <<connVars, loopVars, handlers, lobby, playing, srvPc, fault, spoke, late,
                 pushes>>

Environment ==
  \/ \E c \in Clients :
       \/ PeerConnects(c)
       \/ \E got \in {"known", "unknown"} : PeerSends(c, got)
       \/ PeerFinishes(c)
       \/ PeerLeaves(c)
  \/ AcceptFails
  \/ Signal

Up(step) == mainPc = "run" /\ fault = "none" /\ step

Next == Up(IoThread \/ ServerThread \/ PushTransforms \/ Watcher \/ Environment)

Spec == Init /\ [][Next]_vars

(* The three threads run.  Nothing is expected of signals, and of peers    *)
(* that they write the rest of a message they have begun, as               *)
(* RemoteServer::writeMsg does: one that stops in between stops the        *)
(* io_service.                                                             *)
Fairness == /\ WF_vars(Up(IoThread))
            /\ WF_vars(Up(ServerThread))
            /\ WF_vars(Up(Watcher))
            /\ \A c \in Clients : WF_vars(Up(PeerFinishes(c)))

FairSpec == Spec /\ Fairness
-----------------------------------------------------------------------------
Pending(kind, c) == {i \in 1..Len(handlers) : handlers[i].run = kind /\ handlers[i].cli = c}

(* What the state is made of; a connection has one read at a time, pending *)
(* or to be called, and it is the read of a client that is alive           *)
(* (remoteclient.hpp:34-44, remoteclient.cpp:23-27 and 71-72).             *)
TypeOK ==
  /\ srvPc \in {"loop", "finish", "close", "end", "ended"}
  /\ mainPc \in {"run", "done", "aborted"}
  /\ fault \in {"none", "dead client", "dead handler", "dead physics", "dead server"}
  /\ lobby \cup playing \cup partial \cup spoke \cup late \subseteq Clients
  /\ \A c \in Clients :
       /\ object[c] \in {"none", "accepted", "alive", "deleted"}
       /\ peer[c] \in {"none", "up", "gone"}
       /\ reading[c] => object[c] = "alive" /\ Pending("read", c) = {}
       /\ marked[c] => object[c] \in {"alive", "deleted"}
       /\ Cardinality(Pending("read", c)) <= 1

(* m_marked_for_delete: however many writes and reads of a connection      *)
(* fail, the client is deleted once (remoteclient.cpp:34-45, 52-64).       *)
DeletedOnce ==
  \A c \in Clients :
    /\ Cardinality(Pending("delete", c)) <= (IF marked[c] THEN 1 ELSE 0)
    /\ object[c] = "deleted" => Pending("delete", c) = {}

(* A write to a client is called before the deletion of the client: the    *)
(* client leaves the server before its deletion is posted, and nothing     *)
(* sends to it from then on.  The exception is a client that an old        *)
(* message of its own has registered again (remoteclient.cpp:42-44,        *)
(* localserver.cpp:107-121).                                               *)
WritesPrecedeDelete ==
  \A c \in Clients \ late :
    /\ object[c] = "deleted" => Pending("write", c) = {}
    /\ \A i \in Pending("write", c), j \in Pending("delete", c) : i < j

(* A client joins, speaks, leaves and dies as ClientRegistry says, which   *)
(* is what LocalServer expects of its clients, whatever fails on its       *)
(* connection and in whichever handler (remoteclient.cpp:19-84,            *)
(* qntsrv.cpp:33-39).                                                      *)
Life(c) == IF object[c] = "deleted" THEN "deleted"
           ELSE IF marked[c] THEN "removed"
           ELSE IF object[c] = "alive" THEN "connected" ELSE "new"

Registry == INSTANCE ClientRegistry
              WITH registered <- Registered, life <- [c \in Clients |-> Life(c)]
KeepsRegistry == Registry!Spec

(* A client whose peer has gone is removed, although nothing may ever be   *)
(* written to it: a read is always pending (remoteclient.cpp:51-80).       *)
PeerLossIsNoticed ==
  \A c \in Clients :
    (object[c] = "alive" /\ peer[c] = "gone")
      ~> (marked[c] \/ stopped \/ mainPc # "run" \/ fault # "none")

(* A shutdown message, by a signal or by a client, ends the process: the   *)
(* server thread ends, the watcher sees it and stops the io_service        *)
(* (qntsrv.cpp:13-16, 47-68).                                              *)
ShutdownEndsMain == shutdown ~> (mainPc # "run" \/ fault # "none")
=============================================================================
