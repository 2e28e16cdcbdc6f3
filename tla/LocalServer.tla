---------------------------- MODULE LocalServer -----------------------------
(***************************************************************************)
(* The game server, server/localserver.cpp, with its physics thread and    *)
(* its clients.  Three kinds of thread meet here:                          *)
(*   - the server thread, LocalServer::run, which pops m_msg_queue;        *)
(*   - the physics thread, BtPhysics::run, which calls back getClientId,   *)
(*     runTickCallbacks and pushClientTransforms;                          *)
(*   - the threads of the clients, which call addClient, removeClient and  *)
(*     pushMessage.                                                        *)
(* m_clients_mutex makes addClient, removeClient, loadPlayer, getClientId, *)
(* pushClientTransforms and the closing of the clients atomic with respect *)
(* to each other.  The messages sent to a client are what they make it     *)
(* draw.  A step after which the program has no defined behaviour sets     *)
(* fault and is the last.                                                  *)
(***************************************************************************)
EXTENDS BtPhysics, FiniteSets

CONSTANTS
  Clients,       \* ClientIface objects, one address each
  Leavers,       \* those whose connection may end before the server
  Inputs,        \* the input states a client sends
  LoadLimit,     \* bound on the number of ServerLoadPlayerMsg
  InputLimit,    \* bound on the number of ServerInputMsg
  BaddieLimit,   \* bound on the characters of the MobGroup
  BlockerLimit,  \* bound on the Blockers
  RepeatLimit,   \* bound on the queued messages when an input is sent again
  TickPeriod     \* ticks in a cycle of the baddies (40 in the code)

ASSUME ServerAssumption ==
  /\ Leavers \subseteq Clients
  /\ Inputs \subseteq SUBSET Bits
  /\ {LoadLimit, InputLimit, BaddieLimit, BlockerLimit, RepeatLimit} \subseteq Nat
  /\ TickPeriod \in Nat \ {0}

VARIABLES
  m_clients,        \* std::map: the clients that play, and their ids
  m_lobby_clients,  \* the clients that watch
  m_next_id,        \* the identifier counter
  m_baddies,        \* the ids of the baddies
  m_ticks,          \* the tick counter of runTickCallbacks
  srvQueue,         \* m_msg_queue, oldest message first
  srvMsg,           \* the message popped and not yet handled
  srvPc,            \* where run() is
  physics,          \* the object m_physics points to: "alive" or "deleted"
  life,             \* per client: "new", "connected", "removed" or "deleted"
  shown,            \* per client: the ids it has been told to draw
  closed,           \* the clients whose serverClosed has been called
  sent,             \* per client: the messages it has sent
  shutdown          \* ServerShutdownMsg has been sent

serverVars == <<m_clients, m_lobby_clients, m_next_id, m_baddies, m_ticks,
                srvQueue, srvMsg, srvPc, physics>>
clientVars == <<life, shown, closed, sent, shutdown>>
vars == <<physVars, fault, serverVars, clientVars>>

(* The states in which a ClientIface may be called. *)
Alive == {c \in Clients : life[c] # "deleted"}
Connected == {c \in Clients : life[c] = "connected"}

(* Faulty variant: whoever has a character is taken for a baddie. *)
AllCharacters == {DOMAIN m_characters}

(* m_baddies has no lock.  While loadMobGroup appends to it, another       *)
(* thread that walks it finds some of the elements; a walk that crashes in *)
(* the reallocated vector is left out.                                     *)
BaddieViews == IF srvPc = "mobs" THEN SUBSET m_baddies ELSE {m_baddies}

(* The clients that updates go to, in m_clients or in the lobby. *)
Playing == DOMAIN m_clients
Registered == Playing \cup m_lobby_clients

(* Faulty variant: the lobby is forgotten. *)
OtherPlayers(c) == Playing \ {c}

(* The clients that are left when c is removed. *)
Others(c) == Registered \ {c}

(* c->pushMessage for every c of S: a call on a deleted client is a fault. *)
CallClients(S) == fault' = IF S \subseteq Alive THEN fault ELSE "dead client"

Init ==
  /\ PhysInit
  /\ fault = "none"
  /\ m_clients = EmptyMap
  /\ m_lobby_clients = {}
  /\ m_next_id = 1
  /\ m_baddies = {}
  /\ m_ticks = 0
  /\ srvQueue = <<>>
  /\ srvMsg = NoMsg
  /\ srvPc = "mobs"
  /\ physics = "alive"
  /\ life = [c \in Clients |-> "new"]
  /\ shown = [c \in Clients |-> {}]
  /\ closed = {}
  /\ sent = [c \in Clients |-> <<>>]
  /\ shutdown = FALSE
-----------------------------------------------------------------------------
(* Faulty variant: the counter is read and not advanced. *)
StuckCounter == UNCHANGED m_next_id

(* getNextIdentifier returns m_next_id and advances it. *)
GetNextIdentifier == m_next_id' = m_next_id + 1

(* loadWorld and loadMobGroup.  How much of the world is found depends on  *)
(* data/world.xml and on the copy into an empty string that precedes the   *)
(* parse, so any number of baddies and then of blockers is loaded.         *)
LoadBaddie ==
  /\ srvPc = "mobs"
  /\ Cardinality(m_baddies) < BaddieLimit
  /\ PhysPush(AddChar(m_next_id))
  /\ m_baddies' = m_baddies \cup {m_next_id}
  /\ GetNextIdentifier
  /\ UNCHANGED <<fault, m_clients, m_lobby_clients, m_ticks, srvQueue, srvMsg,
                 srvPc, physics, clientVars>>

LoadBlocker(known) ==
  /\ srvPc \in {"mobs", "blockers"}
  /\ m_next_id - Cardinality(m_baddies) <= BlockerLimit
  /\ PhysPush(AddPhys(m_next_id, known))
  /\ GetNextIdentifier
  /\ srvPc' = "blockers"
  /\ UNCHANGED <<fault, m_clients, m_lobby_clients, m_baddies, m_ticks, srvQueue,
                 srvMsg, physics, clientVars>>

WorldLoaded ==
  /\ srvPc \in {"mobs", "blockers"}
  /\ srvPc' = "pop"
  /\ UNCHANGED <<physVars, fault, m_clients, m_lobby_clients, m_next_id, m_baddies,
                 m_ticks, srvQueue, srvMsg, physics, clientVars>>
-----------------------------------------------------------------------------
(* Faulty variant: the newest message is popped, as the default build does. *)
PopNewest ==
  /\ srvPc = "pop"
  /\ srvQueue # <<>>
  /\ srvMsg' = Newest(srvQueue)
  /\ srvQueue' = SubSeq(srvQueue, 1, Len(srvQueue) - 1)
  /\ srvPc' = "handle"
  /\ UNCHANGED <<physVars, fault, m_clients, m_lobby_clients, m_next_id, m_baddies,
                 m_ticks, physics, clientVars>>

(* wait_pop. *)
ServerPop ==
  /\ srvPc = "pop"
  /\ srvQueue # <<>>
  /\ srvMsg' = NextOf(srvQueue)
  /\ srvQueue' = RestOf(srvQueue)
  /\ srvPc' = "handle"
  /\ UNCHANGED <<physVars, fault, m_clients, m_lobby_clients, m_next_id, m_baddies,
                 m_ticks, physics, clientVars>>

Handling(type) == srvPc = "handle" /\ srvMsg.type = type

HandleInput ==
  /\ Handling("Input")
  /\ PhysPush(srvMsg)
  /\ srvMsg' = NoMsg
  /\ srvPc' = "pop"
  /\ UNCHANGED <<fault, m_clients, m_lobby_clients, m_next_id, m_baddies, m_ticks,
                 srvQueue, physics, clientVars>>

(* Faulty variants: a second request replaces the entry of the client; the *)
(* client gets no entry; the new player itself is not told.                *)
EnrolAgain(c) == Assign(m_clients, c, m_next_id)
EnrolNobody(c) == m_clients
AudienceBefore(c) == Playing

(* The entry that loadPlayer makes for c, and the players it then tells to *)
(* draw the character of c.                                                *)
Enrol(c) == Insert(m_clients, c, m_next_id)
Audience(c) == Playing \cup {c}

(* loadPlayer: the sender leaves the lobby and becomes a player; every     *)
(* player, the new one included, is told to draw the new character.        *)
HandleLoadPlayer ==
  /\ Handling("LoadPlayer")
  /\ m_lobby_clients' = m_lobby_clients \ {srvMsg.sender}
  /\ m_clients' = Enrol(srvMsg.sender)
  /\ GetNextIdentifier
  /\ PhysPush(AddChar(m_next_id))
  /\ shown' = [c \in Clients |-> IF c \in Audience(srvMsg.sender)
                                   THEN shown[c] \cup {m_next_id} ELSE shown[c]]
  /\ CallClients(Audience(srvMsg.sender))
  /\ srvMsg' = NoMsg
  /\ srvPc' = "pop"
  /\ UNCHANGED <<m_baddies, m_ticks, srvQueue, physics, life, closed, sent, shutdown>>

(* ShutdownMessage ends the loop and finish asks the physics thread to end.*)
HandleShutdown ==
  /\ Handling("Shutdown")
  /\ PhysFinish
  /\ srvMsg' = NoMsg
  /\ srvPc' = "finish"
  /\ UNCHANGED <<fault, m_clients, m_lobby_clients, m_next_id, m_baddies, m_ticks,
                 srvQueue, physics, clientVars>>

(* finish returns once m_running is false; delete m_physics.               *)
DeletePhysics ==
  /\ srvPc = "finish"
  /\ physPc \in {"ended", "gone"}
  /\ physics' = "deleted"
  /\ srvPc' = "close"
  /\ UNCHANGED <<physVars, fault, m_clients, m_lobby_clients, m_next_id, m_baddies,
                 m_ticks, srvQueue, srvMsg, clientVars>>

(* serverClosed is called on every client. *)
CloseClients ==
  /\ srvPc = "close"
  /\ closed' = closed \cup Registered
  /\ CallClients(Registered)
  /\ srvPc' = "stop"
  /\ UNCHANGED <<physVars, m_clients, m_lobby_clients, m_next_id, m_baddies, m_ticks,
                 srvQueue, srvMsg, physics, life, shown, sent, shutdown>>

(* m_running = false and waitForTermination returns.  The thread's last    *)
(* notify is left to LocalClient, whose main thread deletes the server.    *)
Terminate ==
  /\ srvPc = "stop"
  /\ srvPc' = "done"
  /\ UNCHANGED <<physVars, fault, m_clients, m_lobby_clients, m_next_id, m_baddies,
                 m_ticks, srvQueue, srvMsg, physics, clientVars>>

ServerStep ==
  \/ LoadBaddie
  \/ \E known \in BOOLEAN : LoadBlocker(known)
  \/ WorldLoaded
  \/ ServerPop
  \/ HandleInput
  \/ HandleLoadPlayer
  \/ HandleShutdown
  \/ DeletePhysics
  \/ CloseClients
  \/ Terminate
-----------------------------------------------------------------------------
(* The physics thread, with its calls back into the server. *)

(* getClientId looks the sender up with operator[], which registers a      *)
(* client it does not find under the id 0.                                 *)
PhysicsInput ==
  /\ Parsing("Input")
  /\ m_clients' = Insert(m_clients, physMsg.sender, 0)
  /\ ParseInput(m_clients'[physMsg.sender])
  /\ UNCHANGED <<m_lobby_clients, m_next_id, m_baddies, m_ticks, srvQueue, srvMsg,
                 srvPc, physics, clientVars>>

(* Faulty variant: the counter is not reset at the end of a cycle. *)
EndlessTicks == m_ticks + 1

NextTick == (m_ticks + 1) % TickPeriod

(* runTickCallbacks: the baddies walk left for half of a cycle and right   *)
(* for the other half.                                                     *)
RunTickCallbacks ==
  /\ m_ticks' = NextTick
  /\ \E S \in BaddieViews :
       PhysTick(S, IF 2 * m_ticks' < TickPeriod THEN {"StrafeLeft"} ELSE {"StrafeRight"})
  /\ UNCHANGED <<fault, m_clients, m_lobby_clients, m_next_id, m_baddies, srvQueue,
                 srvMsg, srvPc, physics, clientVars>>

(* pushClientTransforms: one message per character and registered client.  *)
PushClientTransforms ==
  /\ PhysTransforms
  /\ IF DOMAIN m_characters = {} THEN UNCHANGED fault ELSE CallClients(Registered)
  /\ UNCHANGED <<serverVars, clientVars>>

(* The physics thread's last use of its object. *)
PhysicsEnds ==
  /\ PhysNotify
  /\ fault' = IF physics = "deleted" THEN "dead physics" ELSE fault
  /\ UNCHANGED <<serverVars, clientVars>>

PhysicsStep ==
  \/ PhysInternal /\ UNCHANGED <<serverVars, clientVars>>
  \/ PhysicsInput
  \/ RunTickCallbacks
  \/ PushClientTransforms
  \/ PhysicsEnds
-----------------------------------------------------------------------------
(* addClient: the client is shown the players and the baddies there are,   *)
(* and waits in the lobby.                                                 *)
AddClient(c) ==
  /\ life[c] = "new"
  /\ life' = [life EXCEPT ![c] = "connected"]
  /\ \E S \in BaddieViews :
       shown' = [shown EXCEPT ![c] = {m_clients[d] : d \in Playing} \cup S]
  /\ m_lobby_clients' = m_lobby_clients \cup {c}
  /\ UNCHANGED <<physVars, fault, m_clients, m_next_id, m_baddies, m_ticks, srvQueue,
                 srvMsg, srvPc, physics, closed, sent, shutdown>>

(* Faulty variant: the id is read after the entry has been erased. *)
NoId(c) == 0

(* The id of the character of c; 0 in the lobby. *)
IdOf(c) == Lookup(m_clients, c, 0)

(* removeClient: the client's character is deleted, here and in what the   *)
(* other clients draw.                                                     *)
RemoveClient(c) ==
  LET client_id == IdOf(c)
  IN  /\ c \in Leavers
      /\ life[c] = "connected"
      /\ life' = [life EXCEPT ![c] = "removed"]
      /\ m_clients' = Erase(m_clients, c)
      /\ m_lobby_clients' = m_lobby_clients \ {c}
      /\ IF client_id = 0
           THEN UNCHANGED <<physVars, fault, shown>>
           ELSE /\ PhysPush(DelChar(client_id))
                /\ shown' = [d \in Clients |-> IF d \in Others(c) THEN shown[d] \ {client_id}
                                               ELSE shown[d]]
                /\ IF physics = "deleted" THEN fault' = "dead physics"
                                          ELSE CallClients(Others(c))
      /\ UNCHANGED <<m_next_id, m_baddies, m_ticks, srvQueue, srvMsg, srvPc, physics,
                     closed, sent, shutdown>>

(* deleteSelf, posted when the client was removed. *)
DeleteClient(c) ==
  /\ life[c] = "removed"
  /\ life' = [life EXCEPT ![c] = "deleted"]
  /\ UNCHANGED <<physVars, fault, serverVars, shown, closed, sent, shutdown>>

(* pushMessage of a message c sends. *)
Send(c, msg) ==
  /\ life[c] = "connected"
  /\ srvQueue' = Append(srvQueue, msg)
  /\ sent' = [sent EXCEPT ![c] = Append(sent[c], msg)]
  /\ UNCHANGED <<physVars, fault, m_clients, m_lobby_clients, m_next_id, m_baddies,
                 m_ticks, srvMsg, srvPc, physics, life, shown, closed, shutdown>>

SentOf(c, type) == {i \in 1..Len(sent[c]) : sent[c][i].type = type}
AllSent(type) == UNION {{c} \X SentOf(c, type) : c \in Clients}

SendLoadPlayer(c) ==
  /\ Cardinality(AllSent("LoadPlayer")) < LoadLimit
  /\ Send(c, [type |-> "LoadPlayer", sender |-> c])

(* The constructor of LocalClient asks for its player before the main loop *)
(* reads the keys.                                                         *)
SendInput(c, s) ==
  /\ SentOf(c, "LoadPlayer") # {}
  /\ Cardinality(AllSent("Input")) < InputLimit
  /\ Send(c, [type |-> "Input", sender |-> c, state |-> s])

(* The end of LocalClient::mainloop, a client that asks for it, or a       *)
(* signal to the server process.                                           *)
SendShutdown ==
  /\ ~shutdown
  /\ shutdown' = TRUE
  /\ srvQueue' = Append(srvQueue, [type |-> "Shutdown"])
  /\ UNCHANGED <<physVars, fault, m_clients, m_lobby_clients, m_next_id, m_baddies,
                 m_ticks, srvMsg, srvPc, physics, life, shown, closed, sent>>

ClientStep ==
  \/ \E c \in Clients :
       \/ AddClient(c)
       \/ RemoveClient(c)
       \/ DeleteClient(c)
       \/ SendLoadPlayer(c)
       \/ \E s \in Inputs : SendInput(c, s)
  \/ SendShutdown
-----------------------------------------------------------------------------
Next == fault = "none" /\ (ServerStep \/ PhysicsStep \/ ClientStep)

Spec == Init /\ [][Next]_vars

(* Both threads of the server keep running; clients owe nothing. *)
Fairness == /\ WF_vars(fault = "none" /\ ServerStep)
            /\ WF_vars(fault = "none" /\ PhysicsStep)

FairSpec == Spec /\ Fairness

(* The limits above end every history; a client need not.  A key that is   *)
(* held down repeats, and each time the client sends its input again, from *)
(* the request for the shutdown on and without end.                        *)
RepeatInput(c) ==
  LET inputs == SentOf(c, "Input")
  IN  /\ shutdown
      /\ life[c] = "connected"
      /\ Len(srvQueue) + Len(physQueue) < RepeatLimit
      /\ \E i \in inputs : /\ \A j \in inputs : j <= i
                          /\ srvQueue' = Append(srvQueue, sent[c][i])
      /\ UNCHANGED <<physVars, fault, m_clients, m_lobby_clients, m_next_id, m_baddies,
                     m_ticks, srvMsg, srvPc, physics, clientVars>>

RepeatNext == Next \/ (fault = "none" /\ \E c \in Clients : RepeatInput(c))

RepeatSpec == Init /\ [][RepeatNext]_vars /\ Fairness
-----------------------------------------------------------------------------
(* The players the server knows to be playing, with the id of a character. *)
Players == {c \in Playing : m_clients[c] # 0}
PlayerIds == {m_clients[c] : c \in Players}
ConnectedPlayers == Players \cap Connected

(* No message is on its way: the server waits and physics is idle. *)
Quiet == srvPc = "pop" /\ srvQueue = <<>> /\ PhysIdle

ServerTypeOK ==
  /\ fault \in {"none", "null character", "dead client", "dead physics"}
  /\ Playing \subseteq Clients /\ \A c \in Playing : m_clients[c] \in Nat
  /\ m_lobby_clients \subseteq Clients
  /\ m_next_id \in Nat \ {0}
  /\ m_baddies \subseteq Nat
  /\ m_ticks \in 0..(TickPeriod - 1)
  /\ srvPc \in {"mobs", "blockers", "pop", "handle", "finish", "close", "stop", "done"}
  /\ srvPc = "handle" <=> srvMsg # NoMsg
  /\ physics \in {"alive", "deleted"}

ClientTypeOK ==
  /\ life \in [Clients -> {"new", "connected", "removed", "deleted"}]
  /\ shown \in [Clients -> SUBSET Nat]
  /\ closed \subseteq Clients
  /\ shutdown \in BOOLEAN

TypeOK == PhysTypeOK /\ ServerTypeOK /\ ClientTypeOK

(* An identifier names one thing: it is given out once, to a baddie, a     *)
(* blocker or a player, and its character is made once (localserver.cpp:   *)
(* 171-187, 214, 237-240; btphysics.cpp:289).                              *)
IdsAreUnique ==
  /\ DOMAIN m_characters \cup m_objects \cup AddPending \cup DelPending
       \cup m_baddies \cup PlayerIds \subseteq 1..(m_next_id - 1)
  /\ \A c, d \in Players : m_clients[c] = m_clients[d] => c = d
  /\ m_baddies \cap (PlayerIds \cup DelPending) = {}
  /\ DOMAIN m_characters \cap (AddPending \cup m_objects) = {}
  /\ \A i, j \in 1..Len(physQueue) :
       physQueue[i].type = "AddChar" /\ physQueue[j] = physQueue[i] => i = j

(* The characters there are or will be, once what is queued is parsed. *)
Existing == (DOMAIN m_characters \cup AddPending) \ DelPending

(* Nothing a connected client draws is a ghost: its character exists, or   *)
(* will, and has not been deleted (localserver.cpp:90-121, 175-187).  The  *)
(* id 0, which newcomers are told to draw for a client that getClientId    *)
(* has registered, names no character and is left out.                     *)
NoGhosts ==
  physPc \notin {"ended", "gone"} => \A c \in Connected : shown[c] \ {0} \subseteq Existing

(* A player is shown itself and everyone who starts to play after it       *)
(* (localserver.cpp:183-186), for as long as they play.                    *)
PlayersSeeNewcomers ==
  \A c, d \in ConnectedPlayers :
    m_clients[c] <= m_clients[d] => m_clients[d] \in shown[c]

(* The entry of a player is its own until it is removed: no later message, *)
(* a second ServerLoadPlayerMsg included, takes its character away         *)
(* (localserver.cpp:182, localserver.hpp:41).                              *)
KeepsItsCharacter ==
  [][\A c \in ConnectedPlayers :
       life'[c] = "connected" => c \in DOMAIN m_clients' /\ m_clients'[c] = m_clients[c]]_vars

(* A removed client's character is deleted after it was made, never before *)
(* (btphysics.cpp:303-305).                                                *)
NoNullCharacter == fault # "null character"

(* "To add a character for a client, send the server a                     *)
(* ServerLoadPlayerMsg" (serveriface.hpp:18-19): a connected client that   *)
(* has sent one has a character once the messages are handled.             *)
LoadGivesCharacter ==
  Quiet => \A c \in Connected :
    SentOf(c, "LoadPlayer") # {} => c \in Players /\ m_clients[c] \in DOMAIN m_characters

(* When the messages are handled every character is a baddie's or a        *)
(* player's: a client that leaves takes its character with it, whatever    *)
(* was on its way.  Left out are the histories in which a character is     *)
(* known to be nobody's: a client asked for two, or a request was handled  *)
(* after its sender had been removed, which registers the sender again     *)
(* (localserver.cpp:107-121, 175-187).                                     *)
NoOrphanCharacters ==
  /\ Quiet
  /\ Playing \subseteq Connected
  /\ \A c \in Clients : Cardinality(SentOf(c, "LoadPlayer")) <= 1
  => DOMAIN m_characters \subseteq PlayerIds \cup m_baddies

(* A character does what its player asked for last, once the messages are  *)
(* handled: the baddies' ticks and the other players do not interfere      *)
(* (localserver.cpp:58-60, 156-168; btphysics.cpp:226-242).                *)
InputTakesEffect ==
  Quiet => \A c \in ConnectedPlayers :
    LET inputs == SentOf(c, "Input")
    IN  inputs # {} =>
          m_characters[m_clients[c]] = sent[c][CHOOSE i \in inputs : \A j \in inputs : j <= i].state

(* Joining, speaking, leaving and being registered go as ClientRegistry    *)
(* says, however the messages are queued and handled                       *)
(* (localserver.hpp:41, localserver.cpp:58-63, 90-121, 175-187).           *)
Registry == INSTANCE ClientRegistry
              WITH registered <- Registered, spoke <- {c \in Clients : sent[c] # <<>>}
KeepsRegistry == Registry!Spec

(* "we delete ourselves asynchronously to make sure we're in the clear"    *)
(* (remoteclient.cpp:48): the server never calls a deleted client.         *)
NoDeadClientCalled == fault # "dead client"

(* A shutdown message ends the physics thread and then the server, however *)
(* long clients keep sending (localserver.cpp:49-87).  This takes the      *)
(* oldest message first: the default build pops the newest, and a client   *)
(* that sends again each time keeps the server from the shutdown.          *)
ShutdownCompletes == shutdown ~> (srvPc = "done" \/ fault # "none")
=============================================================================
