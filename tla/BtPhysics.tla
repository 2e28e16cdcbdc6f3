----------------------------- MODULE BtPhysics ------------------------------
(***************************************************************************)
(* The physics thread, server/bullet/btphysics.cpp.  Other threads talk to *)
(* it through m_msg_queue only; once per tick it empties the queue, moves  *)
(* the characters, runs the server's tick callbacks and sends transforms   *)
(* to the clients.  What a body looks like and where it is are left out; a *)
(* character is the input state it acts on, and an object is its id.  How  *)
(* a character moves has no effect on the rest and is kept in              *)
(* PhysicsCaller.                                                          *)
(*                                                                         *)
(* The actions are those of the thread and of its interface.               *)
(* PhysicsCaller closes the module with any caller of PhysicsIface,        *)
(* LocalServer with the server.                                            *)
(***************************************************************************)
EXTENDS QueueOrder, Maps

VARIABLES
  m_characters,  \* per character id: its m_state
  m_objects,     \* the ids of the static objects
  physQueue,     \* m_msg_queue, oldest message first
  physMsg,       \* the message popped and not yet parsed
  physPc,        \* where run() is
  m_finish,      \* finish() has been called
  fault          \* the undefined behaviour the program has run into

physVars == <<m_characters, m_objects, physQueue, physMsg, physPc, m_finish>>

NoMsg == [type |-> "none"]

(* The input states are sets of ServerInputMsg bits; a character is made   *)
(* with none set.                                                          *)
Bits == {"StrafeLeft", "StrafeRight", "WalkForward", "WalkReverse", "TurnLeft", "TurnRight",
         "Jump", "Shoot"}
Still == {}

PhysInit ==
  /\ m_characters = EmptyMap
  /\ m_objects = {}
  /\ physQueue = <<>>
  /\ physMsg = NoMsg
  /\ physPc = "loop"
  /\ m_finish = FALSE
-----------------------------------------------------------------------------
(* The messages, and the calls that push them: addPhysical, delPhysical,   *)
(* setInputState and, with a message of a client, pushMessage.             *)
(* (Faulty variant: the character is made as a plain object.)              *)
AddBody(id)        == [type |-> "AddPhys", objid |-> id, known |-> TRUE]
AddChar(id)        == [type |-> "AddChar", objid |-> id]
AddPhys(id, known) == [type |-> "AddPhys", objid |-> id, known |-> known]
DelChar(id)        == [type |-> "DelChar", objid |-> id]
DelPhys(id)        == [type |-> "DelPhys", objid |-> id]
ForceState(id, s)  == [type |-> "ForceState", objid |-> id, state |-> s]

PhysPush(msg) ==
  /\ physQueue' = Append(physQueue, msg)
  /\ UNCHANGED <<m_characters, m_objects, physMsg, physPc, m_finish>>

(* finish() up to its wait. *)
PhysFinish ==
  /\ m_finish' = TRUE
  /\ UNCHANGED <<m_characters, m_objects, physQueue, physMsg, physPc>>
-----------------------------------------------------------------------------
(* Faulty variant: the flag is read once, before the loop. *)
PhysLoopForever ==
  /\ physPc = "loop"
  /\ physPc' = "drain"
  /\ UNCHANGED <<m_characters, m_objects, physQueue, physMsg, m_finish>>

(* The head of the loop: while(!m_finish). *)
PhysLoop ==
  /\ physPc = "loop"
  /\ physPc' = IF m_finish THEN "cleanup" ELSE "drain"
  /\ UNCHANGED <<m_characters, m_objects, physQueue, physMsg, m_finish>>

(* try_pop finds a message. *)
PhysPop ==
  /\ physPc = "drain"
  /\ physMsg = NoMsg
  /\ physQueue # <<>>
  /\ physMsg' = NextOf(physQueue)
  /\ physQueue' = RestOf(physQueue)
  /\ UNCHANGED <<m_characters, m_objects, physPc, m_finish>>

(* try_pop finds none, and the tick is run: the characters move, the       *)
(* transforms are listed and runTickCallbacks sets the input of the ids in *)
(* S to s.  All of this but the callbacks' look at m_baddies is private to *)
(* the thread.                                                             *)
PhysTick(S, s) ==
  /\ physPc = "drain"
  /\ physMsg = NoMsg
  /\ physQueue = <<>>
  /\ physPc' = "transforms"
  /\ m_characters' = [i \in DOMAIN m_characters |-> IF i \in S THEN s ELSE m_characters[i]]
  /\ UNCHANGED <<m_objects, physQueue, physMsg, m_finish>>

(* pushClientTransforms, then sleep to the end of the tick. *)
PhysTransforms ==
  /\ physPc = "transforms"
  /\ physPc' = "loop"
  /\ UNCHANGED <<m_characters, m_objects, physQueue, physMsg, m_finish>>

(* After the loop every character and object is deleted and m_running is   *)
(* cleared, ...                                                            *)
PhysCleanup ==
  /\ physPc = "cleanup"
  /\ physPc' = "ended"
  /\ m_characters' = EmptyMap
  /\ m_objects' = {}
  /\ UNCHANGED <<physQueue, physMsg, m_finish>>

(* ... and the waiters are notified, once the mutex is released: by then   *)
(* the object may have been deleted (ThreadLifecycle).                     *)
PhysNotify ==
  /\ physPc = "ended"
  /\ physPc' = "gone"
  /\ UNCHANGED <<m_characters, m_objects, physQueue, physMsg, m_finish>>
-----------------------------------------------------------------------------
(* parseMessage, by type of message. *)
Parsing(type) == physMsg.type = type
Parsed == physMsg' = NoMsg /\ UNCHANGED <<physQueue, physPc, m_finish>>

(* Faulty variant: operator[] in the place of find. *)
SetInputAlways(id, s) == m_characters' = Assign(m_characters, id, s)

(* setInputStateCallback: an id without a character is ignored. *)
SetInput(id, s) ==
  m_characters' = IF id \in DOMAIN m_characters THEN Assign(m_characters, id, s)
                  ELSE m_characters

ParseForceState ==
  /\ Parsing("ForceState")
  /\ SetInput(physMsg.objid, physMsg.state)
  /\ Parsed
  /\ UNCHANGED <<m_objects, fault>>

(* id is what the server's getClientId answers for the sender. *)
ParseInput(id) ==
  /\ Parsing("Input")
  /\ SetInput(id, physMsg.state)
  /\ Parsed
  /\ UNCHANGED <<m_objects, fault>>

(* Faulty variant: the templates that are in planes[] are ignored. *)
ParseAddPhysUnknown ==
  /\ Parsing("AddPhys")
  /\ m_objects' = IF physMsg.known THEN m_objects ELSE m_objects \cup {physMsg.objid}
  /\ Parsed
  /\ UNCHANGED <<m_characters, fault>>

(* A template that is not one of planes[] is reported and ignored. *)
ParseAddPhys ==
  /\ Parsing("AddPhys")
  /\ m_objects' = IF physMsg.known THEN m_objects \cup {physMsg.objid} ELSE m_objects
  /\ Parsed
  /\ UNCHANGED <<m_characters, fault>>

ParseAddChar ==
  /\ Parsing("AddChar")
  /\ m_characters' = Assign(m_characters, physMsg.objid, Still)
  /\ Parsed
  /\ UNCHANGED <<m_objects, fault>>

(* The two deletions read the pointer with operator[], which makes a null  *)
(* one for an id that is not there, and then follow it.                    *)
ParseDelPhys ==
  /\ Parsing("DelPhys")
  /\ fault' = IF physMsg.objid \in m_objects THEN fault ELSE "null object"
  /\ m_objects' = m_objects \ {physMsg.objid}
  /\ Parsed
  /\ UNCHANGED m_characters

ParseDelChar ==
  /\ Parsing("DelChar")
  /\ fault' = IF physMsg.objid \in DOMAIN m_characters THEN fault ELSE "null character"
  /\ m_characters' = Erase(m_characters, physMsg.objid)
  /\ Parsed
  /\ UNCHANGED m_objects

(* What the thread does on its own: nothing here touches the server. *)
PhysInternal ==
  \/ (PhysLoop \/ PhysPop \/ PhysCleanup) /\ UNCHANGED fault
  \/ ParseAddPhys
  \/ ParseAddChar
  \/ ParseDelChar
-----------------------------------------------------------------------------
(* The messages that have not taken effect yet. *)
InFlight == Contents(physQueue) \cup {physMsg}

AddPending == {m.objid : m \in {x \in InFlight : x.type = "AddChar"}}
DelPending == {m.objid : m \in {x \in InFlight : x.type = "DelChar"}}

(* Nothing is on its way to the physics world. *)
PhysIdle == physQueue = <<>> /\ physMsg = NoMsg /\ physPc \notin {"cleanup", "ended", "gone"}

PhysTypeOK ==
  /\ \A i \in DOMAIN m_characters : i \in Nat
  /\ m_objects \subseteq Nat
  /\ physPc \in {"loop", "drain", "transforms", "cleanup", "ended", "gone"}
  /\ physMsg # NoMsg => physPc = "drain"
  /\ m_finish \in BOOLEAN
  /\ physPc \in {"cleanup", "ended", "gone"} => m_finish
=============================================================================
