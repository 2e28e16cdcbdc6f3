--------------------------- MODULE PhysicsCaller ----------------------------
(***************************************************************************)
(* BtPhysics under any caller of PhysicsIface (core/physicsiface.hpp) that *)
(* takes a fresh id for every addPhysical, deletes an id at most once and  *)
(* only after adding it.  The history of the calls says what the world     *)
(* must be once the queue is empty.  The module adds what a tick makes of  *)
(* the input states, updateCharacterObjects: what the controller of each   *)
(* character is told.  Whether a character stands on the ground (canJump)  *)
(* is Bullet's business.                                                   *)
(***************************************************************************)
EXTENDS BtPhysics

CONSTANTS CharIds,    \* the ids the caller uses for characters
          ObjIds,     \* the ids it uses for other objects
          States,     \* the input states it sets
          CallLimit   \* bound on the number of calls

ASSUME CallerAssumption ==
  /\ CharIds \subseteq Nat /\ ObjIds \subseteq Nat /\ CharIds \cap ObjIds = {}
  /\ States \subseteq SUBSET Bits
  /\ CallLimit \in Nat

VARIABLES motion,  \* per character how it moves
          calls    \* history: the messages pushed, in the order of the calls

callerVars == <<physVars, fault, motion, calls>>

(* A character that has been told nothing since it was made. *)
Resting == [side |-> 0, forward |-> 0, turn |-> 0, jump |-> FALSE, air |-> TRUE]

CallerInit == PhysInit /\ fault = "none" /\ motion = EmptyMap /\ calls = <<>>

(* The calls made so far of one type for one id. *)
CallsOf(type, id) == {i \in 1..Len(calls) : calls[i].type = type /\ calls[i].objid = id}

Call(msg) ==
  /\ Len(calls) < CallLimit
  /\ PhysPush(msg)
  /\ calls' = Append(calls, msg)
  /\ UNCHANGED <<fault, motion>>

CallAddPhysical ==
  \/ \E id \in CharIds : CallsOf("AddChar", id) = {} /\ Call(AddChar(id))
  \/ \E id \in ObjIds, known \in BOOLEAN :
       CallsOf("AddPhys", id) = {} /\ Call(AddPhys(id, known))

CallDelPhysical ==
  \/ \E id \in CharIds : /\ CallsOf("AddChar", id) # {}
                         /\ CallsOf("DelChar", id) = {}
                         /\ Call(DelChar(id))
  \/ \E id \in ObjIds : /\ CallsOf("AddPhys", id) # {}
                        /\ CallsOf("DelPhys", id) = {}
                        /\ Call(DelPhys(id))

CallSetInputState == \E id \in CharIds, s \in States : Call(ForceState(id, s))

CallFinish == ~m_finish /\ PhysFinish /\ UNCHANGED <<fault, motion, calls>>

-----------------------------------------------------------------------------
(* What the bits make of a character that stands on the ground.  Shoot is  *)
(* not implemented.                                                        *)
Motion(state) ==
  LET Towards(plus, minus) == IF plus \in state /\ minus \notin state THEN 1
                              ELSE IF minus \in state /\ plus \notin state THEN -1 ELSE 0
  IN  [side    |-> Towards("StrafeRight", "StrafeLeft"),
       forward |-> Towards("WalkForward", "WalkReverse"),
       turn    |-> Towards("TurnLeft", "TurnRight"),
       jump    |-> "Jump" \in state,
       air     |-> FALSE]

(* updateCharacterObjects: one in the air goes on as it went. *)
UpdateCharacterObjects(ground) ==
  [id \in DOMAIN m_characters |->
     IF id \in ground THEN Motion(m_characters[id])
     ELSE [motion[id] EXCEPT !.turn = 0, !.jump = FALSE, !.air = TRUE]]

(* A tick of a server without baddies and without clients. *)
EmptyTick ==
  /\ \E ground \in SUBSET DOMAIN m_characters : motion' = UpdateCharacterObjects(ground)
  /\ PhysTick({}, Still)
  /\ UNCHANGED <<fault, calls>>

(* Between ticks characters are made and deleted. *)
Made == [id \in DOMAIN m_characters' |-> Lookup(motion, id, Resting)]

PhysStep ==
  \/ PhysInternal /\ motion' = Made /\ UNCHANGED calls
  \/ (ParseForceState \/ ParseDelPhys) /\ UNCHANGED <<motion, calls>>
  \/ EmptyTick
  \/ (PhysTransforms \/ PhysNotify) /\ UNCHANGED <<fault, motion, calls>>

CallerNext ==
  /\ fault = "none"
  /\ \/ CallAddPhysical
     \/ CallDelPhysical
     \/ CallSetInputState
     \/ CallFinish
     \/ PhysStep

CallerSpec == CallerInit /\ [][CallerNext]_callerVars

(* The physics thread keeps running; nobody is obliged to call it. *)
CallerFairSpec == CallerSpec /\ WF_callerVars(fault = "none" /\ PhysStep)
-----------------------------------------------------------------------------
(* The world the calls ask for: the characters and objects added and not   *)
(* deleted, and for each character the state set last since it was added.  *)
AskedCharacters == {id \in CharIds : CallsOf("AddChar", id) # {} /\ CallsOf("DelChar", id) = {}}
AskedObjects == {id \in ObjIds : /\ \E i \in CallsOf("AddPhys", id) : calls[i].known
                                 /\ CallsOf("DelPhys", id) = {}}
AskedState(id) ==
  LET added == CHOOSE i \in CallsOf("AddChar", id) : TRUE
      sets  == {i \in CallsOf("ForceState", id) : i > added}
  IN  IF sets = {} THEN Still
      ELSE calls[CHOOSE i \in sets : \A j \in sets : j <= i].state

(* "Set the input state of a character" (physicsiface.hpp:40): when every  *)
(* call has taken effect, the world is the one the calls asked for, in the *)
(* order they were made, and after a tick every character that stands on   *)
(* the ground moves as it was asked to last, whatever it was asked before  *)
(* and while it was in the air (btphysics.cpp:142-146, 206-224, 232-360).  *)
CallsTakeEffect ==
  PhysIdle /\ fault = "none" =>
    /\ DOMAIN m_characters = AskedCharacters
    /\ m_objects = AskedObjects
    /\ \A id \in AskedCharacters :
         /\ m_characters[id] = AskedState(id)
         /\ physPc = "transforms" /\ ~motion[id].air => motion[id] = Motion(AskedState(id))

(* The objects whose addition is ignored, for their unknown template.      *)
Ignored == {id \in ObjIds : \E i \in CallsOf("AddPhys", id) : ~calls[i].known}

(* "Remove a physical object from the world" (physicsiface.hpp:32): a      *)
(* deletion finds what it deletes when it is parsed, in the order of the   *)
(* calls, with one exception.  Nobody tells the caller that an addition    *)
(* was ignored, and the deletion of such an object follows a null pointer  *)
(* (btphysics.cpp:253-256, 293-295, 303-305).                              *)
DeletionsFindTheirObject ==
  /\ physMsg.type = "DelChar" => physMsg.objid \in DOMAIN m_characters
  /\ physMsg.type = "DelPhys" => physMsg.objid \in m_objects \cup Ignored
  /\ fault \in {"none", "null object"}
  /\ fault = "null object" => \E id \in Ignored : CallsOf("DelPhys", id) # {}

(* finish ends the thread, however many messages are still queued          *)
(* (btphysics.cpp:138-144, 198-204).                                       *)
FinishEndsTheThread == m_finish ~> (physPc = "gone" \/ fault # "none")
=============================================================================
