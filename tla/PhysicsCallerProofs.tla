------------------------ MODULE PhysicsCallerProofs -------------------------
(***************************************************************************)
(* With a first-in first-out queue the physics thread does what its        *)
(* callers ask for, for any ids, input states and number of calls: the     *)
(* world is at every moment the one that the messages parsed so far ask    *)
(* for, and the others wait in the queue in the order of the calls.        *)
(***************************************************************************)
EXTENDS PhysicsCaller, TLAPS

CallMsgs ==
  {AddChar(id) : id \in CharIds} \cup {DelChar(id) : id \in CharIds}
  \cup {AddPhys(id, known) : id \in ObjIds, known \in BOOLEAN} \cup {DelPhys(id) : id \in ObjIds}
  \cup {ForceState(id, s) : id \in CharIds, s \in States}

Once == {"AddChar", "AddPhys", "DelChar", "DelPhys"}

(* What a caller sticks to. *)
CallsInv ==
  /\ calls \in Seq(CallMsgs)
  /\ \A type \in Once, id \in CharIds \cup ObjIds : \A i, j \in CallsOf(type, id) : i = j
  /\ \A id \in CharIds : \A j \in CallsOf("DelChar", id) : \E i \in CallsOf("AddChar", id) : i < j
  /\ \A id \in ObjIds : \A j \in CallsOf("DelPhys", id) : \E i \in CallsOf("AddPhys", id) : i < j

(* The first n calls have been parsed; the next is being parsed if one is, *)
(* and the others are in the queue.                                        *)
QueueAt(n) ==
  /\ Len(calls) = n + (IF physMsg = NoMsg THEN 0 ELSE 1) + Len(physQueue)
  /\ \A i \in 1..Len(physQueue) : physQueue[i] = calls[Len(calls) - Len(physQueue) + i]
  /\ physMsg # NoMsg => physMsg = calls[n + 1]

(* The world that the first n calls ask for. *)
FirstOf(n, type, id) == {i \in CallsOf(type, id) : i <= n}
CharactersAt(n) ==
  {id \in CharIds : FirstOf(n, "AddChar", id) # {} /\ FirstOf(n, "DelChar", id) = {}}
ObjectsAt(n) ==
  {id \in ObjIds : /\ \E i \in FirstOf(n, "AddPhys", id) : calls[i].known
                   /\ FirstOf(n, "DelPhys", id) = {}}

(* Which of them set the state of a character after its add. *)
SetsAt(n, id) ==
  {i \in FirstOf(n, "ForceState", id) : \A j \in FirstOf(n, "AddChar", id) : j < i}

StateAt(n, id, s) ==
  \/ SetsAt(n, id) = {} /\ s = Still
  \/ \E i \in SetsAt(n, id) : calls[i].state = s /\ \A j \in SetsAt(n, id) : j <= i

WorldAt(n) ==
  physPc \notin {"ended", "gone"} =>
    /\ DOMAIN m_characters = CharactersAt(n)
    /\ m_objects = ObjectsAt(n)
    /\ \A id \in CharactersAt(n) : StateAt(n, id, m_characters[id])

(* How the characters move; a character in the air says so. *)
MotionInv ==
  /\ DOMAIN motion = DOMAIN m_characters
  /\ \A id \in DOMAIN motion : motion[id] \in
       [side : Int, forward : Int, turn : Int, jump : BOOLEAN, air : BOOLEAN]
  /\ physPc = "transforms" =>
       \A id \in DOMAIN motion : motion[id].air \/ motion[id] = Motion(m_characters[id])

(* The only thing that can go wrong. *)
FaultInv ==
  \/ fault = "none"
  \/ fault = "null object" /\ \E id \in Ignored : CallsOf("DelPhys", id) # {}

ThreadInv ==
  /\ physQueue \in Seq(CallMsgs)
  /\ physMsg \in CallMsgs \cup {NoMsg}
  /\ physMsg # NoMsg => physPc = "drain"

CallerInv ==
  /\ CallsInv /\ FaultInv /\ ThreadInv /\ MotionInv
  /\ \E n \in 0..Len(calls) : QueueAt(n) /\ WorldAt(n)
-----------------------------------------------------------------------------
LEMMA MsgKinds ==
  ASSUME NEW msg \in CallMsgs
  PROVE  /\ msg.type \in Once \cup {"ForceState"}
         /\ msg # NoMsg
         /\ msg.type \in {"AddChar", "DelChar", "ForceState"} => msg.objid \in CharIds
         /\ msg.type \in {"AddPhys", "DelPhys"} => msg.objid \in ObjIds
         /\ msg.type = "AddPhys" => msg.known \in BOOLEAN
BY DEF CallMsgs, Once, AddChar, DelChar, AddPhys, DelPhys, ForceState, NoMsg

LEMMA InitCaller == CallerInit => CallerInv
<1> SUFFICES ASSUME CallerInit PROVE CallerInv
  OBVIOUS
<1> USE DEF CallerInit, PhysInit
<1>1. CallsInv
  BY DEF CallsInv, CallsOf
<1>2. ThreadInv /\ FaultInv
  BY DEF ThreadInv, FaultInv
<1>3. MotionInv
  BY DEF MotionInv, EmptyMap
<1>4. QueueAt(0)
  BY DEF QueueAt
<1>5. CharactersAt(0) = {} /\ ObjectsAt(0) = {}
  BY DEF CharactersAt, ObjectsAt, FirstOf, CallsOf
<1>6. WorldAt(0)
  BY <1>5 DEF WorldAt, EmptyMap
<1>7. 0 \in 0..Len(calls)
  OBVIOUS
<1> QED
  BY <1>1, <1>2, <1>3, <1>4, <1>6, <1>7 DEF CallerInv

(* A call comes after those made before. *)
LEMMA CallsGrow ==
  ASSUME calls \in Seq(CallMsgs), NEW msg \in CallMsgs, calls' = Append(calls, msg)
  PROVE  /\ calls' \in Seq(CallMsgs)
         /\ Len(calls) \in Nat
         /\ Len(calls') = Len(calls) + 1
         /\ calls'[Len(calls) + 1] = msg
         /\ \A i \in 1..Len(calls) : calls'[i] = calls[i]
         /\ \A type, id :
              CallsOf(type, id)' = CallsOf(type, id)
                \cup (IF msg.type = type /\ msg.objid = id THEN {Len(calls) + 1} ELSE {})
<1>1. /\ calls' \in Seq(CallMsgs)
      /\ Len(calls) \in Nat
      /\ Len(calls') = Len(calls) + 1
      /\ calls'[Len(calls) + 1] = msg
  OBVIOUS
<1>2. \A i \in 1..Len(calls) : calls'[i] = calls[i]
  OBVIOUS
<1>3. ASSUME NEW type, NEW id
      PROVE  CallsOf(type, id)' = CallsOf(type, id)
                \cup (IF msg.type = type /\ msg.objid = id THEN {Len(calls) + 1} ELSE {})
  <2>1. \A i : i \in 1..Len(calls') <=> i \in 1..Len(calls) \/ i = Len(calls) + 1
    BY <1>1
  <2> QED
    BY <1>1, <1>2, <2>1 DEF CallsOf
<1> QED
  BY <1>1, <1>2, <1>3

(* What the first n calls ask for does not depend on the others. *)
LEMMA LaterCallsDoNotMatter ==
  ASSUME calls \in Seq(CallMsgs), NEW msg \in CallMsgs, calls' = Append(calls, msg),
         NEW n \in 0..Len(calls)
  PROVE  /\ CharactersAt(n)' = CharactersAt(n)
         /\ ObjectsAt(n)' = ObjectsAt(n)
         /\ \A id, s : StateAt(n, id, s)' <=> StateAt(n, id, s)
<1>1. \A type, id : FirstOf(n, type, id)' = FirstOf(n, type, id)
  BY CallsGrow DEF FirstOf
<1>2. \A type, id : \A i \in FirstOf(n, type, id) : calls'[i] = calls[i]
  BY CallsGrow DEF FirstOf, CallsOf
<1>3. CharactersAt(n)' = CharactersAt(n)
  BY <1>1 DEF CharactersAt
<1>4. ObjectsAt(n)' = ObjectsAt(n)
  <2>1. \A id : (\E i \in FirstOf(n, "AddPhys", id) : calls[i].known)
              <=> (\E i \in FirstOf(n, "AddPhys", id) : calls'[i].known)
    BY <1>2
  <2> QED
    BY <2>1, <1>1 DEF ObjectsAt
<1>5. \A id : SetsAt(n, id)' = SetsAt(n, id)
  BY <1>1 DEF SetsAt
<1>6. \A id : \A i \in SetsAt(n, id) : calls'[i] = calls[i]
  BY <1>2 DEF SetsAt
<1>7. ASSUME NEW id, NEW s PROVE StateAt(n, id, s)' <=> StateAt(n, id, s)
  <2>1. SetsAt(n, id)' = SetsAt(n, id)
    BY <1>5
  <2>2. \A i \in SetsAt(n, id) : calls'[i].state = calls[i].state
    BY <1>6
  <2> QED
    BY <2>1, <2>2 DEF StateAt
<1> QED
  BY <1>3, <1>4, <1>7

(* A call goes to the end of the queue. *)
LEMMA Called ==
  ASSUME CallerInv, fault = "none", NEW msg \in CallMsgs, Call(msg), CallsInv'
  PROVE  CallerInv'
<1> PICK n \in 0..Len(calls) : QueueAt(n) /\ WorldAt(n)
  BY DEF CallerInv
<1>1. calls \in Seq(CallMsgs) /\ calls' = Append(calls, msg)
  BY DEF CallerInv, CallsInv, Call
<1>2. ThreadInv' /\ FaultInv'
  BY DEF CallerInv, ThreadInv, FaultInv, Call, PhysPush
<1>3. MotionInv'
  BY DEF CallerInv, MotionInv, Call, PhysPush
<1>4. n \in 0..Len(calls')
  BY <1>1, CallsGrow
<1>5. QueueAt(n)'
  <2>1. /\ physQueue \in Seq(CallMsgs) /\ physQueue' = Append(physQueue, msg)
        /\ physMsg' = physMsg
    BY DEF CallerInv, ThreadInv, Call, PhysPush
  <2>2. /\ Len(physQueue') = Len(physQueue) + 1 /\ Len(physQueue) \in Nat
        /\ physQueue'[Len(physQueue) + 1] = msg
        /\ \A i \in 1..Len(physQueue) : physQueue'[i] = physQueue[i]
    BY <2>1
  <2>3. Len(calls) = n + (IF physMsg = NoMsg THEN 0 ELSE 1) + Len(physQueue)
    BY DEF QueueAt
  <2>4. Len(calls') = Len(calls) + 1 /\ Len(calls) \in Nat
    BY <1>1, CallsGrow
  <2>5. ASSUME NEW i \in 1..Len(physQueue')
        PROVE  physQueue'[i] = calls'[Len(calls') - Len(physQueue') + i]
    <3>1. CASE i = Len(physQueue) + 1
      <4>1. calls'[Len(calls) + 1] = msg
        BY <1>1, CallsGrow
      <4>2. Len(calls') - Len(physQueue') + i = Len(calls) + 1
        <5>1. i \in Nat /\ Len(physQueue') = i
          BY <3>1, <2>2
        <5> QED
          BY <5>1, <2>4
      <4> QED
        BY <3>1, <4>1, <4>2, <2>2
    <3>2. CASE i \in 1..Len(physQueue)
      <4>1. physQueue[i] = calls[Len(calls) - Len(physQueue) + i]
        BY <3>2 DEF QueueAt
      <4>2. Len(calls) - Len(physQueue) + i \in 1..Len(calls)
        BY <3>2, <2>2, <2>3
      <4>3. Len(calls') - Len(physQueue') + i = Len(calls) - Len(physQueue) + i
        BY <3>2, <2>2, <2>4, <2>3
      <4> QED
        BY <3>2, <4>1, <4>2, <4>3, <2>2, <1>1, CallsGrow
    <3> QED
      BY <3>1, <3>2, <2>2
  <2>6. physMsg' # NoMsg => physMsg' = calls'[n + 1]
    <3> SUFFICES ASSUME physMsg # NoMsg PROVE physMsg = calls'[n + 1]
      BY <2>1
    <3>1. n + 1 \in 1..Len(calls)
      BY <2>2, <2>3
    <3> QED
      BY <3>1, <1>1, CallsGrow DEF QueueAt
  <2>7. Len(calls') = n + (IF physMsg' = NoMsg THEN 0 ELSE 1) + Len(physQueue')
    BY <2>1, <2>2, <2>3, <2>4
  <2> QED
    BY <2>5, <2>6, <2>7 DEF QueueAt
<1>6. WorldAt(n)'
  <2>1. UNCHANGED <<m_characters, m_objects, physPc>>
    BY DEF Call, PhysPush
  <2> QED
    BY <2>1, <1>1, LaterCallsDoNotMatter DEF WorldAt
<1> QED
  BY <1>2, <1>3, <1>4, <1>5, <1>6 DEF CallerInv
-----------------------------------------------------------------------------
(* The calls stick to the discipline. *)
LEMMA CallsInvStep ==
  ASSUME CallsInv, NEW msg \in CallMsgs, Call(msg),
         msg.type \in Once => CallsOf(msg.type, msg.objid) = {},
         msg.type = "DelChar" => CallsOf("AddChar", msg.objid) # {},
         msg.type = "DelPhys" => CallsOf("AddPhys", msg.objid) # {}
  PROVE  CallsInv'
<1> DEFINE new == Len(calls) + 1
<1> USE CallerAssumption
<1>1. calls \in Seq(CallMsgs) /\ calls' = Append(calls, msg)
  BY DEF CallsInv, Call
<1>2. calls' \in Seq(CallMsgs)
  BY <1>1, CallsGrow
<1>3. \A type, id : CallsOf(type, id)' =
        CallsOf(type, id) \cup (IF msg.type = type /\ msg.objid = id THEN {new} ELSE {})
  BY <1>1, CallsGrow
<1>4. \A type, id : \A i \in CallsOf(type, id) : i \in 1..Len(calls) /\ i < new /\ calls'[i] = calls[i]
  <2>1. Len(calls) \in Nat /\ \A i \in 1..Len(calls) : calls'[i] = calls[i]
    BY <1>1, CallsGrow
  <2> QED
    BY <2>1 DEF CallsOf
<1>5. ASSUME NEW type \in Once, NEW id \in CharIds \cup ObjIds
      PROVE  \A i, j \in CallsOf(type, id)' : i = j
  <2>1. \A i, j \in CallsOf(type, id) : i = j
    BY <1>5 DEF CallsInv
  <2>2. CASE msg.type = type /\ msg.objid = id
    <3>1. CallsOf(type, id) = {}
      BY <2>2
    <3>2. CallsOf(type, id)' = {new}
      BY <3>1, <2>2, <1>3
    <3> QED
      BY <3>2
  <2>3. CASE ~(msg.type = type /\ msg.objid = id)
    BY <2>1, <2>3, <1>3
  <2> QED
    BY <2>2, <2>3
<1>6. ASSUME NEW id \in CharIds, NEW j \in CallsOf("DelChar", id)'
      PROVE  \E i \in CallsOf("AddChar", id)' : i < j
  <2>1. CASE j \in CallsOf("DelChar", id)
    <3>1. PICK i \in CallsOf("AddChar", id) : i < j
      BY <2>1 DEF CallsInv
    <3>2. i \in CallsOf("AddChar", id)'
      BY <1>3
    <3> QED
      BY <3>1, <3>2
  <2>2. CASE j \notin CallsOf("DelChar", id)
    <3>1. msg.type = "DelChar" /\ msg.objid = id /\ j = new
      BY <2>2, <1>3
    <3>2. PICK i : i \in CallsOf("AddChar", id)
      BY <3>1
    <3>3. i \in CallsOf("AddChar", id)' /\ i < j
      BY <3>1, <3>2, <1>3, <1>4
    <3> QED
      BY <3>3
  <2> QED
    BY <2>1, <2>2
<1>7. ASSUME NEW id \in ObjIds, NEW j \in CallsOf("DelPhys", id)'
      PROVE  \E i \in CallsOf("AddPhys", id)' : i < j
  <2>1. CASE j \in CallsOf("DelPhys", id)
    <3>1. PICK i \in CallsOf("AddPhys", id) : i < j
      BY <2>1 DEF CallsInv
    <3>2. i \in CallsOf("AddPhys", id)'
      BY <1>3
    <3> QED
      BY <3>1, <3>2
  <2>2. CASE j \notin CallsOf("DelPhys", id)
    <3>1. msg.type = "DelPhys" /\ msg.objid = id /\ j = new
      BY <2>2, <1>3
    <3>2. PICK i : i \in CallsOf("AddPhys", id)
      BY <3>1
    <3>3. i \in CallsOf("AddPhys", id)' /\ i < j
      BY <3>1, <3>2, <1>3, <1>4
    <3> QED
      BY <3>3
  <2> QED
    BY <2>1, <2>2
<1> QED
  BY <1>2, <1>5, <1>6, <1>7 DEF CallsInv

LEMMA CallStep ==
  ASSUME CallerInv, fault = "none", CallAddPhysical \/ CallDelPhysical \/ CallSetInputState
  PROVE  CallerInv'
<1>0. CallsInv
  BY DEF CallerInv
<1> USE DEF CallMsgs, AddChar, DelChar, AddPhys, DelPhys, ForceState, Once
<1>1. ASSUME NEW id \in CharIds, CallsOf("AddChar", id) = {}, Call(AddChar(id))
      PROVE  CallerInv'
  <2> DEFINE msg == AddChar(id)
  <2>1. msg \in CallMsgs /\ msg.type = "AddChar" /\ msg.objid = id
    OBVIOUS
  <2> HIDE DEF msg
  <2>2. CallsInv'
    BY <1>0, <1>1, <2>1, CallsInvStep DEF msg
  <2> QED
    BY <2>1, <2>2, <1>1, Called DEF msg
<1>2. ASSUME NEW id \in ObjIds, NEW known \in BOOLEAN, CallsOf("AddPhys", id) = {},
             Call(AddPhys(id, known))
      PROVE  CallerInv'
  <2> DEFINE msg == AddPhys(id, known)
  <2>1. msg \in CallMsgs /\ msg.type = "AddPhys" /\ msg.objid = id
    OBVIOUS
  <2> HIDE DEF msg
  <2>2. CallsInv'
    BY <1>0, <1>2, <2>1, CallsInvStep DEF msg
  <2> QED
    BY <2>1, <2>2, <1>2, Called DEF msg
<1>3. ASSUME NEW id \in CharIds, CallsOf("AddChar", id) # {}, CallsOf("DelChar", id) = {},
             Call(DelChar(id))
      PROVE  CallerInv'
  <2> DEFINE msg == DelChar(id)
  <2>1. msg \in CallMsgs /\ msg.type = "DelChar" /\ msg.objid = id
    OBVIOUS
  <2> HIDE DEF msg
  <2>2. CallsInv'
    BY <1>0, <1>3, <2>1, CallsInvStep DEF msg
  <2> QED
    BY <2>1, <2>2, <1>3, Called DEF msg
<1>4. ASSUME NEW id \in ObjIds, CallsOf("AddPhys", id) # {},
             CallsOf("DelPhys", id) = {}, Call(DelPhys(id))
      PROVE  CallerInv'
  <2> DEFINE msg == DelPhys(id)
  <2>1. msg \in CallMsgs /\ msg.type = "DelPhys" /\ msg.objid = id
    OBVIOUS
  <2> HIDE DEF msg
  <2>2. CallsInv'
    BY <1>0, <1>4, <2>1, CallsInvStep DEF msg
  <2> QED
    BY <2>1, <2>2, <1>4, Called DEF msg
<1>5. ASSUME NEW id \in CharIds, NEW s \in States, Call(ForceState(id, s))
      PROVE  CallerInv'
  <2> DEFINE msg == ForceState(id, s)
  <2>1. msg \in CallMsgs /\ msg.type = "ForceState"
    OBVIOUS
  <2> HIDE DEF msg
  <2>2. CallsInv'
    BY <1>0, <1>5, <2>1, CallsInvStep DEF msg
  <2> QED
    BY <2>1, <2>2, <1>5, Called DEF msg
<1> QED
  BY <1>1, <1>2, <1>3, <1>4, <1>5 DEF CallAddPhysical, CallDelPhysical, CallSetInputState
-----------------------------------------------------------------------------
(* A message that is parsed is the next call, and the others stay where    *)
(* they are.                                                               *)
LEMMA Parsing1 ==
  ASSUME CallerInv, NEW n \in 0..Len(calls), QueueAt(n), physMsg # NoMsg, Parsed,
         UNCHANGED calls
  PROVE  /\ physMsg = calls[n + 1] /\ physMsg \in CallMsgs
         /\ n + 1 \in 1..Len(calls)
         /\ QueueAt(n + 1)'
         /\ physPc = "drain" /\ physPc' = "drain"
<1>1. physMsg = calls[n + 1] /\ physMsg \in CallMsgs /\ physPc = "drain"
  BY DEF CallerInv, ThreadInv, QueueAt
<1>2. /\ physPc' = "drain" /\ physMsg' = NoMsg /\ physQueue' = physQueue /\ calls' = calls
  BY <1>1 DEF Parsed
<1>3. Len(physQueue) \in Nat /\ Len(calls) \in Nat /\ Len(calls) = n + 1 + Len(physQueue)
  BY DEF CallerInv, ThreadInv, CallsInv, QueueAt
<1>4. n + 1 \in 1..Len(calls)
  BY <1>3
<1>5. QueueAt(n + 1)'
  <2>1. \A i \in 1..Len(physQueue) : physQueue[i] = calls[Len(calls) - Len(physQueue) + i]
    BY DEF QueueAt
  <2>2. Len(calls) = (n + 1) + 0 + Len(physQueue)
    BY <1>3
  <2> QED
    BY <1>2, <2>1, <2>2 DEF QueueAt
<1> QED
  BY <1>1, <1>2, <1>4, <1>5

(* What the next call adds to the calls parsed. *)
LEMMA FirstOfNext ==
  ASSUME CallsInv, NEW n \in 0..Len(calls), n + 1 \in 1..Len(calls)
  PROVE  /\ \A type, id :
              FirstOf(n + 1, type, id) = FirstOf(n, type, id)
                \cup (IF calls[n + 1].type = type /\ calls[n + 1].objid = id THEN {n + 1} ELSE {})
         /\ \A type, id : \A i \in FirstOf(n, type, id) : i \in 1..n /\ i < n + 1
<1>1. Len(calls) \in Nat
  BY DEF CallsInv
<1>2. \A i : (i \in 1..Len(calls) /\ i <= n + 1)
              <=> ((i \in 1..Len(calls) /\ i <= n) \/ i = n + 1)
  BY <1>1
<1> QED
  BY <1>1, <1>2 DEF FirstOf, CallsOf

LEMMA FirstOfOther ==
  ASSUME CallsInv, NEW n \in 0..Len(calls), n + 1 \in 1..Len(calls), NEW type, NEW id,
         calls[n + 1].type # type \/ calls[n + 1].objid # id
  PROVE  FirstOf(n + 1, type, id) = FirstOf(n, type, id)
<1>1. FirstOf(n + 1, type, id) = FirstOf(n, type, id)
        \cup (IF calls[n + 1].type = type /\ calls[n + 1].objid = id THEN {n + 1} ELSE {})
  BY FirstOfNext
<1> QED
  BY <1>1

(* The world the next call asks for, by the type of the call. *)
LEMMA NothingAdded ==
  ASSUME CallsInv, NEW n \in 0..Len(calls), n + 1 \in 1..Len(calls)
  PROVE  /\ calls[n + 1].type \notin {"AddChar", "DelChar"} => CharactersAt(n + 1) = CharactersAt(n)
         /\ calls[n + 1].type \notin {"AddPhys", "DelPhys"} => ObjectsAt(n + 1) = ObjectsAt(n)
         /\ \A id, s : (calls[n + 1].type \notin {"AddChar", "ForceState"} \/ calls[n + 1].objid # id)
                        => (StateAt(n + 1, id, s) <=> StateAt(n, id, s))
<1>1. ASSUME NEW type, NEW id, calls[n + 1].type # type \/ calls[n + 1].objid # id
      PROVE  FirstOf(n + 1, type, id) = FirstOf(n, type, id)
  BY <1>1, FirstOfOther
<1>2. calls[n + 1].type \notin {"AddChar", "DelChar"} => CharactersAt(n + 1) = CharactersAt(n)
  BY <1>1 DEF CharactersAt
<1>3. calls[n + 1].type \notin {"AddPhys", "DelPhys"} => ObjectsAt(n + 1) = ObjectsAt(n)
  BY <1>1 DEF ObjectsAt
<1>4. ASSUME NEW id, NEW s,
             calls[n + 1].type \notin {"AddChar", "ForceState"} \/ calls[n + 1].objid # id
      PROVE  StateAt(n + 1, id, s) <=> StateAt(n, id, s)
  <2>1. SetsAt(n + 1, id) = SetsAt(n, id)
    BY <1>1, <1>4 DEF SetsAt
  <2> QED
    BY <2>1 DEF StateAt
<1> QED
  BY <1>2, <1>3, <1>4

(* As long as nobody calls, what the calls ask for is the same.            *)
LEMMA SameCalls ==
  ASSUME UNCHANGED calls
  PROVE  \A n : /\ CharactersAt(n)' = CharactersAt(n)
                /\ ObjectsAt(n)' = ObjectsAt(n)
                /\ \A id, s : StateAt(n, id, s)' <=> StateAt(n, id, s)
BY DEF CharactersAt, ObjectsAt, StateAt, SetsAt, FirstOf, CallsOf

LEMMA CharacterAdded ==
  ASSUME CallsInv, NEW n \in 0..Len(calls), n + 1 \in 1..Len(calls),
         calls[n + 1].type = "AddChar", NEW id \in CharIds, calls[n + 1].objid = id
  PROVE  CharactersAt(n + 1) = CharactersAt(n) \cup {id} /\ StateAt(n + 1, id, Still)
<1>1. n + 1 \in CallsOf("AddChar", id)
  BY DEF CallsOf
<1>2. FirstOf(n + 1, "AddChar", id) = FirstOf(n, "AddChar", id) \cup {n + 1}
  BY FirstOfNext
<1>3. FirstOf(n + 1, "DelChar", id) = {}
  <2> SUFFICES ASSUME NEW j \in FirstOf(n + 1, "DelChar", id) PROVE FALSE
    OBVIOUS
  <2>1. j \in CallsOf("DelChar", id) /\ j <= n + 1 /\ j \in Nat
    BY DEF FirstOf, CallsOf
  <2>2. PICK i \in CallsOf("AddChar", id) : i < j
    BY <2>1 DEF CallsInv
  <2>3. i = n + 1
    BY <1>1, <2>2 DEF CallsInv, Once
  <2> QED
    BY <2>1, <2>2, <2>3
<1>4. ASSUME NEW other \in CharIds, other # id
      PROVE  /\ FirstOf(n + 1, "AddChar", other) = FirstOf(n, "AddChar", other)
             /\ FirstOf(n + 1, "DelChar", other) = FirstOf(n, "DelChar", other)
  BY <1>4, FirstOfOther
<1>5. CharactersAt(n + 1) = CharactersAt(n) \cup {id}
  BY <1>2, <1>3, <1>4 DEF CharactersAt
<1>6. SetsAt(n + 1, id) = {}
  <2> SUFFICES ASSUME NEW i \in SetsAt(n + 1, id) PROVE FALSE
    OBVIOUS
  <2>1. i \in FirstOf(n + 1, "ForceState", id)
    BY DEF SetsAt
  <2>2. i \in FirstOf(n, "ForceState", id)
    BY <2>1, FirstOfNext
  <2>3. i \in Nat /\ i < n + 1 /\ n + 1 < i
    BY <1>2, <2>2, FirstOfNext DEF SetsAt
  <2> QED
    BY <2>3
<1> QED
  BY <1>5, <1>6 DEF StateAt

LEMMA CharacterDeleted ==
  ASSUME CallsInv, NEW n \in 0..Len(calls), n + 1 \in 1..Len(calls),
         calls[n + 1].type = "DelChar", NEW id \in CharIds, calls[n + 1].objid = id
  PROVE  CharactersAt(n + 1) = CharactersAt(n) \ {id} /\ id \in CharactersAt(n)
<1>1. n + 1 \in CallsOf("DelChar", id)
  BY DEF CallsOf
<1>2. PICK i \in CallsOf("AddChar", id) : i < n + 1
  BY <1>1 DEF CallsInv
<1>3. i \in FirstOf(n, "AddChar", id)
  BY <1>2 DEF FirstOf, CallsOf
<1>4. FirstOf(n, "DelChar", id) = {}
  <2> SUFFICES ASSUME NEW j \in FirstOf(n, "DelChar", id) PROVE FALSE
    OBVIOUS
  <2>1. j \in CallsOf("DelChar", id) /\ j < n + 1 /\ j \in Nat
    BY DEF FirstOf, CallsOf
  <2>2. j = n + 1
    BY <1>1, <2>1 DEF CallsInv, Once
  <2> QED
    BY <2>1, <2>2
<1>5. n + 1 \in FirstOf(n + 1, "DelChar", id)
  BY FirstOfNext
<1>6. ASSUME NEW other \in CharIds, other # id
      PROVE  /\ FirstOf(n + 1, "AddChar", other) = FirstOf(n, "AddChar", other)
             /\ FirstOf(n + 1, "DelChar", other) = FirstOf(n, "DelChar", other)
  BY <1>6, FirstOfOther
<1>7. CharactersAt(n + 1) = CharactersAt(n) \ {id}
  BY <1>5, <1>6 DEF CharactersAt
<1> QED
  BY <1>3, <1>4, <1>7 DEF CharactersAt

LEMMA StateSet ==
  ASSUME CallsInv, NEW n \in 0..Len(calls), n + 1 \in 1..Len(calls),
         calls[n + 1].type = "ForceState", NEW id \in CharIds, calls[n + 1].objid = id
  PROVE  StateAt(n + 1, id, calls[n + 1].state)
<1>1. FirstOf(n + 1, "AddChar", id) = FirstOf(n, "AddChar", id)
  BY FirstOfOther
<1>2. n + 1 \in FirstOf(n + 1, "ForceState", id)
  BY FirstOfNext
<1>3. n + 1 \in SetsAt(n + 1, id)
  BY <1>1, <1>2, FirstOfNext DEF SetsAt
<1>4. \A j \in SetsAt(n + 1, id) : j <= n + 1
  BY DEF SetsAt, FirstOf
<1> QED
  BY <1>3, <1>4 DEF StateAt

LEMMA ObjectAdded ==
  ASSUME CallsInv, NEW n \in 0..Len(calls), n + 1 \in 1..Len(calls),
         calls[n + 1].type = "AddPhys", NEW id \in ObjIds, calls[n + 1].objid = id,
         calls[n + 1].known \in BOOLEAN
  PROVE  ObjectsAt(n + 1) = IF calls[n + 1].known THEN ObjectsAt(n) \cup {id} ELSE ObjectsAt(n)
<1>1. n + 1 \in CallsOf("AddPhys", id)
  BY DEF CallsOf
<1>2. FirstOf(n + 1, "AddPhys", id) = FirstOf(n, "AddPhys", id) \cup {n + 1}
  BY FirstOfNext
<1>3. FirstOf(n + 1, "DelPhys", id) = {}
  <2> SUFFICES ASSUME NEW j \in FirstOf(n + 1, "DelPhys", id) PROVE FALSE
    OBVIOUS
  <2>1. j \in CallsOf("DelPhys", id) /\ j <= n + 1 /\ j \in Nat
    BY DEF FirstOf, CallsOf
  <2>2. PICK i \in CallsOf("AddPhys", id) : i < j
    BY <2>1 DEF CallsInv
  <2>3. i = n + 1
    BY <1>1, <2>2 DEF CallsInv, Once
  <2> QED
    BY <2>1, <2>2, <2>3
<1>4. FirstOf(n, "AddPhys", id) = {}
  <2> SUFFICES ASSUME NEW j \in FirstOf(n, "AddPhys", id) PROVE FALSE
    OBVIOUS
  <2>1. j \in CallsOf("AddPhys", id) /\ j < n + 1 /\ j \in Nat
    BY DEF FirstOf, CallsOf
  <2>2. j = n + 1
    BY <1>1, <2>1 DEF CallsInv, Once
  <2> QED
    BY <2>1, <2>2
<1>5. ASSUME NEW other \in ObjIds, other # id
      PROVE  /\ FirstOf(n + 1, "AddPhys", other) = FirstOf(n, "AddPhys", other)
             /\ FirstOf(n + 1, "DelPhys", other) = FirstOf(n, "DelPhys", other)
  BY <1>5, FirstOfOther
<1>6. id \notin ObjectsAt(n)
  BY <1>4 DEF ObjectsAt
<1>7. id \in ObjectsAt(n + 1) <=> calls[n + 1].known
  BY <1>2, <1>3, <1>4 DEF ObjectsAt
<1>8. \A other \in ObjIds : other # id => (other \in ObjectsAt(n + 1) <=> other \in ObjectsAt(n))
  BY <1>5 DEF ObjectsAt
<1>9. ObjectsAt(n) \subseteq ObjIds /\ ObjectsAt(n + 1) \subseteq ObjIds
  BY DEF ObjectsAt
<1>10. CASE calls[n + 1].known
  BY <1>10, <1>6, <1>7, <1>8, <1>9
<1>11. CASE ~calls[n + 1].known
  BY <1>11, <1>6, <1>7, <1>8, <1>9
<1> QED
  BY <1>10, <1>11

LEMMA ObjectDeleted ==
  ASSUME CallsInv, NEW n \in 0..Len(calls), n + 1 \in 1..Len(calls),
         calls[n + 1].type = "DelPhys", NEW id \in ObjIds, calls[n + 1].objid = id
  PROVE  ObjectsAt(n + 1) = ObjectsAt(n) \ {id} /\ id \in ObjectsAt(n) \cup Ignored
<1>1. n + 1 \in CallsOf("DelPhys", id)
  BY DEF CallsOf
<1>2. PICK i \in CallsOf("AddPhys", id) : i < n + 1
  BY <1>1 DEF CallsInv
<1>3. i \in FirstOf(n, "AddPhys", id)
  BY <1>2 DEF FirstOf, CallsOf
<1>4. FirstOf(n, "DelPhys", id) = {}
  <2> SUFFICES ASSUME NEW j \in FirstOf(n, "DelPhys", id) PROVE FALSE
    OBVIOUS
  <2>1. j \in CallsOf("DelPhys", id) /\ j < n + 1 /\ j \in Nat
    BY DEF FirstOf, CallsOf
  <2>2. j = n + 1
    BY <1>1, <2>1 DEF CallsInv, Once
  <2> QED
    BY <2>1, <2>2
<1>5. n + 1 \in FirstOf(n + 1, "DelPhys", id)
  BY FirstOfNext
<1>6. ASSUME NEW other \in ObjIds, other # id
      PROVE  /\ FirstOf(n + 1, "AddPhys", other) = FirstOf(n, "AddPhys", other)
             /\ FirstOf(n + 1, "DelPhys", other) = FirstOf(n, "DelPhys", other)
  BY <1>6, FirstOfOther
<1>7. ObjectsAt(n + 1) = ObjectsAt(n) \ {id}
  BY <1>5, <1>6 DEF ObjectsAt
<1>8. id \in ObjectsAt(n) \cup Ignored
  BY <1>2, <1>3, <1>4 DEF ObjectsAt, Ignored
<1> QED
  BY <1>7, <1>8
-----------------------------------------------------------------------------
(* A character that is made, rests. *)
LEMMA MadeMoves ==
  ASSUME MotionInv, motion' = Made, physPc' # "transforms"
  PROVE  MotionInv'
<1>1. Resting \in [side : Int, forward : Int, turn : Int, jump : BOOLEAN, air : BOOLEAN]
  BY DEF Resting
<1>2. DOMAIN motion' = DOMAIN m_characters'
  BY DEF Made
<1>3. \A id \in DOMAIN m_characters' : motion'[id] = IF id \in DOMAIN motion THEN motion[id] ELSE Resting
  BY DEF Made, Lookup
<1> QED
  BY <1>1, <1>2, <1>3 DEF MotionInv

(* The message that has been parsed did what the call asks for. *)
LEMMA ParsedAsAsked ==
  ASSUME CallerInv, NEW n \in 0..Len(calls), QueueAt(n), physMsg # NoMsg, Parsed,
         UNCHANGED calls, FaultInv', MotionInv',
         DOMAIN m_characters' = CharactersAt(n + 1),
         m_objects' = ObjectsAt(n + 1),
         \A id \in CharactersAt(n + 1) : StateAt(n + 1, id, m_characters'[id])
  PROVE  CallerInv'
<1>1. n + 1 \in 1..Len(calls) /\ QueueAt(n + 1)' /\ physPc' = "drain"
  BY Parsing1
<1>2. CallsInv'
  BY DEF CallerInv, CallsInv, CallsOf
<1>3. ThreadInv'
  BY <1>1 DEF CallerInv, ThreadInv, Parsed
<1>4. WorldAt(n + 1)'
  BY SameCalls DEF WorldAt
<1>5. n + 1 \in 0..Len(calls')
  BY <1>1
<1> QED
  BY <1>1, <1>2, <1>3, <1>4, <1>5 DEF CallerInv

LEMMA ParseAddCharStep ==
  ASSUME CallerInv, ParseAddChar, motion' = Made, UNCHANGED calls
  PROVE  CallerInv'
<1> PICK n \in 0..Len(calls) : QueueAt(n) /\ WorldAt(n)
  BY DEF CallerInv
<1> DEFINE id == physMsg.objid
<1>1. physMsg # NoMsg /\ Parsed /\ physMsg.type = "AddChar"
  BY DEF ParseAddChar, Parsing, NoMsg
<1>2. /\ physMsg = calls[n + 1] /\ physMsg \in CallMsgs /\ n + 1 \in 1..Len(calls)
      /\ physPc = "drain" /\ physPc' = "drain"
  BY <1>1, Parsing1
<1>3. CallsInv /\ FaultInv' /\ id \in CharIds
  BY <1>1, <1>2, MsgKinds DEF CallerInv, ParseAddChar, FaultInv, Ignored, CallsOf
<1>4. MotionInv'
  BY <1>2, MadeMoves DEF CallerInv
<1>5. CharactersAt(n + 1) = CharactersAt(n) \cup {id} /\ StateAt(n + 1, id, Still)
  BY <1>1, <1>2, <1>3, CharacterAdded
<1>6. ObjectsAt(n + 1) = ObjectsAt(n)
  BY <1>1, <1>2, <1>3, NothingAdded
<1>7. DOMAIN m_characters' = CharactersAt(n + 1)
  BY <1>2, <1>5 DEF WorldAt, ParseAddChar, Assign
<1>8. m_objects' = ObjectsAt(n + 1)
  BY <1>2, <1>6 DEF WorldAt, ParseAddChar
<1>9. ASSUME NEW c \in CharactersAt(n + 1) PROVE StateAt(n + 1, c, m_characters'[c])
  <2>1. CASE c = id
    <3>1. m_characters'[c] = Still
      BY <2>1 DEF ParseAddChar, Assign
    <3> QED
      BY <2>1, <3>1, <1>5
  <2>2. CASE c # id
    <3>1. c \in CharactersAt(n)
      BY <2>2, <1>5
    <3>2. m_characters'[c] = m_characters[c] /\ StateAt(n, c, m_characters[c])
      BY <3>1, <2>2, <1>2 DEF ParseAddChar, Assign, WorldAt
    <3> QED
      BY <3>2, <2>2, <1>2, <1>3, NothingAdded
  <2> QED
    BY <2>1, <2>2
<1> QED
  BY <1>1, <1>3, <1>4, <1>7, <1>8, <1>9, ParsedAsAsked

LEMMA ParseDelCharStep ==
  ASSUME CallerInv, ParseDelChar, motion' = Made, UNCHANGED calls
  PROVE  CallerInv'
<1> PICK n \in 0..Len(calls) : QueueAt(n) /\ WorldAt(n)
  BY DEF CallerInv
<1> DEFINE id == physMsg.objid
<1>1. physMsg # NoMsg /\ Parsed /\ physMsg.type = "DelChar"
  <2>1. physMsg.type = "DelChar" /\ Parsed
    BY DEF ParseDelChar, Parsing
  <2> QED
    BY <2>1 DEF NoMsg
<1>2. /\ physMsg = calls[n + 1] /\ physMsg \in CallMsgs /\ n + 1 \in 1..Len(calls)
      /\ physPc = "drain" /\ physPc' = "drain"
  BY <1>1, Parsing1
<1>3. CallsInv /\ id \in CharIds
  BY <1>1, <1>2, MsgKinds DEF CallerInv
<1>4. MotionInv'
  BY <1>2, MadeMoves DEF CallerInv
<1>5. CharactersAt(n + 1) = CharactersAt(n) \ {id} /\ id \in CharactersAt(n)
  BY <1>1, <1>2, <1>3, CharacterDeleted
<1>6. ObjectsAt(n + 1) = ObjectsAt(n)
  BY <1>1, <1>2, <1>3, NothingAdded
<1>7. FaultInv'
  BY <1>2, <1>5 DEF WorldAt, ParseDelChar, CallerInv, FaultInv, Ignored, CallsOf
<1>8. DOMAIN m_characters' = CharactersAt(n + 1)
  BY <1>2, <1>5 DEF WorldAt, ParseDelChar, Erase
<1>9. m_objects' = ObjectsAt(n + 1)
  BY <1>2, <1>6 DEF WorldAt, ParseDelChar
<1>10. ASSUME NEW c \in CharactersAt(n + 1) PROVE StateAt(n + 1, c, m_characters'[c])
  <2>1. c \in CharactersAt(n) /\ c # id
    BY <1>5
  <2>2. m_characters'[c] = m_characters[c] /\ StateAt(n, c, m_characters[c])
    BY <2>1, <1>2 DEF ParseDelChar, Erase, WorldAt
  <2> QED
    BY <2>1, <2>2, <1>2, <1>3, NothingAdded
<1> QED
  BY <1>1, <1>4, <1>7, <1>8, <1>9, <1>10, ParsedAsAsked

LEMMA ParseForceStateStep ==
  ASSUME CallerInv, ParseForceState, UNCHANGED <<motion, calls>>
  PROVE  CallerInv'
<1> PICK n \in 0..Len(calls) : QueueAt(n) /\ WorldAt(n)
  BY DEF CallerInv
<1> DEFINE id == physMsg.objid
<1>1. physMsg # NoMsg /\ Parsed /\ physMsg.type = "ForceState"
  BY DEF ParseForceState, Parsing, NoMsg
<1>2. /\ physMsg = calls[n + 1] /\ physMsg \in CallMsgs /\ n + 1 \in 1..Len(calls)
      /\ physPc = "drain" /\ physPc' = "drain"
  BY <1>1, Parsing1
<1>3. CallsInv /\ FaultInv' /\ id \in CharIds
  BY <1>1, <1>2, MsgKinds DEF CallerInv, ParseForceState, FaultInv, Ignored, CallsOf
<1>4. DOMAIN m_characters' = DOMAIN m_characters
  BY DEF ParseForceState, SetInput, Assign
<1>5. MotionInv'
  BY <1>2, <1>4 DEF CallerInv, MotionInv
<1>6. CharactersAt(n + 1) = CharactersAt(n) /\ ObjectsAt(n + 1) = ObjectsAt(n)
  BY <1>1, <1>2, <1>3, NothingAdded
<1>7. DOMAIN m_characters' = CharactersAt(n + 1) /\ m_objects' = ObjectsAt(n + 1)
  BY <1>2, <1>4, <1>6 DEF WorldAt, ParseForceState
<1>8. ASSUME NEW c \in CharactersAt(n + 1) PROVE StateAt(n + 1, c, m_characters'[c])
  <2>1. c \in DOMAIN m_characters
    BY <1>4, <1>7
  <2>2. CASE c = id
    <3>1. m_characters'[c] = calls[n + 1].state
      BY <2>1, <2>2, <1>2 DEF ParseForceState, SetInput, Assign
    <3> QED
      BY <2>2, <3>1, <1>1, <1>2, <1>3, StateSet
  <2>3. CASE c # id
    <3>1. m_characters'[c] = m_characters[c] /\ StateAt(n, c, m_characters[c])
      BY <2>1, <2>3, <1>2, <1>6 DEF ParseForceState, SetInput, Assign, WorldAt
    <3> QED
      BY <3>1, <2>3, <1>2, <1>3, NothingAdded
  <2> QED
    BY <2>2, <2>3
<1> QED
  BY <1>1, <1>3, <1>5, <1>7, <1>8, ParsedAsAsked

LEMMA ParseAddPhysStep ==
  ASSUME CallerInv, ParseAddPhys, motion' = Made, UNCHANGED calls
  PROVE  CallerInv'
<1> PICK n \in 0..Len(calls) : QueueAt(n) /\ WorldAt(n)
  BY DEF CallerInv
<1> DEFINE id == physMsg.objid
<1>1. physMsg # NoMsg /\ Parsed /\ physMsg.type = "AddPhys"
  BY DEF ParseAddPhys, Parsing, NoMsg
<1>2. /\ physMsg = calls[n + 1] /\ physMsg \in CallMsgs /\ n + 1 \in 1..Len(calls)
      /\ physPc = "drain" /\ physPc' = "drain"
  BY <1>1, Parsing1
<1>3. CallsInv /\ FaultInv' /\ id \in ObjIds /\ physMsg.known \in BOOLEAN
  BY <1>1, <1>2, MsgKinds DEF CallerInv, ParseAddPhys, FaultInv, Ignored, CallsOf
<1>4. MotionInv'
  BY <1>2, MadeMoves DEF CallerInv
<1>5. ObjectsAt(n + 1) = IF physMsg.known THEN ObjectsAt(n) \cup {id} ELSE ObjectsAt(n)
  BY <1>1, <1>2, <1>3, ObjectAdded
<1>6. CharactersAt(n + 1) = CharactersAt(n)
  BY <1>1, <1>2, <1>3, NothingAdded
<1>7. m_objects' = ObjectsAt(n + 1)
  BY <1>2, <1>5 DEF WorldAt, ParseAddPhys
<1>8. DOMAIN m_characters' = CharactersAt(n + 1)
  BY <1>2, <1>6 DEF WorldAt, ParseAddPhys
<1>9. ASSUME NEW c \in CharactersAt(n + 1) PROVE StateAt(n + 1, c, m_characters'[c])
  <2>1. m_characters'[c] = m_characters[c] /\ StateAt(n, c, m_characters[c])
    BY <1>2, <1>6 DEF ParseAddPhys, WorldAt
  <2> QED
    BY <2>1, <1>1, <1>2, <1>3, NothingAdded
<1> QED
  BY <1>1, <1>3, <1>4, <1>7, <1>8, <1>9, ParsedAsAsked

LEMMA ParseDelPhysStep ==
  ASSUME CallerInv, ParseDelPhys, UNCHANGED <<motion, calls>>
  PROVE  CallerInv'
<1> PICK n \in 0..Len(calls) : QueueAt(n) /\ WorldAt(n)
  BY DEF CallerInv
<1> DEFINE id == physMsg.objid
<1>1. physMsg # NoMsg /\ Parsed /\ physMsg.type = "DelPhys"
  <2>1. physMsg.type = "DelPhys" /\ Parsed
    BY DEF ParseDelPhys, Parsing
  <2> QED
    BY <2>1 DEF NoMsg
<1>2. /\ physMsg = calls[n + 1] /\ physMsg \in CallMsgs /\ n + 1 \in 1..Len(calls)
      /\ physPc = "drain" /\ physPc' = "drain"
  BY <1>1, Parsing1
<1>3. CallsInv /\ id \in ObjIds
  BY <1>1, <1>2, MsgKinds DEF CallerInv
<1>4. MotionInv'
  BY <1>2 DEF CallerInv, MotionInv, ParseDelPhys
<1>5. ObjectsAt(n + 1) = ObjectsAt(n) \ {id} /\ id \in ObjectsAt(n) \cup Ignored
  BY <1>1, <1>2, <1>3, ObjectDeleted
<1>6. FaultInv'
  <2>1. CASE id \in ObjectsAt(n)
    <3>1. fault' = fault
      BY <1>2, <2>1 DEF WorldAt, ParseDelPhys
    <3> QED
      BY <3>1 DEF CallerInv, FaultInv, Ignored, CallsOf
  <2>2. CASE id \in Ignored
    <3>1. fault' \in {fault, "null object"}
      BY DEF ParseDelPhys
    <3>2. n + 1 \in CallsOf("DelPhys", id)
      BY <1>1, <1>2 DEF CallsOf
    <3> QED
      BY <3>1, <3>2, <2>2 DEF CallerInv, FaultInv, Ignored, CallsOf
  <2> QED
    BY <1>5, <2>1, <2>2
<1>7. CharactersAt(n + 1) = CharactersAt(n)
  BY <1>1, <1>2, <1>3, NothingAdded
<1>8. m_objects' = ObjectsAt(n + 1)
  BY <1>2, <1>5 DEF WorldAt, ParseDelPhys
<1>9. DOMAIN m_characters' = CharactersAt(n + 1)
  BY <1>2, <1>7 DEF WorldAt, ParseDelPhys
<1>10. ASSUME NEW c \in CharactersAt(n + 1) PROVE StateAt(n + 1, c, m_characters'[c])
  <2>1. m_characters'[c] = m_characters[c] /\ StateAt(n, c, m_characters[c])
    BY <1>2, <1>7 DEF ParseDelPhys, WorldAt
  <2> QED
    BY <2>1, <1>1, <1>2, <1>3, NothingAdded
<1> QED
  BY <1>1, <1>4, <1>6, <1>8, <1>9, <1>10, ParsedAsAsked
-----------------------------------------------------------------------------
(* Nobody calls and nothing goes wrong. *)
LEMMA SameHistory ==
  ASSUME CallerInv, UNCHANGED <<fault, calls>>
  PROVE  CallsInv' /\ FaultInv'
<1>1. CallsInv'
  BY DEF CallerInv, CallsInv, CallsOf
<1>2. FaultInv'
  BY DEF CallerInv, FaultInv, Ignored, CallsOf
<1> QED
  BY <1>1, <1>2

(* The steps of the thread that parse nothing. *)
LEMMA PopStep ==
  ASSUME Order = "fifo", CallerInv, PhysPop, UNCHANGED <<fault, calls>>, motion' = Made
  PROVE  CallerInv'
<1> PICK n \in 0..Len(calls) : QueueAt(n) /\ WorldAt(n)
  BY DEF CallerInv
<1>1. /\ physQueue \in Seq(CallMsgs) /\ physQueue # <<>> /\ physMsg = NoMsg /\ physPc = "drain"
      /\ physMsg' = Head(physQueue) /\ physQueue' = Tail(physQueue)
      /\ UNCHANGED <<m_characters, m_objects, physPc, m_finish, calls>>
  BY DEF PhysPop, CallerInv, ThreadInv, NextOf, RestOf
<1>2. /\ physMsg' = physQueue[1] /\ physMsg' \in CallMsgs /\ physQueue' \in Seq(CallMsgs)
      /\ Len(physQueue) \in Nat \ {0} /\ Len(physQueue') = Len(physQueue) - 1
      /\ \A i \in 1..Len(physQueue') : physQueue'[i] = physQueue[i + 1]
  BY <1>1
<1>3. ThreadInv'
  BY <1>1, <1>2 DEF CallerInv, ThreadInv
<1>4. MotionInv'
  BY <1>1, MadeMoves DEF CallerInv
<1>5. CallsInv' /\ FaultInv'
  BY SameHistory
<1>6. QueueAt(n)'
  <2>1. Len(calls) = n + Len(physQueue)
    BY <1>1, <1>2 DEF QueueAt
  <2>2. physMsg' # NoMsg
    BY <1>2, MsgKinds
  <2>3. physMsg' = calls[n + 1]
    <3>1. physQueue[1] = calls[Len(calls) - Len(physQueue) + 1]
      BY <1>2 DEF QueueAt
    <3> QED
      BY <3>1, <2>1, <1>2
  <2>4. ASSUME NEW i \in 1..Len(physQueue')
        PROVE  physQueue'[i] = calls[Len(calls) - Len(physQueue') + i]
    <3>1. i + 1 \in 1..Len(physQueue)
      BY <1>2
    <3>2. physQueue[i + 1] = calls[Len(calls) - Len(physQueue) + (i + 1)]
      BY <3>1 DEF QueueAt
    <3>3. Len(calls) - Len(physQueue) + (i + 1) = Len(calls) - Len(physQueue') + i
      BY <1>2, <2>1
    <3> QED
      BY <1>2, <3>2, <3>3
  <2>5. Len(calls) = n + 1 + Len(physQueue')
    BY <1>2, <2>1
  <2> QED
    BY <1>1, <2>2, <2>3, <2>4, <2>5 DEF QueueAt
<1>7. WorldAt(n)'
  BY <1>1, SameCalls DEF WorldAt
<1> QED
  BY <1>1, <1>3, <1>4, <1>5, <1>6, <1>7 DEF CallerInv

(* Neither the queue nor the world changes. *)
LEMMA QuietStep ==
  ASSUME CallerInv, UNCHANGED <<physQueue, physMsg, calls, fault>>, MotionInv',
         physPc' \notin {"ended", "gone"}
           => physPc \notin {"ended", "gone"} /\ UNCHANGED <<m_characters, m_objects>>,
         physMsg # NoMsg => physPc' = "drain"
  PROVE  CallerInv'
<1> PICK n \in 0..Len(calls) : QueueAt(n) /\ WorldAt(n)
  BY DEF CallerInv
<1>1. CallsInv' /\ FaultInv'
  BY SameHistory
<1>2. ThreadInv'
  BY DEF CallerInv, ThreadInv
<1>3. QueueAt(n)'
  BY DEF QueueAt
<1>4. WorldAt(n)'
  BY SameCalls DEF WorldAt
<1> QED
  BY <1>1, <1>2, <1>3, <1>4 DEF CallerInv

LEMMA LoopStep ==
  ASSUME CallerInv, PhysLoop, UNCHANGED <<fault, calls>>, motion' = Made
  PROVE  CallerInv'
<1>1. physMsg = NoMsg
  BY DEF PhysLoop, CallerInv, ThreadInv
<1>2. MotionInv'
  BY MadeMoves DEF PhysLoop, CallerInv
<1> QED
  BY <1>1, <1>2, QuietStep DEF PhysLoop

LEMMA CleanupStep ==
  ASSUME CallerInv, PhysCleanup, UNCHANGED <<fault, calls>>, motion' = Made
  PROVE  CallerInv'
<1>1. physMsg = NoMsg
  BY DEF PhysCleanup, CallerInv, ThreadInv
<1>2. MotionInv'
  BY MadeMoves DEF PhysCleanup, CallerInv
<1> QED
  BY <1>1, <1>2, QuietStep DEF PhysCleanup

LEMMA TransformsStep ==
  ASSUME CallerInv, PhysTransforms, UNCHANGED <<fault, motion, calls>>
  PROVE  CallerInv'
<1>1. physMsg = NoMsg
  BY DEF PhysTransforms, CallerInv, ThreadInv
<1>2. MotionInv'
  BY DEF PhysTransforms, CallerInv, MotionInv
<1> QED
  BY <1>1, <1>2, QuietStep DEF PhysTransforms

LEMMA NotifyStep ==
  ASSUME CallerInv, PhysNotify, UNCHANGED <<fault, motion, calls>>
  PROVE  CallerInv'
<1>1. physMsg = NoMsg
  BY DEF PhysNotify, CallerInv, ThreadInv
<1>2. MotionInv'
  BY DEF PhysNotify, CallerInv, MotionInv
<1> QED
  BY <1>1, <1>2, QuietStep DEF PhysNotify

LEMMA FinishStep ==
  ASSUME CallerInv, CallFinish
  PROVE  CallerInv'
<1> PICK n \in 0..Len(calls) : QueueAt(n) /\ WorldAt(n)
  BY DEF CallerInv
<1> USE DEF CallFinish, PhysFinish
<1>1. CallsInv' /\ FaultInv'
  BY SameHistory
<1>2. ThreadInv' /\ MotionInv'
  BY DEF CallerInv, ThreadInv, MotionInv
<1>3. QueueAt(n)'
  BY DEF QueueAt
<1>4. WorldAt(n)'
  BY SameCalls DEF WorldAt
<1> QED
  BY <1>1, <1>2, <1>3, <1>4 DEF CallerInv

(* In a tick a character on the ground is told what its state says, and    *)
(* one in the air is marked so.                                            *)
LEMMA TickStep ==
  ASSUME CallerInv, EmptyTick
  PROVE  CallerInv'
<1>1. /\ physPc = "drain" /\ physMsg = NoMsg /\ physPc' = "transforms"
      /\ m_characters' = [i \in DOMAIN m_characters |-> m_characters[i]]
      /\ UNCHANGED <<m_objects, physQueue, physMsg, fault, calls>>
  BY DEF EmptyTick, PhysTick
<1>2. PICK ground \in SUBSET DOMAIN m_characters : motion' = UpdateCharacterObjects(ground)
  BY DEF EmptyTick
<1> DEFINE Moves == [side : Int, forward : Int, turn : Int, jump : BOOLEAN, air : BOOLEAN]
<1>3. \A state : Motion(state) \in Moves
  BY DEF Motion
<1>4. /\ DOMAIN motion = DOMAIN m_characters
      /\ \A id \in DOMAIN motion : motion[id] \in Moves
  BY DEF CallerInv, MotionInv
<1>5. DOMAIN m_characters' = DOMAIN m_characters /\ DOMAIN motion' = DOMAIN m_characters
  BY <1>1, <1>2 DEF UpdateCharacterObjects
<1>6. ASSUME NEW id \in DOMAIN motion'
      PROVE  motion'[id] \in Moves /\ (motion'[id].air \/ motion'[id] = Motion(m_characters'[id]))
  <2>1. CASE id \in ground
    <3>1. motion'[id] = Motion(m_characters[id]) /\ m_characters'[id] = m_characters[id]
      BY <1>1, <1>2, <1>5, <2>1 DEF UpdateCharacterObjects
    <3> QED
      BY <3>1, <1>3
  <2>2. CASE id \notin ground
    <3>1. motion'[id] = [motion[id] EXCEPT !.turn = 0, !.jump = FALSE, !.air = TRUE]
      BY <1>2, <1>5, <2>2 DEF UpdateCharacterObjects
    <3>2. motion[id] \in Moves
      BY <1>4, <1>5
    <3>3. motion'[id] = [side |-> motion[id].side, forward |-> motion[id].forward, turn |-> 0,
                         jump |-> FALSE, air |-> TRUE]
      BY <3>1, <3>2
    <3> QED
      BY <3>2, <3>3
  <2> QED
    BY <2>1, <2>2
<1>7. MotionInv'
  BY <1>5, <1>6 DEF MotionInv
<1> PICK n \in 0..Len(calls) : QueueAt(n) /\ WorldAt(n)
  BY DEF CallerInv
<1>8. CallsInv' /\ FaultInv'
  BY <1>1, SameHistory
<1>9. ThreadInv'
  BY <1>1 DEF CallerInv, ThreadInv
<1>10. QueueAt(n)'
  BY <1>1 DEF QueueAt
<1>11. WorldAt(n)'
  BY <1>1, <1>5, SameCalls DEF WorldAt
<1> QED
  BY <1>1, <1>7, <1>8, <1>9, <1>10, <1>11 DEF CallerInv
-----------------------------------------------------------------------------
LEMMA NextCaller ==
  ASSUME Order = "fifo", CallerInv, [CallerNext]_callerVars
  PROVE  CallerInv'
<1>1. CASE fault = "none" /\ (CallAddPhysical \/ CallDelPhysical \/ CallSetInputState)
  BY <1>1, CallStep
<1>2. CASE CallFinish
  BY <1>2, FinishStep
<1>3. CASE PhysInternal /\ motion' = Made /\ UNCHANGED calls
  <2>1. CASE PhysLoop /\ UNCHANGED fault
    BY <1>3, <2>1, LoopStep
  <2>2. CASE PhysPop /\ UNCHANGED fault
    BY <1>3, <2>2, PopStep
  <2>3. CASE PhysCleanup /\ UNCHANGED fault
    BY <1>3, <2>3, CleanupStep
  <2>4. CASE ParseAddPhys
    BY <1>3, <2>4, ParseAddPhysStep
  <2>5. CASE ParseAddChar
    BY <1>3, <2>5, ParseAddCharStep
  <2>6. CASE ParseDelChar
    BY <1>3, <2>6, ParseDelCharStep
  <2> QED
    BY <1>3, <2>1, <2>2, <2>3, <2>4, <2>5, <2>6 DEF PhysInternal
<1>4. CASE ParseForceState /\ UNCHANGED <<motion, calls>>
  BY <1>4, ParseForceStateStep
<1>5. CASE ParseDelPhys /\ UNCHANGED <<motion, calls>>
  BY <1>5, ParseDelPhysStep
<1>6. CASE EmptyTick
  BY <1>6, TickStep
<1>7. CASE PhysTransforms /\ UNCHANGED <<fault, motion, calls>>
  BY <1>7, TransformsStep
<1>8. CASE PhysNotify /\ UNCHANGED <<fault, motion, calls>>
  BY <1>8, NotifyStep
<1>9. CASE UNCHANGED callerVars
  <2>1. UNCHANGED <<m_characters, m_objects, physQueue, physMsg, physPc, m_finish, fault, motion, calls>>
    BY <1>9 DEF callerVars, physVars
  <2> PICK n \in 0..Len(calls) : QueueAt(n) /\ WorldAt(n)
    BY DEF CallerInv
  <2>2. CallsInv' /\ FaultInv'
    BY <2>1, SameHistory
  <2>3. ThreadInv' /\ MotionInv'
    BY <2>1 DEF CallerInv, ThreadInv, MotionInv
  <2>4. QueueAt(n)'
    BY <2>1 DEF QueueAt
  <2>5. WorldAt(n)'
    BY <2>1, SameCalls DEF WorldAt
  <2> QED
    BY <2>1, <2>2, <2>3, <2>4, <2>5 DEF CallerInv
<1> QED
  BY <1>1, <1>2, <1>3, <1>4, <1>5, <1>6, <1>7, <1>8, <1>9 DEF CallerNext, PhysStep

LEMMA CallerInvariant == ASSUME Order = "fifo" PROVE CallerSpec => []CallerInv
<1>1. CallerInv /\ [CallerNext]_callerVars => CallerInv'
  BY NextCaller
<1> QED
  BY <1>1, InitCaller, PTL DEF CallerSpec

(* Once the queue is empty the world is the one that all calls ask for. *)
LEMMA IdleTakesEffect == CallerInv => CallsTakeEffect
<1> SUFFICES ASSUME CallerInv, PhysIdle PROVE
      /\ DOMAIN m_characters = AskedCharacters
      /\ m_objects = AskedObjects
      /\ \A id \in AskedCharacters :
           /\ m_characters[id] = AskedState(id)
           /\ physPc = "transforms" /\ ~motion[id].air => motion[id] = Motion(AskedState(id))
  BY DEF CallsTakeEffect
<1> PICK n \in 0..Len(calls) : QueueAt(n) /\ WorldAt(n)
  BY DEF CallerInv
<1>1. n = Len(calls) /\ physPc \notin {"ended", "gone"}
  BY DEF PhysIdle, QueueAt
<1>2. Len(calls) \in Nat
  BY DEF CallerInv, CallsInv
<1>3. \A type, id : FirstOf(n, type, id) = CallsOf(type, id)
  BY <1>1, <1>2 DEF FirstOf, CallsOf
<1>4. CharactersAt(n) = AskedCharacters
  BY <1>3 DEF CharactersAt, AskedCharacters
<1>5. ObjectsAt(n) = AskedObjects
  BY <1>3 DEF ObjectsAt, AskedObjects
<1>6. /\ DOMAIN m_characters = AskedCharacters /\ m_objects = AskedObjects
      /\ \A id \in AskedCharacters : StateAt(n, id, m_characters[id])
  BY <1>1, <1>4, <1>5 DEF WorldAt
<1>7. ASSUME NEW id \in AskedCharacters PROVE m_characters[id] = AskedState(id)
  <2> DEFINE added == CHOOSE i \in CallsOf("AddChar", id) : TRUE
             sets  == {i \in CallsOf("ForceState", id) : i > added}
             last  == CHOOSE i \in sets : \A j \in sets : j <= i
  <2>1. added \in CallsOf("AddChar", id) /\ id \in CharIds
    BY DEF AskedCharacters
  <2>2. \A j \in CallsOf("AddChar", id) : j = added
    BY <2>1 DEF CallerInv, CallsInv, Once
  <2>3. added \in Nat /\ \A i \in CallsOf("ForceState", id) : i \in Nat
    BY <2>1 DEF CallsOf
  <2> HIDE DEF added
  <2>4. SetsAt(n, id) = sets
    BY <1>3, <2>1, <2>2, <2>3 DEF SetsAt
  <2>5. AskedState(id) = IF sets = {} THEN Still ELSE calls[last].state
    BY DEF AskedState, added
  <2> HIDE DEF sets
  <2>6. CASE sets = {}
    BY <1>6, <2>4, <2>5, <2>6 DEF StateAt
  <2>7. CASE sets # {}
    <3>1. PICK i \in sets : calls[i].state = m_characters[id] /\ \A j \in sets : j <= i
      BY <1>6, <2>4, <2>7 DEF StateAt
    <3>2. last \in sets /\ \A j \in sets : j <= last
      BY <3>1
    <3>3. last = i
      BY <3>1, <3>2, <2>3 DEF sets
    <3> QED
      BY <3>1, <3>3, <2>5, <2>7
  <2> QED
    BY <2>6, <2>7
<1>8. ASSUME NEW id \in AskedCharacters, physPc = "transforms", ~motion[id].air
      PROVE  motion[id] = Motion(AskedState(id))
  BY <1>6, <1>7, <1>8 DEF CallerInv, MotionInv
<1> QED
  BY <1>6, <1>7, <1>8

(* "Set the input state of a character" (physicsiface.hpp:40): in the fifo *)
(* build the world is what the calls ask for, in the order they were made, *)
(* once they are parsed, and the characters on the ground move as they     *)
(* were told last (btphysics.cpp:142-146, 206-224, 232-360).               *)
THEOREM CallsReachTheWorld ==
  ASSUME Order = "fifo" PROVE CallerSpec => []CallsTakeEffect
BY CallerInvariant, IdleTakesEffect, PTL

(* What is being deleted is there, or its addition was ignored. *)
LEMMA DeletedWasAdded == CallerInv => DeletionsFindTheirObject
<1> SUFFICES ASSUME CallerInv PROVE DeletionsFindTheirObject
  OBVIOUS
<1> PICK n \in 0..Len(calls) : QueueAt(n) /\ WorldAt(n)
  BY DEF CallerInv
<1>1. CallsInv /\ Len(calls) \in Nat /\ Len(physQueue) \in Nat
  BY DEF CallerInv, CallsInv, ThreadInv
<1>2. ASSUME physMsg # NoMsg
      PROVE  /\ physMsg = calls[n + 1] /\ physMsg \in CallMsgs /\ n + 1 \in 1..Len(calls)
             /\ DOMAIN m_characters = CharactersAt(n) /\ m_objects = ObjectsAt(n)
  BY <1>1, <1>2 DEF CallerInv, ThreadInv, QueueAt, WorldAt
<1>3. ASSUME physMsg.type = "DelChar" PROVE physMsg.objid \in DOMAIN m_characters
  <2>1. physMsg # NoMsg
    BY <1>3 DEF NoMsg
  <2>2. physMsg.objid \in CharIds
    BY <1>2, <1>3, <2>1, MsgKinds
  <2> QED
    BY <1>1, <1>2, <1>3, <2>1, <2>2, CharacterDeleted
<1>4. ASSUME physMsg.type = "DelPhys" PROVE physMsg.objid \in m_objects \cup Ignored
  <2>1. physMsg # NoMsg
    BY <1>4 DEF NoMsg
  <2>2. physMsg.objid \in ObjIds
    BY <1>2, <1>4, <2>1, MsgKinds
  <2> QED
    BY <1>1, <1>2, <1>4, <2>1, <2>2, ObjectDeleted
<1> QED
  BY <1>3, <1>4 DEF DeletionsFindTheirObject, CallerInv, FaultInv

(* "Remove a physical object from the world" (physicsiface.hpp:32): in the *)
(* fifo build what is deleted is there when the message is parsed, unless  *)
(* its addition was ignored; the one null pointer that is ever followed is *)
(* that of such an object (btphysics.cpp:253-256, 293-295, 303-305).       *)
THEOREM DeletionsAreInTime ==
  ASSUME Order = "fifo" PROVE CallerSpec => []DeletionsFindTheirObject
BY CallerInvariant, DeletedWasAdded, PTL
=============================================================================
