------------------------- MODULE LocalServerProofs --------------------------
(***************************************************************************)
(* What LocalServer promises, for any clients, inputs and bounds.          *)
(*                                                                         *)
(* The messages between the threads are the difficulty: an id is in the    *)
(* map of the server, in a queue, in the world of the physics thread, or   *)
(* in two of these.  The invariants speak of the places where a message    *)
(* can be, which lie in a row: place 0 is the message that was popped and  *)
(* is not handled yet, places 1, 2, ... are the queue.                     *)
(***************************************************************************)
EXTENDS LocalServer, SequenceTheorems, FiniteSetTheorems, TLAPS

(* The messages of the two queues. *)
PhysMsgs == [type : {"AddChar", "DelChar"}, objid : Nat]
              \cup [type : {"AddPhys"}, objid : Nat, known : BOOLEAN]
              \cup [type : {"Input"}, sender : Clients, state : Inputs]

Load(c) == [type |-> "LoadPlayer", sender |-> c]

SrvMsgs == [type : {"LoadPlayer"}, sender : Clients]
             \cup [type : {"Input"}, sender : Clients, state : Inputs]
             \cup [type : {"Shutdown"}]

PhysAt(i) == IF i = 0 THEN physMsg ELSE physQueue[i]
PhysSpots == 0..Len(physQueue)

SrvAt(i) == IF i = 0 THEN srvMsg ELSE srvQueue[i]
SrvSpots == 0..Len(srvQueue)

InputOf(msg, c) == msg.type = "Input" /\ msg.sender = c

MsgTypes ==
  /\ physQueue \in Seq(PhysMsgs)
  /\ physMsg \in PhysMsgs \cup {NoMsg}
  /\ srvQueue \in Seq(SrvMsgs)
  /\ srvMsg \in SrvMsgs \cup {NoMsg}
  /\ sent \in [Clients -> Seq(SrvMsgs)]

TypeInv == TypeOK /\ MsgTypes
-----------------------------------------------------------------------------
(* An id below the counter was given out. *)
Given == 1..(m_next_id - 1)

IsAdd(i) == PhysAt(i).type \in {"AddChar", "AddPhys"}
IsDel(i) == PhysAt(i).type = "DelChar"

(* Ids come from the counter. *)
IdsGiven ==
  /\ DOMAIN m_characters \cup m_objects \cup m_baddies \subseteq Given
  /\ \A c \in Playing : m_clients[c] < m_next_id
  /\ \A i \in PhysSpots : IsAdd(i) \/ IsDel(i) => PhysAt(i).objid \in Given

(* No id is added twice, nor deleted twice. *)
MessagesOnce ==
  \A i, j \in PhysSpots :
    /\ (IsAdd(i) /\ IsAdd(j)) \/ (IsDel(i) /\ IsDel(j))
    /\ PhysAt(i).objid = PhysAt(j).objid
    => i = j

(* What is still to be added is not there. *)
AddsAreNew ==
  /\ \A i \in PhysSpots : IsAdd(i) => PhysAt(i).objid \notin DOMAIN m_characters \cup m_objects
  /\ DOMAIN m_characters \cap m_objects = {}

(* A player has an id of its own, which is not a baddie's, and only ids    *)
(* that are nobody's any more are deleted.                                 *)
PlayersDiffer ==
  /\ \A c, d \in Players : m_clients[c] = m_clients[d] => c = d
  /\ \A c \in Players : m_clients[c] \notin m_baddies
  /\ \A i \in PhysSpots : IsDel(i) => /\ PhysAt(i).objid \notin m_baddies
                                      /\ \A c \in Playing : m_clients[c] # PhysAt(i).objid

IdInv == IdsGiven /\ MessagesOnce /\ AddsAreNew /\ PlayersDiffer

(* id names a character that exists, or will, and is not to be deleted. *)
Exists(id) ==
  /\ id \in DOMAIN m_characters \/ \E i \in PhysSpots : PhysAt(i) = AddChar(id)
  /\ \A i \in PhysSpots : PhysAt(i) # DelChar(id)

(* Who is registered, and who has sent what is on its way. *)
PeopleInv ==
  /\ Connected \subseteq Registered
  /\ \A c \in Registered : life[c] # "new"
  /\ \A c \in Clients : sent[c] # <<>> => life[c] # "new"
  /\ \A i \in SrvSpots : SrvAt(i).type \in {"LoadPlayer", "Input"} => sent[SrvAt(i).sender] # <<>>
  /\ \A i \in PhysSpots : PhysAt(i).type = "Input" => sent[PhysAt(i).sender] # <<>>

(* The ids that something or somebody knows as those of characters; what   *)
(* is known is there.                                                      *)
Drawn == {id \in Nat \ {0} : \E c \in Connected : id \in shown[c]}
Known == m_baddies \cup PlayerIds \cup Drawn

ViewInv ==
  /\ PlayersSeeNewcomers
  /\ physPc \notin {"ended", "gone"} => \A id \in Known : Exists(id)
-----------------------------------------------------------------------------
(* id has its character by the time the message at place i is parsed. *)
MadeBy(id, i) ==
  id \in DOMAIN m_characters \/ \E j \in PhysSpots : j < i /\ PhysAt(j) = AddChar(id)

DelInv ==
  physPc \notin {"ended", "gone"} =>
    \A i \in PhysSpots : PhysAt(i).type = "DelChar" => MadeBy(PhysAt(i).objid, i)

LoadInv ==
  /\ \A c \in Connected : SentOf(c, "LoadPlayer") # {} =>
       c \in Players \/ \E i \in SrvSpots : SrvAt(i) = Load(c)
  /\ \A c \in Connected \cap Playing : m_clients[c] # 0
  /\ \A i \in SrvSpots : SrvAt(i).type = "Input" /\ SrvAt(i).sender \in Connected =>
       \/ SrvAt(i).sender \in Playing
       \/ \E j \in SrvSpots : j < i /\ SrvAt(j) = Load(SrvAt(i).sender)
  /\ \A i \in PhysSpots : PhysAt(i).type = "Input" /\ PhysAt(i).sender \in Connected =>
       PhysAt(i).sender \in Playing

(* s is the state in the last input that c has sent. *)
LastSent(c, s) ==
  \E i \in SentOf(c, "Input") : /\ \A j \in SentOf(c, "Input") : j <= i
                                /\ sent[c][i].state = s

(* The places of the inputs of c that wait for the server and for physics. *)
InSrv(c) == {i \in SrvSpots : InputOf(SrvAt(i), c)}
InPhys(c) == {i \in PhysSpots : InputOf(PhysAt(i), c)}
IsLast(i, S) == i \in S /\ \A j \in S : j <= i

(* An input finds its character, and the last input of c is the last in    *)
(* the queue of the server, then the last in the queue of physics, then    *)
(* what the character does.                                                *)
InputInv ==
  /\ \A c \in Connected : \A i \in InPhys(c) :
       physPc \notin {"ended", "gone"} => \E id \in Nat : m_clients[c] = id /\ MadeBy(id, i)
  /\ \A c \in Clients : \A i \in InSrv(c) :
       IsLast(i, InSrv(c)) => \E s \in Inputs : s = SrvAt(i).state /\ LastSent(c, s)
  /\ \A c \in Clients : \A i \in InPhys(c) :
       InSrv(c) = {} /\ IsLast(i, InPhys(c)) => \E s \in Inputs : s = PhysAt(i).state /\ LastSent(c, s)
  /\ \A c \in Connected :
       physPc \notin {"ended", "gone"} /\ SentOf(c, "Input") # {} /\ InSrv(c) = {} /\ InPhys(c) = {}
       => /\ c \in Players
          /\ m_clients[c] \in DOMAIN m_characters
          /\ \E s \in Inputs : s = m_characters[m_clients[c]] /\ LastSent(c, s)

TwoLoads(c) == \E i, j \in SentOf(c, "LoadPlayer") : i # j

(* The histories in which a character may be nobody's. *)
Excused == ~(Playing \subseteq Connected) \/ \E c \in Clients : TwoLoads(c)

OrphanInv ==
  /\ \A c \in Connected \cap Playing : SentOf(c, "LoadPlayer") # {}
  /\ \A i \in SrvSpots : SrvAt(i).type = "LoadPlayer" => SentOf(SrvAt(i).sender, "LoadPlayer") # {}
  /\ \A i, j \in SrvSpots : SrvAt(i).type = "LoadPlayer" /\ SrvAt(j) = SrvAt(i) /\ i # j =>
       TwoLoads(SrvAt(i).sender)
  /\ \A i \in SrvSpots : SrvAt(i).type = "LoadPlayer" /\ SrvAt(i).sender \in Connected \cap Playing
       => TwoLoads(SrvAt(i).sender)
  /\ Excused \/ \A id \in Nat : Exists(id) =>
                  id \in m_baddies \/ \E c \in Players : m_clients[c] = id
-----------------------------------------------------------------------------
(* What a pop takes from a queue and leaves in it. *)
LEMMA PopTakes ==
  ASSUME NEW M, NEW q \in Seq(M), q # <<>>
  PROVE  /\ NextOf(q) \in M
         /\ RestOf(q) \in Seq(M)
         /\ Len(q) \in Nat \ {0}
         /\ Len(RestOf(q)) = Len(q) - 1
         /\ Order = "fifo" => /\ NextOf(q) = q[1]
                              /\ \A i \in 1..(Len(q) - 1) : RestOf(q)[i] = q[i + 1]
         /\ Order # "fifo" => /\ NextOf(q) = q[Len(q)]
                              /\ \A i \in 1..(Len(q) - 1) : RestOf(q)[i] = q[i]
<1>1. Len(q) \in Nat \ {0}
  BY EmptySeq
<1>2. \A i \in 1..Len(q) : q[i] \in M
  BY ElementOfSeq
<1>3. CASE Order = "fifo"
  BY <1>1, <1>2, <1>3, HeadTailProperties DEF NextOf, RestOf
<1>4. CASE Order # "fifo"
  <2>1. SubSeq(q, 1, Len(q) - 1) \in Seq(M)
    BY <1>1, <1>2, SubSeqProperties
  <2>2. Len(SubSeq(q, 1, Len(q) - 1)) = IF 1 <= Len(q) - 1 THEN (Len(q) - 1) - 1 + 1 ELSE 0
    BY <1>1, <1>2, SubSeqProperties
  <2>3. \A i \in 1..(Len(q) - 1) : SubSeq(q, 1, Len(q) - 1)[i] = q[i]
    BY <1>1, <1>2, SubSeqProperties
  <2>4. Len(SubSeq(q, 1, Len(q) - 1)) = Len(q) - 1
    <3> DEFINE n == Len(q)
               l == Len(SubSeq(q, 1, n - 1))
    <3>1. n \in Nat \ {0} /\ l = IF 1 <= n - 1 THEN (n - 1) - 1 + 1 ELSE 0
      BY <1>1, <2>2
    <3> HIDE DEF n, l
    <3>2. l = n - 1
      BY <3>1
    <3> QED
      BY <3>2 DEF n, l
  <2>5. q[Len(q)] \in M
    BY <1>1, <1>2
  <2> QED
    BY <1>1, <1>4, <2>1, <2>3, <2>4, <2>5 DEF NextOf, RestOf
<1> QED
  BY <1>3, <1>4

(* A pop moves the messages one place on: the one at place i of the row    *)
(* was at place move[i].                                                   *)
LEMMA PopMoves ==
  ASSUME NEW M, NEW q \in Seq(M), q # <<>>
  PROVE  \E move \in [0..(Len(q) - 1) -> 1..Len(q)] :
           /\ \A i \in 0..(Len(q) - 1) :
                q[move[i]] = IF i = 0 THEN NextOf(q) ELSE RestOf(q)[i]
           /\ \A i, j \in 0..(Len(q) - 1) : move[i] = move[j] => i = j
           /\ \A j \in 1..Len(q) : \E i \in 0..(Len(q) - 1) : move[i] = j
           /\ Order = "fifo" => \A i \in 0..(Len(q) - 1) : move[i] = i + 1
<1> DEFINE n == Len(q)
<1>1. n \in Nat \ {0}
  BY PopTakes
<1>2. CASE Order = "fifo"
  <2> DEFINE move == [i \in 0..(n - 1) |-> i + 1]
  <2>1. NextOf(q) = q[1] /\ \A i \in 1..(n - 1) : RestOf(q)[i] = q[i + 1]
    BY <1>2, PopTakes
  <2>2. /\ move \in [0..(n - 1) -> 1..n]
        /\ \A i, j \in 0..(n - 1) : move[i] = move[j] => i = j
        /\ \A i \in 0..(n - 1) : q[move[i]] = IF i = 0 THEN NextOf(q) ELSE RestOf(q)[i]
        /\ \A i \in 0..(n - 1) : move[i] = i + 1
    BY <1>1, <2>1
  <2>3. \A j \in 1..n : j - 1 \in 0..(n - 1) /\ move[j - 1] = j
    BY <1>1
  <2> HIDE DEF move
  <2> QED
    BY <1>1, <2>2, <2>3
<1>3. CASE Order # "fifo"
  <2> DEFINE move == [i \in 0..(n - 1) |-> IF i = 0 THEN n ELSE i]
  <2>1. NextOf(q) = q[n] /\ \A i \in 1..(n - 1) : RestOf(q)[i] = q[i]
    BY <1>3, PopTakes
  <2>2. /\ move \in [0..(n - 1) -> 1..n]
        /\ \A i, j \in 0..(n - 1) : move[i] = move[j] => i = j
        /\ \A i \in 0..(n - 1) : q[move[i]] = IF i = 0 THEN NextOf(q) ELSE RestOf(q)[i]
    BY <1>1, <2>1
  <2>3. \A j \in 1..n : \E i \in 0..(n - 1) : move[i] = j
    <3> TAKE j \in 1..n
    <3>1. CASE j = n
      BY <1>1, <3>1
    <3>2. CASE j # n
      BY <1>1, <3>2
    <3> QED
      BY <3>1, <3>2
  <2> HIDE DEF move
  <2> QED
    BY <1>1, <1>3, <2>2, <2>3
<1> QED
  BY <1>2, <1>3

LEMMA PhysTyped ==
  ASSUME TypeInv
  PROVE  /\ Len(physQueue) \in Nat
         /\ 0 \in PhysSpots
         /\ \A i \in PhysSpots : i \in Nat /\ PhysAt(i) \in PhysMsgs \cup {NoMsg}
         /\ \A i \in PhysSpots : PhysAt(i) = NoMsg => i = 0
<1>1. Len(physQueue) \in Nat /\ \A i \in 1..Len(physQueue) : physQueue[i] \in PhysMsgs
  BY ElementOfSeq, LenProperties DEF TypeInv, MsgTypes
<1> QED
  BY <1>1 DEF PhysSpots, PhysAt, TypeInv, MsgTypes, PhysMsgs, NoMsg

(* A pushed message takes the last place. *)
LEMMA PhysPushed ==
  ASSUME TypeInv, NEW msg \in PhysMsgs, PhysPush(msg)
  PROVE  /\ physQueue' \in Seq(PhysMsgs)
         /\ \E new \in Nat : /\ PhysSpots' = PhysSpots \cup {new}
                           /\ PhysAt(new)' = msg
                           /\ \A i \in PhysSpots : i < new /\ PhysAt(i)' = PhysAt(i)
<1>1. /\ physQueue' \in Seq(PhysMsgs)
      /\ Len(physQueue') = Len(physQueue) + 1
      /\ \A i \in 1..Len(physQueue) : physQueue'[i] = physQueue[i]
      /\ physQueue'[Len(physQueue) + 1] = msg
  BY AppendProperties DEF PhysPush, TypeInv, MsgTypes
<1>2. Len(physQueue) \in Nat
  BY LenProperties DEF TypeInv, MsgTypes
<1>3. physMsg' = physMsg
  BY DEF PhysPush
<1> DEFINE new == Len(physQueue) + 1
<1>4. /\ PhysSpots' = PhysSpots \cup {new}
      /\ \A i \in PhysSpots : i < new
  BY <1>1, <1>2 DEF PhysSpots
<1>5. \A i \in PhysSpots : PhysAt(i)' = PhysAt(i)
  BY <1>1, <1>2, <1>3 DEF PhysSpots, PhysAt
<1>6. \E n \in Nat : n = new /\ PhysAt(n)' = msg
  BY <1>1, <1>2 DEF PhysAt
<1> HIDE DEF new
<1> QED
  BY <1>1, <1>4, <1>5, <1>6

(* A pop shifts the messages: the one at place i was at place move[i]. *)
LEMMA PhysPopped ==
  ASSUME TypeInv, PhysPop
  PROVE  /\ physQueue' \in Seq(PhysMsgs)
         /\ physMsg' \in PhysMsgs
         /\ PhysSpots' = 0..(Len(physQueue) - 1)
         /\ PhysAt(0) = NoMsg
         /\ \E move \in [PhysSpots' -> PhysSpots \ {0}] :
              /\ \A i \in PhysSpots' : PhysAt(i)' = PhysAt(move[i])
              /\ \A i, j \in PhysSpots' : move[i] = move[j] => i = j
              /\ \A j \in PhysSpots \ {0} : \E i \in PhysSpots' : move[i] = j
              /\ Order = "fifo" => \A i \in PhysSpots' : move[i] = i + 1
<1>0. physQueue \in Seq(PhysMsgs) /\ physQueue # <<>> /\ PhysAt(0) = NoMsg
  BY DEF TypeInv, MsgTypes, PhysPop, PhysAt
<1>1. /\ physQueue' \in Seq(PhysMsgs) /\ physMsg' \in PhysMsgs
      /\ Len(physQueue) \in Nat \ {0} /\ Len(physQueue') = Len(physQueue) - 1
  BY <1>0, PopTakes DEF PhysPop
<1>2. PhysSpots' = 0..(Len(physQueue) - 1) /\ PhysSpots \ {0} = 1..Len(physQueue)
  BY <1>1 DEF PhysSpots
<1>3. PICK move \in [0..(Len(physQueue) - 1) -> 1..Len(physQueue)] :
        /\ \A i \in 0..(Len(physQueue) - 1) :
             physQueue[move[i]] = IF i = 0 THEN physMsg' ELSE physQueue'[i]
        /\ \A i, j \in 0..(Len(physQueue) - 1) : move[i] = move[j] => i = j
        /\ \A j \in 1..Len(physQueue) : \E i \in 0..(Len(physQueue) - 1) : move[i] = j
        /\ Order = "fifo" => \A i \in 0..(Len(physQueue) - 1) : move[i] = i + 1
  BY <1>0, PopMoves DEF PhysPop
<1>4. \A i \in PhysSpots' : PhysAt(i)' = PhysAt(move[i])
  BY <1>1, <1>2, <1>3 DEF PhysAt
<1>5. move \in [PhysSpots' -> PhysSpots \ {0}]
  BY <1>2, <1>3
<1> QED
  BY <1>0, <1>1, <1>2, <1>3, <1>4, <1>5

(* A parsed message leaves its place empty. *)
LEMMA PhysParsed ==
  ASSUME TypeInv, Parsed
  PROVE  /\ PhysSpots' = PhysSpots
         /\ PhysAt(0)' = NoMsg
         /\ \A i \in PhysSpots : i # 0 => PhysAt(i)' = PhysAt(i)
BY DEF Parsed, PhysSpots, PhysAt

(* The same for the queue of the server. *)
LEMMA SrvTyped ==
  ASSUME TypeInv
  PROVE  /\ Len(srvQueue) \in Nat
         /\ 0 \in SrvSpots
         /\ \A i \in SrvSpots : i \in Nat /\ SrvAt(i) \in SrvMsgs \cup {NoMsg}
         /\ \A i \in SrvSpots : SrvAt(i) = NoMsg => i = 0
<1>1. Len(srvQueue) \in Nat /\ \A i \in 1..Len(srvQueue) : srvQueue[i] \in SrvMsgs
  BY ElementOfSeq, LenProperties DEF TypeInv, MsgTypes
<1> QED
  BY <1>1 DEF SrvSpots, SrvAt, TypeInv, MsgTypes, SrvMsgs, NoMsg

LEMMA SrvPushed ==
  ASSUME TypeInv, NEW msg \in SrvMsgs, srvQueue' = Append(srvQueue, msg), srvMsg' = srvMsg
  PROVE  /\ srvQueue' \in Seq(SrvMsgs)
         /\ \E new \in Nat : /\ SrvSpots' = SrvSpots \cup {new}
                           /\ SrvAt(new)' = msg
                           /\ \A i \in SrvSpots : i < new /\ SrvAt(i)' = SrvAt(i)
<1>1. /\ srvQueue' \in Seq(SrvMsgs)
      /\ Len(srvQueue') = Len(srvQueue) + 1
      /\ \A i \in 1..Len(srvQueue) : srvQueue'[i] = srvQueue[i]
      /\ srvQueue'[Len(srvQueue) + 1] = msg
  BY AppendProperties DEF TypeInv, MsgTypes
<1>2. Len(srvQueue) \in Nat
  BY LenProperties DEF TypeInv, MsgTypes
<1> DEFINE new == Len(srvQueue) + 1
<1>4. /\ SrvSpots' = SrvSpots \cup {new}
      /\ \A i \in SrvSpots : i < new
  BY <1>1, <1>2 DEF SrvSpots
<1>5. \A i \in SrvSpots : SrvAt(i)' = SrvAt(i)
  BY <1>1, <1>2 DEF SrvSpots, SrvAt
<1>6. \E n \in Nat : n = new /\ SrvAt(n)' = msg
  BY <1>1, <1>2 DEF SrvAt
<1> HIDE DEF new
<1> QED
  BY <1>1, <1>4, <1>5, <1>6

LEMMA SrvPopped ==
  ASSUME TypeInv, ServerPop
  PROVE  /\ srvQueue' \in Seq(SrvMsgs)
         /\ srvMsg' \in SrvMsgs
         /\ SrvAt(0) = NoMsg
         /\ \E move \in [SrvSpots' -> SrvSpots \ {0}] :
              /\ \A i \in SrvSpots' : SrvAt(i)' = SrvAt(move[i])
              /\ \A i, j \in SrvSpots' : move[i] = move[j] => i = j
              /\ \A j \in SrvSpots \ {0} : \E i \in SrvSpots' : move[i] = j
              /\ Order = "fifo" => \A i \in SrvSpots' : move[i] = i + 1
<1>0. srvQueue \in Seq(SrvMsgs) /\ srvQueue # <<>> /\ SrvAt(0) = NoMsg
  BY DEF TypeInv, TypeOK, ServerTypeOK, MsgTypes, ServerPop, SrvAt
<1>1. /\ srvQueue' \in Seq(SrvMsgs) /\ srvMsg' \in SrvMsgs
      /\ Len(srvQueue) \in Nat \ {0} /\ Len(srvQueue') = Len(srvQueue) - 1
  BY <1>0, PopTakes DEF ServerPop
<1>2. SrvSpots' = 0..(Len(srvQueue) - 1) /\ SrvSpots \ {0} = 1..Len(srvQueue)
  BY <1>1 DEF SrvSpots
<1>3. PICK move \in [0..(Len(srvQueue) - 1) -> 1..Len(srvQueue)] :
        /\ \A i \in 0..(Len(srvQueue) - 1) :
             srvQueue[move[i]] = IF i = 0 THEN srvMsg' ELSE srvQueue'[i]
        /\ \A i, j \in 0..(Len(srvQueue) - 1) : move[i] = move[j] => i = j
        /\ \A j \in 1..Len(srvQueue) : \E i \in 0..(Len(srvQueue) - 1) : move[i] = j
        /\ Order = "fifo" => \A i \in 0..(Len(srvQueue) - 1) : move[i] = i + 1
  BY <1>0, PopMoves DEF ServerPop
<1>4. \A i \in SrvSpots' : SrvAt(i)' = SrvAt(move[i])
  BY <1>1, <1>2, <1>3 DEF SrvAt
<1>5. move \in [SrvSpots' -> SrvSpots \ {0}]
  BY <1>2, <1>3
<1> QED
  BY <1>0, <1>1, <1>2, <1>3, <1>4, <1>5

(* A handled message leaves its place empty. *)
LEMMA SrvHandled ==
  ASSUME TypeInv, srvMsg' = NoMsg, srvQueue' = srvQueue
  PROVE  /\ SrvSpots' = SrvSpots
         /\ SrvAt(0)' = NoMsg
         /\ \A i \in SrvSpots : i # 0 => SrvAt(i)' = SrvAt(i)
BY DEF SrvSpots, SrvAt

(* What the maps become. *)
LEMMA PlayerInserted ==
  ASSUME NEW c, NEW v, m_clients' = Insert(m_clients, c, v)
  PROVE  /\ Playing' = Playing \cup {c}
         /\ \A d \in Playing : m_clients'[d] = m_clients[d]
         /\ c \notin Playing => m_clients'[c] = v
BY DEF Insert, Assign, Playing

LEMMA PlayerErased ==
  ASSUME NEW c, m_clients' = Erase(m_clients, c)
  PROVE  /\ Playing' = Playing \ {c}
         /\ \A d \in Playing' : m_clients'[d] = m_clients[d]
BY DEF Erase, Playing

LEMMA InputSet ==
  ASSUME NEW id, NEW s, SetInput(id, s)
  PROVE  /\ DOMAIN m_characters' = DOMAIN m_characters
         /\ \A j \in DOMAIN m_characters :
              m_characters'[j] = IF j = id THEN s ELSE m_characters[j]
BY DEF SetInput, Assign
-----------------------------------------------------------------------------
(* Types. *)
LEMMA TypeInvInit == Init => TypeInv
<1> SUFFICES ASSUME Init PROVE TypeInv
  OBVIOUS
<1>1. PhysTypeOK
  BY DEF Init, PhysInit, PhysTypeOK, EmptyMap
<1>2. ServerTypeOK
  <2>1. m_ticks \in 0..(TickPeriod - 1)
    BY ServerAssumption DEF Init
  <2> QED
    BY <2>1 DEF Init, ServerTypeOK, Playing, EmptyMap
<1>3. ClientTypeOK
  BY DEF Init, ClientTypeOK
<1>4. MsgTypes
  BY EmptySeq DEF Init, PhysInit, MsgTypes
<1> QED
  BY <1>1, <1>2, <1>3, <1>4 DEF TypeInv, TypeOK

(* A step disturbs the types of what it changes only. *)
LEMMA TypesKept ==
  ASSUME TypeInv
  PROVE  /\ UNCHANGED clientVars => ClientTypeOK'
         /\ UNCHANGED <<fault, serverVars>> => ServerTypeOK'
         /\ UNCHANGED physVars => PhysTypeOK'
         /\ \A msg : PhysPush(msg) => PhysTypeOK'
         /\ UNCHANGED <<physVars, serverVars, sent>> => MsgTypes'
         /\ \A msg \in PhysMsgs : PhysPush(msg) /\ UNCHANGED <<srvQueue, sent>> /\ srvMsg' = NoMsg
              => MsgTypes'
         /\ \A msg \in PhysMsgs : PhysPush(msg) /\ UNCHANGED <<srvQueue, srvMsg, sent>>
              => MsgTypes'
<1>1. UNCHANGED clientVars => ClientTypeOK'
  BY DEF TypeInv, TypeOK, ClientTypeOK, clientVars
<1>2. UNCHANGED <<fault, serverVars>> => ServerTypeOK'
  BY DEF TypeInv, TypeOK, ServerTypeOK, serverVars, Playing
<1>3. UNCHANGED physVars => PhysTypeOK'
  BY DEF TypeInv, TypeOK, PhysTypeOK, physVars
<1>4. ASSUME NEW msg, PhysPush(msg) PROVE PhysTypeOK'
  BY <1>4 DEF TypeInv, TypeOK, PhysTypeOK, PhysPush
<1>5. UNCHANGED <<physVars, serverVars, sent>> => MsgTypes'
  BY DEF TypeInv, MsgTypes, physVars, serverVars
<1>6. ASSUME NEW msg \in PhysMsgs, PhysPush(msg), UNCHANGED <<srvQueue, sent>>,
             srvMsg' = NoMsg \/ srvMsg' = srvMsg
      PROVE  MsgTypes'
  BY <1>6, PhysPushed DEF TypeInv, MsgTypes, PhysPush
<1> QED
  BY <1>1, <1>2, <1>3, <1>4, <1>5, <1>6

LEMMA TypeInvServerStep == TypeInv /\ ServerStep => TypeInv'
<1> SUFFICES ASSUME TypeInv, ServerStep
             PROVE  PhysTypeOK' /\ ServerTypeOK' /\ ClientTypeOK' /\ MsgTypes'
  BY DEF TypeInv, TypeOK
<1> DEFINE Goal == PhysTypeOK' /\ ServerTypeOK' /\ ClientTypeOK' /\ MsgTypes'
<1>0. /\ ServerTypeOK /\ MsgTypes
      /\ m_next_id \in Nat \ {0} /\ m_baddies \subseteq Nat
      /\ Playing \subseteq Clients /\ \A c \in Playing : m_clients[c] \in Nat
      /\ m_lobby_clients \subseteq Clients
      /\ shown \in [Clients -> SUBSET Nat]
  BY DEF TypeInv, TypeOK, ServerTypeOK, ClientTypeOK
<1>1. CASE LoadBaddie
  <2>1. AddChar(m_next_id) \in PhysMsgs
    BY <1>0 DEF AddChar, PhysMsgs
  <2>2. m_baddies' \subseteq Nat /\ m_next_id' \in Nat \ {0}
    <3>1. m_baddies' = m_baddies \cup {m_next_id} /\ m_next_id' = m_next_id + 1
      BY <1>1 DEF LoadBaddie, GetNextIdentifier
    <3> QED
      BY <1>0, <3>1
  <2>3. ServerTypeOK'
    BY <1>0, <1>1, <2>2 DEF LoadBaddie, ServerTypeOK, Playing
  <2> QED
    BY <1>1, <2>1, <2>3, TypesKept DEF LoadBaddie, clientVars
<1>2. ASSUME NEW known \in BOOLEAN, LoadBlocker(known) PROVE Goal
  <2>1. AddPhys(m_next_id, known) \in PhysMsgs
    BY <1>0 DEF AddPhys, PhysMsgs
  <2>2. m_next_id' \in Nat \ {0}
    BY <1>0, <1>2 DEF LoadBlocker, GetNextIdentifier
  <2>3. ServerTypeOK'
    BY <1>0, <1>2, <2>2 DEF LoadBlocker, ServerTypeOK, Playing
  <2> QED
    BY <1>2, <2>1, <2>3, TypesKept DEF LoadBlocker, clientVars
<1>3. CASE WorldLoaded
  <2>1. ServerTypeOK'
    BY <1>0, <1>3 DEF WorldLoaded, ServerTypeOK, Playing
  <2>2. MsgTypes'
    BY <1>0, <1>3 DEF WorldLoaded, MsgTypes, physVars, clientVars
  <2> QED
    BY <1>3, <2>1, <2>2, TypesKept DEF WorldLoaded
<1>4. CASE ServerPop
  <2>1. MsgTypes'
    BY <1>0, <1>4, SrvPopped DEF ServerPop, MsgTypes, physVars, clientVars
  <2>2. srvMsg' # NoMsg
    BY <1>4, SrvPopped DEF SrvMsgs, NoMsg
  <2>3. ServerTypeOK'
    BY <1>0, <1>4, <2>2 DEF ServerPop, ServerTypeOK, Playing
  <2> QED
    BY <1>4, <2>1, <2>3, TypesKept DEF ServerPop
<1>5. CASE HandleInput
  <2>1. srvMsg \in PhysMsgs
    BY <1>0, <1>5 DEF HandleInput, Handling, MsgTypes, SrvMsgs, PhysMsgs, NoMsg
  <2>2. ServerTypeOK'
    BY <1>0, <1>5 DEF HandleInput, ServerTypeOK, Playing
  <2> QED
    BY <1>5, <2>1, <2>2, TypesKept DEF HandleInput, clientVars
<1>6. CASE HandleLoadPlayer
  <2>1. AddChar(m_next_id) \in PhysMsgs
    BY <1>0 DEF AddChar, PhysMsgs
  <2>2. srvMsg.sender \in Clients
    BY <1>0, <1>6 DEF HandleLoadPlayer, Handling, MsgTypes, SrvMsgs, NoMsg
  <2>3. /\ Playing' \subseteq Clients /\ \A c \in Playing' : m_clients'[c] \in Nat
        /\ m_lobby_clients' \subseteq Clients
    <3>1. m_clients' = Insert(m_clients, srvMsg.sender, m_next_id)
      BY <1>6 DEF HandleLoadPlayer, Enrol
    <3>2. m_lobby_clients' \subseteq Clients
      BY <1>0, <1>6 DEF HandleLoadPlayer
    <3> QED
      BY <1>0, <2>2, <3>1, <3>2, PlayerInserted
  <2>4. ClientTypeOK'
    <3>1. shown' \in [Clients -> SUBSET Nat]
      BY <1>0, <1>6 DEF HandleLoadPlayer
    <3> QED
      BY <1>6, <3>1 DEF HandleLoadPlayer, TypeInv, TypeOK, ClientTypeOK
  <2>5. fault' \in {"none", "null character", "dead client", "dead physics"}
    BY <1>0, <1>6 DEF HandleLoadPlayer, CallClients, ServerTypeOK
  <2>6. m_next_id' \in Nat \ {0}
    BY <1>0, <1>6 DEF HandleLoadPlayer, GetNextIdentifier
  <2>7. ServerTypeOK'
    BY <1>0, <1>6, <2>3, <2>5, <2>6 DEF HandleLoadPlayer, ServerTypeOK
  <2> QED
    BY <1>6, <2>1, <2>4, <2>7, TypesKept DEF HandleLoadPlayer
<1>7. CASE HandleShutdown
  <2>1. PhysTypeOK'
    BY <1>7 DEF HandleShutdown, PhysFinish, TypeInv, TypeOK, PhysTypeOK
  <2>2. ServerTypeOK'
    BY <1>0, <1>7 DEF HandleShutdown, ServerTypeOK, Playing
  <2>3. MsgTypes'
    BY <1>0, <1>7 DEF HandleShutdown, PhysFinish, MsgTypes, clientVars
  <2> QED
    BY <1>7, <2>1, <2>2, <2>3, TypesKept DEF HandleShutdown
<1>8. CASE DeletePhysics
  <2>1. ServerTypeOK'
    BY <1>0, <1>8 DEF DeletePhysics, ServerTypeOK, Playing
  <2>2. MsgTypes'
    BY <1>0, <1>8 DEF DeletePhysics, MsgTypes, physVars, clientVars
  <2> QED
    BY <1>8, <2>1, <2>2, TypesKept DEF DeletePhysics
<1>9. CASE CloseClients
  <2>1. ServerTypeOK'
    BY <1>0, <1>9 DEF CloseClients, CallClients, ServerTypeOK, Playing
  <2>2. ClientTypeOK'
    BY <1>0, <1>9 DEF CloseClients, Registered, TypeInv, TypeOK, ClientTypeOK
  <2>3. MsgTypes'
    BY <1>0, <1>9 DEF CloseClients, MsgTypes, physVars
  <2> QED
    BY <1>9, <2>1, <2>2, <2>3, TypesKept DEF CloseClients
<1>10. CASE Terminate
  <2>1. ServerTypeOK'
    BY <1>0, <1>10 DEF Terminate, ServerTypeOK, Playing
  <2>2. MsgTypes'
    BY <1>0, <1>10 DEF Terminate, MsgTypes, physVars, clientVars
  <2> QED
    BY <1>10, <2>1, <2>2, TypesKept DEF Terminate
<1> QED
  BY <1>1, <1>2, <1>3, <1>4, <1>5, <1>6, <1>7, <1>8, <1>9, <1>10 DEF ServerStep

LEMMA TypeInvPhysicsStep == TypeInv /\ fault = "none" /\ PhysicsStep => TypeInv'
<1> SUFFICES ASSUME TypeInv, fault = "none", PhysicsStep
             PROVE  PhysTypeOK' /\ ServerTypeOK' /\ ClientTypeOK' /\ MsgTypes'
  BY DEF TypeInv, TypeOK
<1> DEFINE Goal == PhysTypeOK' /\ ServerTypeOK' /\ ClientTypeOK' /\ MsgTypes'
<1>0. /\ PhysTypeOK /\ ServerTypeOK /\ MsgTypes
      /\ Playing \subseteq Clients /\ \A c \in Playing : m_clients[c] \in Nat
      /\ m_ticks \in Nat
  BY DEF TypeInv, TypeOK, ServerTypeOK
<1>1. ASSUME PhysInternal, UNCHANGED <<serverVars, clientVars>> PROVE Goal
  <2>1. PhysTypeOK'
    <3>1. CASE PhysLoop /\ UNCHANGED fault
      BY <1>0, <3>1 DEF PhysLoop, PhysTypeOK
    <3>2. CASE PhysPop /\ UNCHANGED fault
      BY <1>0, <3>2 DEF PhysPop, PhysTypeOK
    <3>3. CASE PhysCleanup /\ UNCHANGED fault
      BY <1>0, <3>3 DEF PhysCleanup, PhysTypeOK, EmptyMap
    <3>4. CASE ParseAddPhys
      <4>1. physMsg.objid \in Nat
        BY <1>0, <3>4 DEF ParseAddPhys, Parsing, MsgTypes, PhysMsgs, NoMsg
      <4> QED
        BY <1>0, <3>4, <4>1 DEF ParseAddPhys, Parsed, PhysTypeOK
    <3>5. CASE ParseAddChar
      <4>1. physMsg.objid \in Nat
        BY <1>0, <3>5 DEF ParseAddChar, Parsing, MsgTypes, PhysMsgs, NoMsg
      <4> QED
        BY <1>0, <3>5, <4>1 DEF ParseAddChar, Parsed, Assign, PhysTypeOK
    <3>6. CASE ParseDelChar
      BY <1>0, <3>6 DEF ParseDelChar, Parsed, Erase, PhysTypeOK
    <3> QED
      BY <1>1, <3>1, <3>2, <3>3, <3>4, <3>5, <3>6 DEF PhysInternal
  <2>2. ServerTypeOK'
    <3>1. fault' \in {"none", "null character", "dead client", "dead physics"}
      BY <1>0, <1>1 DEF PhysInternal, ParseAddPhys, ParseAddChar, ParseDelChar, ServerTypeOK
    <3> QED
      BY <1>0, <1>1, <3>1 DEF serverVars, ServerTypeOK, Playing
  <2>3. MsgTypes'
    <3>1. CASE PhysPop
      BY <1>0, <1>1, <3>1, PhysPopped DEF MsgTypes, serverVars, clientVars
    <3>2. CASE ~PhysPop
      BY <1>0, <1>1, <3>2 DEF PhysInternal, PhysLoop, PhysCleanup, ParseAddPhys,
                               ParseAddChar, ParseDelChar, Parsed, MsgTypes, serverVars, clientVars
    <3> QED
      BY <3>1, <3>2
  <2> QED
    BY <1>1, <2>1, <2>2, <2>3, TypesKept
<1>2. CASE PhysicsInput
  <2>1. physMsg.sender \in Clients
    BY <1>0, <1>2 DEF PhysicsInput, Parsing, MsgTypes, PhysMsgs, NoMsg
  <2>2. Playing' \subseteq Clients /\ \A c \in Playing' : m_clients'[c] \in Nat
    <3>1. m_clients' = Insert(m_clients, physMsg.sender, 0)
      BY <1>2 DEF PhysicsInput
    <3> QED
      BY <1>0, <2>1, <3>1, PlayerInserted
  <2>3. DOMAIN m_characters' = DOMAIN m_characters
    BY <1>2, InputSet DEF PhysicsInput, ParseInput
  <2>4. PhysTypeOK' /\ MsgTypes'
    BY <1>0, <1>2, <2>3 DEF PhysicsInput, ParseInput, Parsed, clientVars, PhysTypeOK, MsgTypes
  <2>5. ServerTypeOK'
    BY <1>0, <1>2, <2>2 DEF PhysicsInput, ParseInput, ServerTypeOK
  <2> QED
    BY <1>2, <2>4, <2>5, TypesKept DEF PhysicsInput
<1>3. CASE RunTickCallbacks
  <2>1. NextTick \in 0..(TickPeriod - 1)
    BY <1>0, ServerAssumption DEF NextTick
  <2>2. PhysTypeOK' /\ MsgTypes'
    BY <1>0, <1>3 DEF RunTickCallbacks, PhysTick, PhysTypeOK, MsgTypes, clientVars
  <2>3. ServerTypeOK'
    BY <1>0, <1>3, <2>1 DEF RunTickCallbacks, ServerTypeOK, Playing
  <2> QED
    BY <1>3, <2>2, <2>3, TypesKept DEF RunTickCallbacks
<1>4. CASE PushClientTransforms
  <2>1. PhysTypeOK' /\ MsgTypes'
    BY <1>0, <1>4 DEF PushClientTransforms, PhysTransforms, PhysTypeOK, MsgTypes,
                       serverVars, clientVars
  <2>2. ServerTypeOK'
    <3>1. fault' \in {"none", "dead client"}
      BY <1>4 DEF PushClientTransforms, CallClients
    <3> QED
      BY <1>0, <1>4, <3>1 DEF PushClientTransforms, serverVars, ServerTypeOK, Playing
  <2> QED
    BY <1>4, <2>1, <2>2, TypesKept DEF PushClientTransforms
<1>5. CASE PhysicsEnds
  <2>1. PhysTypeOK' /\ MsgTypes'
    BY <1>0, <1>5 DEF PhysicsEnds, PhysNotify, PhysTypeOK, MsgTypes, serverVars, clientVars
  <2>2. ServerTypeOK'
    <3>1. fault' \in {"none", "dead physics"}
      BY <1>5 DEF PhysicsEnds
    <3> QED
      BY <1>0, <1>5, <3>1 DEF PhysicsEnds, serverVars, ServerTypeOK, Playing
  <2> QED
    BY <1>5, <2>1, <2>2, TypesKept DEF PhysicsEnds
<1> QED
  BY <1>1, <1>2, <1>3, <1>4, <1>5 DEF PhysicsStep

LEMMA TypeInvClientStep == TypeInv /\ fault = "none" /\ ClientStep => TypeInv'
<1> SUFFICES ASSUME TypeInv, fault = "none", ClientStep
             PROVE  PhysTypeOK' /\ ServerTypeOK' /\ ClientTypeOK' /\ MsgTypes'
  BY DEF TypeInv, TypeOK
<1> DEFINE Goal == PhysTypeOK' /\ ServerTypeOK' /\ ClientTypeOK' /\ MsgTypes'
<1>0. /\ PhysTypeOK /\ ServerTypeOK /\ ClientTypeOK /\ MsgTypes
      /\ Playing \subseteq Clients /\ \A c \in Playing : m_clients[c] \in Nat
      /\ m_lobby_clients \subseteq Clients
      /\ m_baddies \subseteq Nat
      /\ shown \in [Clients -> SUBSET Nat]
  BY DEF TypeInv, TypeOK, ServerTypeOK, ClientTypeOK
<1>1. ASSUME NEW c \in Clients, AddClient(c) PROVE Goal
  <2>1. PICK S \in BaddieViews :
          shown' = [shown EXCEPT ![c] = {m_clients[d] : d \in Playing} \cup S]
    BY <1>1 DEF AddClient
  <2>2. {m_clients[d] : d \in Playing} \cup S \in SUBSET Nat
    BY <1>0, <2>1 DEF BaddieViews
  <2>3. ClientTypeOK'
    BY <1>0, <1>1, <2>1, <2>2 DEF AddClient, ClientTypeOK
  <2>4. ServerTypeOK'
    BY <1>0, <1>1 DEF AddClient, ServerTypeOK, Playing
  <2>5. MsgTypes'
    BY <1>0, <1>1 DEF AddClient, MsgTypes, physVars
  <2> QED
    BY <1>1, <2>3, <2>4, <2>5, TypesKept DEF AddClient
<1>2. ASSUME NEW c \in Clients, RemoveClient(c) PROVE Goal
  <2>1. DelChar(IdOf(c)) \in PhysMsgs
    <3>1. IdOf(c) \in Nat
      BY <1>0 DEF IdOf, Lookup, Playing
    <3> QED
      BY <3>1 DEF DelChar, PhysMsgs
  <2>2. Playing' \subseteq Clients /\ \A d \in Playing' : m_clients'[d] \in Nat
    <3>1. m_clients' = Erase(m_clients, c)
      BY <1>2 DEF RemoveClient
    <3> QED
      BY <1>0, <3>1, PlayerErased
  <2>3. /\ UNCHANGED <<m_next_id, m_baddies, m_ticks, srvQueue, srvMsg, srvPc, physics,
                       closed, sent, shutdown>>
        /\ m_lobby_clients' = m_lobby_clients \ {c}
        /\ life' = [life EXCEPT ![c] = "removed"]
        /\ UNCHANGED physVars \/ PhysPush(DelChar(IdOf(c)))
    BY <1>2 DEF RemoveClient
  <2>4. shown' \in [Clients -> SUBSET Nat]
    BY <1>0, <1>2 DEF RemoveClient
  <2>5. fault' \in {"none", "dead client", "dead physics"}
    BY <1>2 DEF RemoveClient, CallClients
  <2>6. ServerTypeOK'
    BY <1>0, <2>2, <2>3, <2>5 DEF ServerTypeOK
  <2>7. ClientTypeOK'
    BY <1>0, <2>3, <2>4 DEF ClientTypeOK
  <2>8. PhysTypeOK' /\ MsgTypes'
    <3>1. CASE UNCHANGED physVars
      BY <1>0, <2>3, <3>1, TypesKept DEF MsgTypes, physVars
    <3>2. CASE PhysPush(DelChar(IdOf(c)))
      BY <2>1, <2>3, <3>2, TypesKept
    <3> QED
      BY <2>3, <3>1, <3>2
  <2> QED
    BY <2>6, <2>7, <2>8
<1>3. ASSUME NEW c \in Clients, DeleteClient(c) PROVE Goal
  <2>1. ClientTypeOK'
    BY <1>0, <1>3 DEF DeleteClient, ClientTypeOK
  <2> QED
    BY <1>3, <2>1, TypesKept DEF DeleteClient
<1>4. ASSUME NEW c \in Clients, NEW msg \in SrvMsgs, Send(c, msg) PROVE Goal
  <2>1. ClientTypeOK'
    BY <1>0, <1>4 DEF Send, ClientTypeOK
  <2>2. ServerTypeOK'
    BY <1>0, <1>4 DEF Send, ServerTypeOK, Playing
  <2>3. MsgTypes'
    <3>1. srvQueue' \in Seq(SrvMsgs) /\ Append(sent[c], msg) \in Seq(SrvMsgs)
      BY <1>0, <1>4, AppendProperties DEF Send, MsgTypes
    <3> QED
      BY <1>0, <1>4, <3>1 DEF Send, MsgTypes, physVars
  <2> QED
    BY <1>4, <2>1, <2>2, <2>3, TypesKept DEF Send
<1>5. ASSUME NEW c \in Clients, SendLoadPlayer(c) PROVE Goal
  BY <1>4, <1>5 DEF SendLoadPlayer, SrvMsgs
<1>6. ASSUME NEW c \in Clients, NEW s \in Inputs, SendInput(c, s) PROVE Goal
  BY <1>4, <1>6 DEF SendInput, SrvMsgs
<1>7. CASE SendShutdown
  <2>1. ClientTypeOK'
    BY <1>0, <1>7 DEF SendShutdown, ClientTypeOK
  <2>2. ServerTypeOK'
    BY <1>0, <1>7 DEF SendShutdown, ServerTypeOK, Playing
  <2>3. MsgTypes'
    <3>1. srvQueue' \in Seq(SrvMsgs)
      BY <1>0, <1>7, AppendProperties DEF SendShutdown, MsgTypes, SrvMsgs
    <3> QED
      BY <1>0, <1>7, <3>1 DEF SendShutdown, MsgTypes, physVars
  <2> QED
    BY <1>7, <2>1, <2>2, <2>3, TypesKept DEF SendShutdown
<1> QED
  BY <1>1, <1>2, <1>3, <1>5, <1>6, <1>7 DEF ClientStep

LEMMA TypeInvStep == TypeInv /\ [Next]_vars => TypeInv'
<1>1. TypeInv /\ UNCHANGED vars => TypeInv'
  BY TypesKept DEF vars, clientVars, TypeInv, TypeOK
<1> QED
  BY <1>1, TypeInvServerStep, TypeInvPhysicsStep, TypeInvClientStep DEF Next

(* Every state has the types the module states (server/localserver.cpp,    *)
(* server/bullet/btphysics.cpp).                                           *)
THEOREM ServerTypeCorrect == Spec => []TypeOK
<1>1. TypeInv => TypeOK
  BY DEF TypeInv
<1> QED
  BY <1>1, TypeInvInit, TypeInvStep, PTL DEF Spec
-----------------------------------------------------------------------------
(* Identifiers. *)
LEMMA NextIsNew ==
  ASSUME TypeInv
  PROVE  m_next_id \in Nat \ {0} /\ m_next_id \notin Given /\ 0 \notin Given
<1>1. m_next_id \in Nat \ {0}
  BY DEF TypeInv, TypeOK, ServerTypeOK
<1> QED
  BY <1>1 DEF Given

LEMMA IdInvInit == Init => IdInv
<1> SUFFICES ASSUME Init PROVE IdInv
  OBVIOUS
<1>1. PhysSpots = {0} /\ PhysAt(0) = NoMsg
  BY EmptySeq DEF Init, PhysInit, PhysSpots, PhysAt
<1>2. ~IsAdd(0) /\ ~IsDel(0)
  BY <1>1 DEF IsAdd, IsDel, NoMsg
<1>3. Playing = {} /\ DOMAIN m_characters = {} /\ m_objects = {} /\ m_baddies = {}
  BY DEF Init, PhysInit, Playing, EmptyMap
<1> QED
  BY <1>1, <1>2, <1>3 DEF IdInv, IdsGiven, MessagesOnce, AddsAreNew, PlayersDiffer, Players

(* A push of an addition with the next id, of a deletion that is not yet   *)
(* on its way, or of an input.                                             *)
LEMMA PushKeepsIds ==
  ASSUME TypeInv, IdInv, NEW msg \in PhysMsgs, PhysPush(msg),
         m_next_id' \in {m_next_id, m_next_id + 1},
         msg.type \in {"AddChar", "AddPhys"} => msg.objid = m_next_id /\ m_next_id' = m_next_id + 1,
         msg.type = "DelChar" => /\ msg.objid \in Given
                                 /\ \A i \in PhysSpots : IsDel(i) => PhysAt(i).objid # msg.objid,
         m_baddies' \subseteq Given',
         \A c \in Playing' : m_clients'[c] < m_next_id'
  PROVE  IdsGiven' /\ MessagesOnce' /\ AddsAreNew'
<1>1. PICK new \in Nat : /\ PhysSpots' = PhysSpots \cup {new}
                         /\ PhysAt(new)' = msg
                         /\ \A i \in PhysSpots : i < new /\ PhysAt(i)' = PhysAt(i)
  BY PhysPushed
<1>2. /\ \A i \in PhysSpots : (IsAdd(i)' <=> IsAdd(i)) /\ (IsDel(i)' <=> IsDel(i))
      /\ IsAdd(new)' <=> msg.type \in {"AddChar", "AddPhys"}
      /\ IsDel(new)' <=> msg.type = "DelChar"
  BY <1>1 DEF IsAdd, IsDel
<1>3. m_next_id \in Nat \ {0} /\ m_next_id \notin Given
  BY NextIsNew
<1>4. /\ Given \subseteq Given'
      /\ m_next_id' = m_next_id + 1 => m_next_id \in Given'
  <2>1. CASE m_next_id' = m_next_id
    BY <1>3, <2>1 DEF Given
  <2>2. CASE m_next_id' = m_next_id + 1
    BY <1>3, <2>2 DEF Given
  <2> QED
    BY <2>1, <2>2
<1>8. m_characters' = m_characters /\ m_objects' = m_objects
  BY DEF PhysPush
<1>5. IdsGiven'
  BY <1>1, <1>2, <1>4, <1>8 DEF IdInv, IdsGiven
<1>6. MessagesOnce'
  BY <1>1, <1>2, <1>3 DEF IdInv, IdsGiven, MessagesOnce
<1>7. AddsAreNew'
  BY <1>1, <1>2, <1>3, <1>8 DEF IdInv, IdsGiven, AddsAreNew
<1> QED
  BY <1>5, <1>6, <1>7

(* Nothing that has to do with ids changes. *)
LEMMA IdsKept ==
  ASSUME IdInv, UNCHANGED <<m_characters, m_objects, physQueue, physMsg, m_next_id, m_baddies,
                            m_clients>>
  PROVE  IdInv'
BY DEF IdInv, IdsGiven, MessagesOnce, AddsAreNew, PlayersDiffer, Given, IsAdd, IsDel, PhysSpots,
       PhysAt, Players, Playing

LEMMA IdInvServerStep == TypeInv /\ IdInv /\ ServerStep => IdInv'
<1> SUFFICES ASSUME TypeInv, IdInv, ServerStep PROVE IdInv'
  OBVIOUS
<1>0. /\ m_next_id \in Nat \ {0} /\ m_baddies \subseteq Given
      /\ \A c \in Playing : m_clients[c] \in Nat /\ m_clients[c] < m_next_id
      /\ m_next_id \notin Given
      /\ \A i \in PhysSpots : IsDel(i) => PhysAt(i).objid \in Given
  BY NextIsNew DEF TypeInv, TypeOK, ServerTypeOK, IdInv, IdsGiven
<1>1. CASE LoadBaddie
  <2> DEFINE msg == AddChar(m_next_id)
  <2>1. msg \in PhysMsgs /\ msg.type = "AddChar" /\ msg.objid = m_next_id
    BY <1>0 DEF AddChar, PhysMsgs
  <2>2. /\ PhysPush(msg) /\ m_next_id' = m_next_id + 1
        /\ m_baddies' = m_baddies \cup {m_next_id} /\ m_clients' = m_clients
    BY <1>1 DEF LoadBaddie, GetNextIdentifier
  <2> HIDE DEF msg
  <2>3. Given' = Given \cup {m_next_id}
    BY <1>0, <2>2 DEF Given
  <2>4. \A c \in Playing' : m_clients'[c] < m_next_id'
    BY <1>0, <2>2 DEF Playing
  <2>5. IdsGiven' /\ MessagesOnce' /\ AddsAreNew'
    BY <1>0, <2>1, <2>2, <2>3, <2>4, PushKeepsIds
  <2>6. PICK new \in Nat : /\ PhysSpots' = PhysSpots \cup {new}
                           /\ PhysAt(new)' = msg
                           /\ \A i \in PhysSpots : i < new /\ PhysAt(i)' = PhysAt(i)
    BY <2>1, <2>2, PhysPushed
  <2>7. PlayersDiffer'
    BY <1>0, <2>1, <2>2, <2>6 DEF IdInv, PlayersDiffer, Players, Playing, IsDel
  <2> QED
    BY <2>5, <2>7 DEF IdInv
<1>2. ASSUME NEW known \in BOOLEAN, LoadBlocker(known) PROVE IdInv'
  <2> DEFINE msg == AddPhys(m_next_id, known)
  <2>1. msg \in PhysMsgs /\ msg.type = "AddPhys" /\ msg.objid = m_next_id
    BY <1>0 DEF AddPhys, PhysMsgs
  <2>2. /\ PhysPush(msg) /\ m_next_id' = m_next_id + 1
        /\ m_baddies' = m_baddies /\ m_clients' = m_clients
    BY <1>2 DEF LoadBlocker, GetNextIdentifier
  <2> HIDE DEF msg
  <2>3. Given' = Given \cup {m_next_id}
    BY <1>0, <2>2 DEF Given
  <2>4. \A c \in Playing' : m_clients'[c] < m_next_id'
    BY <1>0, <2>2 DEF Playing
  <2>5. IdsGiven' /\ MessagesOnce' /\ AddsAreNew'
    BY <1>0, <2>1, <2>2, <2>3, <2>4, PushKeepsIds
  <2>6. PICK new \in Nat : /\ PhysSpots' = PhysSpots \cup {new}
                           /\ PhysAt(new)' = msg
                           /\ \A i \in PhysSpots : i < new /\ PhysAt(i)' = PhysAt(i)
    BY <2>1, <2>2, PhysPushed
  <2>7. PlayersDiffer'
    BY <1>0, <2>1, <2>2, <2>6 DEF IdInv, PlayersDiffer, Players, Playing, IsDel
  <2> QED
    BY <2>5, <2>7 DEF IdInv
<1>3. CASE WorldLoaded
  BY <1>3, IdsKept DEF WorldLoaded, physVars
<1>4. CASE ServerPop
  BY <1>4, IdsKept DEF ServerPop, physVars
<1>5. CASE HandleInput
  <2>1. srvMsg \in PhysMsgs /\ srvMsg.type = "Input"
    BY <1>5 DEF TypeInv, HandleInput, Handling, MsgTypes, SrvMsgs, PhysMsgs, NoMsg
  <2>2. PhysPush(srvMsg) /\ UNCHANGED <<m_next_id, m_baddies, m_clients>>
    BY <1>5 DEF HandleInput
  <2>3. Given' = Given
    BY <2>2 DEF Given
  <2>4. \A c \in Playing' : m_clients'[c] < m_next_id'
    BY <1>0, <2>2 DEF Playing
  <2>5. IdsGiven' /\ MessagesOnce' /\ AddsAreNew'
    BY <1>0, <2>1, <2>2, <2>3, <2>4, PushKeepsIds
  <2>6. PICK new \in Nat : /\ PhysSpots' = PhysSpots \cup {new}
                           /\ PhysAt(new)' = srvMsg
                           /\ \A i \in PhysSpots : i < new /\ PhysAt(i)' = PhysAt(i)
    BY <2>1, <2>2, PhysPushed
  <2>7. PlayersDiffer'
    BY <1>0, <2>1, <2>2, <2>6 DEF IdInv, PlayersDiffer, Players, Playing, IsDel
  <2> QED
    BY <2>5, <2>7 DEF IdInv
<1>6. CASE HandleLoadPlayer
  <2> DEFINE msg == AddChar(m_next_id)
  <2>1. msg \in PhysMsgs /\ msg.type = "AddChar" /\ msg.objid = m_next_id
    BY <1>0 DEF AddChar, PhysMsgs
  <2>2. /\ PhysPush(msg) /\ m_next_id' = m_next_id + 1 /\ m_baddies' = m_baddies
        /\ m_clients' = Insert(m_clients, srvMsg.sender, m_next_id)
    BY <1>6 DEF HandleLoadPlayer, GetNextIdentifier, Enrol
  <2> HIDE DEF msg
  <2>3. Given' = Given \cup {m_next_id}
    BY <1>0, <2>2 DEF Given
  <2>4. /\ Playing' = Playing \cup {srvMsg.sender}
        /\ \A d \in Playing : m_clients'[d] = m_clients[d]
        /\ srvMsg.sender \notin Playing => m_clients'[srvMsg.sender] = m_next_id
    BY <2>2, PlayerInserted
  <2>5. \A c \in Playing' : m_clients'[c] < m_next_id'
    BY <1>0, <2>2, <2>4
  <2>6. IdsGiven' /\ MessagesOnce' /\ AddsAreNew'
    BY <1>0, <2>1, <2>2, <2>3, <2>5, PushKeepsIds
  <2>7. PICK new \in Nat : /\ PhysSpots' = PhysSpots \cup {new}
                           /\ PhysAt(new)' = msg
                           /\ \A i \in PhysSpots : i < new /\ PhysAt(i)' = PhysAt(i)
    BY <2>1, <2>2, PhysPushed
  <2>8. PlayersDiffer'
    <3>1. \A c, d \in Players' : m_clients'[c] = m_clients'[d] => c = d
      BY <1>0, <2>4 DEF IdInv, PlayersDiffer, Players
    <3>2. \A c \in Players' : m_clients'[c] \notin m_baddies'
      BY <1>0, <2>2, <2>4 DEF IdInv, PlayersDiffer, Players
    <3>3. \A i \in PhysSpots' : IsDel(i)' =>
            /\ PhysAt(i)'.objid \notin m_baddies'
            /\ \A c \in Playing' : m_clients'[c] # PhysAt(i)'.objid
      BY <1>0, <2>1, <2>2, <2>4, <2>7 DEF IdInv, PlayersDiffer, IsDel
    <3> QED
      BY <3>1, <3>2, <3>3 DEF PlayersDiffer
  <2> QED
    BY <2>6, <2>8 DEF IdInv
<1>7. CASE HandleShutdown
  BY <1>7, IdsKept DEF HandleShutdown, PhysFinish
<1>8. CASE DeletePhysics
  BY <1>8, IdsKept DEF DeletePhysics, physVars
<1>9. CASE CloseClients
  BY <1>9, IdsKept DEF CloseClients, physVars
<1>10. CASE Terminate
  BY <1>10, IdsKept DEF Terminate, physVars
<1> QED
  BY <1>1, <1>2, <1>3, <1>4, <1>5, <1>6, <1>7, <1>8, <1>9, <1>10 DEF ServerStep

LEMMA IdInvPhysicsStep == TypeInv /\ IdInv /\ PhysicsStep => IdInv'
<1> SUFFICES ASSUME TypeInv, IdInv, PhysicsStep PROVE IdInv'
  OBVIOUS
<1>0. /\ 0 \in PhysSpots /\ \A i \in PhysSpots : PhysAt(i) \in PhysMsgs \cup {NoMsg}
      /\ PhysAt(0) = physMsg
  BY PhysTyped DEF PhysAt
<1>1. ASSUME PhysInternal, UNCHANGED <<serverVars, clientVars>> PROVE IdInv'
  <2>0. /\ UNCHANGED <<m_next_id, m_baddies, m_clients>>
        /\ Given' = Given /\ Playing' = Playing /\ Players' = Players
    BY <1>1 DEF serverVars, Given, Playing, Players
  <2>1. CASE PhysLoop
    BY <1>1, <2>1, IdsKept DEF PhysLoop, serverVars
  <2>2. CASE PhysPop
    <3>1. PICK move \in [PhysSpots' -> PhysSpots \ {0}] :
            /\ \A i \in PhysSpots' : PhysAt(i)' = PhysAt(move[i])
            /\ \A i, j \in PhysSpots' : move[i] = move[j] => i = j
      BY <2>2, PhysPopped
    <3>2. \A i \in PhysSpots' : /\ move[i] \in PhysSpots
                                /\ PhysAt(i)' = PhysAt(move[i])
                                /\ IsAdd(i)' <=> IsAdd(move[i])
                                /\ IsDel(i)' <=> IsDel(move[i])
      BY <3>1 DEF IsAdd, IsDel
    <3>3. UNCHANGED <<m_characters, m_objects>>
      BY <2>2 DEF PhysPop
    <3>4. IdsGiven' /\ AddsAreNew' /\ PlayersDiffer'
      BY <2>0, <3>2, <3>3 DEF IdInv, IdsGiven, AddsAreNew, PlayersDiffer
    <3>5. MessagesOnce'
      BY <3>1, <3>2 DEF IdInv, MessagesOnce
    <3> QED
      BY <3>4, <3>5 DEF IdInv
  <2>3. CASE PhysCleanup
    <3>1. PhysSpots' = PhysSpots /\ \A i \in PhysSpots : PhysAt(i)' = PhysAt(i)
      BY <2>3 DEF PhysCleanup, PhysSpots, PhysAt
    <3>2. DOMAIN m_characters' = {} /\ m_objects' = {}
      BY <2>3 DEF PhysCleanup, EmptyMap
    <3> QED
      BY <2>0, <3>1, <3>2
         DEF IdInv, IdsGiven, MessagesOnce, AddsAreNew, PlayersDiffer, IsAdd, IsDel
  <2>4. ASSUME Parsed,
               \A id \in DOMAIN m_characters' \cup m_objects' :
                 \/ id \in DOMAIN m_characters \cup m_objects
                 \/ IsAdd(0) /\ id = PhysAt(0).objid,
               DOMAIN m_characters' \cap m_objects' = {}
        PROVE  IdInv'
    <3>1. /\ PhysSpots' = PhysSpots /\ PhysAt(0)' = NoMsg
          /\ \A i \in PhysSpots : i # 0 => PhysAt(i)' = PhysAt(i)
      BY <2>4, PhysParsed
    <3>2. /\ \A i \in PhysSpots : IsAdd(i)' => i # 0 /\ IsAdd(i)
          /\ \A i \in PhysSpots : IsDel(i)' => i # 0 /\ IsDel(i)
      BY <3>1 DEF IsAdd, IsDel, NoMsg
    <3>3. IdsGiven' /\ PlayersDiffer'
      BY <1>0, <2>0, <2>4, <3>1, <3>2 DEF IdInv, IdsGiven, PlayersDiffer
    <3>4. MessagesOnce'
      BY <3>1, <3>2 DEF IdInv, MessagesOnce
    <3>5. AddsAreNew'
      <4>1. ASSUME NEW i \in PhysSpots, IsAdd(i), i # 0
            PROVE  PhysAt(i).objid \notin DOMAIN m_characters' \cup m_objects'
        <5>1. PhysAt(i).objid \notin DOMAIN m_characters \cup m_objects
          BY <4>1 DEF IdInv, AddsAreNew
        <5>2. IsAdd(0) => PhysAt(i).objid # PhysAt(0).objid
          BY <1>0, <4>1 DEF IdInv, MessagesOnce
        <5> QED
          BY <2>4, <5>1, <5>2
      <4> QED
        BY <2>4, <3>1, <3>2, <4>1 DEF AddsAreNew
    <3> QED
      BY <3>3, <3>4, <3>5 DEF IdInv
  <2>5. CASE ParseAddPhys
    <3>1. IsAdd(0) /\ physMsg.objid \notin DOMAIN m_characters
      BY <1>0, <2>5 DEF ParseAddPhys, Parsing, IsAdd, IdInv, AddsAreNew
    <3> QED
      BY <1>0, <2>4, <2>5, <3>1 DEF ParseAddPhys, IdInv, AddsAreNew
  <2>6. CASE ParseAddChar
    <3>1. IsAdd(0) /\ physMsg.objid \notin m_objects
      BY <1>0, <2>6 DEF ParseAddChar, Parsing, IsAdd, IdInv, AddsAreNew
    <3>2. DOMAIN m_characters' = DOMAIN m_characters \cup {physMsg.objid} /\ m_objects' = m_objects
      BY <2>6 DEF ParseAddChar, Assign
    <3> QED
      BY <1>0, <2>4, <2>6, <3>1, <3>2 DEF ParseAddChar, IdInv, AddsAreNew
  <2>7. CASE ParseDelChar
    <3>1. DOMAIN m_characters' \subseteq DOMAIN m_characters /\ m_objects' = m_objects
      BY <2>7 DEF ParseDelChar, Erase
    <3> QED
      BY <2>4, <2>7, <3>1 DEF ParseDelChar, IdInv, AddsAreNew
  <2> QED
    BY <1>1, <2>1, <2>2, <2>3, <2>5, <2>6, <2>7 DEF PhysInternal
<1>2. CASE PhysicsInput
  <2>1. /\ PhysSpots' = PhysSpots /\ PhysAt(0)' = NoMsg
        /\ \A i \in PhysSpots : i # 0 => PhysAt(i)' = PhysAt(i)
    BY <1>2, PhysParsed DEF PhysicsInput, ParseInput
  <2>2. /\ \A i \in PhysSpots : IsAdd(i)' => i # 0 /\ IsAdd(i)
        /\ \A i \in PhysSpots : IsDel(i)' => i # 0 /\ IsDel(i)
    BY <2>1 DEF IsAdd, IsDel, NoMsg
  <2>3. /\ UNCHANGED <<m_objects, m_next_id, m_baddies>>
        /\ DOMAIN m_characters' = DOMAIN m_characters
        /\ m_clients' = Insert(m_clients, physMsg.sender, 0)
    BY <1>2, InputSet DEF PhysicsInput, ParseInput
  <2>4. /\ Playing' = Playing \cup {physMsg.sender}
        /\ \A d \in Playing : m_clients'[d] = m_clients[d]
        /\ physMsg.sender \notin Playing => m_clients'[physMsg.sender] = 0
    BY <2>3, PlayerInserted
  <2>5. 0 \notin Given /\ Given' = Given /\ 0 < m_next_id
    BY <2>3, NextIsNew DEF Given
  <2>6. IdsGiven'
    BY <2>1, <2>2, <2>3, <2>4, <2>5 DEF IdInv, IdsGiven
  <2>7. MessagesOnce' /\ AddsAreNew'
    BY <2>1, <2>2, <2>3 DEF IdInv, MessagesOnce, AddsAreNew
  <2>8. PlayersDiffer'
    <3>1. Players' = Players /\ \A c \in Players : m_clients'[c] = m_clients[c]
      BY <2>4 DEF Players
    <3> QED
      BY <2>1, <2>2, <2>3, <2>4, <2>5, <3>1 DEF IdInv, IdsGiven, PlayersDiffer
  <2> QED
    BY <2>6, <2>7, <2>8 DEF IdInv
<1>3. CASE RunTickCallbacks
  <2>1. /\ UNCHANGED <<m_objects, physQueue, physMsg, m_next_id, m_baddies, m_clients>>
        /\ DOMAIN m_characters' = DOMAIN m_characters
    BY <1>3 DEF RunTickCallbacks, PhysTick
  <2> QED
    BY <2>1 DEF IdInv, IdsGiven, MessagesOnce, AddsAreNew, PlayersDiffer, Given, IsAdd, IsDel,
                PhysSpots, PhysAt, Players, Playing
<1>4. CASE PushClientTransforms
  BY <1>4, IdsKept DEF PushClientTransforms, PhysTransforms, serverVars
<1>5. CASE PhysicsEnds
  BY <1>5, IdsKept DEF PhysicsEnds, PhysNotify, serverVars
<1> QED
  BY <1>1, <1>2, <1>3, <1>4, <1>5 DEF PhysicsStep

LEMMA IdInvClientStep == TypeInv /\ IdInv /\ ClientStep => IdInv'
<1> SUFFICES ASSUME TypeInv, IdInv, ClientStep PROVE IdInv'
  OBVIOUS
<1>1. ASSUME NEW c \in Clients, AddClient(c) PROVE IdInv'
  BY <1>1, IdsKept DEF AddClient, physVars
<1>2. ASSUME NEW c \in Clients, RemoveClient(c) PROVE IdInv'
  <2>1. m_clients' = Erase(m_clients, c) /\ UNCHANGED <<m_next_id, m_baddies>>
    BY <1>2 DEF RemoveClient
  <2>2. Playing' = Playing \ {c} /\ \A d \in Playing' : m_clients'[d] = m_clients[d]
    BY <2>1, PlayerErased
  <2>3. /\ m_next_id \in Nat \ {0} /\ m_baddies \subseteq Given
        /\ \A d \in Playing : m_clients[d] \in Nat /\ m_clients[d] < m_next_id
    BY DEF TypeInv, TypeOK, ServerTypeOK, IdInv, IdsGiven
  <2>4. CASE UNCHANGED physVars
    <3>1. /\ UNCHANGED <<m_characters, m_objects>>
          /\ PhysSpots' = PhysSpots /\ \A i \in PhysSpots : PhysAt(i)' = PhysAt(i)
      BY <2>4 DEF physVars, PhysSpots, PhysAt
    <3>2. Players' \subseteq Players /\ \A d \in Players' : m_clients'[d] = m_clients[d]
      BY <2>2 DEF Players
    <3> QED
      BY <2>1, <2>2, <3>1, <3>2 DEF IdInv, IdsGiven, MessagesOnce, AddsAreNew, PlayersDiffer, Given,
                                    IsAdd, IsDel
  <2>5. ASSUME IdOf(c) # 0, PhysPush(DelChar(IdOf(c))) PROVE IdInv'
    <3> DEFINE msg == DelChar(IdOf(c))
    <3>1. c \in Players /\ IdOf(c) = m_clients[c]
      BY <2>5 DEF IdOf, Lookup, Players, Playing
    <3>2. /\ msg \in PhysMsgs /\ msg.type = "DelChar" /\ msg.objid = m_clients[c]
          /\ m_clients[c] \in Given
      BY <2>3, <3>1 DEF DelChar, PhysMsgs, Players, Given
    <3> HIDE DEF msg
    <3>3. \A i \in PhysSpots : IsDel(i) => PhysAt(i).objid # msg.objid
      BY <3>1, <3>2 DEF IdInv, PlayersDiffer, Players
    <3>4. Given' = Given /\ \A d \in Playing' : m_clients'[d] < m_next_id'
      BY <2>1, <2>2, <2>3 DEF Given
    <3>5. PhysPush(msg)
      BY <2>5 DEF msg
    <3>6. IdsGiven' /\ MessagesOnce' /\ AddsAreNew'
      BY <2>1, <2>3, <3>2, <3>3, <3>4, <3>5, PushKeepsIds
    <3>7. PICK new \in Nat : /\ PhysSpots' = PhysSpots \cup {new}
                             /\ PhysAt(new)' = msg
                             /\ \A i \in PhysSpots : i < new /\ PhysAt(i)' = PhysAt(i)
      BY <3>2, <3>5, PhysPushed
    <3>8. PlayersDiffer'
      <4>1. Players' = Players \ {c} /\ \A d \in Players' : m_clients'[d] = m_clients[d]
        BY <2>2 DEF Players
      <4>2. m_clients[c] \notin m_baddies /\ \A d \in Players' : m_clients[d] # m_clients[c]
        BY <3>1, <4>1 DEF IdInv, PlayersDiffer
      <4>3. \A d \in Playing' : m_clients'[d] # m_clients[c]
        BY <2>2, <3>1, <4>1, <4>2 DEF Players
      <4>4. \A i \in PhysSpots' : IsDel(i)' =>
              /\ PhysAt(i)'.objid \notin m_baddies'
              /\ \A d \in Playing' : m_clients'[d] # PhysAt(i)'.objid
        BY <2>1, <2>2, <3>2, <3>7, <4>2, <4>3 DEF IdInv, PlayersDiffer, IsDel
      <4> QED
        BY <2>1, <4>1, <4>4 DEF IdInv, PlayersDiffer
    <3> QED
      BY <3>6, <3>8 DEF IdInv
  <2> QED
    BY <1>2, <2>4, <2>5 DEF RemoveClient
<1>3. ASSUME NEW c \in Clients, DeleteClient(c) PROVE IdInv'
  BY <1>3, IdsKept DEF DeleteClient, physVars, serverVars
<1>4. ASSUME NEW c \in Clients, NEW msg, Send(c, msg) PROVE IdInv'
  BY <1>4, IdsKept DEF Send, physVars
<1>5. CASE SendShutdown
  BY <1>5, IdsKept DEF SendShutdown, physVars
<1> QED
  BY <1>1, <1>2, <1>3, <1>4, <1>5 DEF ClientStep, SendLoadPlayer, SendInput

LEMMA IdInvStep == TypeInv /\ IdInv /\ [Next]_vars => IdInv'
<1>1. IdInv /\ UNCHANGED vars => IdInv'
  BY IdsKept DEF vars, physVars, serverVars
<1> QED
  BY <1>1, IdInvServerStep, IdInvPhysicsStep, IdInvClientStep DEF Next

(* A message is what its type and its fields say. *)
LEMMA MessageForm ==
  ASSUME TypeInv, NEW i \in PhysSpots
  PROVE  /\ PhysAt(i).type = "AddChar" <=> \E id \in Nat : PhysAt(i) = AddChar(id)
         /\ PhysAt(i).type = "DelChar" <=> \E id \in Nat : PhysAt(i) = DelChar(id)
         /\ PhysAt(i).type = "AddChar" => PhysAt(i) = AddChar(PhysAt(i).objid)
         /\ PhysAt(i).type = "DelChar" => PhysAt(i) = DelChar(PhysAt(i).objid)
<1>1. PhysAt(i) \in PhysMsgs \cup {NoMsg}
  BY PhysTyped
<1> QED
  BY <1>1 DEF PhysMsgs, NoMsg, AddChar, DelChar

LEMMA PendingIds ==
  ASSUME TypeInv
  PROVE  /\ \A id \in AddPending : \E i \in PhysSpots : PhysAt(i) = AddChar(id)
         /\ \A id \in DelPending : \E i \in PhysSpots : PhysAt(i) = DelChar(id)
         /\ \A id : (\E i \in PhysSpots : PhysAt(i) = AddChar(id)) => id \in AddPending
         /\ \A id : (\E i \in PhysSpots : PhysAt(i) = DelChar(id)) => id \in DelPending
<1>1. InFlight = {PhysAt(i) : i \in PhysSpots}
  <2>1. Len(physQueue) \in Nat
    BY PhysTyped
  <2>2. \A m \in InFlight : \E i \in PhysSpots : m = PhysAt(i)
    BY <2>1 DEF InFlight, Contents, PhysSpots, PhysAt
  <2>3. \A i \in PhysSpots : PhysAt(i) \in InFlight
    BY <2>1 DEF InFlight, Contents, PhysSpots, PhysAt
  <2> QED
    BY <2>2, <2>3
<1>2. \A id \in AddPending : \E i \in PhysSpots : PhysAt(i).type = "AddChar" /\ PhysAt(i).objid = id
  BY <1>1 DEF AddPending
<1>3. \A id \in DelPending : \E i \in PhysSpots : PhysAt(i).type = "DelChar" /\ PhysAt(i).objid = id
  BY <1>1 DEF DelPending
<1>4. \A id : AddChar(id).type = "AddChar" /\ AddChar(id).objid = id
  BY DEF AddChar
<1>5. \A id : DelChar(id).type = "DelChar" /\ DelChar(id).objid = id
  BY DEF DelChar
<1>6. ASSUME NEW id, NEW i \in PhysSpots, PhysAt(i) = AddChar(id) PROVE id \in AddPending
  BY <1>1, <1>4, <1>6 DEF AddPending
<1>7. ASSUME NEW id, NEW i \in PhysSpots, PhysAt(i) = DelChar(id) PROVE id \in DelPending
  BY <1>1, <1>5, <1>7 DEF DelPending
<1> QED
  BY <1>2, <1>3, <1>6, <1>7, MessageForm

LEMMA IdInvUnique == TypeInv /\ IdInv => IdsAreUnique
<1> SUFFICES ASSUME TypeInv, IdInv PROVE IdsAreUnique
  OBVIOUS
<1>1. \A id \in AddPending : \E i \in PhysSpots : IsAdd(i) /\ PhysAt(i).objid = id
  BY PendingIds DEF IsAdd, AddChar
<1>2. \A id \in DelPending : \E i \in PhysSpots : IsDel(i) /\ PhysAt(i).objid = id
  BY PendingIds DEF IsDel, DelChar
<1>3. PlayerIds \subseteq Given
  <2>1. ASSUME NEW c \in Players PROVE m_clients[c] \in Given
    <3>1. m_clients[c] \in Nat \ {0} /\ m_clients[c] < m_next_id
      BY DEF TypeInv, TypeOK, ServerTypeOK, IdInv, IdsGiven, Players
    <3> QED
      BY <3>1, NextIsNew DEF Given
  <2> QED
    BY <2>1 DEF PlayerIds
<1>4. DOMAIN m_characters \cup m_objects \cup AddPending \cup DelPending \cup m_baddies \cup PlayerIds
        \subseteq Given
  BY <1>1, <1>2, <1>3 DEF IdInv, IdsGiven
<1>5. \A c, d \in Players : m_clients[c] = m_clients[d] => c = d
  BY DEF IdInv, PlayersDiffer
<1>6. m_baddies \cap (PlayerIds \cup DelPending) = {}
  BY <1>2 DEF IdInv, PlayersDiffer, PlayerIds
<1>7. DOMAIN m_characters \cap (AddPending \cup m_objects) = {}
  BY <1>1 DEF IdInv, AddsAreNew
<1>8. ASSUME NEW i \in 1..Len(physQueue), NEW j \in 1..Len(physQueue),
             physQueue[i].type = "AddChar", physQueue[j] = physQueue[i]
      PROVE  i = j
  <2>1. /\ i \in PhysSpots /\ j \in PhysSpots
        /\ physQueue[i] = PhysAt(i) /\ physQueue[j] = PhysAt(j)
    BY PhysTyped DEF PhysSpots, PhysAt
  <2>2. IsAdd(i) /\ IsAdd(j) /\ PhysAt(i).objid = PhysAt(j).objid
    BY <1>8, <2>1 DEF IsAdd
  <2> QED
    BY <2>1, <2>2 DEF IdInv, MessagesOnce
<1> QED
  BY <1>4, <1>5, <1>6, <1>7, <1>8 DEF IdsAreUnique, Given

(* An identifier names one thing, in the maps of the server, in the queue  *)
(* and in the world of the physics thread (localserver.cpp:171-187, 214,   *)
(* 237-240; btphysics.cpp:289).                                            *)
THEOREM IdentifiersAreUnique == Spec => []IdsAreUnique
<1>1. Init => TypeInv /\ IdInv
  BY TypeInvInit, IdInvInit
<1>2. (TypeInv /\ IdInv) /\ [Next]_vars => (TypeInv /\ IdInv)'
  BY TypeInvStep, IdInvStep
<1> QED
  BY <1>1, <1>2, IdInvUnique, PTL DEF Spec
-----------------------------------------------------------------------------
(* Where a message can come from: its place in the row, or its sender.     *)
(* The physics thread handles its messages; the server and the clients     *)
(* push additions with the next id, inputs they were sent, and deletions   *)
(* of players.                                                             *)
PushedFor(msg) ==
  \/ msg.type \in {"AddChar", "AddPhys"} /\ msg.objid = m_next_id
  \/ HandleInput /\ msg = srvMsg /\ msg.type = "Input"
  \/ \E c \in Clients : RemoveClient(c) /\ c \in Players /\ msg = DelChar(m_clients[c])

LEMMA PhysicsSteps ==
  TypeInv /\ [Next]_vars =>
    \/ UNCHANGED <<physQueue, physMsg>> /\ DOMAIN m_characters' = DOMAIN m_characters
    \/ PhysPop \/ PhysCleanup
    \/ ParseAddPhys \/ ParseAddChar \/ ParseDelChar \/ PhysicsInput
    \/ \E msg \in PhysMsgs : PhysPush(msg) /\ PushedFor(msg)
<1> DEFINE Quiescent == UNCHANGED <<physQueue, physMsg>> /\ DOMAIN m_characters' = DOMAIN m_characters
           Pushes == \E msg \in PhysMsgs : PhysPush(msg) /\ PushedFor(msg)
<1> SUFFICES ASSUME TypeInv, [Next]_vars, ~Quiescent,
                    ~(PhysPop \/ PhysCleanup \/ ParseAddPhys \/ ParseAddChar \/ ParseDelChar
                        \/ PhysicsInput)
             PROVE  Pushes
  OBVIOUS
<1>1. /\ m_next_id \in Nat /\ srvMsg \in SrvMsgs \cup {NoMsg}
      /\ \A c \in Playing : m_clients[c] \in Nat
  BY DEF TypeInv, MsgTypes, TypeOK, ServerTypeOK
<1>2. CASE ServerStep
  <2>1. CASE LoadBaddie \/ HandleLoadPlayer
    <3>1. /\ AddChar(m_next_id) \in PhysMsgs /\ AddChar(m_next_id).type = "AddChar"
          /\ AddChar(m_next_id).objid = m_next_id
      BY <1>1 DEF AddChar, PhysMsgs
    <3> QED
      BY <2>1, <3>1 DEF LoadBaddie, HandleLoadPlayer, PushedFor
  <2>2. ASSUME NEW known \in BOOLEAN, LoadBlocker(known) PROVE Pushes
    <3>1. /\ AddPhys(m_next_id, known) \in PhysMsgs /\ AddPhys(m_next_id, known).type = "AddPhys"
          /\ AddPhys(m_next_id, known).objid = m_next_id
      BY <1>1 DEF AddPhys, PhysMsgs
    <3> QED
      BY <2>2, <3>1 DEF LoadBlocker, PushedFor
  <2>3. CASE HandleInput
    <3>1. srvMsg \in PhysMsgs /\ srvMsg.type = "Input"
      BY <1>1, <2>3 DEF HandleInput, Handling, SrvMsgs, PhysMsgs, NoMsg
    <3>2. PhysPush(srvMsg)
      BY <2>3 DEF HandleInput
    <3> QED
      BY <2>3, <3>1, <3>2 DEF PushedFor
  <2>4. CASE WorldLoaded \/ ServerPop \/ HandleShutdown \/ DeletePhysics \/ CloseClients \/ Terminate
    BY <2>4 DEF WorldLoaded, ServerPop, HandleShutdown, PhysFinish, DeletePhysics,
                CloseClients, Terminate, physVars
  <2> QED
    BY <1>2, <2>1, <2>2, <2>3, <2>4 DEF ServerStep
<1>3. CASE PhysicsStep
  BY <1>3 DEF PhysicsStep, PhysInternal, PhysLoop, RunTickCallbacks, PhysTick,
              PushClientTransforms, PhysTransforms, PhysicsEnds, PhysNotify
<1>4. CASE ClientStep
  <2>1. ASSUME NEW c \in Clients, RemoveClient(c) PROVE Pushes
    <3>1. CASE IdOf(c) = 0
      BY <2>1, <3>1 DEF RemoveClient, physVars
    <3>2. CASE IdOf(c) # 0
      <4>1. c \in Players /\ IdOf(c) = m_clients[c]
        BY <3>2 DEF IdOf, Lookup, Players, Playing
      <4>2. DelChar(m_clients[c]) \in PhysMsgs
        BY <1>1, <4>1 DEF DelChar, PhysMsgs, Players
      <4>3. PhysPush(DelChar(m_clients[c]))
        BY <2>1, <3>2, <4>1 DEF RemoveClient
      <4> QED
        BY <2>1, <4>1, <4>2, <4>3 DEF PushedFor
    <3> QED
      BY <3>1, <3>2
  <2> QED
    BY <1>4, <2>1 DEF ClientStep, AddClient, DeleteClient, SendLoadPlayer, SendInput, Send,
                      SendShutdown, physVars
<1>5. CASE UNCHANGED vars
  BY <1>5 DEF vars, physVars
<1> QED
  BY <1>2, <1>3, <1>4, <1>5 DEF Next

LEMMA InputsAreForwarded ==
  TypeInv /\ [Next]_vars =>
    \A i \in PhysSpots' : PhysAt(i)'.type = "Input" =>
      \/ \E j \in PhysSpots : PhysAt(i)' = PhysAt(j)
      \/ HandleInput /\ PhysAt(i)' = SrvAt(0)
<1> SUFFICES ASSUME TypeInv, [Next]_vars,
                    NEW i \in PhysSpots', PhysAt(i)'.type = "Input",
                    ~ \E j \in PhysSpots : PhysAt(i)' = PhysAt(j)
             PROVE  HandleInput /\ PhysAt(i)' = SrvAt(0)
  OBVIOUS
<1>1. ASSUME NEW msg \in PhysMsgs, PhysPush(msg), PushedFor(msg)
      PROVE  HandleInput /\ PhysAt(i)' = SrvAt(0)
  <2>1. PhysAt(i)' = msg
    BY <1>1, PhysPushed
  <2> QED
    BY <1>1, <2>1 DEF PushedFor, DelChar, SrvAt
<1>2. ASSUME UNCHANGED <<physQueue, physMsg>> PROVE FALSE
  BY <1>2 DEF PhysSpots, PhysAt
<1>3. ASSUME Parsed PROVE FALSE
  BY <1>3, PhysParsed DEF NoMsg
<1>4. ~PhysPop
  BY PhysPopped
<1> QED
  BY <1>1, <1>2, <1>3, <1>4, PhysicsSteps
     DEF PhysCleanup, ParseAddPhys, ParseAddChar, ParseDelChar, PhysicsInput, ParseInput

LEMMA MessagesAreSent ==
  TypeInv /\ [Next]_vars =>
    \A i \in SrvSpots' : SrvAt(i)'.type \in {"LoadPlayer", "Input"} =>
      \/ \E j \in SrvSpots : SrvAt(i)' = SrvAt(j)
      \/ \E c \in Clients : Send(c, SrvAt(i)') /\ SrvAt(i)'.sender = c
<1> SUFFICES ASSUME TypeInv, [Next]_vars,
                    NEW i \in SrvSpots', SrvAt(i)'.type \in {"LoadPlayer", "Input"},
                    ~ \E j \in SrvSpots : SrvAt(i)' = SrvAt(j)
             PROVE  \E c \in Clients : Send(c, SrvAt(i)') /\ SrvAt(i)'.sender = c
  OBVIOUS
<1>1. ASSUME NEW msg \in SrvMsgs, srvQueue' = Append(srvQueue, msg), srvMsg' = srvMsg
      PROVE  SrvAt(i)' = msg
  BY <1>1, SrvPushed
<1>2. ASSUME UNCHANGED <<srvQueue, srvMsg>> PROVE FALSE
  BY <1>2 DEF SrvSpots, SrvAt
<1>3. ASSUME srvMsg' = NoMsg, srvQueue' = srvQueue PROVE FALSE
  BY <1>3, SrvHandled DEF NoMsg
<1>4. CASE ServerStep
  <2>1. CASE ServerPop
    BY <2>1, SrvPopped
  <2>2. CASE LoadBaddie \/ (\E known \in BOOLEAN : LoadBlocker(known)) \/ WorldLoaded
               \/ DeletePhysics \/ CloseClients \/ Terminate
    BY <1>2, <2>2 DEF LoadBaddie, LoadBlocker, WorldLoaded, DeletePhysics, CloseClients, Terminate
  <2>3. CASE HandleInput \/ HandleLoadPlayer \/ HandleShutdown
    BY <1>3, <2>3 DEF HandleInput, HandleLoadPlayer, HandleShutdown
  <2> QED
    BY <1>4, <2>1, <2>2, <2>3 DEF ServerStep
<1>5. CASE PhysicsStep
  BY <1>2, <1>5 DEF PhysicsStep, PhysicsInput, RunTickCallbacks, PushClientTransforms, PhysicsEnds, serverVars
<1>6. CASE ClientStep
  <2>1. ASSUME NEW c \in Clients, AddClient(c) \/ RemoveClient(c) \/ DeleteClient(c) PROVE FALSE
    BY <1>2, <2>1 DEF AddClient, RemoveClient, DeleteClient, serverVars
  <2>2. ASSUME NEW c \in Clients, NEW msg \in SrvMsgs, Send(c, msg), msg.sender = c
        PROVE  Send(c, SrvAt(i)') /\ SrvAt(i)'.sender = c
    <3>1. SrvAt(i)' = msg
      BY <1>1, <2>2 DEF Send
    <3> QED
      BY <2>2, <3>1
  <2>3. ASSUME NEW c \in Clients, SendLoadPlayer(c)
        PROVE  Send(c, SrvAt(i)') /\ SrvAt(i)'.sender = c
    <3> DEFINE msg == [type |-> "LoadPlayer", sender |-> c]
    <3>1. msg \in SrvMsgs /\ msg.sender = c
      BY DEF SrvMsgs
    <3>2. Send(c, msg)
      BY <2>3 DEF SendLoadPlayer
    <3> HIDE DEF msg
    <3> QED
      BY <2>2, <3>1, <3>2
  <2>4. ASSUME NEW c \in Clients, NEW s \in Inputs, SendInput(c, s)
        PROVE  Send(c, SrvAt(i)') /\ SrvAt(i)'.sender = c
    <3> DEFINE msg == [type |-> "Input", sender |-> c, state |-> s]
    <3>1. msg \in SrvMsgs /\ msg.sender = c
      BY DEF SrvMsgs
    <3>2. Send(c, msg)
      BY <2>4 DEF SendInput
    <3> HIDE DEF msg
    <3> QED
      BY <2>2, <3>1, <3>2
  <2>5. CASE SendShutdown
    <3>1. [type |-> "Shutdown"] \in SrvMsgs /\ [type |-> "Shutdown"].type \notin {"LoadPlayer", "Input"}
      BY DEF SrvMsgs
    <3>2. SrvAt(i)' = [type |-> "Shutdown"]
      BY <1>1, <2>5, <3>1 DEF SendShutdown
    <3> QED
      BY <3>1, <3>2
  <2> QED
    BY <1>6, <2>1, <2>3, <2>4, <2>5 DEF ClientStep
<1>7. CASE UNCHANGED vars
  BY <1>2, <1>7 DEF vars, serverVars
<1> QED
  BY <1>4, <1>5, <1>6, <1>7 DEF Next
-----------------------------------------------------------------------------
(* Joining, speaking and leaving: what the server does to its clients is   *)
(* what ClientRegistry says.                                               *)
Spoke == {c \in Clients : sent[c] # <<>>}

LEMMA PeopleInvInit == Init => PeopleInv /\ Registry!Init
<1> SUFFICES ASSUME Init PROVE PeopleInv /\ Registry!Init
  OBVIOUS
<1>1. /\ SrvSpots = {0} /\ SrvAt(0).type = "none"
      /\ PhysSpots = {0} /\ PhysAt(0).type = "none"
  BY EmptySeq DEF Init, PhysInit, SrvSpots, SrvAt, PhysSpots, PhysAt, NoMsg
<1>2. Registered = {} /\ Connected = {} /\ Spoke = {}
  BY DEF Init, Registered, Playing, EmptyMap, Connected, Spoke
<1>3. PeopleInv
  BY <1>1, <1>2 DEF PeopleInv, Init
<1> QED
  BY <1>2, <1>3 DEF Registry!Init, Init, Spoke

(* Every step of the server is one of the registry's, or none of its       *)
(* business.                                                               *)
LEMMA RegistryStep ==
  TypeInv /\ PeopleInv /\ [Next]_vars => [Registry!Next]_(Registry!vars)
<1> SUFFICES ASSUME TypeInv, PeopleInv, [Next]_vars
             PROVE  \/ \E c \in Clients : \/ Registry!Join(c) \/ Registry!Speak(c) \/ Registry!Hear(c)
                                          \/ Registry!Leave(c) \/ Registry!Die(c)
                    \/ UNCHANGED <<life, Spoke, Registered>>
  BY DEF Registry!Next, Registry!vars, Spoke
<1>0. /\ life \in [Clients -> {"new", "connected", "removed", "deleted"}]
      /\ sent \in [Clients -> Seq(SrvMsgs)]
  BY DEF TypeInv, TypeOK, ClientTypeOK, MsgTypes
<1>1. ASSUME UNCHANGED <<life, sent, m_clients, m_lobby_clients>>
      PROVE  UNCHANGED <<life, Spoke, Registered>>
  BY <1>1 DEF Spoke, Registered, Playing
<1>2. ASSUME NEW c \in Spoke, NEW v, m_clients' = Insert(m_clients, c, v), UNCHANGED <<life, sent>>,
             m_lobby_clients' = m_lobby_clients \/ m_lobby_clients' = m_lobby_clients \ {c}
      PROVE  c \in Clients /\ Registry!Hear(c)
  <2>1. c \in Clients
    BY DEF Spoke
  <2>2. Registered' = Registered \cup {c}
    BY <1>2, PlayerInserted DEF Registered
  <2>3. Spoke' = Spoke
    BY <1>2 DEF Spoke
  <2> QED
    BY <1>2, <2>1, <2>2, <2>3 DEF Registry!Hear, Spoke
<1>3. CASE HandleLoadPlayer
  <2>1. SrvAt(0) = srvMsg /\ 0 \in SrvSpots /\ srvMsg.type = "LoadPlayer"
    BY <1>3, SrvTyped DEF HandleLoadPlayer, Handling, SrvAt
  <2>2. srvMsg.sender \in Clients
    BY <2>1 DEF TypeInv, MsgTypes, SrvMsgs, NoMsg
  <2>3. srvMsg.sender \in Spoke
    BY <2>1, <2>2 DEF PeopleInv, Spoke
  <2> QED
    BY <1>2, <1>3, <2>3 DEF HandleLoadPlayer, Enrol
<1>4. CASE PhysicsInput
  <2>1. PhysAt(0) = physMsg /\ 0 \in PhysSpots /\ physMsg.type = "Input"
    BY <1>4, PhysTyped DEF PhysicsInput, Parsing, PhysAt
  <2>2. physMsg.sender \in Clients
    BY <2>1 DEF TypeInv, MsgTypes, PhysMsgs, NoMsg
  <2>3. physMsg.sender \in Spoke
    BY <2>1, <2>2 DEF PeopleInv, Spoke
  <2> QED
    BY <1>2, <1>4, <2>3 DEF PhysicsInput, clientVars
<1>5. ASSUME NEW c \in Clients, AddClient(c) PROVE Registry!Join(c)
  <2>1. Registered' = Registered \cup {c}
    BY <1>5 DEF AddClient, Registered, Playing
  <2> QED
    BY <1>5, <2>1 DEF AddClient, Registry!Join, Registry!Becomes
<1>6. ASSUME NEW c \in Clients, RemoveClient(c) PROVE Registry!Leave(c)
  <2>1. m_clients' = Erase(m_clients, c) /\ m_lobby_clients' = m_lobby_clients \ {c}
    BY <1>6 DEF RemoveClient
  <2>2. Registered' = Registered \ {c}
    BY <2>1, PlayerErased DEF Registered
  <2> QED
    BY <1>6, <2>2 DEF RemoveClient, Registry!Leave, Registry!Becomes
<1>7. ASSUME NEW c \in Clients, DeleteClient(c) PROVE Registry!Die(c)
  BY <1>7 DEF DeleteClient, serverVars, Registered, Playing, Registry!Die, Registry!Becomes
<1>8. ASSUME NEW c \in Clients, NEW msg \in SrvMsgs, Send(c, msg) PROVE Registry!Speak(c)
  <2>1. UNCHANGED <<life, Registered>> /\ life[c] = "connected"
    BY <1>8 DEF Send, Registered, Playing
  <2>2. sent'[c] # <<>> /\ \A d \in Clients \ {c} : sent'[d] = sent[d]
    <3>1. Append(sent[c], msg) # <<>>
      BY <1>0, AppendProperties
    <3> QED
      BY <1>0, <1>8, <3>1 DEF Send
  <2>3. {d \in Clients : sent[d] # <<>>}' = {d \in Clients : sent[d] # <<>>} \cup {c}
    BY <2>2
  <2> QED
    BY <2>1, <2>3 DEF Registry!Speak
<1>9. CASE ClientStep
  <2>1. CASE SendShutdown
    BY <1>1, <2>1 DEF SendShutdown
  <2> QED
    BY <1>5, <1>6, <1>7, <1>8, <1>9, <2>1 DEF ClientStep, SendLoadPlayer, SendInput, SrvMsgs
<1>10. CASE ServerStep /\ ~HandleLoadPlayer
  BY <1>1, <1>10 DEF ServerStep, LoadBaddie, LoadBlocker, WorldLoaded, ServerPop, HandleInput,
                     HandleShutdown, DeletePhysics, CloseClients, Terminate, clientVars
<1>11. CASE PhysicsStep /\ ~PhysicsInput
  BY <1>1, <1>11 DEF PhysicsStep, RunTickCallbacks, PushClientTransforms, PhysicsEnds, serverVars, clientVars
<1>12. CASE UNCHANGED vars
  BY <1>1, <1>12 DEF vars, serverVars, clientVars
<1> QED
  BY <1>3, <1>4, <1>9, <1>10, <1>11, <1>12 DEF Next

LEMMA PeopleInvStep == TypeInv /\ PeopleInv /\ [Next]_vars => PeopleInv'
<1> SUFFICES ASSUME TypeInv, PeopleInv, [Next]_vars PROVE PeopleInv'
  OBVIOUS
<1>0. /\ life \in [Clients -> {"new", "connected", "removed", "deleted"}]
      /\ sent \in [Clients -> Seq(SrvMsgs)]
  BY DEF TypeInv, TypeOK, ClientTypeOK, MsgTypes
<1>1. \/ \E c \in Clients : \/ Registry!Join(c) \/ Registry!Speak(c) \/ Registry!Hear(c)
                            \/ Registry!Leave(c) \/ Registry!Die(c)
      \/ UNCHANGED <<life, Spoke, Registered>>
  BY RegistryStep DEF Registry!Next, Registry!vars, Spoke
<1>2. /\ Connected \subseteq Registered
      /\ \A c \in Registered : life[c] # "new"
      /\ \A c \in Spoke : life[c] # "new"
  BY DEF PeopleInv, Spoke
<1>3. /\ Connected' \subseteq Registered'
      /\ \A c \in Registered' : life'[c] # "new"
      /\ \A c \in Spoke' : life'[c] # "new"
      /\ Spoke \subseteq Spoke'
  <2>1. ASSUME NEW c \in Clients, Registry!Join(c)
        PROVE  /\ life' = [life EXCEPT ![c] = "connected"] /\ Registered' = Registered \cup {c}
               /\ Spoke' = Spoke
    BY <2>1 DEF Registry!Join, Registry!Becomes, Spoke
  <2>2. ASSUME NEW c \in Clients, Registry!Speak(c)
        PROVE  /\ life' = life /\ Registered' = Registered /\ life[c] = "connected"
               /\ Spoke' = Spoke \cup {c}
    BY <2>2 DEF Registry!Speak, Spoke
  <2>3. ASSUME NEW c \in Clients, Registry!Hear(c)
        PROVE  /\ life' = life /\ Registered' = Registered \cup {c} /\ c \in Spoke
               /\ Spoke' = Spoke
    BY <2>3 DEF Registry!Hear, Spoke
  <2>4. ASSUME NEW c \in Clients, Registry!Leave(c)
        PROVE  /\ life' = [life EXCEPT ![c] = "removed"] /\ Registered' = Registered \ {c}
               /\ Spoke' = Spoke
    BY <2>4 DEF Registry!Leave, Registry!Becomes, Spoke
  <2>5. ASSUME NEW c \in Clients, Registry!Die(c)
        PROVE  /\ life' = [life EXCEPT ![c] = "deleted"] /\ Registered' = Registered
               /\ Spoke' = Spoke
    BY <2>5 DEF Registry!Die, Registry!Becomes, Spoke
  <2>6. Connected \subseteq Clients /\ Spoke \subseteq Clients
    BY DEF Connected, Spoke
  <2>7. ASSUME NEW c \in Clients, NEW now \in {"connected", "removed", "deleted"},
               life' = [life EXCEPT ![c] = now]
        PROVE  /\ \A d : d \in Connected' <=> d \in Clients /\ (IF d = c THEN now = "connected"
                                                                 ELSE d \in Connected)
               /\ life'[c] # "new" /\ \A d \in Clients : life[d] # "new" => life'[d] # "new"
               /\ \A d : d # c /\ life[d] # "new" => life'[d] # "new"
    BY <1>0, <2>7 DEF Connected
  <2>8. life' = life => Connected' = Connected
    BY DEF Connected
  <2>9. CASE \E c \in Clients : Registry!Join(c)
    BY <1>2, <2>1, <2>6, <2>7, <2>9
  <2>10. CASE \E c \in Clients : Registry!Speak(c) \/ Registry!Hear(c)
    BY <1>2, <2>2, <2>3, <2>6, <2>8, <2>10
  <2>11. CASE \E c \in Clients : Registry!Leave(c)
    BY <1>2, <2>4, <2>6, <2>7, <2>11
  <2>12. CASE \E c \in Clients : Registry!Die(c)
    BY <1>2, <2>5, <2>6, <2>7, <2>12
  <2>13. CASE UNCHANGED <<life, Spoke, Registered>>
    BY <1>2, <2>8, <2>13
  <2> QED
    BY <1>1, <2>9, <2>10, <2>11, <2>12, <2>13
<1>4. \A i \in SrvSpots' : SrvAt(i)'.type \in {"LoadPlayer", "Input"} => SrvAt(i)'.sender \in Spoke'
  <2> SUFFICES ASSUME NEW i \in SrvSpots', SrvAt(i)'.type \in {"LoadPlayer", "Input"}
               PROVE  SrvAt(i)'.sender \in Spoke'
    OBVIOUS
  <2>1. ASSUME NEW j \in SrvSpots, SrvAt(i)' = SrvAt(j) PROVE SrvAt(j).sender \in Spoke
    <3>1. SrvAt(j).sender \in Clients
      BY <2>1, SrvTyped DEF SrvMsgs, NoMsg
    <3> QED
      BY <2>1, <3>1 DEF PeopleInv, Spoke
  <2>2. ASSUME NEW c \in Clients, Send(c, SrvAt(i)') PROVE c \in Spoke'
    <3>1. SrvAt(i)' \in SrvMsgs
      <4>1. TypeInv'
        BY TypeInvStep
      <4>2. srvQueue' \in Seq(SrvMsgs) /\ srvMsg' \in SrvMsgs \cup {NoMsg}
        BY <4>1 DEF TypeInv, MsgTypes
      <4>3. \A k \in 1..Len(srvQueue') : srvQueue'[k] \in SrvMsgs
        BY <4>2, ElementOfSeq
      <4>4. i = 0 \/ i \in 1..Len(srvQueue')
        BY <4>2, LenProperties DEF SrvSpots
      <4> QED
        BY <4>2, <4>3, <4>4 DEF SrvAt, NoMsg
    <3>2. sent'[c] # <<>>
      <4>1. sent[c] \in Seq(SrvMsgs)
        BY <1>0
      <4>2. Append(sent[c], SrvAt(i)') # <<>>
        BY <3>1, <4>1, AppendProperties
      <4> QED
        BY <1>0, <2>2, <4>2 DEF Send
    <3> QED
      BY <3>2 DEF Spoke
  <2> QED
    BY <1>3, <2>1, <2>2, MessagesAreSent
<1>5. \A i \in PhysSpots' : PhysAt(i)'.type = "Input" => PhysAt(i)'.sender \in Spoke'
  <2> SUFFICES ASSUME NEW i \in PhysSpots', PhysAt(i)'.type = "Input"
               PROVE  PhysAt(i)'.sender \in Spoke'
    OBVIOUS
  <2>1. ASSUME NEW j \in PhysSpots, PhysAt(i)' = PhysAt(j) PROVE PhysAt(j).sender \in Spoke
    <3>1. PhysAt(j).sender \in Clients
      BY <2>1, PhysTyped DEF PhysMsgs, NoMsg
    <3> QED
      BY <2>1, <3>1 DEF PeopleInv, Spoke
  <2>2. ASSUME PhysAt(i)' = SrvAt(0) PROVE SrvAt(0).sender \in Spoke
    <3>1. SrvAt(0).sender \in Clients /\ 0 \in SrvSpots
      BY <2>2, SrvTyped DEF SrvMsgs, NoMsg
    <3> QED
      BY <2>2, <3>1 DEF PeopleInv, Spoke
  <2> QED
    BY <1>3, <2>1, <2>2, InputsAreForwarded
<1> QED
  BY <1>3, <1>4, <1>5 DEF PeopleInv, Spoke

(* LocalServer implements ClientRegistry: joining, speaking, leaving and   *)
(* being registered go as it says, however the messages are queued and     *)
(* handled (localserver.hpp:41, localserver.cpp:58-63, 90-121, 175-187).   *)
THEOREM ServerKeepsRegistry == Spec => KeepsRegistry
<1>1. Init => TypeInv /\ PeopleInv /\ Registry!Init
  BY TypeInvInit, PeopleInvInit
<1>2. (TypeInv /\ PeopleInv) /\ [Next]_vars => (TypeInv /\ PeopleInv)'
  BY TypeInvStep, PeopleInvStep
<1> QED
  BY <1>1, <1>2, RegistryStep, PTL DEF Spec, KeepsRegistry, Registry!Spec
-----------------------------------------------------------------------------
(* An entry of m_clients stays until its client is removed. *)
LEMMA EntriesStay ==
  TypeInv /\ [Next]_vars =>
    \A c \in Playing : \/ c \in Playing' /\ m_clients'[c] = m_clients[c]
                       \/ RemoveClient(c)
<1> SUFFICES ASSUME TypeInv, [Next]_vars, NEW c \in Playing, ~RemoveClient(c)
             PROVE  c \in Playing' /\ m_clients'[c] = m_clients[c]
  OBVIOUS
<1>1. ASSUME m_clients' = m_clients PROVE c \in Playing' /\ m_clients'[c] = m_clients[c]
  BY <1>1 DEF Playing
<1>2. ASSUME NEW d, NEW v, m_clients' = Insert(m_clients, d, v)
      PROVE  c \in Playing' /\ m_clients'[c] = m_clients[c]
  BY <1>2, PlayerInserted
<1>3. CASE ServerStep
  BY <1>1, <1>2, <1>3 DEF ServerStep, LoadBaddie, LoadBlocker, WorldLoaded, ServerPop, HandleInput,
     HandleLoadPlayer, Enrol, HandleShutdown, DeletePhysics, CloseClients, Terminate
<1>4. CASE PhysicsStep
  BY <1>1, <1>2, <1>4 DEF PhysicsStep, PhysicsInput, RunTickCallbacks, PushClientTransforms, PhysicsEnds,
                          serverVars
<1>5. CASE ClientStep
  <2>1. ASSUME NEW d \in Clients, RemoveClient(d), d # c
        PROVE  c \in Playing' /\ m_clients'[c] = m_clients[c]
    BY <2>1, PlayerErased DEF RemoveClient
  <2> QED
    BY <1>1, <1>5, <2>1 DEF ClientStep, AddClient, DeleteClient, SendLoadPlayer, SendInput, Send,
                            SendShutdown, serverVars
<1>6. CASE UNCHANGED vars
  BY <1>1, <1>6 DEF vars, serverVars
<1> QED
  BY <1>3, <1>4, <1>5, <1>6 DEF Next

(* Nobody loses its character while it is connected: a second              *)
(* ServerLoadPlayerMsg makes another one and leaves the entry alone        *)
(* (localserver.cpp:182, localserver.hpp:41).                              *)
THEOREM PlayersKeepTheirCharacter == Spec => KeepsItsCharacter
<1>1. TypeInv /\ [Next]_vars =>
        [\A c \in ConnectedPlayers :
           life'[c] = "connected" => c \in DOMAIN m_clients' /\ m_clients'[c] = m_clients[c]]_vars
  <2> SUFFICES ASSUME TypeInv, [Next]_vars, NEW c \in ConnectedPlayers, life'[c] = "connected"
               PROVE  c \in DOMAIN m_clients' /\ m_clients'[c] = m_clients[c]
    OBVIOUS
  <2>1. c \in Playing /\ c \in Clients
    BY DEF ConnectedPlayers, Players, Connected
  <2>2. ~RemoveClient(c)
    BY <2>1 DEF RemoveClient, TypeInv, TypeOK, ClientTypeOK
  <2> QED
    BY <2>1, <2>2, EntriesStay DEF Playing
<1> QED
  BY <1>1, TypeInvInit, TypeInvStep, PTL DEF Spec, KeepsItsCharacter

(* A character that exists, or will, does so until it is deleted with its  *)
(* player, or with everything else.                                        *)
LEMMA ExistsUntilRemoved ==
  ASSUME TypeInv, IdInv, [Next]_vars, NEW id \in Nat, Exists(id), physPc' \notin {"ended", "gone"},
         ~ \E c \in Clients : RemoveClient(c) /\ c \in Players /\ m_clients[c] = id
  PROVE  Exists(id)'
<1> DEFINE Goal == Exists(id)'
<1>0. /\ id \in DOMAIN m_characters \/ \E i \in PhysSpots : PhysAt(i) = AddChar(id)
      /\ \A i \in PhysSpots : PhysAt(i) # DelChar(id)
      /\ PhysAt(0) = physMsg /\ 0 \in PhysSpots
  BY PhysTyped DEF Exists, PhysAt
<1>1. ASSUME NEW msg \in PhysMsgs, PhysPush(msg), PushedFor(msg) PROVE Goal
  <2>1. m_characters' = m_characters
    BY <1>1 DEF PhysPush
  <2>2. msg # DelChar(id)
    BY <1>1 DEF PushedFor, DelChar
  <2> QED
    BY <1>0, <1>1, <2>1, <2>2, PhysPushed DEF Exists
<1>2. ASSUME UNCHANGED <<physQueue, physMsg>>, DOMAIN m_characters' = DOMAIN m_characters PROVE Goal
  <2>1. PhysSpots' = PhysSpots /\ \A i \in PhysSpots : PhysAt(i)' = PhysAt(i)
    BY <1>2 DEF PhysSpots, PhysAt
  <2> QED
    BY <1>0, <1>2, <2>1 DEF Exists
<1>3. ASSUME Parsed,
             id \in DOMAIN m_characters' \/ ~(id \in DOMAIN m_characters \/ PhysAt(0) = AddChar(id))
      PROVE  Goal
  <2>1. /\ PhysSpots' = PhysSpots /\ PhysAt(0)' = NoMsg
        /\ \A i \in PhysSpots : i # 0 => PhysAt(i)' = PhysAt(i)
    BY <1>3, PhysParsed
  <2>2. NoMsg # DelChar(id)
    BY DEF NoMsg, DelChar
  <2> QED
    BY <1>0, <1>3, <2>1, <2>2 DEF Exists
<1>4. CASE PhysPop
  <2>1. PICK move \in [PhysSpots' -> PhysSpots \ {0}] :
          /\ \A i \in PhysSpots' : PhysAt(i)' = PhysAt(move[i])
          /\ \A j \in PhysSpots \ {0} : \E i \in PhysSpots' : move[i] = j
    BY <1>4, PhysPopped
  <2>2. PhysAt(0) # AddChar(id)
    BY <1>4, PhysPopped DEF NoMsg, AddChar
  <2>3. m_characters' = m_characters
    BY <1>4 DEF PhysPop
  <2>4. \A i \in PhysSpots' : PhysAt(i)' # DelChar(id)
    BY <1>0, <2>1
  <2>5. ASSUME NEW j \in PhysSpots, PhysAt(j) = AddChar(id)
        PROVE  \E i \in PhysSpots' : PhysAt(i)' = AddChar(id)
    BY <2>1, <2>2, <2>5
  <2> QED
    BY <1>0, <2>3, <2>4, <2>5 DEF Exists
<1>5. CASE PhysCleanup
  BY <1>5 DEF PhysCleanup
<1>6. CASE ParseAddPhys
  BY <1>0, <1>3, <1>6 DEF ParseAddPhys, Parsing, AddChar
<1>7. CASE ParseAddChar
  <2>1. DOMAIN m_characters' = DOMAIN m_characters \cup {physMsg.objid}
    BY <1>7 DEF ParseAddChar, Assign
  <2>2. PhysAt(0) = AddChar(id) => physMsg.objid = id
    BY <1>0 DEF AddChar
  <2> QED
    BY <1>3, <1>7, <2>1, <2>2 DEF ParseAddChar
<1>8. CASE ParseDelChar
  <2>1. DOMAIN m_characters' = DOMAIN m_characters \ {physMsg.objid}
    BY <1>8 DEF ParseDelChar, Erase
  <2>2. PhysAt(0) = DelChar(physMsg.objid)
    BY <1>0, <1>8, MessageForm DEF ParseDelChar, Parsing
  <2>3. physMsg.objid # id /\ PhysAt(0) # AddChar(id)
    BY <1>0, <2>2 DEF AddChar, DelChar
  <2> QED
    BY <1>3, <1>8, <2>1, <2>3 DEF ParseDelChar
<1>9. CASE PhysicsInput
  <2>1. PhysAt(0) # AddChar(id)
    BY <1>0, <1>9 DEF PhysicsInput, Parsing, AddChar
  <2>2. DOMAIN m_characters' = DOMAIN m_characters
    BY <1>9, InputSet DEF PhysicsInput, ParseInput
  <2> QED
    BY <1>3, <1>9, <2>1, <2>2 DEF PhysicsInput, ParseInput
<1> QED
  BY <1>1, <1>2, <1>4, <1>5, <1>6, <1>7, <1>8, <1>9, PhysicsSteps

(* A character for which the request has just been pushed will exist. *)
LEMMA NewOneExists ==
  ASSUME TypeInv, IdInv, NEW id, id = m_next_id, PhysPush(AddChar(id))
  PROVE  Exists(id)'
<1>1. id \in Nat /\ id \notin Given
  BY NextIsNew
<1>2. AddChar(id) \in PhysMsgs /\ AddChar(id) # DelChar(id)
  BY <1>1 DEF AddChar, DelChar, PhysMsgs
<1>3. PICK new \in Nat : /\ PhysSpots' = PhysSpots \cup {new}
                         /\ PhysAt(new)' = AddChar(id)
                         /\ \A i \in PhysSpots : i < new /\ PhysAt(i)' = PhysAt(i)
  BY <1>2, PhysPushed
<1>4. \A i \in PhysSpots : PhysAt(i) # DelChar(id)
  BY <1>1 DEF IdInv, IdsGiven, IsDel, DelChar
<1> QED
  BY <1>2, <1>3, <1>4 DEF Exists

LEMMA EndedForGood == [Next]_vars /\ physPc' \notin {"ended", "gone"} => physPc \notin {"ended", "gone"}
<1> SUFFICES ASSUME [Next]_vars, physPc \in {"ended", "gone"}
             PROVE  physPc' \in {"ended", "gone"}
  OBVIOUS
<1>1. CASE ServerStep
  BY <1>1 DEF ServerStep, LoadBaddie, LoadBlocker, WorldLoaded, ServerPop, HandleInput,
     HandleLoadPlayer, HandleShutdown, DeletePhysics, CloseClients, Terminate, PhysPush,
     PhysFinish, physVars
<1>2. CASE PhysicsStep
  BY <1>2 DEF PhysicsStep, PhysInternal, PhysLoop, PhysPop, PhysCleanup, ParseAddPhys, ParseAddChar,
     ParseDelChar, Parsed, PhysicsInput, ParseInput, RunTickCallbacks, PhysTick,
     PushClientTransforms, PhysTransforms, PhysicsEnds, PhysNotify
<1>3. CASE ClientStep
  BY <1>3 DEF ClientStep, AddClient, RemoveClient, DeleteClient, SendLoadPlayer, SendInput, Send,
     SendShutdown, PhysPush, physVars
<1>4. CASE UNCHANGED vars
  BY <1>4 DEF vars, physVars
<1> QED
  BY <1>1, <1>2, <1>3, <1>4 DEF Next

LEMMA ViewInvInit == Init => ViewInv
<1> SUFFICES ASSUME Init PROVE ViewInv
  OBVIOUS
<1>1. Playing = {} /\ Connected = {} /\ m_baddies = {}
  BY DEF Init, Playing, EmptyMap, Connected
<1>2. Players = {} /\ Known = {}
  BY <1>1 DEF Players, Known, PlayerIds, Drawn
<1> QED
  BY <1>2 DEF ViewInv, PlayersSeeNewcomers, ConnectedPlayers

LEMMA KnownAreIds == TypeInv => Known \subseteq Nat
<1> SUFFICES ASSUME TypeInv PROVE Known \subseteq Nat
  OBVIOUS
<1>1. m_baddies \subseteq Nat /\ shown \in [Clients -> SUBSET Nat]
      /\ \A c \in Playing : m_clients[c] \in Nat
  BY DEF TypeInv, TypeOK, ServerTypeOK, ClientTypeOK
<1>2. PlayerIds \subseteq Nat
  BY <1>1 DEF PlayerIds, Players
<1>3. Drawn \subseteq Nat
  BY <1>1 DEF Drawn, Connected
<1> QED
  BY <1>1, <1>2, <1>3 DEF Known

(* What was known goes on to exist unless a client leaves with it.         *)
LEMMA KnownKeepExisting ==
  ASSUME TypeInv, IdInv, ViewInv, [Next]_vars,
         physPc' \notin {"ended", "gone"}, NEW id \in Known,
         ~ \E c \in Clients : RemoveClient(c) /\ c \in Players /\ m_clients[c] = id
  PROVE  Exists(id)'
BY KnownAreIds, EndedForGood, ExistsUntilRemoved DEF ViewInv

(* Most steps do not change who plays, who is connected and who sees what. *)
LEMMA ViewsKept ==
  ASSUME TypeInv, IdInv, ViewInv, [Next]_vars,
         UNCHANGED <<m_baddies, shown>>, Connected' = Connected, Players' = Players,
         \A c \in Players : m_clients'[c] = m_clients[c],
         \A c \in Clients : ~RemoveClient(c)
  PROVE  ViewInv'
<1>1. PlayersSeeNewcomers'
  BY DEF ViewInv, PlayersSeeNewcomers, ConnectedPlayers
<1>2. PlayerIds' = PlayerIds
  BY DEF PlayerIds
<1>3. Known' = Known
  BY <1>2 DEF Known, Drawn
<1> QED
  BY <1>1, <1>3, KnownKeepExisting DEF ViewInv

(* The steps that do. *)
LEMMA LoadBaddieKeepsViews ==
  ASSUME TypeInv, IdInv, ViewInv, [Next]_vars, LoadBaddie PROVE ViewInv'
<1>1. /\ PhysPush(AddChar(m_next_id)) /\ m_baddies' = m_baddies \cup {m_next_id}
      /\ UNCHANGED <<m_clients, shown, life>>
  BY DEF LoadBaddie, clientVars
<1>2. Players' = Players /\ Connected' = Connected /\ PlayerIds' = PlayerIds
  BY <1>1 DEF Players, Playing, Connected, PlayerIds
<1>3. PlayersSeeNewcomers'
  BY <1>1, <1>2 DEF ViewInv, PlayersSeeNewcomers, ConnectedPlayers
<1>4. \A id \in Known' : id \in Known \/ id = m_next_id
  BY <1>1, <1>2 DEF Known, Drawn
<1>5. \A c \in Clients : ~RemoveClient(c)
  BY <1>1 DEF RemoveClient, TypeInv, TypeOK, ClientTypeOK
<1> QED
  BY <1>1, <1>3, <1>4, <1>5, NewOneExists, KnownKeepExisting DEF ViewInv

LEMMA HandleLoadPlayerKeepsViews ==
  ASSUME TypeInv, IdInv, PeopleInv, ViewInv, [Next]_vars, HandleLoadPlayer PROVE ViewInv'
<1> DEFINE c == srvMsg.sender
           id == m_next_id
<1>1. /\ PhysPush(AddChar(m_next_id))
      /\ m_clients' = Insert(m_clients, c, m_next_id)
      /\ shown' = [d \in Clients |-> IF d \in Playing \cup {c} THEN shown[d] \cup {m_next_id}
                                     ELSE shown[d]]
      /\ UNCHANGED <<m_baddies, life>>
  BY DEF HandleLoadPlayer, Enrol, Audience
<1>2. /\ Playing' = Playing \cup {c}
      /\ \A d \in Playing : m_clients'[d] = m_clients[d]
      /\ c \notin Playing => m_clients'[c] = m_next_id
  BY <1>1, PlayerInserted
<1> HIDE DEF c
<1>3. /\ m_next_id \in Nat \ {0}
      /\ \A d \in Playing : m_clients[d] \in Nat /\ m_clients[d] < m_next_id
      /\ shown \in [Clients -> SUBSET Nat]
  BY NextIsNew DEF TypeInv, TypeOK, ServerTypeOK, ClientTypeOK, IdInv, IdsGiven
<1>4. Connected' = Connected /\ Connected \subseteq Clients
  BY <1>1 DEF Connected
<1>5. /\ Players \subseteq Players'
      /\ \A d \in Players' : \/ d \in Players /\ m_clients'[d] = m_clients[d]
                             \/ d = c /\ c \notin Playing /\ m_clients'[d] = m_next_id
  BY <1>2, <1>3 DEF Players
<1>6. PlayersSeeNewcomers'
  <2> SUFFICES ASSUME NEW d \in Connected, NEW e \in Connected, d \in Players', e \in Players',
                      m_clients'[d] <= m_clients'[e]
               PROVE  m_clients'[e] \in shown'[d]
    BY <1>4 DEF PlayersSeeNewcomers, ConnectedPlayers
  <2>1. CASE m_clients'[e] = m_next_id
    BY <1>1, <1>4, <1>5, <2>1 DEF Players
  <2>2. CASE m_clients'[e] # m_next_id
    <3>1. e \in Players /\ m_clients'[e] = m_clients[e] /\ m_clients[e] < m_next_id
          /\ m_clients[e] \in Nat
      BY <1>3, <1>5, <2>2 DEF Players
    <3>2. d \in Players /\ m_clients'[d] = m_clients[d]
      BY <1>3, <1>5, <3>1
    <3>3. m_clients[e] \in shown[d]
      BY <3>1, <3>2 DEF ViewInv, PlayersSeeNewcomers, ConnectedPlayers
    <3> QED
      BY <1>1, <1>4, <3>1, <3>3
  <2> QED
    BY <2>1, <2>2
<1>7. \A i \in Known' : i \in Known \/ i = m_next_id
  <2>1. \A i \in PlayerIds' : i \in PlayerIds \/ i = m_next_id
    BY <1>5 DEF PlayerIds
  <2>2. \A i \in Drawn' : i \in Drawn \/ i = m_next_id
    BY <1>1, <1>3, <1>4 DEF Drawn
  <2> QED
    BY <1>1, <2>1, <2>2 DEF Known
<1>8. \A d \in Clients : ~RemoveClient(d)
  BY <1>1 DEF RemoveClient, TypeInv, TypeOK, ClientTypeOK
<1> QED
  BY <1>1, <1>6, <1>7, <1>8, NewOneExists, KnownKeepExisting DEF ViewInv

LEMMA AddClientKeepsViews ==
  ASSUME TypeInv, IdInv, PeopleInv, ViewInv, [Next]_vars, NEW c \in Clients, AddClient(c)
  PROVE  ViewInv'
<1>1. PICK S \in BaddieViews :
        shown' = [shown EXCEPT ![c] = {m_clients[d] : d \in Playing} \cup S]
  BY DEF AddClient
<1>2. /\ life[c] = "new" /\ life' = [life EXCEPT ![c] = "connected"]
      /\ UNCHANGED <<m_baddies, m_clients>>
  BY DEF AddClient
<1>3. life \in [Clients -> {"new", "connected", "removed", "deleted"}]
      /\ shown \in [Clients -> SUBSET Nat]
  BY DEF TypeInv, TypeOK, ClientTypeOK
<1>4. Connected' = Connected \cup {c} /\ Players' = Players /\ PlayerIds' = PlayerIds
  BY <1>2, <1>3 DEF Connected, Players, Playing, PlayerIds
<1>5. c \notin Playing
  BY <1>2 DEF PeopleInv, Registered
<1>6. PlayersSeeNewcomers'
  <2>1. c \notin Players
    BY <1>5 DEF Players
  <2>2. \A d \in Clients \ {c} : shown'[d] = shown[d]
    BY <1>1, <1>3
  <2>3. ConnectedPlayers' = ConnectedPlayers /\ ConnectedPlayers \subseteq Clients \ {c}
    BY <1>4, <2>1 DEF ConnectedPlayers, Connected
  <2> QED
    BY <1>2, <2>2, <2>3 DEF ViewInv, PlayersSeeNewcomers
<1>7. Known' \subseteq Known
  <2>1. \A id \in shown'[c] : id = 0 \/ id \in PlayerIds \cup m_baddies
    BY <1>1, <1>3 DEF BaddieViews, PlayerIds, Players
  <2>2. \A d \in Connected \ {c} : shown'[d] = shown[d]
    BY <1>1, <1>3 DEF Connected
  <2>3. Drawn' \subseteq Drawn \cup PlayerIds \cup m_baddies
    BY <1>4, <2>1, <2>2 DEF Drawn
  <2> QED
    BY <1>2, <1>4, <2>3 DEF Known
<1>8. \A d \in Clients : ~RemoveClient(d)
  BY <1>2, <1>3 DEF RemoveClient
<1> QED
  BY <1>6, <1>7, <1>8, KnownKeepExisting DEF ViewInv

LEMMA RemoveClientKeepsViews ==
  ASSUME TypeInv, IdInv, PeopleInv, ViewInv, [Next]_vars, NEW c \in Clients, RemoveClient(c)
  PROVE  ViewInv'
<1>1. /\ life[c] = "connected" /\ life' = [life EXCEPT ![c] = "removed"]
      /\ m_clients' = Erase(m_clients, c) /\ m_baddies' = m_baddies
  BY DEF RemoveClient
<1>2. Playing' = Playing \ {c} /\ \A d \in Playing' : m_clients'[d] = m_clients[d]
  BY <1>1, PlayerErased
<1>3. /\ life \in [Clients -> {"new", "connected", "removed", "deleted"}]
      /\ shown \in [Clients -> SUBSET Nat]
      /\ \A d \in Playing : m_clients[d] \in Nat
  BY DEF TypeInv, TypeOK, ClientTypeOK, ServerTypeOK
<1>4. Connected' = Connected \ {c} /\ Connected \subseteq Clients
  BY <1>1, <1>3 DEF Connected
<1>5. Players' = Players \ {c} /\ \A d \in Players' : m_clients'[d] = m_clients[d]
  BY <1>2 DEF Players
<1>6. \A d \in Connected' : /\ shown'[d] \subseteq shown[d]
                            /\ \A id \in shown[d] : id # IdOf(c) => id \in shown'[d]
                            /\ IdOf(c) # 0 => IdOf(c) \notin shown'[d]
  <2>1. \A d \in Connected' : d \in Others(c)
    BY <1>4 DEF Others, PeopleInv
  <2> QED
    BY <1>3, <1>4, <2>1 DEF RemoveClient
<1>7. /\ IdOf(c) # 0 => c \in Players /\ IdOf(c) = m_clients[c]
      /\ c \in Players => IdOf(c) = m_clients[c] /\ IdOf(c) # 0
  BY DEF IdOf, Lookup, Players, Playing
<1>8. PlayersSeeNewcomers'
  <2> SUFFICES ASSUME NEW d \in Connected', NEW e \in Connected', d \in Players', e \in Players',
                      m_clients[d] <= m_clients[e]
               PROVE  m_clients[e] \in shown'[d]
    BY <1>5 DEF PlayersSeeNewcomers, ConnectedPlayers
  <2>1. m_clients[e] \in shown[d]
    BY <1>4, <1>5 DEF ViewInv, PlayersSeeNewcomers, ConnectedPlayers
  <2>2. m_clients[e] # IdOf(c)
    BY <1>5, <1>7 DEF Players, IdInv, PlayersDiffer
  <2> QED
    BY <1>6, <2>1, <2>2
<1>9. \A id \in Known' : id \in Known /\ (c \in Players => m_clients[c] # id)
  <2>1. \A id \in PlayerIds' : id \in PlayerIds /\ (c \in Players => m_clients[c] # id)
    BY <1>5 DEF PlayerIds, IdInv, PlayersDiffer
  <2>2. \A id \in Drawn' : id \in Drawn /\ (c \in Players => m_clients[c] # id)
    BY <1>4, <1>6, <1>7 DEF Drawn
  <2>3. \A id \in m_baddies : c \in Players => m_clients[c] # id
    BY DEF IdInv, PlayersDiffer
  <2> QED
    BY <1>1, <2>1, <2>2, <2>3 DEF Known
<1>10. \A d \in Clients : RemoveClient(d) => d = c
  BY <1>1, <1>3 DEF RemoveClient
<1> QED
  BY <1>8, <1>9, <1>10, KnownKeepExisting DEF ViewInv

LEMMA ViewInvStep ==
  TypeInv /\ IdInv /\ PeopleInv /\ ViewInv /\ [Next]_vars => ViewInv'
<1> SUFFICES ASSUME TypeInv, IdInv, PeopleInv, ViewInv, [Next]_vars PROVE ViewInv'
  OBVIOUS
<1>0. life \in [Clients -> {"new", "connected", "removed", "deleted"}]
  BY DEF TypeInv, TypeOK, ClientTypeOK
<1>1. ASSUME UNCHANGED <<m_baddies, m_clients, shown, life>> PROVE ViewInv'
  <2>1. Connected' = Connected /\ Players' = Players
    BY <1>1 DEF Connected, Players, Playing
  <2>2. \A c \in Clients : ~RemoveClient(c)
    BY <1>0, <1>1 DEF RemoveClient
  <2> QED
    BY <1>1, <2>1, <2>2, ViewsKept
<1>2. CASE ServerStep /\ ~LoadBaddie /\ ~HandleLoadPlayer
  BY <1>1, <1>2 DEF ServerStep, LoadBlocker, WorldLoaded, ServerPop, HandleInput, HandleShutdown,
                    DeletePhysics, CloseClients, Terminate, clientVars
<1>3. CASE PhysicsStep /\ ~PhysicsInput
  BY <1>1, <1>3 DEF PhysicsStep, RunTickCallbacks, PushClientTransforms, PhysicsEnds, serverVars, clientVars
<1>4. CASE PhysicsInput
  <2>1. m_clients' = Insert(m_clients, physMsg.sender, 0) /\ UNCHANGED <<m_baddies, shown, life>>
    BY <1>4 DEF PhysicsInput, clientVars
  <2>2. /\ Playing' = Playing \cup {physMsg.sender}
        /\ \A d \in Playing : m_clients'[d] = m_clients[d]
        /\ physMsg.sender \notin Playing => m_clients'[physMsg.sender] = 0
    BY <2>1, PlayerInserted
  <2>3. Players' = Players /\ \A d \in Players : m_clients'[d] = m_clients[d]
    BY <2>2 DEF Players
  <2>4. Connected' = Connected
    BY <2>1 DEF Connected
  <2>5. \A c \in Clients : ~RemoveClient(c)
    BY <1>0, <2>1 DEF RemoveClient
  <2> QED
    BY <2>1, <2>3, <2>4, <2>5, ViewsKept
<1>5. ASSUME NEW c \in Clients, DeleteClient(c) PROVE ViewInv'
  <2>1. UNCHANGED <<m_baddies, m_clients, shown>>
    BY <1>5 DEF DeleteClient, serverVars
  <2>2. Connected' = Connected /\ Players' = Players
    BY <1>0, <1>5, <2>1 DEF DeleteClient, Connected, Players, Playing
  <2>3. \A d \in Clients : ~RemoveClient(d)
    BY <1>0, <1>5 DEF DeleteClient, RemoveClient
  <2> QED
    BY <2>1, <2>2, <2>3, ViewsKept
<1>6. CASE ClientStep
  BY <1>1, <1>5, <1>6, AddClientKeepsViews, RemoveClientKeepsViews
     DEF ClientStep, SendLoadPlayer, SendInput, Send, SendShutdown
<1>7. CASE UNCHANGED vars
  BY <1>1, <1>7 DEF vars, serverVars, clientVars
<1> QED
  BY <1>2, <1>3, <1>4, <1>6, <1>7, LoadBaddieKeepsViews, HandleLoadPlayerKeepsViews DEF Next

LEMMA ViewInvNoGhosts == TypeInv /\ ViewInv => NoGhosts
<1> SUFFICES ASSUME TypeInv, ViewInv, physPc \notin {"ended", "gone"}, NEW c \in Connected,
                    NEW id \in shown[c] \ {0}
             PROVE  id \in Existing
  BY DEF NoGhosts
<1>1. Exists(id)
  <2>1. id \in Nat
    BY DEF TypeInv, TypeOK, ClientTypeOK, Connected
  <2> QED
    BY <2>1 DEF ViewInv, Known, Drawn
<1> QED
  BY <1>1, PendingIds DEF Exists, Existing

(* The invariants that hold in both builds of the queue. *)
ServerInv == TypeInv /\ IdInv /\ PeopleInv /\ ViewInv

LEMMA ServerInvariant == Spec => []ServerInv
<1>1. Init => ServerInv
  BY TypeInvInit, IdInvInit, PeopleInvInit, ViewInvInit DEF ServerInv
<1>2. ServerInv /\ [Next]_vars => ServerInv'
  BY TypeInvStep, IdInvStep, PeopleInvStep, ViewInvStep DEF ServerInv
<1> QED
  BY <1>1, <1>2, PTL DEF Spec

(* Nothing that a connected client draws is a ghost: it exists, or its     *)
(* creation is on its way, and its deletion is not (localserver.cpp:       *)
(* 90-121, 175-187).                                                       *)
THEOREM ClientsDrawNoGhosts == Spec => []NoGhosts
<1>1. ServerInv => NoGhosts
  BY ViewInvNoGhosts DEF ServerInv
<1> QED
  BY <1>1, ServerInvariant, PTL

(* A player sees itself and whoever starts to play after it                *)
(* (localserver.cpp:183-186).                                              *)
THEOREM PlayersSeeWhoFollows == Spec => []PlayersSeeNewcomers
<1>1. ServerInv => PlayersSeeNewcomers
  BY DEF ServerInv, ViewInv
<1> QED
  BY <1>1, ServerInvariant, PTL

-----------------------------------------------------------------------------

(* In the fifo build a pop moves every message one place on, and what is   *)
(* pushed comes after what was there.                                      *)
From(i) == IF PhysPop THEN i + 1 ELSE i

LEMMA PopFindsMessage == TypeInv /\ PhysPop => physMsg = NoMsg /\ physMsg' # NoMsg
<1>1. \A m \in PhysMsgs : m # NoMsg
  BY DEF PhysMsgs, NoMsg
<1> QED
  BY <1>1, PhysPopped DEF PhysPop

LEMMA ParsingMessage ==
  ParseAddPhys \/ ParseAddChar \/ ParseDelChar \/ PhysicsInput => Parsed /\ physMsg # NoMsg
<1>1. ParseAddPhys \/ ParseAddChar \/ ParseDelChar \/ PhysicsInput => Parsed
  BY DEF ParseAddPhys, ParseAddChar, ParseDelChar, PhysicsInput, ParseInput
<1>2. ParseAddPhys \/ ParseAddChar \/ ParseDelChar \/ PhysicsInput => physMsg.type # "none"
  BY DEF ParseAddPhys, ParseAddChar, ParseDelChar, PhysicsInput, Parsing
<1> QED
  BY <1>1, <1>2 DEF NoMsg

LEMMA RowMoves ==
  ASSUME Order = "fifo", TypeInv, [Next]_vars, NEW i \in PhysSpots'
  PROVE  \/ PhysAt(i)' = NoMsg
         \/ From(i) \in PhysSpots /\ PhysAt(i)' = PhysAt(From(i))
         \/ /\ PhysAt(i)' \in PhysMsgs /\ PhysPush(PhysAt(i)') /\ PushedFor(PhysAt(i)')
            /\ \A j \in PhysSpots : j < i
<1> DEFINE Moved == From(i) \in PhysSpots /\ PhysAt(i)' = PhysAt(From(i))
           Pushed == /\ PhysAt(i)' \in PhysMsgs /\ PhysPush(PhysAt(i)') /\ PushedFor(PhysAt(i)')
                     /\ \A j \in PhysSpots : j < i
<1>1. ASSUME NEW msg \in PhysMsgs, PhysPush(msg), PushedFor(msg) PROVE Moved \/ Pushed
  <2>1. PICK new \in Nat : /\ PhysSpots' = PhysSpots \cup {new}
                          /\ PhysAt(new)' = msg
                          /\ \A j \in PhysSpots : j < new /\ PhysAt(j)' = PhysAt(j)
    BY <1>1, PhysPushed
  <2>2. ~PhysPop
    BY <1>1, PopFindsMessage DEF PhysPush
  <2>3. CASE i = new
    BY <1>1, <2>1, <2>3
  <2>4. CASE i # new
    BY <2>1, <2>2, <2>4 DEF From
  <2> QED
    BY <2>3, <2>4
<1>2. ASSUME UNCHANGED <<physQueue, physMsg>> PROVE Moved
  BY <1>2, PopFindsMessage DEF From, PhysSpots, PhysAt
<1>3. ASSUME Parsed, physMsg # NoMsg PROVE Moved \/ PhysAt(i)' = NoMsg
  BY <1>3, PhysParsed DEF From, PhysPop
<1>4. CASE PhysPop
  BY <1>4, PhysPopped DEF From
<1>5. CASE PhysCleanup
  BY <1>2, <1>5 DEF PhysCleanup
<1> QED
  BY <1>1, <1>2, <1>3, <1>4, <1>5, ParsingMessage, PhysicsSteps

LEMMA MadeByStays ==
  ASSUME Order = "fifo", TypeInv, [Next]_vars, physPc' \notin {"ended", "gone"},
         NEW id \in Nat, ~(ParseDelChar /\ physMsg.objid = id),
         NEW i \in PhysSpots', MadeBy(id, From(i))
  PROVE  MadeBy(id, i)'
<1>0. i \in Nat
  BY LenProperties, TypeInvStep, PhysTyped DEF PhysSpots, TypeInv, MsgTypes
<1>1. ASSUME NEW msg \in PhysMsgs, PhysPush(msg) PROVE MadeBy(id, i)'
  <2>1. ~PhysPop /\ m_characters' = m_characters
    BY <1>1, PopFindsMessage DEF PhysPush
  <2> QED
    BY <1>1, <2>1, PhysPushed DEF From, MadeBy
<1>2. ASSUME UNCHANGED <<physQueue, physMsg>>, DOMAIN m_characters' = DOMAIN m_characters
      PROVE  MadeBy(id, i)'
  BY <1>2, PopFindsMessage DEF From, MadeBy, PhysSpots, PhysAt
<1>3. ASSUME Parsed, physMsg # NoMsg,
             id \in DOMAIN m_characters' \/ ~(id \in DOMAIN m_characters \/ PhysAt(0) = AddChar(id))
      PROVE  MadeBy(id, i)'
  BY <1>3, PhysParsed DEF From, PhysPop, MadeBy
<1>4. CASE PhysPop
  <2>1. PICK move \in [PhysSpots' -> PhysSpots \ {0}] :
          /\ \A k \in PhysSpots' : PhysAt(k)' = PhysAt(move[k]) /\ move[k] = k + 1
          /\ \A j \in PhysSpots \ {0} : \E k \in PhysSpots' : move[k] = j
    BY <1>4, PhysPopped
  <2>2. PhysAt(0) # AddChar(id) /\ m_characters' = m_characters
    BY <1>4, PhysPopped DEF NoMsg, AddChar, PhysPop
  <2>3. ASSUME NEW j \in PhysSpots, j < i + 1, PhysAt(j) = AddChar(id)
        PROVE  \E k \in PhysSpots' : k < i /\ PhysAt(k)' = AddChar(id)
    <3>1. PICK k \in PhysSpots' : k + 1 = j /\ PhysAt(k)' = PhysAt(j)
      BY <2>1, <2>2, <2>3
    <3>2. k \in Nat
      BY <1>4, PhysPopped DEF PhysSpots
    <3> QED
      BY <1>0, <2>3, <3>1, <3>2
  <2> QED
    BY <1>4, <2>2, <2>3 DEF From, MadeBy
<1>5. PhysAt(0) = physMsg
  BY DEF PhysAt
<1>6. CASE ParseAddPhys
  <2>1. PhysAt(0) # AddChar(id)
    BY <1>5, <1>6 DEF ParseAddPhys, Parsing, AddChar
  <2> QED
    BY <1>3, <1>6, <2>1, ParsingMessage DEF ParseAddPhys
<1>7. CASE ParseAddChar
  <2>1. DOMAIN m_characters' = DOMAIN m_characters \cup {physMsg.objid}
    BY <1>7 DEF ParseAddChar, Assign
  <2>2. PhysAt(0) = AddChar(id) => physMsg.objid = id
    BY <1>5 DEF AddChar
  <2> QED
    BY <1>3, <1>7, <2>1, <2>2, ParsingMessage
<1>8. CASE ParseDelChar
  <2>1. DOMAIN m_characters' = DOMAIN m_characters \ {physMsg.objid} /\ physMsg.objid # id
    BY <1>8 DEF ParseDelChar, Erase
  <2>2. PhysAt(0) # AddChar(id)
    <3>1. physMsg.type = "DelChar"
      BY <1>8 DEF ParseDelChar, Parsing
    <3> QED
      BY <1>5, <3>1 DEF AddChar
  <2> QED
    BY <1>3, <1>8, <2>1, <2>2, ParsingMessage
<1>9. CASE PhysicsInput
  <2>1. PhysAt(0) # AddChar(id)
    BY <1>5, <1>9 DEF PhysicsInput, Parsing, AddChar
  <2>2. DOMAIN m_characters' = DOMAIN m_characters
    BY <1>9, InputSet DEF PhysicsInput, ParseInput
  <2> QED
    BY <1>3, <1>9, <2>1, <2>2, ParsingMessage
<1>10. ~PhysCleanup
  BY DEF PhysCleanup
<1> QED
  BY <1>1, <1>2, <1>4, <1>6, <1>7, <1>8, <1>9, <1>10, PhysicsSteps

(* Whoever exists when a message is pushed is made before it is parsed. *)
LEMMA PushedAfterMaking ==
  ASSUME TypeInv, NEW msg \in PhysMsgs, PhysPush(msg), NEW id, Exists(id),
         NEW i \in PhysSpots', \A j \in PhysSpots : j < i
  PROVE  MadeBy(id, i)'
<1>1. m_characters' = m_characters
  BY DEF PhysPush
<1> QED
  BY <1>1, PhysPushed DEF Exists, MadeBy

LEMMA DelInvInit == Init => DelInv
<1>1. Init => PhysSpots = {0} /\ PhysAt(0) = NoMsg
  BY EmptySeq DEF Init, PhysInit, PhysSpots, PhysAt
<1> QED
  BY <1>1 DEF DelInv, NoMsg

LEMMA DelInvStep ==
  ASSUME Order = "fifo", ServerInv, DelInv, [Next]_vars PROVE DelInv'
<1> SUFFICES ASSUME physPc' \notin {"ended", "gone"}, NEW i \in PhysSpots', NEW msg, msg = PhysAt(i)',
                    msg.type = "DelChar"
             PROVE  MadeBy(msg.objid, i)'
  BY DEF DelInv
<1>0. TypeInv /\ IdInv /\ ViewInv /\ physPc \notin {"ended", "gone"}
  BY EndedForGood DEF ServerInv
<1>1. msg \in PhysMsgs /\ msg # NoMsg
  <2>1. msg # NoMsg
    BY DEF NoMsg
  <2> QED
    BY <1>0, <2>1, RowMoves, PhysTyped
<1>2. PICK id \in Nat : msg = DelChar(id)
  BY <1>1 DEF PhysMsgs, DelChar
<1>3. msg.objid = id
  BY <1>2 DEF DelChar
<1>4. CASE From(i) \in PhysSpots /\ PhysAt(i)' = PhysAt(From(i))
  <2>1. MadeBy(id, From(i))
    BY <1>0, <1>3, <1>4 DEF DelInv
  <2>2. ~(ParseDelChar /\ physMsg.objid = id)
    <3> SUFFICES ASSUME ParseDelChar, physMsg.objid = id PROVE FALSE
      OBVIOUS
    <3>1. 0 \in PhysSpots /\ PhysAt(0) = physMsg /\ ~PhysPop
      BY <1>0, PhysTyped, ParsingMessage DEF PhysAt, PhysPop
    <3>2. IsDel(0)
      BY <3>1 DEF ParseDelChar, Parsing, IsDel
    <3>3. From(i) = i
      BY <3>1 DEF From
    <3>4. IsDel(i) /\ PhysAt(i).objid = id /\ i \in PhysSpots
      BY <1>3, <1>4, <3>3 DEF IsDel
    <3>5. i = 0
      BY <1>0, <3>1, <3>2, <3>4 DEF IdInv, MessagesOnce
    <3>6. PhysAt(0)' = NoMsg
      BY <1>0, ParsingMessage, PhysParsed
    <3> QED
      BY <1>1, <3>5, <3>6
  <2> QED
    BY <1>0, <1>3, <2>1, <2>2, MadeByStays
<1>5. ASSUME PhysPush(msg), PushedFor(msg), \A j \in PhysSpots : j < i PROVE MadeBy(id, i)'
  <2>1. msg.type = "DelChar" /\ \A c \in Players : DelChar(m_clients[c]).objid = m_clients[c]
    BY DEF DelChar
  <2>2. PICK c \in Players : id = m_clients[c]
    BY <1>3, <1>5, <2>1 DEF PushedFor
  <2>3. Exists(id)
    BY <1>0, <2>2 DEF ViewInv, Known, PlayerIds
  <2> QED
    BY <1>0, <1>1, <1>5, <2>3, PushedAfterMaking
<1> QED
  BY <1>0, <1>1, <1>3, <1>4, <1>5, RowMoves


(* Parsing a deletion finds its character: nobody else names a null one. *)
LEMMA NullCharacterStep ==
  ASSUME Order = "fifo", ServerInv, DelInv, NoNullCharacter, [Next]_vars PROVE NoNullCharacter'
<1>0. TypeInv
  BY DEF ServerInv
<1>1. CASE ServerStep
  BY <1>1 DEF NoNullCharacter, ServerStep, LoadBaddie, LoadBlocker, WorldLoaded, ServerPop,
     HandleInput, HandleLoadPlayer, HandleShutdown, DeletePhysics, CloseClients, Terminate,
     CallClients
<1>2. CASE ParseDelChar
  <2>1. 0 \in PhysSpots /\ PhysAt(0) = physMsg
    BY <1>0, PhysTyped DEF PhysAt
  <2>2. physMsg.type = "DelChar" /\ physPc \notin {"ended", "gone"}
    BY <1>0, <1>2, ParsingMessage DEF ParseDelChar, Parsing, TypeInv, TypeOK, PhysTypeOK
  <2>3. MadeBy(physMsg.objid, 0)
    BY <2>1, <2>2 DEF DelInv
  <2>4. \A j \in PhysSpots : ~(j < 0)
    BY <1>0, PhysTyped
  <2>5. physMsg.objid \in DOMAIN m_characters
    BY <2>3, <2>4 DEF MadeBy
  <2> QED
    BY <1>2, <2>5 DEF ParseDelChar, NoNullCharacter
<1>3. CASE PhysicsStep /\ ~ParseDelChar
  BY <1>3 DEF NoNullCharacter, PhysicsStep, PhysInternal, ParseAddPhys, ParseAddChar, PhysicsInput,
     ParseInput, RunTickCallbacks, PushClientTransforms, PhysicsEnds, CallClients
<1>4. CASE ClientStep
  BY <1>4 DEF NoNullCharacter, ClientStep, AddClient, RemoveClient, DeleteClient, SendLoadPlayer,
     SendInput, Send, SendShutdown, CallClients
<1>5. CASE UNCHANGED vars
  BY <1>5 DEF NoNullCharacter, vars
<1> QED
  BY <1>1, <1>2, <1>3, <1>4, <1>5 DEF Next

-----------------------------------------------------------------------------
(* The messages that wait for the server, and those that clients have      *)
(* sent.                                                                   *)
LEMMA SentAppended ==
  ASSUME TypeInv, NEW c \in Clients, NEW msg \in SrvMsgs, Send(c, msg), NEW type
  PROVE  /\ \A d \in Clients \ {c} : sent'[d] = sent[d] /\ SentOf(d, type)' = SentOf(d, type)
         /\ SentOf(c, type)' = IF msg.type = type THEN SentOf(c, type) \cup {Len(sent[c]) + 1}
                               ELSE SentOf(c, type)
         /\ Len(sent[c]) \in Nat /\ Len(sent[c]) + 1 \notin SentOf(c, type)
         /\ \A i \in SentOf(c, type) : i \in Nat /\ i < Len(sent[c]) + 1 /\ sent'[c][i] = sent[c][i]
         /\ sent'[c][Len(sent[c]) + 1] = msg
<1>1. sent[c] \in Seq(SrvMsgs) /\ sent' = [sent EXCEPT ![c] = Append(sent[c], msg)]
  BY DEF TypeInv, MsgTypes, Send
<1>2. sent'[c] = Append(sent[c], msg) /\ \A d \in Clients \ {c} : sent'[d] = sent[d]
  BY <1>1 DEF TypeInv, MsgTypes
<1>3. /\ Len(sent[c]) \in Nat /\ Len(sent'[c]) = Len(sent[c]) + 1
      /\ \A i \in 1..Len(sent[c]) : sent'[c][i] = sent[c][i]
      /\ sent'[c][Len(sent[c]) + 1] = msg
  BY <1>1, <1>2, AppendProperties, LenProperties
<1>4. \A d \in Clients \ {c} : SentOf(d, type)' = SentOf(d, type)
  BY <1>2 DEF SentOf
<1>5. \A i \in SentOf(c, type) : i \in 1..Len(sent[c])
  BY DEF SentOf
<1>6. SentOf(c, type)' = IF msg.type = type THEN SentOf(c, type) \cup {Len(sent[c]) + 1}
                         ELSE SentOf(c, type)
  BY <1>3 DEF SentOf
<1> QED
  BY <1>2, <1>3, <1>4, <1>5, <1>6

LEMMA SrvSteps ==
  TypeInv /\ [Next]_vars =>
    \/ UNCHANGED <<srvQueue, srvMsg, sent>>
    \/ ServerPop /\ sent' = sent
    \/ (HandleInput \/ HandleLoadPlayer \/ HandleShutdown) /\ UNCHANGED <<srvQueue, sent>>
    \/ \E c \in Clients : \E msg \in SrvMsgs :
         Send(c, msg) /\ (msg = Load(c) \/ (SendInput(c, msg.state) /\ InputOf(msg, c)))
    \/ SendShutdown
<1> SUFFICES ASSUME TypeInv, [Next]_vars
             PROVE  \/ UNCHANGED <<srvQueue, srvMsg, sent>>
                    \/ ServerPop /\ sent' = sent
                    \/ (HandleInput \/ HandleLoadPlayer \/ HandleShutdown) /\ UNCHANGED <<srvQueue, sent>>
                    \/ \E c \in Clients : \E msg \in SrvMsgs :
                         Send(c, msg) /\ (msg = Load(c) \/ (SendInput(c, msg.state) /\ InputOf(msg, c)))
                    \/ SendShutdown
  OBVIOUS
<1>1. CASE ServerStep
  BY <1>1 DEF ServerStep, LoadBaddie, LoadBlocker, WorldLoaded, ServerPop, HandleInput,
     HandleLoadPlayer, HandleShutdown, DeletePhysics, CloseClients, Terminate, clientVars
<1>2. CASE PhysicsStep
  BY <1>2 DEF PhysicsStep, PhysicsInput, RunTickCallbacks, PushClientTransforms, PhysicsEnds, serverVars, clientVars
<1>3. CASE UNCHANGED vars
  BY <1>3 DEF vars, serverVars, clientVars
<1>4. ASSUME NEW c \in Clients, SendLoadPlayer(c) PROVE Send(c, Load(c)) /\ Load(c) \in SrvMsgs
  BY <1>4 DEF SendLoadPlayer, Load, SrvMsgs
<1>5. ASSUME NEW c \in Clients, NEW s \in Inputs, SendInput(c, s)
      PROVE  \E msg \in SrvMsgs : Send(c, msg) /\ SendInput(c, msg.state) /\ InputOf(msg, c)
  <2> DEFINE msg == [type |-> "Input", sender |-> c, state |-> s]
  <2>1. msg \in SrvMsgs /\ msg.state = s /\ InputOf(msg, c)
    BY DEF SrvMsgs, InputOf
  <2>2. Send(c, msg)
    BY <1>5 DEF SendInput
  <2> QED
    BY <1>5, <2>1, <2>2
<1>6. CASE ClientStep
  BY <1>4, <1>5, <1>6 DEF ClientStep, AddClient, RemoveClient, DeleteClient, serverVars
<1> QED
  BY <1>1, <1>2, <1>3, <1>6 DEF Next


Handle == HandleInput \/ HandleLoadPlayer \/ HandleShutdown
SrvFrom(i) == IF ServerPop THEN i + 1 ELSE i

(* msg is sent now: it comes after what was sent before. *)
SentBy(msg, c) == Send(c, msg) /\ (msg = Load(c) \/ (SendInput(c, msg.state) /\ InputOf(msg, c)))

LEMMA HandlingMessage ==
  TypeInv /\ Handle => /\ srvMsg # NoMsg /\ SrvAt(0) = srvMsg /\ ~ServerPop
                       /\ srvMsg' = NoMsg /\ srvQueue' = srvQueue
<1>1. Handle => srvMsg.type # "none" /\ srvMsg' = NoMsg /\ srvQueue' = srvQueue /\ srvPc = "handle"
  BY DEF Handle, HandleInput, HandleLoadPlayer, HandleShutdown, Handling
<1> QED
  BY <1>1 DEF NoMsg, SrvAt, ServerPop

LEMMA SrvRowMoves ==
  ASSUME Order = "fifo", TypeInv, [Next]_vars, NEW i \in SrvSpots'
  PROVE  \/ SrvAt(i)' = NoMsg
         \/ /\ SrvFrom(i) \in SrvSpots /\ SrvAt(i)' = SrvAt(SrvFrom(i))
            /\ Handle => i # 0
         \/ /\ SrvAt(i)' \in SrvMsgs
            /\ SrvAt(i)'.type = "Shutdown" \/ \E c \in Clients : SentBy(SrvAt(i)', c)
            /\ \A j \in SrvSpots : j < i
            /\ ~ServerPop
<1> DEFINE Goal == \/ SrvAt(i)' = NoMsg
                   \/ /\ SrvFrom(i) \in SrvSpots /\ SrvAt(i)' = SrvAt(SrvFrom(i))
                      /\ Handle => i # 0
                   \/ /\ SrvAt(i)' \in SrvMsgs
                      /\ SrvAt(i)'.type = "Shutdown" \/ \E c \in Clients : SentBy(SrvAt(i)', c)
                      /\ \A j \in SrvSpots : j < i
                      /\ ~ServerPop
<1>1. ASSUME NEW msg \in SrvMsgs, srvQueue' = Append(srvQueue, msg), srvMsg' = srvMsg, srvPc' = srvPc,
             msg.type = "Shutdown" \/ \E c \in Clients : SentBy(msg, c)
      PROVE  Goal
  <2>1. PICK new \in Nat : /\ SrvSpots' = SrvSpots \cup {new}
                           /\ SrvAt(new)' = msg
                           /\ \A j \in SrvSpots : j < new /\ SrvAt(j)' = SrvAt(j)
    BY <1>1, SrvPushed
  <2>2. ~ServerPop /\ ~Handle
    BY <1>1 DEF ServerPop, Handle, HandleInput, HandleLoadPlayer, HandleShutdown, Handling
  <2>3. CASE i = new
    BY <1>1, <2>1, <2>2, <2>3
  <2>4. CASE i # new
    BY <2>1, <2>2, <2>4 DEF SrvFrom
  <2> QED
    BY <2>3, <2>4
<1>2. ASSUME UNCHANGED <<srvQueue, srvMsg>> PROVE Goal
  <2>1. ~Handle
    BY <1>2, HandlingMessage
  <2>2. ~ServerPop
    BY <1>2, SrvPopped DEF SrvAt, SrvMsgs, NoMsg
  <2> QED
    BY <1>2, <2>1, <2>2 DEF SrvFrom, SrvSpots, SrvAt
<1>3. CASE Handle
  BY <1>3, HandlingMessage, SrvHandled DEF SrvFrom
<1>4. CASE ServerPop
  BY <1>4, SrvPopped, HandlingMessage DEF SrvFrom
<1>5. ASSUME NEW c \in Clients, NEW msg \in SrvMsgs, SentBy(msg, c) PROVE Goal
  BY <1>1, <1>5 DEF SentBy, Send
<1>6. CASE SendShutdown
  <2>1. [type |-> "Shutdown"] \in SrvMsgs
    BY DEF SrvMsgs
  <2> QED
    BY <1>1, <1>6, <2>1 DEF SendShutdown
<1> QED
  BY <1>2, <1>3, <1>4, <1>5, <1>6, SrvSteps DEF SentBy, Handle

LEMMA SrvRowStays ==
  ASSUME Order = "fifo", TypeInv, [Next]_vars,
         NEW j \in SrvSpots, SrvAt(j) # NoMsg, Handle => j # 0
  PROVE  \E i \in SrvSpots' : SrvFrom(i) = j /\ SrvAt(i)' = SrvAt(j)
<1> DEFINE Goal == \E i \in SrvSpots' : SrvFrom(i) = j /\ SrvAt(i)' = SrvAt(j)
<1>1. ASSUME NEW msg \in SrvMsgs, srvQueue' = Append(srvQueue, msg), srvMsg' = srvMsg, srvPc' = srvPc
      PROVE  Goal
  <2>1. ~ServerPop
    BY <1>1 DEF ServerPop
  <2> QED
    BY <1>1, <2>1, SrvPushed DEF SrvFrom
<1>2. ASSUME UNCHANGED <<srvQueue, srvMsg>> PROVE Goal
  <2>1. ~ServerPop
    BY <1>2, SrvPopped DEF SrvAt, SrvMsgs, NoMsg
  <2> QED
    BY <1>2, <2>1 DEF SrvFrom, SrvSpots, SrvAt
<1>3. CASE Handle
  BY <1>3, HandlingMessage, SrvHandled DEF SrvFrom
<1>4. CASE ServerPop
  BY <1>4, SrvPopped DEF SrvFrom
<1>5. ASSUME NEW c \in Clients, NEW msg \in SrvMsgs, Send(c, msg) PROVE Goal
  BY <1>1, <1>5 DEF Send
<1>6. CASE SendShutdown
  <2>1. [type |-> "Shutdown"] \in SrvMsgs
    BY DEF SrvMsgs
  <2> QED
    BY <1>1, <1>6, <2>1 DEF SendShutdown
<1> QED
  BY <1>2, <1>3, <1>4, <1>5, <1>6, SrvSteps DEF Handle

-----------------------------------------------------------------------------
(* Who is connected and who plays after a step. *)
LEMMA WhoConnects ==
  TypeInv /\ [Next]_vars =>
    \A c \in Connected' : /\ ~RemoveClient(c)
                          /\ c \in Connected \/ (AddClient(c) /\ life[c] = "new")
<1> SUFFICES ASSUME TypeInv, [Next]_vars, NEW c \in Connected'
             PROVE  ~RemoveClient(c) /\ (c \in Connected \/ (AddClient(c) /\ life[c] = "new"))
  OBVIOUS
<1>0. c \in Clients /\ life'[c] = "connected" /\ life \in [Clients -> {"new", "connected", "removed", "deleted"}]
  BY DEF Connected, TypeInv, TypeOK, ClientTypeOK
<1>1. ASSUME life' = life PROVE ~RemoveClient(c) /\ c \in Connected
  BY <1>0, <1>1 DEF Connected, RemoveClient
<1>2. ASSUME NEW d \in Clients, AddClient(d) \/ RemoveClient(d) \/ DeleteClient(d)
      PROVE  ~RemoveClient(c) /\ (c \in Connected \/ (AddClient(c) /\ life[c] = "new"))
  BY <1>0, <1>2 DEF Connected, AddClient, RemoveClient, DeleteClient
<1>3. CASE ServerStep
  BY <1>1, <1>3 DEF ServerStep, LoadBaddie, LoadBlocker, WorldLoaded, ServerPop, HandleInput,
     HandleLoadPlayer, HandleShutdown, DeletePhysics, CloseClients, Terminate, clientVars
<1>4. CASE PhysicsStep
  BY <1>1, <1>4 DEF PhysicsStep, PhysicsInput, RunTickCallbacks, PushClientTransforms, PhysicsEnds, clientVars
<1>5. CASE ClientStep
  BY <1>1, <1>2, <1>5 DEF ClientStep, SendLoadPlayer, SendInput, Send, SendShutdown
<1>6. CASE UNCHANGED vars
  BY <1>1, <1>6 DEF vars, clientVars
<1> QED
  BY <1>3, <1>4, <1>5, <1>6 DEF Next

LEMMA WhoPlays ==
  TypeInv /\ [Next]_vars =>
    \A c \in Playing' :
      \/ c \in Playing /\ m_clients'[c] = m_clients[c]
      \/ HandleLoadPlayer /\ srvMsg.sender = c /\ c \notin Playing /\ m_clients'[c] = m_next_id
      \/ PhysicsInput /\ physMsg.sender = c /\ c \notin Playing /\ m_clients'[c] = 0
<1> SUFFICES ASSUME TypeInv, [Next]_vars, NEW c \in Playing', ~(c \in Playing /\ m_clients'[c] = m_clients[c])
             PROVE  \/ HandleLoadPlayer /\ srvMsg.sender = c /\ c \notin Playing /\ m_clients'[c] = m_next_id
                    \/ PhysicsInput /\ physMsg.sender = c /\ c \notin Playing /\ m_clients'[c] = 0
  OBVIOUS
<1>1. m_clients' # m_clients
  BY DEF Playing
<1>2. ASSUME NEW d, NEW v, m_clients' = Insert(m_clients, d, v)
      PROVE  d = c /\ c \notin Playing /\ m_clients'[c] = v
  BY <1>2, PlayerInserted
<1>3. CASE ServerStep
  BY <1>1, <1>2, <1>3 DEF ServerStep, LoadBaddie, LoadBlocker, WorldLoaded, ServerPop, HandleInput,
     HandleLoadPlayer, Enrol, HandleShutdown, DeletePhysics, CloseClients, Terminate
<1>4. CASE PhysicsStep
  BY <1>1, <1>2, <1>4 DEF PhysicsStep, PhysicsInput, RunTickCallbacks, PushClientTransforms, PhysicsEnds, serverVars
<1>5. CASE ClientStep
  BY <1>1, <1>5, PlayerErased DEF ClientStep, AddClient, RemoveClient, DeleteClient, SendLoadPlayer,
     SendInput, Send, SendShutdown, serverVars
<1>6. CASE UNCHANGED vars
  BY <1>1, <1>6 DEF vars, serverVars
<1> QED
  BY <1>3, <1>4, <1>5, <1>6 DEF Next

(* A client that connects has not spoken and is not registered. *)
LEMMA NewcomersAreSilent ==
  ASSUME TypeInv, PeopleInv, NEW c \in Clients, life[c] = "new"
  PROVE  /\ c \notin Registered /\ sent[c] = <<>>
         /\ \A type : SentOf(c, type) = {}
         /\ \A i \in SrvSpots : SrvAt(i).type \in {"LoadPlayer", "Input"} => SrvAt(i).sender # c
         /\ \A i \in PhysSpots : PhysAt(i).type = "Input" => PhysAt(i).sender # c
<1>1. sent[c] = <<>> /\ c \notin Registered
  BY DEF PeopleInv
<1>2. \A type : SentOf(c, type) = {}
  BY <1>1, EmptySeq DEF SentOf
<1> QED
  BY <1>1, <1>2 DEF PeopleInv

(* What is in the queues of the messages that were there. *)
LEMMA SentGrows ==
  TypeInv /\ [Next]_vars =>
    \A c \in Clients : \A type :
      /\ SentOf(c, type) \subseteq SentOf(c, type)'
      /\ \A i \in SentOf(c, type) : sent'[c][i] = sent[c][i]
      /\ SentOf(c, type)' # SentOf(c, type) => \E msg \in SrvMsgs : SentBy(msg, c) /\ msg.type = type
<1> SUFFICES ASSUME TypeInv, [Next]_vars, NEW c \in Clients, NEW type
             PROVE  /\ SentOf(c, type) \subseteq SentOf(c, type)'
                    /\ \A i \in SentOf(c, type) : sent'[c][i] = sent[c][i]
                    /\ SentOf(c, type)' # SentOf(c, type) =>
                         \E msg \in SrvMsgs : SentBy(msg, c) /\ msg.type = type
  OBVIOUS
<1>1. CASE sent' = sent
  BY <1>1 DEF SentOf
<1>2. ASSUME NEW d \in Clients, NEW msg \in SrvMsgs, SentBy(msg, d), c # d
      PROVE  sent'[c] = sent[c] /\ SentOf(c, type)' = SentOf(c, type)
  <2>1. sent' = [sent EXCEPT ![d] = Append(sent[d], msg)]
    BY <1>2 DEF SentBy, Send
  <2>2. sent'[c] = sent[c]
    BY <1>2, <2>1 DEF TypeInv, MsgTypes
  <2> QED
    BY <2>2 DEF SentOf
<1>3. ASSUME NEW msg \in SrvMsgs, SentBy(msg, c)
      PROVE  /\ SentOf(c, type) \subseteq SentOf(c, type)'
             /\ \A i \in SentOf(c, type) : sent'[c][i] = sent[c][i]
             /\ SentOf(c, type)' # SentOf(c, type) => msg.type = type
  BY <1>3, SentAppended DEF SentBy
<1> QED
  BY <1>1, <1>2, <1>3, SrvSteps DEF SentBy, SendShutdown

LEMMA LoadInvInit == Init => LoadInv
<1> SUFFICES ASSUME Init PROVE LoadInv
  OBVIOUS
<1>1. PhysSpots = {0} /\ PhysAt(0) = NoMsg /\ SrvSpots = {0} /\ SrvAt(0) = NoMsg
  BY EmptySeq DEF Init, PhysInit, PhysSpots, PhysAt, SrvSpots, SrvAt
<1>2. Connected = {}
  BY DEF Init, Connected
<1> QED
  BY <1>1, <1>2 DEF LoadInv, NoMsg


LEMMA LoadInvStep ==
  ASSUME Order = "fifo", ServerInv, LoadInv, [Next]_vars PROVE LoadInv'
<1>0. TypeInv /\ PeopleInv /\ m_next_id # 0
  BY DEF ServerInv, TypeInv, TypeOK, ServerTypeOK
<1>1. ASSUME NEW c \in Connected'
      PROVE  /\ c \in Connected \cap Playing => c \in Connected' \cap Playing' /\ m_clients'[c] = m_clients[c]
             /\ c \in Clients
  BY <1>0, <1>1, WhoConnects, EntriesStay DEF Connected
<1>2. ASSUME NEW c \in Connected', c \in Playing' PROVE m_clients'[c] # 0
  <2>1. c \in Connected \/ (c \notin Registered /\ ~HandleLoadPlayer /\ ~PhysicsInput)
    <3>1. AddClient(c) => life' # life
      <4>1. AddClient(c) => life[c] = "new" /\ life'[c] = "connected"
        BY <1>0, <1>1 DEF AddClient, TypeInv, TypeOK, ClientTypeOK
      <4> QED
        BY <4>1
    <3>2. HandleLoadPlayer \/ PhysicsInput => life' = life
      BY DEF HandleLoadPlayer, PhysicsInput, clientVars
    <3> QED
      BY <1>0, <1>1, <3>1, <3>2, WhoConnects, NewcomersAreSilent
  <2>2. CASE c \in Connected /\ PhysicsInput /\ physMsg.sender = c
    <3>1. PhysAt(0).type = "Input" /\ PhysAt(0).sender = c /\ 0 \in PhysSpots
      BY <1>0, <2>2, PhysTyped DEF PhysAt, PhysicsInput, Parsing
    <3>2. c \in Playing
      BY <2>2, <3>1 DEF LoadInv
    <3> QED
      BY <1>1, <2>2, <3>2 DEF LoadInv
  <2>3. CASE c \in Connected /\ ~(PhysicsInput /\ physMsg.sender = c)
    BY <1>0, <1>2, <2>3, WhoPlays DEF LoadInv
  <2>4. CASE c \notin Connected
    BY <1>0, <1>2, <2>1, <2>4, WhoPlays DEF Registered
  <2> QED
    BY <2>2, <2>3, <2>4
<1>3. ASSUME NEW c \in Clients, NEW j \in SrvSpots, SrvAt(j) = Load(c)
      PROVE  \/ c \in Playing'
             \/ \E i \in SrvSpots' : SrvFrom(i) = j /\ SrvAt(i)' = Load(c)
  <2>1. CASE j = 0 /\ Handle
    <3>1. srvMsg.type = "LoadPlayer" /\ srvMsg.sender = c
      BY <1>3, <2>1 DEF SrvAt, Load
    <3>2. HandleLoadPlayer
      BY <2>1, <3>1 DEF Handle, HandleInput, HandleShutdown, Handling
    <3> QED
      BY <3>1, <3>2, PlayerInserted DEF HandleLoadPlayer, Enrol
  <2>2. CASE ~(j = 0 /\ Handle)
    <3>1. SrvAt(j) # NoMsg
      BY <1>3 DEF Load, NoMsg
    <3> QED
      BY <1>0, <1>3, <2>2, <3>1, SrvRowStays
  <2> QED
    BY <2>1, <2>2
<1>4. ASSUME NEW c \in Connected', SentOf(c, "LoadPlayer")' # {}
      PROVE  c \in Players' \/ \E i \in SrvSpots' : SrvAt(i)' = Load(c)
  <2>1. CASE SentOf(c, "LoadPlayer") # {}
    <3>1. c \in Connected
      BY <1>0, <1>1, <2>1, WhoConnects, NewcomersAreSilent
    <3>2. c \in Players \/ \E j \in SrvSpots : SrvAt(j) = Load(c)
      BY <2>1, <3>1 DEF LoadInv
    <3>3. c \in Playing' \/ \E i \in SrvSpots' : SrvAt(i)' = Load(c)
      BY <1>1, <1>3, <3>1, <3>2 DEF Players
    <3> QED
      BY <1>2, <3>3 DEF Players
  <2>2. ASSUME NEW msg \in SrvMsgs, SentBy(msg, c), msg.type = "LoadPlayer"
        PROVE  \E i \in SrvSpots' : SrvAt(i)' = Load(c)
    <3>1. msg = Load(c)
      BY <2>2 DEF SentBy, InputOf
    <3> QED
      BY <1>0, <2>2, <3>1, SrvPushed DEF SentBy, Send
  <2> QED
    BY <1>0, <1>1, <1>4, <2>1, <2>2, SentGrows
<1>5. ASSUME NEW i \in SrvSpots', NEW c \in Connected', InputOf(SrvAt(i), c)'
      PROVE  c \in Playing' \/ \E j \in SrvSpots' : j < i /\ SrvAt(j)' = Load(c)
  <2>0. i \in Nat /\ \A j \in SrvSpots : j \in Nat
    BY LenProperties, SrvTyped, TypeInvStep, <1>0 DEF SrvSpots, TypeInv, MsgTypes
  <2>1. ASSUME NEW j \in SrvSpots, j < SrvFrom(i), SrvAt(j) = Load(c)
        PROVE  c \in Playing' \/ \E k \in SrvSpots' : k < i /\ SrvAt(k)' = Load(c)
    <3>1. CASE c \in Playing'
      BY <3>1
    <3>2. ASSUME NEW k \in SrvSpots', SrvFrom(k) = j, SrvAt(k)' = Load(c)
          PROVE  k < i
      <4>1. k \in Nat /\ j \in Nat
        BY <2>0, LenProperties, TypeInvStep, <1>0 DEF SrvSpots, TypeInv, MsgTypes
      <4> QED
        BY <2>0, <2>1, <3>2, <4>1 DEF SrvFrom
    <3> QED
      BY <1>1, <1>3, <2>1, <3>1, <3>2
  <2>2. CASE SrvFrom(i) \in SrvSpots /\ SrvAt(i)' = SrvAt(SrvFrom(i))
    <3>1. SrvAt(SrvFrom(i)).type = "Input" /\ SrvAt(SrvFrom(i)).sender = c
      BY <1>5, <2>2 DEF InputOf
    <3>2. c \in Connected
      BY <1>0, <1>1, <2>2, <3>1, WhoConnects, NewcomersAreSilent
    <3>3. c \in Playing \/ \E j \in SrvSpots : j < SrvFrom(i) /\ SrvAt(j) = Load(c)
      BY <2>2, <3>1, <3>2 DEF LoadInv
    <3> QED
      BY <1>1, <2>1, <3>2, <3>3
  <2>3. ASSUME NEW d \in Clients, SentBy(SrvAt(i)', d), \A j \in SrvSpots : j < i, ~ServerPop
        PROVE  c \in Playing' \/ \E j \in SrvSpots' : j < i /\ SrvAt(j)' = Load(c)
    <3>1. SrvAt(i)'.type = "Input" /\ SrvAt(i)'.sender = c
      BY <1>5 DEF InputOf
    <3>2. d = c /\ SendInput(c, SrvAt(i)'.state)
      BY <2>3, <3>1 DEF SentBy, InputOf, Load
    <3>3. SentOf(c, "LoadPlayer") # {} /\ c \in Connected
      BY <1>1, <3>2 DEF SendInput, Send, Connected
    <3>4. c \in Players \/ \E j \in SrvSpots : SrvAt(j) = Load(c)
      BY <3>3 DEF LoadInv
    <3> QED
      BY <1>1, <2>1, <2>3, <3>3, <3>4 DEF Players, SrvFrom
  <2>4. SrvAt(i)'.type = "Input"
    BY <1>5 DEF InputOf
  <2>5. SrvAt(i)' # NoMsg /\ SrvAt(i)'.type # "Shutdown"
    BY <2>4 DEF NoMsg
  <2> QED
    BY <1>0, <2>2, <2>3, <2>5, SrvRowMoves
<1>6. ASSUME NEW i \in PhysSpots', NEW c \in Connected', InputOf(PhysAt(i), c)' PROVE c \in Playing'
  <2>1. PhysAt(i)'.type = "Input" /\ PhysAt(i)'.sender = c
    BY <1>6 DEF InputOf
  <2>2. ASSUME NEW j \in PhysSpots, PhysAt(i)' = PhysAt(j) PROVE c \in Playing'
    <3>1. c \in Connected
      BY <1>0, <1>1, <2>1, <2>2, WhoConnects, NewcomersAreSilent
    <3> QED
      BY <1>1, <2>1, <2>2, <3>1 DEF LoadInv
  <2>3. CASE HandleInput /\ PhysAt(i)' = SrvAt(0)
    <3>1. SrvAt(0).type = "Input" /\ SrvAt(0).sender = c /\ 0 \in SrvSpots
      BY <1>0, <2>1, <2>3, SrvTyped
    <3>2. c \in Connected
      BY <1>0, <1>1, <3>1, WhoConnects, NewcomersAreSilent
    <3>3. \A j \in SrvSpots : ~(j < 0)
      BY <1>0, SrvTyped
    <3> QED
      BY <1>1, <3>1, <3>2, <3>3 DEF LoadInv
  <2> QED
    BY <1>0, <2>1, <2>2, <2>3, InputsAreForwarded
<1>7. LoadInv!1'
  BY <1>4
<1>8. LoadInv!2'
  BY <1>2
<1>9. LoadInv!3'
  BY <1>5 DEF InputOf
<1>10. LoadInv!4'
  BY <1>6 DEF InputOf
<1> QED
  BY <1>7, <1>8, <1>9, <1>10 DEF LoadInv


(* When everything is handled both rows are empty. *)
LEMMA QuietRows ==
  ASSUME TypeInv, Quiet
  PROVE  /\ physPc \notin {"ended", "gone"}
         /\ PhysSpots = {0} /\ PhysAt(0) = NoMsg
         /\ SrvSpots = {0} /\ SrvAt(0) = NoMsg
         /\ \A id : Exists(id) <=> id \in DOMAIN m_characters
<1>1. physPc \notin {"ended", "gone"} /\ physQueue = <<>> /\ physMsg = NoMsg /\ srvQueue = <<>> /\ srvMsg = NoMsg
  BY DEF Quiet, PhysIdle, TypeInv, TypeOK, ServerTypeOK
<1>2. PhysSpots = {0} /\ PhysAt(0) = NoMsg /\ SrvSpots = {0} /\ SrvAt(0) = NoMsg
  BY <1>1, EmptySeq DEF PhysSpots, PhysAt, SrvSpots, SrvAt
<1>3. \A id : NoMsg # AddChar(id) /\ NoMsg # DelChar(id)
  BY DEF NoMsg, AddChar, DelChar
<1> QED
  BY <1>1, <1>2, <1>3 DEF Exists

LEMMA LoadInvGivesCharacter == ServerInv /\ LoadInv => LoadGivesCharacter
<1> SUFFICES ASSUME ServerInv, LoadInv, Quiet, NEW c \in Connected, SentOf(c, "LoadPlayer") # {}
             PROVE  c \in Players /\ m_clients[c] \in DOMAIN m_characters
  BY DEF LoadGivesCharacter
<1>1. TypeInv /\ ViewInv
  BY DEF ServerInv
<1>2. NoMsg # Load(c)
  BY DEF NoMsg, Load
<1>3. c \in Players
  BY <1>1, <1>2, QuietRows DEF LoadInv
<1>4. Exists(m_clients[c])
  BY <1>1, <1>3, QuietRows DEF ViewInv, Known, PlayerIds
<1> QED
  BY <1>1, <1>3, <1>4, QuietRows
-----------------------------------------------------------------------------
(* Characters that are nobody's. *)
LEMMA OrphanInvInit == Init => OrphanInv
<1> SUFFICES ASSUME Init PROVE OrphanInv
  OBVIOUS
<1>1. PhysSpots = {0} /\ PhysAt(0) = NoMsg /\ SrvSpots = {0} /\ SrvAt(0) = NoMsg
  BY EmptySeq DEF Init, PhysInit, PhysSpots, PhysAt, SrvSpots, SrvAt
<1>2. Connected = {} /\ DOMAIN m_characters = {}
  BY DEF Init, PhysInit, Connected, EmptyMap
<1>3. \A id : NoMsg # AddChar(id)
  BY DEF NoMsg, AddChar
<1> QED
  BY <1>1, <1>2, <1>3 DEF OrphanInv, NoMsg, Exists

LEMMA ExcusedForGood ==
  ASSUME TypeInv, PeopleInv, [Next]_vars, Excused PROVE Excused'
<1>1. ASSUME NEW c \in Clients, TwoLoads(c) PROVE TwoLoads(c)'
  BY <1>1, SentGrows DEF TwoLoads
<1>2. ASSUME NEW c \in Playing, c \notin Connected PROVE c \in Playing' /\ c \notin Connected'
  <2>1. c \in Clients /\ life[c] # "new"
    BY <1>2 DEF PeopleInv, Registered, TypeInv, TypeOK, ServerTypeOK
  <2>2. ~RemoveClient(c)
    BY <1>2, <2>1 DEF RemoveClient, Connected
  <2> QED
    BY <1>2, <2>1, <2>2, EntriesStay, WhoConnects
<1> QED
  BY <1>1, <1>2 DEF Excused

(* What exists after a step did so before or was pushed by it. *)
LEMMA WhoExists ==
  ASSUME Order = "fifo", TypeInv, IdInv, DelInv, [Next]_vars, NEW id \in Nat, Exists(id)'
  PROVE  Exists(id) \/ PhysPush(AddChar(id))
<1> DEFINE Goal == Exists(id) \/ PhysPush(AddChar(id))
<1>0. /\ id \in DOMAIN m_characters' \/ \E i \in PhysSpots' : PhysAt(i)' = AddChar(id)
      /\ \A i \in PhysSpots' : PhysAt(i)' # DelChar(id)
      /\ PhysAt(0) = physMsg /\ 0 \in PhysSpots
  BY PhysTyped DEF Exists, PhysAt
<1>1. ASSUME NEW msg \in PhysMsgs, PhysPush(msg) PROVE Goal
  <2>1. m_characters' = m_characters
    BY <1>1 DEF PhysPush
  <2> QED
    BY <1>0, <1>1, <2>1, PhysPushed DEF Exists
<1>2. ASSUME UNCHANGED <<physQueue, physMsg>>, DOMAIN m_characters' \subseteq DOMAIN m_characters
      PROVE  Goal
  <2>1. PhysSpots' = PhysSpots /\ \A i \in PhysSpots : PhysAt(i)' = PhysAt(i)
    BY <1>2 DEF PhysSpots, PhysAt
  <2> QED
    BY <1>0, <1>2, <2>1 DEF Exists
<1>3. ASSUME Parsed, PhysAt(0) # DelChar(id),
             id \in DOMAIN m_characters' => id \in DOMAIN m_characters \/ PhysAt(0) = AddChar(id)
      PROVE  Goal
  <2>1. /\ PhysSpots' = PhysSpots /\ PhysAt(0)' = NoMsg
        /\ \A i \in PhysSpots : i # 0 => PhysAt(i)' = PhysAt(i)
    BY <1>3, PhysParsed
  <2>2. NoMsg # AddChar(id)
    BY DEF NoMsg, AddChar
  <2> QED
    BY <1>0, <1>3, <2>1, <2>2 DEF Exists
<1>4. CASE PhysPop
  <2>1. PICK move \in [PhysSpots' -> PhysSpots \ {0}] :
          /\ \A i \in PhysSpots' : PhysAt(i)' = PhysAt(move[i])
          /\ \A j \in PhysSpots \ {0} : \E i \in PhysSpots' : move[i] = j
    BY <1>4, PhysPopped
  <2>2. PhysAt(0) # DelChar(id)
    BY <1>4, PhysPopped DEF NoMsg, DelChar
  <2>3. m_characters' = m_characters
    BY <1>4 DEF PhysPop
  <2> QED
    BY <1>0, <2>1, <2>2, <2>3 DEF Exists
<1>5. CASE PhysCleanup
  BY <1>2, <1>5 DEF PhysCleanup, EmptyMap
<1>6. CASE ParseAddPhys
  <2>1. physMsg.type = "AddPhys" /\ m_characters' = m_characters
    BY <1>6 DEF ParseAddPhys, Parsing
  <2> QED
    BY <1>0, <1>3, <1>6, <2>1, ParsingMessage DEF DelChar
<1>7. CASE ParseAddChar
  <2>1. DOMAIN m_characters' = DOMAIN m_characters \cup {physMsg.objid} /\ physMsg.type = "AddChar"
    BY <1>7 DEF ParseAddChar, Assign, Parsing
  <2>2. PhysAt(0) = AddChar(physMsg.objid)
    BY <1>0, <2>1, MessageForm
  <2>3. PhysAt(0) # DelChar(id)
    BY <1>0, <2>1 DEF DelChar
  <2> QED
    BY <1>3, <1>7, <2>1, <2>2, <2>3, ParsingMessage
<1>8. CASE ParseDelChar
  <2>1. /\ DOMAIN m_characters' = DOMAIN m_characters \ {physMsg.objid}
        /\ physMsg.type = "DelChar" /\ physPc \notin {"ended", "gone"}
    BY <1>8, ParsingMessage DEF ParseDelChar, Erase, Parsing, TypeInv, TypeOK, PhysTypeOK
  <2>2. CASE physMsg.objid = id
    <3>1. MadeBy(id, 0)
      BY <1>0, <2>1, <2>2 DEF DelInv
    <3>2. id \in DOMAIN m_characters
      BY <3>1, PhysTyped DEF MadeBy
    <3>3. ASSUME NEW i \in PhysSpots, PhysAt(i) = AddChar(id) PROVE FALSE
      <4>1. IsAdd(i) /\ PhysAt(i).objid = id
        BY <3>3 DEF IsAdd, AddChar
      <4> QED
        BY <3>2, <4>1 DEF IdInv, AddsAreNew
    <3>4. \A i \in PhysSpots' : PhysAt(i)' # AddChar(id)
      <4>1. NoMsg # AddChar(id)
        BY DEF NoMsg, AddChar
      <4> QED
        BY <1>8, <3>3, <4>1, ParsingMessage, PhysParsed
    <3> QED
      BY <1>0, <2>1, <2>2, <3>4
  <2>3. CASE physMsg.objid # id
    <3>1. PhysAt(0) # DelChar(id)
      BY <1>0, <2>3 DEF DelChar
    <3> QED
      BY <1>3, <1>8, <2>1, <3>1, ParsingMessage
  <2> QED
    BY <2>2, <2>3
<1>9. CASE PhysicsInput
  <2>1. physMsg.type = "Input" /\ DOMAIN m_characters' = DOMAIN m_characters
    BY <1>9, InputSet DEF PhysicsInput, ParseInput, Parsing
  <2>2. PhysAt(0) # DelChar(id)
    BY <1>0, <2>1 DEF DelChar
  <2> QED
    BY <1>3, <1>9, <2>1, <2>2, ParsingMessage
<1> QED
  BY <1>1, <1>2, <1>4, <1>5, <1>6, <1>7, <1>8, <1>9, PhysicsSteps


(* A push is of one message, and it changes the row. *)
LEMMA PushIsOne ==
  ASSUME TypeInv, NEW m \in PhysMsgs, PhysPush(m)
  PROVE  /\ physQueue' # physQueue
         /\ ~PhysPop /\ physMsg' = physMsg
         /\ \A n \in PhysMsgs : PhysPush(n) => n = m
<1>1. /\ Len(physQueue) \in Nat /\ Len(physQueue') = Len(physQueue) + 1
      /\ physQueue'[Len(physQueue) + 1] = m
      /\ \A n \in PhysMsgs : PhysPush(n) => physQueue'[Len(physQueue) + 1] = n
  BY AppendProperties, LenProperties DEF PhysPush, TypeInv, MsgTypes
<1>2. physQueue' # physQueue
  BY <1>1
<1>3. physMsg' = physMsg /\ ~PhysPop
  BY PopFindsMessage DEF PhysPush
<1> QED
  BY <1>1, <1>2, <1>3

LEMMA WhoAddsCharacters ==
  ASSUME TypeInv, [Next]_vars, NEW id \in Nat, PhysPush(AddChar(id))
  PROVE  id = m_next_id /\ (LoadBaddie \/ HandleLoadPlayer)
<1>0. /\ AddChar(id) \in PhysMsgs /\ AddChar(id).type = "AddChar" /\ AddChar(id).objid = id
      /\ m_next_id \in Nat
      /\ \A c \in Playing : m_clients[c] \in Nat
      /\ srvMsg \in SrvMsgs \cup {NoMsg}
  BY DEF AddChar, PhysMsgs, TypeInv, MsgTypes, TypeOK, ServerTypeOK
<1>1. physQueue' # physQueue /\ physMsg' = physMsg /\ ~PhysPop
      /\ \A n \in PhysMsgs : PhysPush(n) => n = AddChar(id)
  BY <1>0, PushIsOne
<1>2. CASE ServerStep
  <2>1. CASE LoadBaddie \/ HandleLoadPlayer
    <3>1. PhysPush(AddChar(m_next_id)) /\ AddChar(m_next_id) \in PhysMsgs
      BY <1>0, <2>1 DEF LoadBaddie, HandleLoadPlayer, AddChar, PhysMsgs
    <3>2. AddChar(m_next_id).objid = m_next_id
      BY DEF AddChar
    <3> QED
      BY <1>0, <1>1, <2>1, <3>1, <3>2
  <2>2. ASSUME NEW known \in BOOLEAN, LoadBlocker(known) PROVE FALSE
    <3>1. PhysPush(AddPhys(m_next_id, known)) /\ AddPhys(m_next_id, known) \in PhysMsgs
          /\ AddPhys(m_next_id, known).type = "AddPhys"
      BY <1>0, <2>2 DEF LoadBlocker, AddPhys, PhysMsgs
    <3> QED
      BY <1>0, <1>1, <3>1
  <2>3. CASE HandleInput
    <3>1. PhysPush(srvMsg) /\ srvMsg.type = "Input"
      BY <2>3 DEF HandleInput, Handling
    <3>2. srvMsg \in PhysMsgs
      BY <1>0, <3>1 DEF PhysMsgs, SrvMsgs, NoMsg
    <3> QED
      BY <1>0, <1>1, <3>1, <3>2
  <2> QED
    BY <1>1, <1>2, <2>1, <2>2, <2>3 DEF ServerStep, WorldLoaded, ServerPop, HandleShutdown, PhysFinish,
       DeletePhysics, CloseClients, Terminate, physVars
<1>3. CASE PhysicsStep
  BY <1>1, <1>3 DEF PhysicsStep, PhysInternal, PhysLoop, PhysCleanup, ParseAddPhys, ParseAddChar,
     ParseDelChar, Parsed, PhysicsInput, ParseInput, RunTickCallbacks, PhysTick,
     PushClientTransforms, PhysTransforms, PhysicsEnds, PhysNotify
<1>4. CASE ClientStep
  <2>1. ASSUME NEW c \in Clients, RemoveClient(c) PROVE FALSE
    <3>1. IdOf(c) # 0 /\ PhysPush(DelChar(IdOf(c)))
      BY <1>1, <2>1 DEF RemoveClient, physVars
    <3>2. IdOf(c) \in Nat
      BY <1>0, <3>1 DEF IdOf, Lookup, Playing
    <3>3. DelChar(IdOf(c)) \in PhysMsgs /\ DelChar(IdOf(c)).type = "DelChar"
      BY <3>2 DEF DelChar, PhysMsgs
    <3> QED
      BY <1>0, <1>1, <3>1, <3>3
  <2> QED
    BY <1>1, <1>4, <2>1 DEF ClientStep, AddClient, DeleteClient, SendLoadPlayer, SendInput, Send,
       SendShutdown, physVars
<1>5. CASE UNCHANGED vars
  BY <1>1, <1>5 DEF vars, physVars
<1> QED
  BY <1>2, <1>3, <1>4, <1>5 DEF Next

LEMMA BaddiesStay == [Next]_vars => m_baddies \subseteq m_baddies'
<1>1. ServerStep => m_baddies \subseteq m_baddies'
  BY DEF ServerStep, LoadBaddie, LoadBlocker, WorldLoaded, ServerPop, HandleInput, HandleLoadPlayer,
     HandleShutdown, DeletePhysics, CloseClients, Terminate
<1>2. PhysicsStep => m_baddies \subseteq m_baddies'
  BY DEF PhysicsStep, PhysicsInput, RunTickCallbacks, PushClientTransforms, PhysicsEnds, serverVars
<1>3. ClientStep => m_baddies \subseteq m_baddies'
  BY DEF ClientStep, AddClient, RemoveClient, DeleteClient, SendLoadPlayer, SendInput, Send,
     SendShutdown, serverVars
<1> QED
  BY <1>1, <1>2, <1>3 DEF Next, vars, serverVars

LEMMA OrphanInvStep ==
  ASSUME Order = "fifo", ServerInv, DelInv, LoadInv, OrphanInv, [Next]_vars PROVE OrphanInv'
<1>0. TypeInv /\ IdInv /\ PeopleInv /\ m_next_id \in Nat
  BY DEF ServerInv, TypeInv, TypeOK, ServerTypeOK
<1>1. ASSUME NEW c \in Clients, TwoLoads(c) PROVE TwoLoads(c)'
  BY <1>0, <1>1, SentGrows DEF TwoLoads
<1>2. ASSUME NEW c \in Clients, SentOf(c, "LoadPlayer") # {}, NEW msg \in SrvMsgs, SentBy(msg, c),
             msg.type = "LoadPlayer"
      PROVE  TwoLoads(c)'
  <2>1. /\ SentOf(c, "LoadPlayer")' = SentOf(c, "LoadPlayer") \cup {Len(sent[c]) + 1}
        /\ Len(sent[c]) + 1 \notin SentOf(c, "LoadPlayer")
    BY <1>0, <1>2, SentAppended DEF SentBy
  <2> QED
    BY <1>2, <2>1 DEF TwoLoads
(* What is known of a load that waits after the step. *)
<1>3. ASSUME NEW i \in SrvSpots', SrvAt(i)'.type = "LoadPlayer"
      PROVE  /\ SrvAt(i)'.sender \in Clients
             /\ \/ /\ SrvFrom(i) \in SrvSpots /\ SrvAt(i)' = SrvAt(SrvFrom(i))
                   /\ Handle => i # 0
                \/ /\ SrvAt(i)' \in SrvMsgs /\ SentBy(SrvAt(i)', SrvAt(i)'.sender)
                   /\ \A j \in SrvSpots : j < i
  <2>1. SrvAt(i)' # NoMsg /\ SrvAt(i)'.type # "Shutdown"
    BY <1>3 DEF NoMsg
  <2>2. \A c \in Clients : SentBy(SrvAt(i)', c) => SrvAt(i)'.sender = c
    BY DEF SentBy, InputOf, Load
  <2>3. SrvAt(i)' \in SrvMsgs
    BY <1>0, <2>1, SrvRowMoves, SrvTyped
  <2>4. SrvAt(i)'.sender \in Clients
    BY <1>3, <2>3 DEF SrvMsgs
  <2> QED
    BY <1>0, <2>1, <2>2, <2>4, SrvRowMoves
<1>4. ASSUME NEW msg \in SrvMsgs, msg.type = "LoadPlayer", NEW c \in Clients, SentBy(msg, c)
      PROVE  SentOf(c, "LoadPlayer")' # {}
  BY <1>0, <1>4, SentAppended DEF SentBy
<1>5. ASSUME NEW i \in SrvSpots', SrvAt(i)'.type = "LoadPlayer", NEW c, c = SrvAt(i)'.sender
      PROVE  SentOf(c, "LoadPlayer")' # {}
  <2>0. c \in Clients
    BY <1>3, <1>5
  <2>1. CASE SrvFrom(i) \in SrvSpots /\ SrvAt(i)' = SrvAt(SrvFrom(i))
    <3>1. SentOf(c, "LoadPlayer") # {}
      BY <1>5, <2>1 DEF OrphanInv
    <3> QED
      BY <1>0, <2>0, <3>1, SentGrows
  <2>2. CASE SrvAt(i)' \in SrvMsgs /\ SentBy(SrvAt(i)', c)
    BY <1>4, <1>5, <2>0, <2>2
  <2> QED
    BY <1>3, <1>5, <2>1, <2>2
<1>6. ASSUME NEW c \in Connected', c \in Playing' PROVE SentOf(c, "LoadPlayer")' # {}
  <2>1. c \in Clients
    BY DEF Connected
  <2>2. CASE c \in Connected \cap Playing
    BY <1>0, <2>1, <2>2, SentGrows DEF OrphanInv
  <2>3. CASE HandleLoadPlayer /\ srvMsg.sender = c
    <3>1. 0 \in SrvSpots /\ SrvAt(0) = srvMsg /\ srvMsg.type = "LoadPlayer"
      BY <1>0, <2>3, SrvTyped DEF SrvAt, HandleLoadPlayer, Handling
    <3> QED
      BY <1>0, <2>1, <2>3, <3>1, SentGrows DEF OrphanInv
  <2>4. CASE PhysicsInput /\ physMsg.sender = c /\ c \in Connected
    <3>1. 0 \in PhysSpots /\ PhysAt(0) = physMsg /\ physMsg.type = "Input"
      BY <1>0, <2>4, PhysTyped DEF PhysAt, PhysicsInput, Parsing
    <3> QED
      BY <2>2, <2>4, <3>1 DEF LoadInv
  <2>5. ASSUME c \notin Connected PROVE life[c] = "new" /\ life' # life
    <3>1. AddClient(c) /\ life[c] = "new"
      BY <1>0, <2>5, WhoConnects
    <3> QED
      BY <3>1, <1>6, <2>5 DEF Connected
  <2>6. HandleLoadPlayer \/ PhysicsInput => life' = life
    BY DEF HandleLoadPlayer, PhysicsInput, clientVars
  <2>7. c \in Connected
    BY <1>0, <1>6, <2>1, <2>5, <2>6, WhoPlays, NewcomersAreSilent DEF Registered
  <2> QED
    BY <1>0, <1>6, <2>2, <2>3, <2>4, <2>7, WhoPlays
<1>7. ASSUME NEW i \in SrvSpots', NEW j \in SrvSpots', NEW msg, msg = SrvAt(i)', msg = SrvAt(j)',
             i # j, msg.type = "LoadPlayer"
      PROVE  TwoLoads(msg.sender)'
  <2>0. msg.sender \in Clients
    BY <1>3, <1>7
  <2>1. CASE SrvFrom(i) \in SrvSpots /\ msg = SrvAt(SrvFrom(i))
             /\ SrvFrom(j) \in SrvSpots /\ msg = SrvAt(SrvFrom(j))
    <3>1. SrvFrom(i) # SrvFrom(j)
      BY <1>7, <1>0, TypeInvStep, LenProperties DEF SrvFrom, SrvSpots, TypeInv, MsgTypes
    <3> QED
      BY <1>1, <1>7, <2>0, <2>1, <3>1 DEF OrphanInv
  <2>2. ASSUME NEW k \in SrvSpots, msg = SrvAt(k), msg \in SrvMsgs, SentBy(msg, msg.sender)
        PROVE  TwoLoads(msg.sender)'
    BY <1>2, <1>7, <2>0, <2>2 DEF OrphanInv
  <2>3. CASE (\A k \in SrvSpots : k < i) /\ (\A k \in SrvSpots : k < j) /\ SentBy(msg, msg.sender)
    <3>1. \E new \in Nat : SrvSpots' = SrvSpots \cup {new} /\ \A k \in SrvSpots : k < new
      <4>1. msg \in SrvMsgs
        BY <1>7, <1>3, <1>0, SrvTyped DEF NoMsg
      <4> QED
        BY <1>0, <2>3, <4>1, SrvPushed DEF SentBy, Send
    <3>2. i \notin SrvSpots /\ j \notin SrvSpots
      BY <1>0, <2>3, SrvTyped
    <3> QED
      BY <1>7, <3>1, <3>2
  <2> QED
    BY <1>3, <1>7, <2>1, <2>2, <2>3
<1>8. ASSUME NEW i \in SrvSpots', NEW msg, msg = SrvAt(i)', msg.type = "LoadPlayer",
             msg.sender \in Connected', msg.sender \in Playing'
      PROVE  TwoLoads(msg.sender)'
  <2> DEFINE c == msg.sender
  <2>0. c \in Clients
    BY <1>3, <1>8
  <2>1. CASE SrvFrom(i) \in SrvSpots /\ msg = SrvAt(SrvFrom(i)) /\ (Handle => i # 0)
    <3>1. c \in Connected
      BY <1>0, <1>8, <2>0, <2>1, WhoConnects, NewcomersAreSilent
    <3>2. CASE c \in Playing
      BY <1>1, <1>8, <2>0, <2>1, <3>1, <3>2 DEF OrphanInv
    <3>3. CASE HandleLoadPlayer /\ srvMsg.sender = c
      <4>1. Handle /\ SrvFrom(i) = i /\ SrvAt(0) = srvMsg
        BY <1>0, <3>3, HandlingMessage DEF Handle, SrvFrom
      <4>2. srvMsg.type = "LoadPlayer" /\ srvMsg \in SrvMsgs \cup {NoMsg} /\ msg \in SrvMsgs \cup {NoMsg}
        BY <1>0, <2>1, <3>3, SrvTyped DEF HandleLoadPlayer, Handling, TypeInv, MsgTypes
      <4>3. SrvAt(0) = msg
        BY <1>8, <3>3, <4>1, <4>2 DEF SrvMsgs, NoMsg
      <4>4. 0 \in SrvSpots /\ i # 0 /\ i \in SrvSpots /\ SrvAt(i) = msg
        BY <1>0, <2>1, <4>1, SrvTyped
      <4> QED
        BY <1>1, <1>8, <2>0, <4>3, <4>4 DEF OrphanInv
    <3>4. CASE PhysicsInput /\ physMsg.sender = c
      <4>1. 0 \in PhysSpots /\ PhysAt(0) = physMsg /\ physMsg.type = "Input"
        BY <1>0, <3>4, PhysTyped DEF PhysAt, PhysicsInput, Parsing
      <4> QED
        BY <3>1, <3>2, <3>4, <4>1 DEF LoadInv
    <3> QED
      BY <1>0, <1>8, <3>2, <3>3, <3>4, WhoPlays
  <2>2. CASE msg \in SrvMsgs /\ SentBy(msg, c)
    <3>1. c \in Connected /\ Playing' = Playing
      BY <2>0, <2>2 DEF SentBy, Send, Connected, Playing
    <3>2. SentOf(c, "LoadPlayer") # {}
      BY <1>8, <3>1 DEF OrphanInv
    <3> QED
      BY <1>2, <1>8, <2>0, <2>2, <3>2
  <2> QED
    BY <1>3, <1>8, <2>1, <2>2
<1>9. ASSUME ~Excused', NEW id \in Nat, Exists(id)'
      PROVE  id \in m_baddies' \/ \E c \in Players' : m_clients'[c] = id
  <2>0. ~Excused
    BY <1>0, <1>9, ExcusedForGood
  <2>1. ASSUME NEW c \in Players, m_clients[c] = id
        PROVE  \E d \in Players' : m_clients'[d] = id
    <3>1. c \in Clients /\ c \in Playing /\ id # 0
      BY <1>0, <2>1 DEF Players, TypeInv, TypeOK, ServerTypeOK
    <3>2. ~RemoveClient(c)
      <4> SUFFICES ASSUME RemoveClient(c) PROVE FALSE
        OBVIOUS
      <4>1. IdOf(c) = id /\ DelChar(id) \in PhysMsgs
        BY <2>1, <3>1 DEF IdOf, Lookup, Playing, DelChar, PhysMsgs
      <4>2. PhysPush(DelChar(id))
        BY <3>1, <4>1 DEF RemoveClient
      <4> QED
        BY <1>0, <1>9, <4>1, <4>2, PhysPushed DEF Exists
    <3> QED
      BY <1>0, <2>1, <3>1, <3>2, EntriesStay DEF Players
  <2>2. CASE Exists(id)
    BY <2>0, <2>1, <2>2, BaddiesStay DEF OrphanInv
  <2>3. CASE PhysPush(AddChar(id))
    <3>1. id = m_next_id /\ (LoadBaddie \/ HandleLoadPlayer)
      BY <1>0, <2>3, WhoAddsCharacters
    <3>2. CASE LoadBaddie
      BY <3>1, <3>2 DEF LoadBaddie
    <3>3. CASE HandleLoadPlayer
      <4> DEFINE c == srvMsg.sender
      <4>1. /\ Playing' = Playing \cup {c}
            /\ c \notin Playing => m_clients'[c] = m_next_id
        BY <3>3, PlayerInserted DEF HandleLoadPlayer, Enrol
      <4>2. CASE c \in Playing
        <5>1. 0 \in SrvSpots /\ SrvAt(0) = srvMsg /\ srvMsg.type = "LoadPlayer" /\ c \in Clients
          BY <1>0, <3>3, SrvTyped DEF SrvAt, HandleLoadPlayer, Handling, TypeInv, MsgTypes, SrvMsgs, NoMsg
        <5>2. c \in Connected \/ Excused
          BY <4>2 DEF Excused
        <5> QED
          BY <2>0, <4>2, <5>1, <5>2 DEF OrphanInv, Excused
      <4>3. CASE c \notin Playing
        <5>1. m_next_id # 0
          BY <1>0, NextIsNew
        <5> QED
          BY <3>1, <4>1, <4>3, <5>1 DEF Players
      <4> QED
        BY <4>2, <4>3
    <3> QED
      BY <3>1, <3>2, <3>3
  <2> QED
    BY <1>0, <1>9, <2>2, <2>3, WhoExists
<1>10. OrphanInv!1'
  BY <1>6
<1>11. OrphanInv!2'
  BY <1>5
<1>12. OrphanInv!3'
  BY <1>7
<1>13. OrphanInv!4'
  BY <1>8
<1>14. OrphanInv!5'
  BY <1>9
<1> QED
  BY <1>10, <1>11, <1>12, <1>13, <1>14 DEF OrphanInv


(* Two loads sent are two elements. *)
LEMMA OneLoadEach ==
  ASSUME TypeInv, NEW c \in Clients, Cardinality(SentOf(c, "LoadPlayer")) <= 1
  PROVE  ~TwoLoads(c)
<1> SUFFICES ASSUME NEW i \in SentOf(c, "LoadPlayer"), NEW j \in SentOf(c, "LoadPlayer"), i # j
             PROVE  FALSE
  BY DEF TwoLoads
<1>1. IsFiniteSet(SentOf(c, "LoadPlayer"))
  <2>1. Len(sent[c]) \in Nat
    BY LenProperties DEF TypeInv, MsgTypes
  <2>2. SentOf(c, "LoadPlayer") \subseteq 1..Len(sent[c])
    BY DEF SentOf
  <2>3. IsFiniteSet(1..Len(sent[c]))
    BY <2>1, FS_Interval
  <2> QED
    BY <2>2, <2>3, FS_Subset
<1>2. {i, j} \subseteq SentOf(c, "LoadPlayer")
  OBVIOUS
<1>3. IsFiniteSet({i}) /\ Cardinality({i}) = 1 /\ {i} \cup {j} = {i, j} /\ j \notin {i}
  BY FS_Singleton
<1>4. IsFiniteSet({i, j}) /\ Cardinality({i, j}) = 2
  BY <1>3, FS_AddElement
<1>5. Cardinality({i, j}) <= Cardinality(SentOf(c, "LoadPlayer"))
  BY <1>1, <1>2, FS_Subset
<1>6. Cardinality(SentOf(c, "LoadPlayer")) \in Nat
  BY <1>1, FS_CardinalityType
<1> QED
  BY <1>4, <1>5, <1>6

LEMMA OrphanInvNoOrphans == TypeInv /\ OrphanInv => NoOrphanCharacters
<1> SUFFICES ASSUME TypeInv, OrphanInv, Quiet, Playing \subseteq Connected,
                    \A c \in Clients : Cardinality(SentOf(c, "LoadPlayer")) <= 1,
                    NEW id \in DOMAIN m_characters
             PROVE  id \in PlayerIds \cup m_baddies
  BY DEF NoOrphanCharacters
<1>1. id \in Nat /\ Exists(id)
  BY QuietRows DEF TypeInv, TypeOK, PhysTypeOK
<1>2. ~Excused
  BY OneLoadEach DEF Excused
<1>3. id \in m_baddies \/ \E c \in Players : m_clients[c] = id
  BY <1>1, <1>2 DEF OrphanInv
<1> QED
  BY <1>3 DEF PlayerIds

-----------------------------------------------------------------------------
(* What becomes of a message that waits for physics. *)
LEMMA RowStays ==
  ASSUME Order = "fifo", TypeInv, [Next]_vars,
         NEW j \in PhysSpots, PhysAt(j) # NoMsg, Parsed => j # 0
  PROVE  \E i \in PhysSpots' : From(i) = j /\ PhysAt(i)' = PhysAt(j)
<1> DEFINE Goal == \E i \in PhysSpots' : From(i) = j /\ PhysAt(i)' = PhysAt(j)
<1>1. ASSUME NEW msg \in PhysMsgs, PhysPush(msg) PROVE Goal
  BY <1>1, PushIsOne, PhysPushed DEF From
<1>2. ASSUME UNCHANGED <<physQueue, physMsg>> PROVE Goal
  BY <1>2, PopFindsMessage DEF From, PhysSpots, PhysAt
<1>3. ASSUME Parsed, physMsg # NoMsg PROVE Goal
  BY <1>3, PhysParsed DEF From, PhysPop
<1>4. CASE PhysPop
  BY <1>4, PhysPopped DEF From
<1>5. CASE PhysCleanup
  BY <1>2, <1>5 DEF PhysCleanup
<1> QED
  BY <1>1, <1>2, <1>3, <1>4, <1>5, ParsingMessage, PhysicsSteps

(* A place is a number, before and after a step; order is kept. *)
LEMMA Places ==
  ASSUME TypeInv, [Next]_vars
  PROVE  /\ \A i \in PhysSpots' : i \in Nat /\ From(i) \in Nat
         /\ \A i, k \in PhysSpots' : i <= k <=> From(i) <= From(k)
         /\ \A i \in SrvSpots' : i \in Nat /\ SrvFrom(i) \in Nat
         /\ \A i, k \in SrvSpots' : i <= k <=> SrvFrom(i) <= SrvFrom(k)
<1>1. Len(physQueue') \in Nat /\ Len(srvQueue') \in Nat
  BY TypeInvStep, LenProperties DEF TypeInv, MsgTypes
<1>2. \A i \in PhysSpots' \cup SrvSpots' : i \in Nat
  BY <1>1 DEF PhysSpots, SrvSpots
<1> QED
  BY <1>2 DEF From, SrvFrom

(* The character of a player goes on as it is but for its own inputs. *)
LEMMA CharacterStays ==
  ASSUME ServerInv, [Next]_vars, physPc' \notin {"ended", "gone"},
         NEW c \in Players, c \in Connected', m_clients[c] \in DOMAIN m_characters,
         ~(PhysicsInput /\ physMsg.sender = c)
  PROVE  /\ m_clients[c] \in DOMAIN m_characters'
         /\ m_characters'[m_clients[c]] = m_characters[m_clients[c]]
<1> DEFINE id == m_clients[c]
           Goal == id \in DOMAIN m_characters' /\ m_characters'[id] = m_characters[id]
<1>0. /\ TypeInv /\ IdInv /\ id # 0 /\ id \notin m_baddies /\ c \in Playing
      /\ PhysAt(0) = physMsg /\ 0 \in PhysSpots
  BY PhysTyped DEF ServerInv, IdInv, PlayersDiffer, Players, PhysAt
<1>1. ASSUME m_characters' = m_characters PROVE Goal
  BY <1>1
<1>2. CASE ServerStep
  BY <1>1, <1>2 DEF ServerStep, LoadBaddie, LoadBlocker, WorldLoaded, ServerPop, HandleInput,
     HandleLoadPlayer, HandleShutdown, DeletePhysics, CloseClients, Terminate, PhysPush,
     PhysFinish, physVars
<1>3. CASE ClientStep
  BY <1>1, <1>3 DEF ClientStep, AddClient, RemoveClient, DeleteClient, SendLoadPlayer, SendInput, Send,
     SendShutdown, PhysPush, physVars
<1>4. CASE UNCHANGED vars
  BY <1>1, <1>4 DEF vars, physVars
<1>5. CASE ParseAddChar
  <2>1. IsAdd(0)
    BY <1>0, <1>5 DEF ParseAddChar, Parsing, IsAdd
  <2>2. physMsg.objid \notin DOMAIN m_characters
    BY <1>0, <2>1 DEF IdInv, AddsAreNew
  <2> QED
    BY <1>5, <2>2 DEF ParseAddChar, Assign
<1>6. CASE ParseDelChar
  <2>1. IsDel(0)
    BY <1>0, <1>6 DEF ParseDelChar, Parsing, IsDel
  <2>2. physMsg.objid # id
    BY <1>0, <2>1 DEF IdInv, PlayersDiffer
  <2> QED
    BY <1>6, <2>2 DEF ParseDelChar, Erase
<1>7. CASE PhysicsInput
  <2> DEFINE d == physMsg.sender
  <2>1. SetInput(m_clients'[d], physMsg.state) /\ m_clients' = Insert(m_clients, d, 0)
    BY <1>7 DEF PhysicsInput, ParseInput
  <2>2. /\ d \in Playing => m_clients'[d] = m_clients[d]
        /\ d \notin Playing => m_clients'[d] = 0
    BY <2>1, PlayerInserted
  <2>3. m_clients'[d] # id
    BY <1>0, <1>7, <2>2 DEF IdInv, PlayersDiffer, Players
  <2> QED
    BY <2>1, <2>3, InputSet
<1>8. CASE RunTickCallbacks
  <2>0. PICK S \in BaddieViews : \E s :
           m_characters' = [i \in DOMAIN m_characters |-> IF i \in S THEN s ELSE m_characters[i]]
    BY <1>8 DEF RunTickCallbacks, PhysTick
  <2>1. PICK s :
           m_characters' = [i \in DOMAIN m_characters |-> IF i \in S THEN s ELSE m_characters[i]]
    BY <2>0
  <2>2. id \notin S
    BY <1>0, <2>1 DEF BaddieViews
  <2> QED
    BY <2>1, <2>2
<1>9. CASE PhysCleanup
  BY <1>9 DEF PhysCleanup
<1>10. CASE PhysicsStep
  BY <1>1, <1>5, <1>6, <1>7, <1>8, <1>9, <1>10 DEF PhysicsStep, PhysInternal, PhysLoop, PhysPop,
     ParseAddPhys, PushClientTransforms, PhysTransforms, PhysicsEnds, PhysNotify
<1> QED
  BY <1>2, <1>3, <1>4, <1>10 DEF Next


LEMMA InputInvInit == Init => InputInv
<1> SUFFICES ASSUME Init PROVE InputInv
  OBVIOUS
<1>1. PhysSpots = {0} /\ PhysAt(0) = NoMsg /\ SrvSpots = {0} /\ SrvAt(0) = NoMsg
  BY EmptySeq DEF Init, PhysInit, PhysSpots, PhysAt, SrvSpots, SrvAt
<1>2. Connected = {}
  BY DEF Init, Connected
<1>3. \A c : InSrv(c) = {} /\ InPhys(c) = {}
  BY <1>1 DEF InSrv, InPhys, InputOf, NoMsg
<1> QED
  BY <1>2, <1>3 DEF InputInv

LEMMA InputForm ==
  TypeInv => /\ \A c : \A i \in InSrv(c) : SrvAt(i) # NoMsg /\ SrvAt(i).state \in Inputs /\ c \in Clients
             /\ \A c : \A i \in InPhys(c) : PhysAt(i) # NoMsg /\ PhysAt(i).state \in Inputs /\ c \in Clients
<1> SUFFICES ASSUME TypeInv
             PROVE  /\ \A c : \A i \in InSrv(c) : SrvAt(i) # NoMsg /\ SrvAt(i).state \in Inputs /\ c \in Clients
                    /\ \A c : \A i \in InPhys(c) : PhysAt(i) # NoMsg /\ PhysAt(i).state \in Inputs /\ c \in Clients
  OBVIOUS
<1>1. ASSUME NEW c, NEW i \in InSrv(c)
      PROVE  SrvAt(i) # NoMsg /\ SrvAt(i).state \in Inputs /\ c \in Clients
  <2>1. SrvAt(i) \in SrvMsgs \cup {NoMsg} /\ SrvAt(i).type = "Input" /\ SrvAt(i).sender = c
    BY SrvTyped DEF InSrv, InputOf
  <2> QED
    BY <2>1 DEF SrvMsgs, NoMsg
<1>2. ASSUME NEW c, NEW i \in InPhys(c)
      PROVE  PhysAt(i) # NoMsg /\ PhysAt(i).state \in Inputs /\ c \in Clients
  <2>1. PhysAt(i) \in PhysMsgs \cup {NoMsg} /\ PhysAt(i).type = "Input" /\ PhysAt(i).sender = c
    BY PhysTyped DEF InPhys, InputOf
  <2> QED
    BY <2>1 DEF PhysMsgs, NoMsg
<1> QED
  BY <1>1, <1>2

(* An input that waits for the server goes on to wait, or is handed to     *)
(* physics; one that waits for physics goes on to wait, or is parsed.      *)
LEMMA InputsWait ==
  ASSUME Order = "fifo", TypeInv, [Next]_vars, NEW c \in Clients
  PROVE  /\ \A j \in InSrv(c) : \/ \E i \in InSrv(c)' : SrvFrom(i) = j
                                \/ /\ j = 0 /\ HandleInput /\ srvMsg = SrvAt(0)
                                   /\ \E i \in InPhys(c)' : /\ PhysAt(i)' = srvMsg
                                                            /\ \A k \in PhysSpots : k < i
         /\ \A j \in InPhys(c) : \/ \E i \in InPhys(c)' : From(i) = j
                                 \/ j = 0 /\ PhysicsInput /\ physMsg = PhysAt(0)
<1>1. ASSUME NEW j \in InSrv(c), Handle => j # 0 PROVE \E i \in InSrv(c)' : SrvFrom(i) = j
  <2>1. j \in SrvSpots /\ SrvAt(j) # NoMsg /\ InputOf(SrvAt(j), c)
    BY InputForm DEF InSrv
  <2>2. PICK i \in SrvSpots' : SrvFrom(i) = j /\ SrvAt(i)' = SrvAt(j)
    BY <1>1, <2>1, SrvRowStays
  <2>3. InputOf(SrvAt(i), c)'
    BY <2>1, <2>2 DEF InputOf
  <2> QED
    BY <2>2, <2>3 DEF InSrv
<1>2. ASSUME 0 \in InSrv(c), Handle
      PROVE  /\ HandleInput /\ srvMsg = SrvAt(0)
             /\ \E i \in InPhys(c)' : PhysAt(i)' = srvMsg /\ \A k \in PhysSpots : k < i
  <2>1. srvMsg = SrvAt(0) /\ srvMsg.type = "Input" /\ srvMsg.sender = c
    BY <1>2 DEF InSrv, InputOf, SrvAt
  <2>2. HandleInput
    BY <1>2, <2>1 DEF Handle, HandleInput, HandleLoadPlayer, HandleShutdown, Handling
  <2>3. srvMsg \in PhysMsgs
    BY <2>1 DEF TypeInv, MsgTypes, SrvMsgs, PhysMsgs, NoMsg
  <2>4. PICK new \in Nat : /\ PhysSpots' = PhysSpots \cup {new}
                           /\ PhysAt(new)' = srvMsg
                           /\ \A k \in PhysSpots : k < new /\ PhysAt(k)' = PhysAt(k)
    BY <2>2, <2>3, PhysPushed DEF HandleInput
  <2>5. new \in InPhys(c)'
    BY <2>1, <2>4 DEF InPhys, InputOf
  <2> QED
    BY <2>1, <2>2, <2>4, <2>5
<1>3. ASSUME NEW j \in InPhys(c), Parsed => j # 0 PROVE \E i \in InPhys(c)' : From(i) = j
  <2>1. j \in PhysSpots /\ PhysAt(j) # NoMsg /\ InputOf(PhysAt(j), c)
    BY InputForm DEF InPhys
  <2>2. PICK i \in PhysSpots' : From(i) = j /\ PhysAt(i)' = PhysAt(j)
    BY <1>3, <2>1, RowStays
  <2>3. InputOf(PhysAt(i), c)'
    BY <2>1, <2>2 DEF InputOf
  <2> QED
    BY <2>2, <2>3 DEF InPhys
<1>4. ASSUME 0 \in InPhys(c), Parsed
      PROVE  (\E i \in InPhys(c)' : From(i) = 0) \/ (PhysicsInput /\ physMsg = PhysAt(0))
  <2>1. physMsg = PhysAt(0) /\ physMsg.type = "Input" /\ physMsg # NoMsg
    BY <1>4, InputForm DEF InPhys, InputOf, PhysAt
  <2>2. ~ParseAddPhys /\ ~ParseAddChar /\ ~ParseDelChar
    BY <2>1 DEF ParseAddPhys, ParseAddChar, ParseDelChar, Parsing
  <2>3. physMsg' # physMsg /\ ~PhysPop
    BY <1>4, <2>1, PopFindsMessage DEF Parsed
  <2>4. ~PhysCleanup /\ \A msg \in PhysMsgs : ~PhysPush(msg)
    BY <2>3 DEF PhysCleanup, PhysPush
  <2> QED
    BY <2>1, <2>2, <2>3, <2>4, PhysicsSteps
<1> QED
  BY <1>1, <1>2, <1>3, <1>4

(* An input that is sent waits for the server. *)
LEMMA InputsSent ==
  ASSUME TypeInv, [Next]_vars, NEW c \in Clients
  PROVE  \/ /\ SentOf(c, "Input")' = SentOf(c, "Input")
            /\ \A s : LastSent(c, s) => LastSent(c, s)'
         \/ \E msg \in SrvMsgs : /\ SentBy(msg, c) /\ InputOf(msg, c)
                                 /\ LastSent(c, msg.state)'
                                 /\ \E i \in InSrv(c)' : \A j \in SrvSpots : j < i
<1>1. ASSUME SentOf(c, "Input")' = SentOf(c, "Input"), NEW s, LastSent(c, s) PROVE LastSent(c, s)'
  BY <1>1, SentGrows DEF LastSent
<1>2. ASSUME NEW msg \in SrvMsgs, SentBy(msg, c), msg.type = "Input"
      PROVE  /\ InputOf(msg, c)
             /\ LastSent(c, msg.state)'
             /\ \E i \in InSrv(c)' : \A j \in SrvSpots : j < i
  <2>1. InputOf(msg, c)
    BY <1>2 DEF SentBy, Load
  <2>2. LastSent(c, msg.state)'
    <3> DEFINE n == Len(sent[c]) + 1
    <3>1. /\ SentOf(c, "Input")' = SentOf(c, "Input") \cup {n}
          /\ \A i \in SentOf(c, "Input") : i \in Nat /\ i < n
          /\ sent'[c][n] = msg /\ n \in Nat
      BY <1>2, SentAppended DEF SentBy
    <3> HIDE DEF n
    <3>2. \A j \in SentOf(c, "Input")' : j <= n
      BY <3>1
    <3>3. n \in SentOf(c, "Input")' /\ sent'[c][n].state = msg.state
      BY <3>1
    <3> QED
      BY <3>2, <3>3 DEF LastSent
  <2>3. PICK new \in Nat : /\ SrvSpots' = SrvSpots \cup {new}
                           /\ SrvAt(new)' = msg
                           /\ \A i \in SrvSpots : i < new /\ SrvAt(i)' = SrvAt(i)
    BY <1>2, SrvPushed DEF SentBy, Send
  <2>4. new \in InSrv(c)'
    BY <2>1, <2>3 DEF InSrv, InputOf
  <2> QED
    BY <2>1, <2>2, <2>3, <2>4
<1> QED
  BY <1>1, <1>2, SentGrows


LEMMA InputInvStep ==
  ASSUME Order = "fifo", ServerInv, DelInv, LoadInv, InputInv, [Next]_vars PROVE InputInv'
<1>0. TypeInv /\ IdInv /\ PeopleInv /\ ViewInv
  BY DEF ServerInv
<1>1. ASSUME NEW c \in Connected', NEW i \in InPhys(c)', physPc' \notin {"ended", "gone"}
      PROVE  \E id \in Nat : m_clients'[c] = id /\ MadeBy(id, i)'
  <2>0. i \in PhysSpots' /\ PhysAt(i)'.type = "Input" /\ PhysAt(i)'.sender = c /\ c \in Clients
    BY DEF InPhys, InputOf, Connected
  <2>1. CASE From(i) \in PhysSpots /\ PhysAt(i)' = PhysAt(From(i))
    <3>1. PhysAt(From(i)).type = "Input" /\ PhysAt(From(i)).sender = c /\ From(i) \in InPhys(c)
      BY <2>0, <2>1 DEF InPhys, InputOf
    <3>2. c \in Connected /\ ~RemoveClient(c)
      BY <1>0, <2>0, <2>1, <3>1, WhoConnects, NewcomersAreSilent
    <3>3. PICK id \in Nat : m_clients[c] = id /\ MadeBy(id, From(i))
      BY <1>0, <1>1, <3>1, <3>2, EndedForGood DEF InputInv
    <3>4. c \in Playing /\ m_clients'[c] = id
      BY <1>0, <2>1, <3>1, <3>2, <3>3, EntriesStay DEF LoadInv
    <3>5. ~(ParseDelChar /\ physMsg.objid = id)
      <4>1. ParseDelChar => IsDel(0) /\ 0 \in PhysSpots /\ PhysAt(0) = physMsg
        BY <1>0, PhysTyped DEF ParseDelChar, Parsing, IsDel, PhysAt
      <4> QED
        BY <1>0, <3>3, <3>4, <4>1 DEF IdInv, PlayersDiffer
    <3> QED
      BY <1>0, <1>1, <2>0, <3>3, <3>4, <3>5, MadeByStays
  <2>2. ASSUME NEW msg \in PhysMsgs, msg = PhysAt(i)', PhysPush(msg), PushedFor(msg),
               \A j \in PhysSpots : j < i
        PROVE  \E id \in Nat : m_clients'[c] = id /\ MadeBy(id, i)'
    <3>1. HandleInput /\ srvMsg = msg
      BY <2>0, <2>2 DEF PushedFor, DelChar
    <3>2. 0 \in SrvSpots /\ SrvAt(0) = msg /\ msg.type = "Input" /\ msg.sender = c
      BY <1>0, <2>0, <2>2, <3>1, SrvTyped DEF SrvAt
    <3>3. c \in Connected /\ m_clients' = m_clients
      <4>1. life[c] # "new"
        BY <1>0, <2>0, <3>2, NewcomersAreSilent
      <4> QED
        BY <1>0, <3>1, <4>1, WhoConnects DEF HandleInput
    <3>4. c \in Playing
      <4>1. \A j \in SrvSpots : ~(j < 0)
        BY <1>0, SrvTyped
      <4> QED
        BY <3>2, <3>3, <4>1 DEF LoadInv
    <3>5. c \in Players /\ m_clients[c] \in Nat
      BY <1>0, <3>3, <3>4 DEF LoadInv, Players, TypeInv, TypeOK, ServerTypeOK
    <3>6. Exists(m_clients[c])
      BY <1>0, <1>1, <3>5, EndedForGood DEF ViewInv, Known, PlayerIds
    <3>7. PICK id \in Nat : id = m_clients[c]
      BY <3>5
    <3>8. MadeBy(id, i)'
      BY <1>0, <2>0, <2>2, <3>6, <3>7, PushedAfterMaking
    <3> QED
      BY <3>3, <3>7, <3>8
  <2>3. PhysAt(i)' # NoMsg
    BY <2>0 DEF NoMsg
  <2> QED
    BY <1>0, <2>0, <2>1, <2>2, <2>3, RowMoves
<1>2. ASSUME NEW c \in Clients, NEW i \in InSrv(c)', IsLast(i, InSrv(c))'
      PROVE  \E s \in Inputs : s = SrvAt(i)'.state /\ LastSent(c, s)'
  <2>0. i \in SrvSpots' /\ SrvAt(i)'.type = "Input" /\ SrvAt(i)'.sender = c /\ i \in Nat
    BY <1>0, Places DEF InSrv, InputOf
  <2>1. \A j \in InSrv(c)' : j <= i
    BY <1>2 DEF IsLast
  <2>2. CASE SrvFrom(i) \in SrvSpots /\ SrvAt(i)' = SrvAt(SrvFrom(i))
    <3>1. SrvFrom(i) \in InSrv(c) /\ SrvFrom(i) \in Nat
      BY <1>0, <2>0, <2>2, Places DEF InSrv, InputOf
    <3>2. ASSUME NEW j \in InSrv(c) PROVE j <= SrvFrom(i)
      <4>1. ASSUME NEW k \in InSrv(c)', SrvFrom(k) = j PROVE j <= SrvFrom(i)
        <5>1. k \in SrvSpots' /\ k <= i
          BY <2>1, <4>1 DEF InSrv
        <5> QED
          BY <1>0, <2>0, <4>1, <5>1, Places
      <4> QED
        BY <1>0, <3>1, <4>1, InputsWait
    <3>3. \E s \in Inputs : s = SrvAt(SrvFrom(i)).state /\ LastSent(c, s)
      BY <3>1, <3>2 DEF InputInv, IsLast
    <3>4. ASSUME NEW msg \in SrvMsgs, SentBy(msg, c),
                 NEW k \in InSrv(c)', \A j \in SrvSpots : j < k
          PROVE  FALSE
      <4>1. k \in SrvSpots' /\ k <= i
        BY <2>1 DEF InSrv
      <4>2. SrvFrom(i) = i /\ k \in Nat
        BY <1>0, <3>4, <4>1, Places DEF SrvFrom, SentBy, Send, ServerPop
      <4> QED
        BY <2>0, <2>2, <3>4, <4>1, <4>2
    <3> QED
      BY <1>0, <2>2, <3>3, <3>4, InputsSent
  <2>3. ASSUME NEW msg \in SrvMsgs, msg = SrvAt(i)', NEW d \in Clients, SentBy(msg, d)
        PROVE  \E s \in Inputs : s = msg.state /\ LastSent(c, s)'
    <3>1. msg.type = "Input" /\ msg.sender = c /\ d = c
      BY <2>0, <2>3 DEF SentBy, InputOf, Load
    <3>2. msg.state \in Inputs
      BY <3>1 DEF SrvMsgs
    <3>3. SentOf(c, "Input")' # SentOf(c, "Input")
      BY <1>0, <2>3, <3>1, SentAppended DEF SentBy
    <3>4. PICK n \in SrvMsgs : SentBy(n, c) /\ LastSent(c, n.state)'
      BY <1>0, <3>3, InputsSent
    <3>5. n = msg
      BY <1>0, <2>3, <3>1, <3>4, SentAppended DEF SentBy
    <3> QED
      BY <3>2, <3>4, <3>5
  <2>4. SrvAt(i)' # NoMsg /\ SrvAt(i)'.type # "Shutdown"
    BY <2>0 DEF NoMsg
  <2> QED
    BY <1>0, <2>0, <2>2, <2>3, <2>4, SrvRowMoves
<1>3. ASSUME NEW c \in Clients, InSrv(c)' = {}
      PROVE  /\ SentOf(c, "Input")' = SentOf(c, "Input")
             /\ \A s : LastSent(c, s) => LastSent(c, s)'
             /\ \A j \in InSrv(c) : /\ j = 0 /\ HandleInput /\ srvMsg = SrvAt(0)
                                   /\ \E i \in InPhys(c)' : /\ PhysAt(i)' = srvMsg
                                                            /\ \A k \in PhysSpots : k < i
  BY <1>0, <1>3, InputsSent, InputsWait
<1>4. ASSUME NEW c \in Clients, InSrv(c)' = {}, NEW i \in InPhys(c)', IsLast(i, InPhys(c))'
      PROVE  \E s \in Inputs : s = PhysAt(i)'.state /\ LastSent(c, s)'
  <2>0. i \in PhysSpots' /\ PhysAt(i)'.type = "Input" /\ PhysAt(i)'.sender = c /\ i \in Nat
    BY <1>0, Places DEF InPhys, InputOf
  <2>1. \A j \in InPhys(c)' : j <= i /\ j \in PhysSpots'
    BY <1>4 DEF IsLast, InPhys
  <2>2. CASE From(i) \in PhysSpots /\ PhysAt(i)' = PhysAt(From(i))
    <3>1. From(i) \in InPhys(c) /\ From(i) \in Nat /\ i <= From(i)
      BY <1>0, <2>0, <2>2, Places DEF InPhys, InputOf, From
    <3>2. InSrv(c) = {}
      <4> SUFFICES ASSUME NEW j \in InSrv(c) PROVE FALSE
        OBVIOUS
      <4>1. PICK k \in InPhys(c)' : \A l \in PhysSpots : l < k
        BY <1>3, <1>4
      <4>2. k <= i /\ From(i) < k /\ k \in Nat
        BY <1>0, <2>1, <2>2, <4>1, Places
      <4> QED
        BY <2>0, <3>1, <4>2
    <3>3. ASSUME NEW j \in InPhys(c) PROVE j <= From(i)
      <4>1. ASSUME NEW k \in InPhys(c)', From(k) = j PROVE j <= From(i)
        BY <1>0, <2>0, <2>1, <4>1, Places
      <4> QED
        BY <1>0, <3>1, <4>1, InputsWait
    <3>4. \E s \in Inputs : s = PhysAt(From(i)).state /\ LastSent(c, s)
      BY <3>1, <3>2, <3>3 DEF InputInv, IsLast
    <3> QED
      BY <1>3, <1>4, <2>2, <3>4
  <2>3. ASSUME NEW msg \in PhysMsgs, msg = PhysAt(i)', PushedFor(msg)
        PROVE  \E s \in Inputs : s = msg.state /\ LastSent(c, s)'
    <3>1. HandleInput /\ srvMsg = msg
      BY <2>0, <2>3 DEF PushedFor, DelChar
    <3>2. 0 \in InSrv(c) /\ SrvAt(0) = msg
      BY <1>0, <2>0, <2>3, <3>1, SrvTyped DEF SrvAt, InSrv, InputOf
    <3>3. \A j \in InSrv(c) : j <= 0
      BY <1>3, <1>4
    <3>4. \E s \in Inputs : s = SrvAt(0).state /\ LastSent(c, s)
      BY <3>2, <3>3 DEF InputInv, IsLast
    <3> QED
      BY <1>3, <1>4, <3>2, <3>4
  <2>4. PhysAt(i)' # NoMsg
    BY <2>0 DEF NoMsg
  <2> QED
    BY <1>0, <2>0, <2>2, <2>3, <2>4, RowMoves
<1>5. ASSUME NEW c \in Connected', physPc' \notin {"ended", "gone"}, SentOf(c, "Input")' # {},
             InSrv(c)' = {}, InPhys(c)' = {}
      PROVE  /\ c \in Players'
             /\ m_clients'[c] \in DOMAIN m_characters'
             /\ \E s \in Inputs : s = m_characters'[m_clients'[c]] /\ LastSent(c, s)'
  <2>0. c \in Clients /\ SentOf(c, "Input") # {} /\ \A s : LastSent(c, s) => LastSent(c, s)'
    BY <1>3, <1>5 DEF Connected
  <2>1. c \in Connected /\ ~RemoveClient(c) /\ physPc \notin {"ended", "gone"}
    BY <1>0, <1>5, <2>0, WhoConnects, NewcomersAreSilent, EndedForGood
  <2>2. InSrv(c) = {}
    BY <1>3, <1>5, <2>0
  <2>3. CASE InPhys(c) = {}
    <3>1. /\ c \in Players
          /\ m_clients[c] \in DOMAIN m_characters
          /\ \E s \in Inputs : s = m_characters[m_clients[c]] /\ LastSent(c, s)
      BY <2>0, <2>1, <2>2, <2>3 DEF InputInv
    <3>2. c \in Playing' /\ m_clients'[c] = m_clients[c] /\ m_clients[c] # 0
      BY <1>0, <2>1, <3>1, EntriesStay DEF Players
    <3>3. ~(PhysicsInput /\ physMsg.sender = c)
      <4> SUFFICES ASSUME PhysicsInput, physMsg.sender = c PROVE FALSE
        OBVIOUS
      <4>1. 0 \in InPhys(c)
        BY <1>0, PhysTyped DEF PhysicsInput, Parsing, InPhys, InputOf, PhysAt
      <4> QED
        BY <2>3, <4>1
    <3>4. /\ m_clients[c] \in DOMAIN m_characters'
          /\ m_characters'[m_clients[c]] = m_characters[m_clients[c]]
      BY <1>5, <3>1, <3>3, CharacterStays
    <3> QED
      BY <2>0, <3>1, <3>2, <3>4 DEF Players
  <2>4. ASSUME NEW j \in InPhys(c)
        PROVE  /\ c \in Players'
               /\ m_clients'[c] \in DOMAIN m_characters'
               /\ \E s \in Inputs : s = m_characters'[m_clients'[c]] /\ LastSent(c, s)'
    <3>1. \A k \in InPhys(c) : k = 0 /\ PhysicsInput /\ physMsg = PhysAt(0)
      BY <1>0, <1>5, <2>0, InputsWait
    <3>2. 0 \in InPhys(c) /\ IsLast(0, InPhys(c)) /\ PhysicsInput /\ physMsg = PhysAt(0)
      BY <2>4, <3>1 DEF IsLast
    <3>3. PICK s \in Inputs : s = physMsg.state /\ LastSent(c, s)
      BY <2>0, <2>2, <3>2 DEF InputInv
    <3>4. PICK id \in Nat : m_clients[c] = id /\ MadeBy(id, 0)
      BY <2>1, <3>2 DEF InputInv
    <3>5. id \in DOMAIN m_characters
      BY <1>0, <3>4, PhysTyped DEF MadeBy
    <3>6. c \in Playing /\ id # 0 /\ physMsg.sender = c
      BY <2>1, <3>2, <3>4 DEF LoadInv, InPhys, InputOf
    <3>7. c \in Playing' /\ m_clients'[c] = id
      BY <1>0, <2>1, <3>4, <3>6, EntriesStay
    <3>8. SetInput(m_clients'[c], physMsg.state)
      BY <3>2, <3>6 DEF PhysicsInput, ParseInput
    <3>9. id \in DOMAIN m_characters' /\ m_characters'[id] = s
      BY <3>3, <3>5, <3>7, <3>8, InputSet
    <3> QED
      BY <2>0, <3>3, <3>6, <3>7, <3>9 DEF Players
  <2> QED
    BY <2>3, <2>4
<1>6. InputInv!1'
  BY <1>1
<1>7. InputInv!2'
  BY <1>2
<1>8. InputInv!3'
  BY <1>4
<1>9. InputInv!4'
  BY <1>5
<1> QED
  BY <1>6, <1>7, <1>8, <1>9 DEF InputInv

LEMMA InputInvTakesEffect == TypeInv /\ InputInv => InputTakesEffect
<1> SUFFICES ASSUME TypeInv, InputInv, Quiet, NEW c \in ConnectedPlayers, SentOf(c, "Input") # {}
             PROVE  m_characters[m_clients[c]]
                      = sent[c][CHOOSE i \in SentOf(c, "Input") : \A j \in SentOf(c, "Input") : j <= i].state
  BY DEF InputTakesEffect
<1>1. InSrv(c) = {} /\ InPhys(c) = {} /\ c \in Connected /\ physPc \notin {"ended", "gone"}
  BY QuietRows DEF InSrv, InPhys, InputOf, NoMsg, ConnectedPlayers
<1>2. LastSent(c, m_characters[m_clients[c]])
  BY <1>1 DEF InputInv
<1>3. SentOf(c, "Input") \subseteq Nat
  <2>1. Len(sent[c]) \in Nat
    BY <1>1, LenProperties DEF TypeInv, MsgTypes, Connected
  <2> QED
    BY <2>1 DEF SentOf
<1>4. PICK i \in SentOf(c, "Input") : /\ \A j \in SentOf(c, "Input") : j <= i
                                      /\ sent[c][i].state = m_characters[m_clients[c]]
  BY <1>2 DEF LastSent
<1>5. \A k \in SentOf(c, "Input") : (\A j \in SentOf(c, "Input") : j <= k) => k = i
  BY <1>3, <1>4
<1> QED
  BY <1>4, <1>5

-----------------------------------------------------------------------------
(* The invariants of the fifo build. *)
FifoInv == ServerInv /\ DelInv /\ LoadInv /\ OrphanInv /\ InputInv

LEMMA FifoInvariant ==
  ASSUME Order = "fifo" PROVE Spec => []FifoInv
<1>1. Init => FifoInv
  BY TypeInvInit, IdInvInit, PeopleInvInit, ViewInvInit, DelInvInit, LoadInvInit, OrphanInvInit,
     InputInvInit DEF FifoInv, ServerInv
<1>2. FifoInv /\ [Next]_vars => FifoInv'
  BY TypeInvStep, IdInvStep, PeopleInvStep, ViewInvStep, DelInvStep, LoadInvStep, OrphanInvStep,
     InputInvStep DEF FifoInv, ServerInv
<1> QED
  BY <1>1, <1>2, PTL DEF Spec

(* In the fifo build a deleted character was made before: parseMessage     *)
(* never follows a null pointer (btphysics.cpp:303-305).                   *)
THEOREM DeletionsFindTheirCharacter ==
  ASSUME Order = "fifo" PROVE Spec => []NoNullCharacter
<1>1. Init => NoNullCharacter
  BY DEF Init, NoNullCharacter
<1>2. FifoInv /\ NoNullCharacter /\ [Next]_vars => NoNullCharacter'
  BY NullCharacterStep DEF FifoInv
<1> QED
  BY <1>1, <1>2, FifoInvariant, PTL DEF Spec

(* "To add a character for a client, send the server a                     *)
(* ServerLoadPlayerMsg" (serveriface.hpp:18-19): in the fifo build the     *)
(* connected client that has sent one has a character once the messages    *)
(* are handled.                                                            *)
THEOREM LoadingGivesACharacter ==
  ASSUME Order = "fifo" PROVE Spec => []LoadGivesCharacter
<1>1. FifoInv => LoadGivesCharacter
  BY LoadInvGivesCharacter DEF FifoInv
<1> QED
  BY <1>1, FifoInvariant, PTL

(* In the fifo build a client that leaves takes its character with it,     *)
(* whatever was on its way (localserver.cpp:107-121, 175-187).             *)
THEOREM LeaversTakeTheirCharacter ==
  ASSUME Order = "fifo" PROVE Spec => []NoOrphanCharacters
<1>1. FifoInv => NoOrphanCharacters
  BY OrphanInvNoOrphans DEF FifoInv, ServerInv
<1> QED
  BY <1>1, FifoInvariant, PTL

(* In the fifo build a character does what its player asked for last, once *)
(* the messages are handled (localserver.cpp:58-60, 156-168;               *)
(* btphysics.cpp:226-242).                                                 *)
THEOREM LastInputTakesEffect ==
  ASSUME Order = "fifo" PROVE Spec => []InputTakesEffect
<1>1. FifoInv => InputTakesEffect
  BY InputInvTakesEffect DEF FifoInv, ServerInv
<1> QED
  BY <1>1, FifoInvariant, PTL
=============================================================================
