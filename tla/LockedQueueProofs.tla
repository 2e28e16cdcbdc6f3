------------------------- MODULE LockedQueueProofs --------------------------
(***************************************************************************)
(* Proofs about LockedQueue for any number of threads and messages: no     *)
(* wakeup is lost, and the queue implements a first-in first-out           *)
(* MessageChannel.                                                         *)
(***************************************************************************)
EXTENDS LockedQueue, SequenceTheorems, TLAPS

LEMMA InitInv == Init => Inv
<1> SUFFICES ASSUME Init PROVE Inv
  OBVIOUS
<1>1. m_queue \in Seq(Msgs) /\ delivered \in Seq(Msgs)
  BY EmptySeq DEF Init
<1> QED
  BY <1>1 DEF Init, Inv, TypeOK, NoLostWakeup

LEMMA NextInv == Inv /\ [Next]_vars => Inv'
<1> SUFFICES ASSUME Inv, [Next]_vars PROVE Inv'
  OBVIOUS
<1> USE DEF Inv, TypeOK, NoLostWakeup
<1>1. ASSUME NEW p \in Producers, NEW m \in Msgs, Push(p, m) PROVE Inv'
  <2>1. m_queue' \in Seq(Msgs)
    BY <1>1, AppendProperties DEF Push
  <2>2. NoLostWakeup'
    <3>1. CASE m_queue = <<>>
      BY <1>1, <3>1 DEF Push
    <3>2. CASE m_queue # <<>>
      <4>1. pushPc' = pushPc /\ popPc' = popPc
        BY <1>1, <3>2 DEF Push
      <4> QED
        BY <3>2, <4>1
    <3> QED
      BY <3>1, <3>2
  <2> QED
    BY <1>1, <2>1, <2>2 DEF Push
<1>2. ASSUME NEW p \in Producers, Notify(p) PROVE Inv'
  BY <1>2 DEF Notify
<1>3. ASSUME NEW w \in BOOLEAN, PopCall(w) PROVE Inv'
  BY <1>3 DEF PopCall
<1>4. CASE PopEmpty
  BY <1>4 DEF PopEmpty
<1>5. CASE PopFront
  <2>1. Head(m_queue) \in Msgs /\ Tail(m_queue) \in Seq(Msgs)
    BY <1>5, HeadTailProperties DEF PopFront
  <2> QED
    BY <1>5, <2>1, LockedAssumption DEF PopFront
<1>6. CASE PopReturn
  <2>1. delivered' \in Seq(Msgs)
    BY <1>6, AppendProperties DEF PopReturn
  <2> QED
    BY <1>6, <2>1 DEF PopReturn
<1>7. CASE SpuriousWake
  BY <1>7 DEF SpuriousWake
<1>8. CASE UNCHANGED vars
  BY <1>8 DEF vars
<1> QED
  BY <1>1, <1>2, <1>3, <1>4, <1>5, <1>6, <1>7, <1>8 DEF Next, PopStep

LEMMA InvHolds == Spec => []Inv
BY InitInv, NextInv, PTL DEF Spec

(* For any number of producers, a consumer that waits although there are   *)
(* messages is about to be signalled (queue.hpp:12-19, 23-24).             *)
THEOREM WakeupsAreNotLost == Spec => []NoLostWakeup
<1>1. Inv => NoLostWakeup
  BY DEF Inv
<1> QED
  BY <1>1, InvHolds, PTL

(* For any number of producers, every message pushed is returned once, in  *)
(* the order of the pushes (queue.hpp:12-37).                              *)
THEOREM ImplementsFifo == Spec => FifoSpec
<1>1. Init => Fifo!Init
  BY DEF Init, Fifo!Init
<1>2. Inv /\ [Next]_vars => [Fifo!Next]_(Fifo!vars)
  <2> SUFFICES ASSUME Inv, [Next]_vars PROVE [Fifo!Next]_(Fifo!vars)
    OBVIOUS
  <2>1. ASSUME NEW p \in Producers, NEW m \in Msgs, Push(p, m) PROVE Fifo!Next
    BY <2>1 DEF Push, Fifo!Next, Fifo!Put
  <2>2. CASE PopFront
    BY <2>2 DEF PopFront, Inv, Fifo!Next, Fifo!Take, Fifo!NextOf, Fifo!RestOf
  <2>3. CASE PopReturn
    BY <2>3 DEF PopReturn, Inv, Fifo!Next, Fifo!Deliver
  <2>4. ASSUME \/ \E p \in Producers : Notify(p)
               \/ \E w \in BOOLEAN : PopCall(w)
               \/ PopEmpty \/ SpuriousWake \/ UNCHANGED vars
        PROVE  UNCHANGED Fifo!vars
    BY <2>4 DEF Notify, PopCall, PopEmpty, SpuriousWake, vars, Fifo!vars
  <2> QED
    BY <2>1, <2>2, <2>3, <2>4 DEF Next, PopStep
<1> QED
  BY <1>1, <1>2, InvHolds, PTL DEF Spec, FifoSpec, Fifo!Spec
=============================================================================
