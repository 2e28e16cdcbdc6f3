---------------------------- MODULE LockedQueue -----------------------------
(***************************************************************************)
(* lockedQueue<T> of core/util/queue.hpp, the queue of the builds that     *)
(* define QNT_USE_LOCKED_QUEUE: a deque under a mutex, and a condition     *)
(* variable that push signals when the deque was empty.                    *)
(*                                                                         *)
(* As in LocklessQueue any number of threads push and one thread pops.     *)
(* Every access to the deque is inside one critical section of the mutex,  *)
(* which is one step here; a wait releases the mutex and starts to wait in *)
(* the same step.  push signals after it has released the mutex, so other  *)
(* threads may run between the two.                                        *)
(***************************************************************************)
EXTENDS Integers, Sequences

CONSTANTS Producers,   \* the threads that call push
          Msgs,        \* the messages of a run; each is pushed once
          NULL         \* no message

ASSUME LockedAssumption == NULL \notin Msgs

VARIABLES
  m_queue,    \* the deque, front first
  pushPc,     \* per producer: "idle", or "notify" with the signal still to send
  popPc,      \* the consumer: "idle", "locked" (about to look at the deque),
              \* "waiting" (on the condition variable) or "return"
  waiting,    \* the consumer is in wait_pop
  val,        \* the message the pop took
  fresh,      \* the messages not yet given to push
  delivered   \* the messages the pops have returned, in order

vars == <<m_queue, pushPc, popPc, waiting, val, fresh, delivered>>

Init ==
  /\ m_queue = <<>>
  /\ pushPc = [p \in Producers |-> "idle"]
  /\ popPc = "idle"
  /\ waiting = FALSE
  /\ val = NULL
  /\ fresh = Msgs
  /\ delivered = <<>>
-----------------------------------------------------------------------------
(* Faulty variant: whether the deque is empty is tested after push_back. *)
PushTestLate(p, m) ==
  /\ pushPc[p] = "idle"
  /\ m \in fresh
  /\ m_queue' = Append(m_queue, m)
  /\ pushPc' = [pushPc EXCEPT ![p] = IF m_queue' = <<>> THEN "notify" ELSE "idle"]
  /\ fresh' = fresh \ {m}
  /\ UNCHANGED <<popPc, waiting, val, delivered>>

(* push, to the unlock. *)
Push(p, m) ==
  /\ pushPc[p] = "idle"
  /\ m \in fresh
  /\ m_queue' = Append(m_queue, m)
  /\ pushPc' = [pushPc EXCEPT ![p] = IF m_queue = <<>> THEN "notify" ELSE "idle"]
  /\ fresh' = fresh \ {m}
  /\ UNCHANGED <<popPc, waiting, val, delivered>>

(* Faulty variant: the signal wakes nobody. *)
NotifyNobody(p) ==
  /\ pushPc[p] = "notify"
  /\ pushPc' = [pushPc EXCEPT ![p] = "idle"]
  /\ UNCHANGED <<m_queue, popPc, waiting, val, fresh, delivered>>

(* notify_one: the consumer is the only thread that ever waits. *)
Notify(p) ==
  /\ pushPc[p] = "notify"
  /\ pushPc' = [pushPc EXCEPT ![p] = "idle"]
  /\ popPc' = IF popPc = "waiting" THEN "locked" ELSE popPc
  /\ UNCHANGED <<m_queue, waiting, val, fresh, delivered>>
-----------------------------------------------------------------------------
(* The consumer calls wait_pop (w) or try_pop (~w). *)
PopCall(w) ==
  /\ popPc = "idle"
  /\ popPc' = "locked"
  /\ waiting' = w
  /\ UNCHANGED <<m_queue, pushPc, val, fresh, delivered>>

(* The deque is empty: wait_pop waits, try_pop returns false. *)
PopEmpty ==
  /\ popPc = "locked"
  /\ m_queue = <<>>
  /\ popPc' = IF waiting THEN "waiting" ELSE "idle"
  /\ UNCHANGED <<m_queue, pushPc, waiting, val, fresh, delivered>>

(* Faulty variant: the back of the deque is taken. *)
PopBack ==
  /\ popPc = "locked"
  /\ m_queue # <<>>
  /\ val' = m_queue[Len(m_queue)]
  /\ m_queue' = SubSeq(m_queue, 1, Len(m_queue) - 1)
  /\ popPc' = "return"
  /\ UNCHANGED <<pushPc, waiting, fresh, delivered>>

(* The front of the deque is taken. *)
PopFront ==
  /\ popPc = "locked"
  /\ m_queue # <<>>
  /\ val' = Head(m_queue)
  /\ m_queue' = Tail(m_queue)
  /\ popPc' = "return"
  /\ UNCHANGED <<pushPc, waiting, fresh, delivered>>

PopReturn ==
  /\ popPc = "return"
  /\ delivered' = Append(delivered, val)
  /\ val' = NULL
  /\ popPc' = "idle"
  /\ UNCHANGED <<m_queue, pushPc, waiting, fresh>>

(* A condition variable may wake without a signal. *)
SpuriousWake ==
  /\ popPc = "waiting"
  /\ popPc' = "locked"
  /\ UNCHANGED <<m_queue, pushPc, waiting, val, fresh, delivered>>
-----------------------------------------------------------------------------
PopStep == (\E w \in BOOLEAN : PopCall(w)) \/ PopEmpty \/ PopFront \/ PopReturn

Next ==
  \/ \E p \in Producers : (\E m \in Msgs : Push(p, m)) \/ Notify(p)
  \/ PopStep
  \/ SpuriousWake

Spec == Init /\ [][Next]_vars

(* A producer that is in push leaves it, and the consumer runs unless it   *)
(* waits.  Nothing obliges the condition variable to wake by itself.       *)
Fairness == /\ \A p \in Producers : WF_vars(Notify(p))
            /\ WF_vars(PopStep)

FairSpec == Spec /\ Fairness
-----------------------------------------------------------------------------
TypeOK ==
  /\ m_queue \in Seq(Msgs)
  /\ pushPc \in [Producers -> {"idle", "notify"}]
  /\ popPc \in {"idle", "locked", "waiting", "return"}
  /\ waiting \in BOOLEAN
  /\ val \in Msgs \cup {NULL}
  /\ fresh \in SUBSET Msgs
  /\ delivered \in Seq(Msgs)

(* No wakeup is lost: a consumer that waits although there are messages is *)
(* about to be signalled, although push signals only when it found the     *)
(* deque empty and only after it has released the mutex                    *)
(* (queue.hpp:12-19, 23-24).                                               *)
NoLostWakeup ==
  popPc = "waiting" /\ m_queue # <<>> => \E p \in Producers : pushPc[p] = "notify"

(* The inductive invariant: the pop that has taken a message holds it. *)
Inv == TypeOK /\ NoLostWakeup /\ (popPc = "return" <=> val # NULL)

Fifo == INSTANCE MessageChannel WITH
          None <- NULL, Order <- "fifo", items <- m_queue, hand <- val

(* The queue implements a channel that hands the oldest message out first  *)
(* (queue.hpp:12-37).                                                      *)
FifoSpec == Fifo!Spec

(* A pushed message is eventually returned to the consumer (queue.hpp:     *)
(* 12-28).                                                                 *)
EveryPushDelivered ==
  \A m \in Msgs : (m \notin fresh) ~> (\E i \in 1..Len(delivered) : delivered[i] = m)
=============================================================================
