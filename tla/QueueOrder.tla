----------------------------- MODULE QueueOrder -----------------------------
(***************************************************************************)
(* Which message a pop of queue<T> takes.  The class is chosen when the    *)
(* program is built (core/util/queue.hpp:96-102): locklessQueue, the       *)
(* default, returns the newest message; lockedQueue, built with            *)
(* QNT_USE_LOCKED_QUEUE, the oldest.  LocklessQueue and LockedQueue show   *)
(* that this is what the two classes do.                                   *)
(***************************************************************************)
EXTENDS Integers, Sequences

CONSTANT Order

ASSUME OrderAssumption == Order \in {"fifo", "lifo"}

(* Faulty variant: the newest message is returned whatever the order. *)
Newest(q) == q[Len(q)]

(* The message the next pop of q returns, and what it leaves in q. *)
NextOf(q) == IF Order = "fifo" THEN Head(q) ELSE q[Len(q)]
RestOf(q) == IF Order = "fifo" THEN Tail(q) ELSE SubSeq(q, 1, Len(q) - 1)

(* The messages inside a queue. *)
Contents(q) == {q[i] : i \in 1..Len(q)}
=============================================================================
