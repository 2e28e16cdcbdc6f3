--------------------------- MODULE MessageChannel ---------------------------
(***************************************************************************)
(* What a message queue of the game promises its users: every message that *)
(* is put in comes out exactly once, in an order that is either the order  *)
(* of insertion ("fifo") or its reverse ("lifo").  Both implementations of *)
(* queue<T> in core/util/queue.hpp are shown to implement this module, the *)
(* one with "fifo" and the other with "lifo".                              *)
(***************************************************************************)
EXTENDS QueueOrder

CONSTANTS Msgs,    \* the messages a run creates, each pushed once
          None     \* no message

VARIABLES fresh,      \* messages nobody has put in yet
          items,      \* the channel's contents, oldest first
          hand,       \* the message taken out and not yet returned, or None
          delivered   \* the messages returned to the consumer, in that order

vars == <<fresh, items, hand, delivered>>

Init == /\ fresh = Msgs
        /\ items = <<>>
        /\ hand = None
        /\ delivered = <<>>

(* push(m) takes effect. *)
Put(m) == /\ m \in fresh
          /\ fresh' = fresh \ {m}
          /\ items' = Append(items, m)
          /\ UNCHANGED <<hand, delivered>>

(* A pop takes effect: the message leaves the channel. *)
Take == /\ hand = None
        /\ items # <<>>
        /\ hand' = NextOf(items)
        /\ items' = RestOf(items)
        /\ UNCHANGED <<fresh, delivered>>

(* The pop returns the message it took. *)
Deliver == /\ hand # None
           /\ delivered' = Append(delivered, hand)
           /\ hand' = None
           /\ UNCHANGED <<fresh, items>>

Next == (\E m \in Msgs : Put(m)) \/ Take \/ Deliver

Spec == Init /\ [][Next]_vars
=============================================================================
