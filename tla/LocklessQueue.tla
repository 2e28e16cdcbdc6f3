---------------------------- MODULE LocklessQueue ----------------------------
(***************************************************************************)
(* locklessQueue<T> of core/util/queue.hpp, the queue every component uses *)
(* unless QNT_USE_LOCKED_QUEUE is defined: a singly linked list behind a   *)
(* sentinel whose first link, head->next, is swung by compare-and-swap.    *)
(*                                                                         *)
(* Any number of threads push.  One thread pops: m_msg_queue of            *)
(* LocalServer, BtPhysics and LocalClient is popped by that object's own   *)
(* thread only (localserver.cpp:52, btphysics.cpp:143, localclient.cpp:28),*)
(* so the popping thread's registers are plain variables.  delete returns  *)
(* an item to the allocator, which may hand the same address out again at  *)
(* once.  The __sync builtins are full barriers, so the steps below        *)
(* interleave; each one reads or writes memory that other threads see at   *)
(* most once.                                                              *)
(***************************************************************************)
EXTENDS Integers, Sequences

CONSTANTS Producers,   \* the threads that call push
          Msgs,        \* the messages of a run; each is created and pushed once
          Nodes,       \* the addresses the allocator can return for a QueueItem
          NULL         \* the null pointer

ASSUME QueueAssumption == NULL \notin Nodes /\ NULL \notin Msgs

VARIABLES
  headNext,   \* head->next
  next,       \* QueueItem::next, by address
  value,      \* QueueItem::value, by address
  heap,       \* the addresses that are allocated
  pushPc,     \* per producer: where it is in push
  newHead,    \* per producer: push's new_head
  popPc,      \* where the consumer is in wait_pop or try_pop
  waiting,    \* the consumer is in wait_pop, which spins instead of returning false
  item,       \* the consumer's item
  itemNext,   \* item->next as loaded for the compare-and-swap
  fresh,      \* the messages not yet given to push
  delivered,  \* the messages the pops have returned, in order
  chain       \* history: the linked items, oldest first

heapVars == <<headNext, next, value, heap>>
pushVars == <<pushPc, newHead>>
popVars  == <<popPc, waiting, item, itemNext>>
vars == <<headNext, next, value, heap, pushPc, newHead, popPc, waiting, item,
          itemNext, fresh, delivered, chain>>

Init ==
  /\ headNext = NULL
  /\ next = [n \in Nodes |-> NULL]
  /\ value = [n \in Nodes |-> NULL]
  /\ heap = {}
  /\ pushPc = [p \in Producers |-> "idle"]
  /\ newHead = [p \in Producers |-> NULL]
  /\ popPc = "idle"
  /\ waiting = FALSE
  /\ item = NULL
  /\ itemNext = NULL
  /\ fresh = Msgs
  /\ delivered = <<>>
  /\ chain = <<>>
-----------------------------------------------------------------------------
(* push: new_head = new QueueItem; new_head->value = t.  Nobody else can   *)
(* reach the item yet.                                                     *)
PushAlloc(p, m, n) ==
  /\ pushPc[p] = "idle"
  /\ m \in fresh
  /\ n \notin heap
  /\ heap' = heap \cup {n}
  /\ value' = [value EXCEPT ![n] = m]
  /\ next' = [next EXCEPT ![n] = NULL]
  /\ newHead' = [newHead EXCEPT ![p] = n]
  /\ pushPc' = [pushPc EXCEPT ![p] = "read"]
  /\ fresh' = fresh \ {m}
  /\ UNCHANGED <<headNext, popVars, delivered, chain>>

(* push: new_head->next = head->next. *)
PushRead(p) ==
  /\ pushPc[p] = "read"
  /\ next' = [next EXCEPT ![newHead[p]] = headNext]
  /\ pushPc' = [pushPc EXCEPT ![p] = "cas"]
  /\ UNCHANGED <<headNext, value, heap, newHead, popVars, fresh, delivered, chain>>

(* Faulty variant: a store in the place of the compare-and-swap. *)
PushStore(p) ==
  /\ pushPc[p] = "cas"
  /\ headNext' = newHead[p]
  /\ chain' = Append(chain, newHead[p])
  /\ pushPc' = [pushPc EXCEPT ![p] = "idle"]
  /\ UNCHANGED <<next, value, heap, newHead, popVars, fresh, delivered>>

(* push: the compare-and-swap finds head->next as it was read and links    *)
(* the item.                                                               *)
PushLink(p) ==
  /\ pushPc[p] = "cas"
  /\ headNext = next[newHead[p]]
  /\ headNext' = newHead[p]
  /\ chain' = Append(chain, newHead[p])
  /\ pushPc' = [pushPc EXCEPT ![p] = "idle"]
  /\ UNCHANGED <<next, value, heap, newHead, popVars, fresh, delivered>>

(* Faulty variant: the loop retries without reading head->next again. *)
PushRetryStale(p) ==
  /\ pushPc[p] = "cas"
  /\ headNext # next[newHead[p]]
  /\ UNCHANGED vars

(* push: the compare-and-swap fails; read head->next again. *)
PushRetry(p) ==
  /\ pushPc[p] = "cas"
  /\ headNext # next[newHead[p]]
  /\ pushPc' = [pushPc EXCEPT ![p] = "read"]
  /\ UNCHANGED <<heapVars, newHead, popVars, fresh, delivered, chain>>
-----------------------------------------------------------------------------
(* The consumer calls wait_pop (w) or try_pop (~w). *)
PopCall(w) ==
  /\ popPc = "idle"
  /\ popPc' = "read"
  /\ waiting' = w
  /\ UNCHANGED <<heapVars, pushVars, item, itemNext, fresh, delivered, chain>>

(* item = head->next is null: try_pop returns false, wait_pop spins. *)
PopEmpty ==
  /\ popPc = "read"
  /\ headNext = NULL
  /\ popPc' = IF waiting THEN "read" ELSE "idle"
  /\ item' = NULL
  /\ UNCHANGED <<heapVars, pushVars, waiting, itemNext, fresh, delivered, chain>>

(* item = head->next is an item. *)
PopRead ==
  /\ popPc = "read"
  /\ headNext # NULL
  /\ item' = headNext
  /\ popPc' = "next"
  /\ UNCHANGED <<heapVars, pushVars, waiting, itemNext, fresh, delivered, chain>>

(* item->next is loaded as the new value of the compare-and-swap. *)
PopNext ==
  /\ popPc = "next"
  /\ itemNext' = next[item]
  /\ popPc' = "cas"
  /\ UNCHANGED <<heapVars, pushVars, waiting, item, fresh, delivered, chain>>

(* Faulty variants: a store in the place of the compare-and-swap, and an   *)
(* item that is deleted before its value is copied.                        *)
PopStore ==
  /\ popPc = "cas"
  /\ headNext' = itemNext
  /\ chain' = SubSeq(chain, 1, Len(chain) - 1)
  /\ popPc' = "take"
  /\ UNCHANGED <<next, value, heap, pushVars, waiting, item, itemNext, fresh, delivered>>

PopUnlinkDelete ==
  /\ popPc = "cas"
  /\ headNext = item
  /\ headNext' = itemNext
  /\ heap' = heap \ {item}
  /\ chain' = SubSeq(chain, 1, Len(chain) - 1)
  /\ popPc' = "take"
  /\ UNCHANGED <<next, value, pushVars, waiting, item, itemNext, fresh, delivered>>

(* The compare-and-swap unlinks item. *)
PopUnlink ==
  /\ popPc = "cas"
  /\ headNext = item
  /\ headNext' = itemNext
  /\ chain' = SubSeq(chain, 1, Len(chain) - 1)
  /\ popPc' = "take"
  /\ UNCHANGED <<next, value, heap, pushVars, waiting, item, itemNext, fresh, delivered>>

(* The compare-and-swap fails: something was pushed since. *)
PopRetry ==
  /\ popPc = "cas"
  /\ headNext # item
  /\ popPc' = "read"
  /\ UNCHANGED <<heapVars, pushVars, waiting, item, itemNext, fresh, delivered, chain>>

(* Faulty variant: the item is not deleted. *)
PopTakeKeep ==
  /\ popPc = "take"
  /\ delivered' = Append(delivered, value[item])
  /\ popPc' = "idle"
  /\ UNCHANGED <<heapVars, pushVars, waiting, item, itemNext, fresh, chain>>

(* The result is copied out of the item and the item is deleted. *)
PopTake ==
  /\ popPc = "take"
  /\ delivered' = Append(delivered, value[item])
  /\ heap' = heap \ {item}
  /\ popPc' = "idle"
  /\ UNCHANGED <<headNext, next, value, pushVars, waiting, item, itemNext, fresh, chain>>
-----------------------------------------------------------------------------
PushStep(p) ==
  \/ \E m \in Msgs, n \in Nodes : PushAlloc(p, m, n)
  \/ PushRead(p)
  \/ PushLink(p)
  \/ PushRetry(p)

PopStep ==
  \/ \E w \in BOOLEAN : PopCall(w)
  \/ PopEmpty
  \/ PopRead
  \/ PopNext
  \/ PopUnlink
  \/ PopRetry
  \/ PopTake

Next == (\E p \in Producers : PushStep(p)) \/ PopStep

Spec == Init /\ [][Next]_vars

(* Every thread keeps running.  A producer is not obliged to push another  *)
(* message, but it finishes the push it is in; the consumer of a message   *)
(* loop always comes back to pop again.                                    *)
PushProgress(p) == PushRead(p) \/ PushLink(p) \/ PushRetry(p)

Fairness == /\ \A p \in Producers : WF_vars(PushProgress(p))
            /\ WF_vars(PopStep)

FairSpec == Spec /\ Fairness
-----------------------------------------------------------------------------
Linked == {chain[i] : i \in 1..Len(chain)}
Pushing == {p \in Producers : pushPc[p] # "idle"}
Private == {newHead[p] : p \in Pushing}
Taken == IF popPc = "take" THEN {item} ELSE {}

TypeOK ==
  /\ headNext \in Nodes \cup {NULL}
  /\ next \in [Nodes -> Nodes \cup {NULL}]
  /\ value \in [Nodes -> Msgs \cup {NULL}]
  /\ heap \in SUBSET Nodes
  /\ pushPc \in [Producers -> {"idle", "read", "cas"}]
  /\ newHead \in [Producers -> Nodes \cup {NULL}]
  /\ popPc \in {"idle", "read", "next", "cas", "take"}
  /\ waiting \in BOOLEAN
  /\ item \in Nodes \cup {NULL}
  /\ itemNext \in Nodes \cup {NULL}
  /\ fresh \in SUBSET Msgs
  /\ delivered \in Seq(Msgs)
  /\ chain \in Seq(Nodes)

(* No thread reads or writes an item that has been deleted: the items the  *)
(* consumer dereferences in the next step, those a push writes to and      *)
(* those reachable from head are all allocated (queue.hpp:62, 74, 76, 89,  *)
(* 90, whatever the pushes and the allocator do in between).               *)
NoUseAfterFree ==
  /\ popPc \in {"next", "take"} => item \in heap
  /\ Private \subseteq heap
  /\ headNext \in heap \cup {NULL}
  /\ \A n \in Linked : next[n] \in heap \cup {NULL}

(* No item is leaked: whatever is allocated is linked, or being pushed, or *)
(* just unlinked and about to be deleted (queue.hpp:59, 63, 77, 91).       *)
NoLeak == heap = Linked \cup Private \cup Taken

(* The list is what the history says it is: head->next is the newest item  *)
(* and every linked item points to the one linked before it.               *)
ChainInv ==
  /\ headNext = IF chain = <<>> THEN NULL ELSE chain[Len(chain)]
  /\ \A i \in 1..Len(chain) : next[chain[i]] = IF i = 1 THEN NULL ELSE chain[i-1]
  /\ \A i, j \in 1..Len(chain) : chain[i] = chain[j] => i = j

(* Every item has one owner: the list, the push that made it, or the pop   *)
(* that unlinked it; and the consumer's registers agree with the list.     *)
OwnerInv ==
  /\ NoLeak
  /\ \A p \in Pushing : newHead[p] \in Nodes /\ newHead[p] \notin Linked \cup Taken
  /\ \A p, q \in Pushing : newHead[p] = newHead[q] => p = q
  /\ popPc \in {"next", "cas"} => item \in Linked
  /\ popPc = "cas" => itemNext = next[item]
  /\ popPc = "take" => item \in Nodes \ Linked

(* Allocated items hold distinct messages that were given to push. *)
ValueInv ==
  /\ \A n \in heap : value[n] \in Msgs \ fresh
  /\ \A n, m \in heap : value[n] = value[m] => n = m

(* The inductive invariant behind the properties above and below. *)
Inv == TypeOK /\ ChainInv /\ OwnerInv /\ ValueInv

(* The queue implements a channel that hands the newest message out first. *)
Lifo == INSTANCE MessageChannel WITH
          None <- NULL, Order <- "lifo",
          fresh <- fresh \cup {value[newHead[p]] : p \in Pushing},
          items <- [i \in 1..Len(chain) |-> value[chain[i]]],
          hand <- IF popPc = "take" THEN value[item] ELSE NULL

(* Every push takes effect at its compare-and-swap and every pop returns,  *)
(* exactly once, the message that was pushed last among those inside       *)
(* (queue.hpp:58-93).                                                      *)
LifoSpec == Lifo!Spec

(* A pushed message is eventually returned to the consumer, however the    *)
(* compare-and-swaps of the other threads interfere (queue.hpp:61-63,      *)
(* 70-74, 85-89).                                                          *)
EveryPushDelivered ==
  \A m \in Msgs : (m \notin fresh) ~> (\E i \in 1..Len(delivered) : delivered[i] = m)
=============================================================================
