------------------------ MODULE LocklessQueueProofs ------------------------
(***************************************************************************)
(* Proofs about LocklessQueue for any number of threads, messages and      *)
(* addresses: Inv is an inductive invariant, so that every item is owned   *)
(* by exactly one thread or by the list, nothing is used after it is       *)
(* deleted and nothing leaks; and the queue implements a last-in first-out *)
(* MessageChannel.                                                         *)
(***************************************************************************)
EXTENDS LocklessQueue, SequenceTheorems, TLAPS

Elements(s) == {s[i] : i \in 1..Len(s)}
Distinct(s) == \A i, j \in 1..Len(s) : s[i] = s[j] => i = j
Front(s) == SubSeq(s, 1, Len(s) - 1)

(* What linking an item does to the list. *)
LEMMA AppendFacts ==
  ASSUME NEW s \in Seq(Nodes), NEW n \in Nodes
  PROVE  /\ Append(s, n) \in Seq(Nodes)
         /\ Append(s, n) # <<>>
         /\ Len(Append(s, n)) = Len(s) + 1
         /\ \A i \in 1..Len(s) : Append(s, n)[i] = s[i]
         /\ Append(s, n)[Len(s) + 1] = n
         /\ Elements(Append(s, n)) = Elements(s) \cup {n}
<1>1. /\ Append(s, n) \in Seq(Nodes)
      /\ Append(s, n) # <<>>
      /\ Len(Append(s, n)) = Len(s) + 1
      /\ \A i \in 1..Len(s) : Append(s, n)[i] = s[i]
      /\ Append(s, n)[Len(s) + 1] = n
  BY AppendProperties
<1>2. Len(s) \in Nat
  BY LenProperties
<1>3. 1..(Len(s) + 1) = (1..Len(s)) \cup {Len(s) + 1}
  BY <1>2
<1>4. Elements(Append(s, n)) = Elements(s) \cup {n}
  BY <1>1, <1>3 DEF Elements
<1> QED
  BY <1>1, <1>4

(* What unlinking the newest item does to the list. *)
LEMMA FrontFacts ==
  ASSUME NEW s \in Seq(Nodes), s # <<>>, Distinct(s),
         NEW t, t = Front(s)
  PROVE  /\ Len(s) \in Nat /\ Len(s) >= 1
         /\ t \in Seq(Nodes)
         /\ Len(t) = Len(s) - 1
         /\ \A i \in 1..Len(t) : t[i] = s[i]
         /\ t = <<>> <=> Len(s) = 1
         /\ Elements(t) = Elements(s) \ {s[Len(s)]}
<1>1. Len(s) \in Nat /\ Len(s) >= 1
  <2>1. Len(s) \in Nat /\ Len(s) # 0
    BY EmptySeq
  <2> QED
    BY <2>1
<1>2. \A i \in 1..(Len(s) - 1) : s[i] \in Nodes
  BY <1>1, ElementOfSeq
<1>3. /\ t \in Seq(Nodes)
      /\ Len(t) = Len(s) - 1
      /\ \A i \in 1..(Len(s) - 1) : t[i] = s[i]
  <2>0. PICK k \in Nat : k = Len(s) - 1
    BY <1>1
  <2>1. k - 1 + 1 = k /\ (1 <= k \/ k = 0)
    OBVIOUS
  <2>2. \A i \in 1..k : s[i] \in Nodes
    BY <1>2, <2>0
  <2>3. t = SubSeq(s, 1, k)
    BY <2>0 DEF Front
  <2>4. /\ SubSeq(s, 1, k) \in Seq(Nodes)
        /\ Len(SubSeq(s, 1, k)) = IF 1 <= k THEN k - 1 + 1 ELSE 0
        /\ \A i \in 1..(k - 1 + 1) : SubSeq(s, 1, k)[i] = s[1 + i - 1]
    BY <2>1, <2>2, SubSeqProperties, Z3
  <2>5. /\ t \in Seq(Nodes)
        /\ Len(t) = k
        /\ \A i \in 1..k : t[i] = s[i]
    BY <2>1, <2>3, <2>4
  <2> QED
    BY <2>0, <2>5
<1>4. 1..Len(s) = (1..Len(t)) \cup {Len(s)} /\ Len(s) \notin 1..Len(t)
  BY <1>1, <1>3
<1>5. Elements(t) = Elements(s) \ {s[Len(s)]}
  BY <1>1, <1>3, <1>4 DEF Elements, Distinct
<1>6. t = <<>> <=> Len(s) = 1
  <2>1. t # <<>> => Len(t) \in Nat \ {0}
    BY <1>3, EmptySeq
  <2>2. Len(<<>>) = 0
    BY EmptySeq
  <2>3. Len(t) = 0 <=> Len(s) = 1
    BY <1>1, <1>3
  <2> QED
    BY <2>1, <2>2, <2>3
<1> QED
  BY <1>1, <1>3, <1>5, <1>6

LEMMA InitInv == Init => Inv
<1> SUFFICES ASSUME Init PROVE Inv
  OBVIOUS
<1> USE DEF Init
<1>1. chain \in Seq(Nodes) /\ delivered \in Seq(Msgs) /\ Len(chain) = 0
  BY EmptySeq
<1>2. TypeOK
  BY <1>1 DEF TypeOK
<1>3. Linked = {} /\ Pushing = {} /\ Private = {} /\ Taken = {}
  BY <1>1 DEF Linked, Pushing, Private, Taken
<1>4. ChainInv
  BY <1>1 DEF ChainInv
<1>5. OwnerInv /\ ValueInv
  BY <1>3 DEF OwnerInv, NoLeak, ValueInv
<1> QED
  BY <1>2, <1>4, <1>5 DEF Inv
-----------------------------------------------------------------------------
(* What the invariant says of the addresses: facts used by several steps.  *)
LEMMA InvFacts ==
  ASSUME Inv
  PROVE  /\ Linked = Elements(chain)
         /\ Len(chain) \in Nat
         /\ \A i \in 1..Len(chain) : chain[i] \in Nodes
         /\ Linked \subseteq heap /\ Linked \subseteq Nodes
         /\ Private \subseteq heap
         /\ Taken \subseteq heap
         /\ popPc \in {"next", "cas", "take"} => item \in heap /\ item \in Nodes
         /\ chain # <<>> => headNext \in Linked /\ headNext # NULL
         /\ chain = <<>> => headNext = NULL
<1>1. Len(chain) \in Nat /\ \A i \in 1..Len(chain) : chain[i] \in Nodes
  BY LenProperties, ElementOfSeq DEF Inv, TypeOK
<1>2. Linked = Elements(chain)
  BY DEF Linked, Elements
<1>3. Linked \subseteq heap /\ Private \subseteq heap /\ Taken \subseteq heap
  BY DEF Inv, OwnerInv, NoLeak
<1>4. Linked \subseteq Nodes
  BY <1>1 DEF Linked
<1>5. popPc \in {"next", "cas", "take"} => item \in heap /\ item \in Nodes
  BY <1>3, <1>4 DEF Inv, OwnerInv, Taken
<1>6. ASSUME chain # <<>> PROVE headNext \in Linked /\ headNext # NULL
  <2>1. Len(chain) \in 1..Len(chain)
    BY <1>6, EmptySeq DEF Inv, TypeOK
  <2>2. headNext = chain[Len(chain)]
    BY <1>6 DEF Inv, ChainInv
  <2> QED
    BY <2>1, <2>2, <1>4, QueueAssumption DEF Linked
<1>7. chain = <<>> => headNext = NULL
  BY DEF Inv, ChainInv
<1> QED
  BY <1>1, <1>2, <1>3, <1>4, <1>5, <1>6, <1>7

LEMMA PushAllocInv ==
  ASSUME Inv, NEW p \in Producers, NEW m \in Msgs, NEW n \in Nodes, PushAlloc(p, m, n)
  PROVE  Inv'
<1> USE DEF PushAlloc, popVars
<1>1. n \notin Linked /\ n \notin Private /\ n \notin Taken
  BY InvFacts
<1>2. TypeOK'
  BY DEF Inv, TypeOK
<1>3. Linked' = Linked /\ Taken' = Taken
  BY DEF Linked, Taken
<1>4. Pushing' = Pushing \cup {p} /\ p \notin Pushing
  BY DEF Pushing, Inv, TypeOK
<1>5. newHead'[p] = n /\ \A q \in Pushing : newHead'[q] = newHead[q]
  BY <1>4 DEF Inv, TypeOK, Pushing
<1>6. Private' = Private \cup {n}
  BY <1>4, <1>5 DEF Private
<1>7. ChainInv'
  <2>1. \A i \in 1..Len(chain) : next'[chain[i]] = next[chain[i]]
    BY <1>1, InvFacts DEF Linked, Inv, TypeOK
  <2> QED
    BY <2>1 DEF Inv, ChainInv
<1>8. OwnerInv'
  <2>1. NoLeak'
    BY <1>3, <1>6 DEF Inv, OwnerInv, NoLeak
  <2>2. \A q \in Pushing' : newHead'[q] \in Nodes /\ newHead'[q] \notin Linked' \cup Taken'
    BY <1>1, <1>3, <1>4, <1>5 DEF Inv, OwnerInv
  <2>3. \A q, r \in Pushing' : newHead'[q] = newHead'[r] => q = r
    BY <1>1, <1>4, <1>5 DEF Inv, OwnerInv, Private
  <2>4. popPc' \in {"next", "cas"} => item' \in Linked'
    BY <1>3 DEF Inv, OwnerInv
  <2>5. popPc' = "cas" => itemNext' = next'[item']
    BY <1>1, InvFacts DEF Inv, OwnerInv, TypeOK
  <2>6. popPc' = "take" => item' \in Nodes \ Linked'
    BY <1>3 DEF Inv, OwnerInv
  <2> QED
    BY <2>1, <2>2, <2>3, <2>4, <2>5, <2>6 DEF OwnerInv
<1>9. ValueInv'
  <2>1. value'[n] = m /\ \A k \in heap : value'[k] = value[k]
    BY DEF Inv, TypeOK
  <2>2. \A k \in heap' : value'[k] \in Msgs \ fresh'
    BY <2>1 DEF Inv, ValueInv
  <2>3. \A j, k \in heap' : value'[j] = value'[k] => j = k
    BY <2>1 DEF Inv, ValueInv
  <2> QED
    BY <2>2, <2>3 DEF ValueInv
<1> QED
  BY <1>2, <1>7, <1>8, <1>9 DEF Inv

LEMMA PushReadInv ==
  ASSUME Inv, NEW p \in Producers, PushRead(p)
  PROVE  Inv'
<1> USE DEF PushRead, popVars
<1>1. newHead[p] \in Nodes \ Linked /\ newHead[p] \in Private
  BY DEF Inv, OwnerInv, Pushing, Private
<1>2. TypeOK'
  BY DEF Inv, TypeOK
<1>3. Linked' = Linked /\ Taken' = Taken /\ Pushing' = Pushing /\ Private' = Private
  <2>1. Pushing' = Pushing
    BY DEF Pushing, Inv, TypeOK
  <2> QED
    BY <2>1 DEF Linked, Taken, Private
<1>4. \A i \in 1..Len(chain) : next'[chain[i]] = next[chain[i]]
  BY <1>1, InvFacts DEF Linked, Inv, TypeOK
<1>5. ChainInv'
  BY <1>4 DEF Inv, ChainInv
<1>6. popPc = "cas" => next'[item] = next[item]
  BY <1>1 DEF Inv, OwnerInv, TypeOK
<1>7. OwnerInv'
  BY <1>3, <1>6 DEF Inv, OwnerInv, NoLeak
<1>8. ValueInv'
  BY DEF Inv, ValueInv
<1> QED
  BY <1>2, <1>5, <1>7, <1>8 DEF Inv

LEMMA PushLinkInv ==
  ASSUME Inv, NEW p \in Producers, PushLink(p)
  PROVE  Inv'
<1> USE DEF PushLink, popVars
<1> DEFINE n == newHead[p]
<1>1. p \in Pushing /\ n \in Nodes /\ n \notin Linked /\ n \notin Taken /\ n \in Private
  BY DEF Inv, OwnerInv, Pushing, Private
<1>2. /\ chain' \in Seq(Nodes)
      /\ chain' # <<>>
      /\ Len(chain') = Len(chain) + 1
      /\ \A i \in 1..Len(chain) : chain'[i] = chain[i]
      /\ chain'[Len(chain) + 1] = n
      /\ Elements(chain') = Elements(chain) \cup {n}
  BY <1>1, AppendFacts DEF Inv, TypeOK
<1>3. Linked' = Linked \cup {n}
  BY <1>2, InvFacts DEF Linked, Elements
<1>4. Pushing' = Pushing \ {p}
  BY DEF Pushing, Inv, TypeOK
<1>5. Private' = Private \ {n}
  BY <1>1, <1>4 DEF Private, Inv, OwnerInv
<1>6. Taken' = Taken
  BY DEF Taken
<1>7. TypeOK'
  BY <1>1, <1>2 DEF Inv, TypeOK
<1>8. ChainInv'
  <2>1. Len(chain) \in Nat
    BY InvFacts
  <2>2. headNext' = chain'[Len(chain')]
    BY <1>2
  <2>3. ASSUME NEW i \in 1..Len(chain')
        PROVE  next'[chain'[i]] = IF i = 1 THEN NULL ELSE chain'[i - 1]
    <3>1. CASE i \in 1..Len(chain)
      <4>1. chain'[i] = chain[i] /\ (i # 1 => chain'[i - 1] = chain[i - 1])
        BY <3>1, <2>1, <1>2
      <4> QED
        BY <3>1, <4>1 DEF Inv, ChainInv
    <3>2. CASE i = Len(chain) + 1
      <4>1. next'[chain'[i]] = headNext
        BY <3>2, <1>2
      <4>2. i = 1 => headNext = NULL
        <5>1. Len(chain) = 0 => chain = <<>>
          BY EmptySeq DEF Inv, TypeOK
        <5> QED
          BY <3>2, <2>1, <5>1, InvFacts
      <4>3. i # 1 => headNext = chain[i - 1] /\ chain'[i - 1] = chain[i - 1]
        <5>1. chain = <<>> => Len(chain) = 0
          BY EmptySeq
        <5>2. ASSUME i # 1 PROVE i - 1 = Len(chain) /\ i - 1 \in 1..Len(chain)
          BY <5>2, <3>2, <2>1
        <5> QED
          BY <5>1, <5>2, <1>2, <2>1 DEF Inv, ChainInv
      <4> QED
        BY <4>1, <4>2, <4>3
    <3> QED
      BY <3>1, <3>2, <2>1, <1>2
  <2>4. ASSUME NEW i \in 1..Len(chain'), NEW j \in 1..Len(chain'), chain'[i] = chain'[j]
        PROVE  i = j
    <3>1. \A k \in 1..Len(chain) : chain'[k] # n
      BY <1>1, <1>2 DEF Linked
    <3>2. \A k \in 1..Len(chain') : k \in 1..Len(chain) \/ k = Len(chain) + 1
      BY <2>1, <1>2
    <3> QED
      BY <2>4, <3>1, <3>2, <1>2 DEF Inv, ChainInv
  <2> QED
    BY <2>2, <2>3, <2>4, <1>2 DEF ChainInv
<1>9. OwnerInv'
  <2>1. NoLeak'
    BY <1>1, <1>3, <1>5, <1>6 DEF Inv, OwnerInv, NoLeak
  <2>2. \A q \in Pushing' : newHead'[q] \in Nodes /\ newHead'[q] \notin Linked' \cup Taken'
    BY <1>1, <1>3, <1>4, <1>6 DEF Inv, OwnerInv
  <2>3. \A q, r \in Pushing' : newHead'[q] = newHead'[r] => q = r
    BY <1>4 DEF Inv, OwnerInv
  <2>4. /\ popPc' \in {"next", "cas"} => item' \in Linked'
        /\ popPc' = "cas" => itemNext' = next'[item']
    BY <1>3 DEF Inv, OwnerInv
  <2>5. popPc' = "take" => item' \in Nodes \ Linked'
    BY <1>1, <1>3 DEF Inv, OwnerInv, Taken
  <2> QED
    BY <2>1, <2>2, <2>3, <2>4, <2>5 DEF OwnerInv
<1>10. ValueInv'
  BY DEF Inv, ValueInv
<1> QED
  BY <1>7, <1>8, <1>9, <1>10 DEF Inv

LEMMA PushRetryInv ==
  ASSUME Inv, NEW p \in Producers, PushRetry(p)
  PROVE  Inv'
<1> USE DEF PushRetry, heapVars, popVars
<1>1. TypeOK'
  BY DEF Inv, TypeOK
<1>2. Pushing' = Pushing
  BY DEF Pushing, Inv, TypeOK
<1>3. Linked' = Linked /\ Taken' = Taken /\ Private' = Private
  BY <1>2 DEF Linked, Taken, Private
<1>4. ChainInv' /\ ValueInv'
  BY DEF Inv, ChainInv, ValueInv
<1>5. OwnerInv'
  BY <1>2, <1>3 DEF Inv, OwnerInv, NoLeak
<1> QED
  BY <1>1, <1>4, <1>5 DEF Inv
-----------------------------------------------------------------------------
(* A step of the consumer before its compare-and-swap writes registers     *)
(* only.                                                                   *)
LEMMA PopRegistersInv ==
  ASSUME Inv, UNCHANGED <<heapVars, pushVars, fresh, delivered, chain>>,
         popPc # "take", popPc' \in {"idle", "read", "next", "cas"},
         waiting' \in BOOLEAN,
         item' \in Nodes \cup {NULL}, itemNext' \in Nodes \cup {NULL},
         popPc' \in {"next", "cas"} => item' \in Linked,
         popPc' = "cas" => itemNext' = next[item']
  PROVE  Inv'
<1> USE DEF heapVars, pushVars
<1>1. TypeOK'
  BY DEF Inv, TypeOK
<1>2. Pushing' = Pushing /\ Linked' = Linked /\ Private' = Private
  BY DEF Pushing, Linked, Private
<1>3. Taken' = {} /\ Taken = {}
  BY DEF Taken
<1>4. ChainInv' /\ ValueInv'
  BY DEF Inv, ChainInv, ValueInv
<1>5. OwnerInv'
  BY <1>2, <1>3 DEF Inv, OwnerInv, NoLeak
<1> QED
  BY <1>1, <1>4, <1>5 DEF Inv

LEMMA PopBeforeUnlinkInv ==
  ASSUME Inv, \/ \E w \in BOOLEAN : PopCall(w)
              \/ PopEmpty \/ PopRead \/ PopNext \/ PopRetry
  PROVE  Inv'
<1>1. item \in Nodes \cup {NULL} /\ itemNext \in Nodes \cup {NULL} /\ waiting \in BOOLEAN
  BY DEF Inv, TypeOK
<1>2. ASSUME NEW w \in BOOLEAN, PopCall(w) PROVE Inv'
  BY <1>1, <1>2, PopRegistersInv DEF PopCall
<1>3. CASE PopEmpty
  BY <1>1, <1>3, PopRegistersInv DEF PopEmpty
<1>4. CASE PopRead
  <2>1. headNext \in Linked
    BY <1>4, InvFacts DEF PopRead
  <2>2. headNext \in Nodes
    BY <2>1, InvFacts
  <2> QED
    BY <1>1, <1>4, <2>1, <2>2, PopRegistersInv DEF PopRead
<1>5. CASE PopNext
  <2>1. item \in Linked /\ item \in Nodes
    BY <1>5, InvFacts DEF PopNext, Inv, OwnerInv
  <2>2. next[item] \in Nodes \cup {NULL}
    BY <2>1 DEF Inv, TypeOK
  <2> QED
    BY <1>1, <1>5, <2>1, <2>2, PopRegistersInv DEF PopNext
<1>6. CASE PopRetry
  BY <1>1, <1>6, PopRegistersInv DEF PopRetry
<1> QED
  BY <1>2, <1>3, <1>4, <1>5, <1>6

(* The list is not empty when the consumer's compare-and-swap succeeds,    *)
(* and the item it unlinks is the newest.                                  *)
LEMMA PopUnlinkFacts ==
  ASSUME Inv, PopUnlink
  PROVE  /\ chain # <<>>
         /\ item = chain[Len(chain)]
         /\ item \in Nodes
         /\ Len(chain) \in Nat /\ Len(chain) >= 1
         /\ chain' \in Seq(Nodes)
         /\ Len(chain') = Len(chain) - 1
         /\ \A i \in 1..Len(chain') : chain'[i] = chain[i]
         /\ chain' = <<>> <=> Len(chain) = 1
         /\ Linked' = Linked \ {item}
         /\ itemNext = next[item]
<1>1. item \in Nodes /\ item # NULL /\ item = headNext /\ itemNext = next[item]
  BY InvFacts, QueueAssumption DEF PopUnlink, Inv, OwnerInv
<1>2. chain # <<>>
  BY <1>1, InvFacts
<1>3. item = chain[Len(chain)]
  BY <1>1, <1>2 DEF Inv, ChainInv
<1>4. chain \in Seq(Nodes) /\ Distinct(chain) /\ chain' = Front(chain)
  BY DEF PopUnlink, Inv, TypeOK, ChainInv, Distinct, Front
<1>5. /\ Len(chain) \in Nat /\ Len(chain) >= 1
      /\ chain' \in Seq(Nodes)
      /\ Len(chain') = Len(chain) - 1
      /\ \A i \in 1..Len(chain') : chain'[i] = chain[i]
      /\ chain' = <<>> <=> Len(chain) = 1
      /\ Elements(chain') = Elements(chain) \ {chain[Len(chain)]}
  BY <1>2, <1>4, FrontFacts
<1>6. Linked' = Linked \ {item}
  BY <1>3, <1>5 DEF Linked, Elements
<1> QED
  BY <1>1, <1>2, <1>3, <1>5, <1>6

LEMMA PopUnlinkInv ==
  ASSUME Inv, PopUnlink
  PROVE  Inv'
<1>1. /\ item \in Linked /\ popPc = "cas" /\ popPc' = "take" /\ item' = item
      /\ UNCHANGED <<next, value, heap, pushVars, waiting, itemNext, fresh, delivered>>
      /\ headNext' = next[item]
  BY DEF PopUnlink, Inv, OwnerInv
<1>2. Taken = {} /\ Taken' = {item}
  BY <1>1 DEF Taken
<1>3. Pushing' = Pushing /\ Private' = Private
  BY <1>1 DEF Pushing, Private, pushVars
<1>4. TypeOK'
  BY <1>1, PopUnlinkFacts DEF Inv, TypeOK, pushVars
<1>5. ChainInv'
  <2>1. headNext' = IF chain' = <<>> THEN NULL ELSE chain'[Len(chain')]
    <3>1. next[item] = IF Len(chain) = 1 THEN NULL ELSE chain[Len(chain) - 1]
      <4>1. Len(chain) \in 1..Len(chain)
        BY PopUnlinkFacts
      <4> QED
        BY <4>1, PopUnlinkFacts DEF Inv, ChainInv
    <3>2. Len(chain) # 1 => chain'[Len(chain')] = chain[Len(chain) - 1]
      <4>1. Len(chain) # 1 => Len(chain) - 1 \in 1..Len(chain')
        BY PopUnlinkFacts
      <4> QED
        BY <4>1, PopUnlinkFacts
    <3> QED
      BY <1>1, <3>1, <3>2, PopUnlinkFacts
  <2>2. \A i \in 1..Len(chain') : i \in 1..Len(chain) /\ (i # 1 => i - 1 \in 1..Len(chain'))
    BY PopUnlinkFacts
  <2>3. \A i \in 1..Len(chain') : next'[chain'[i]] = IF i = 1 THEN NULL ELSE chain'[i - 1]
    BY <1>1, <2>2, PopUnlinkFacts DEF Inv, ChainInv
  <2>4. \A i, j \in 1..Len(chain') : chain'[i] = chain'[j] => i = j
    BY <2>2, PopUnlinkFacts DEF Inv, ChainInv
  <2> QED
    BY <2>1, <2>3, <2>4 DEF ChainInv
<1>6. OwnerInv'
  <2>1. NoLeak'
    BY <1>1, <1>2, <1>3, PopUnlinkFacts DEF Inv, OwnerInv, NoLeak
  <2>2. \A q \in Pushing' : newHead'[q] \in Nodes /\ newHead'[q] \notin Linked' \cup Taken'
    BY <1>1, <1>2, <1>3, PopUnlinkFacts DEF Inv, OwnerInv, pushVars
  <2>3. \A q, r \in Pushing' : newHead'[q] = newHead'[r] => q = r
    BY <1>1, <1>3 DEF Inv, OwnerInv, pushVars
  <2>4. item' \in Nodes \ Linked'
    BY <1>1, PopUnlinkFacts
  <2> QED
    BY <1>1, <2>1, <2>2, <2>3, <2>4 DEF OwnerInv
<1>7. ValueInv'
  BY <1>1 DEF Inv, ValueInv
<1> QED
  BY <1>4, <1>5, <1>6, <1>7 DEF Inv

LEMMA PopTakeInv ==
  ASSUME Inv, PopTake
  PROVE  Inv'
<1> USE DEF PopTake, pushVars
<1>1. item \in heap /\ item \in Nodes /\ item \notin Linked
  BY InvFacts DEF Inv, OwnerInv
<1>2. value[item] \in Msgs
  BY <1>1 DEF Inv, ValueInv
<1>3. TypeOK'
  <2>1. delivered' \in Seq(Msgs)
    BY <1>2, AppendProperties DEF Inv, TypeOK
  <2> QED
    BY <2>1 DEF Inv, TypeOK
<1>4. Taken = {item} /\ Taken' = {}
  BY DEF Taken
<1>5. Pushing' = Pushing /\ Private' = Private /\ Linked' = Linked
  BY DEF Pushing, Private, Linked
<1>6. item \notin Private
  BY <1>4 DEF Private, Inv, OwnerInv
<1>7. ChainInv' /\ ValueInv'
  BY DEF Inv, ChainInv, ValueInv
<1>8. OwnerInv'
  BY <1>1, <1>4, <1>5, <1>6 DEF Inv, OwnerInv, NoLeak
<1> QED
  BY <1>3, <1>7, <1>8 DEF Inv
-----------------------------------------------------------------------------
LEMMA NextInv == Inv /\ [Next]_vars => Inv'
<1> SUFFICES ASSUME Inv, [Next]_vars PROVE Inv'
  OBVIOUS
<1>1. ASSUME NEW p \in Producers, PushStep(p) PROVE Inv'
  BY <1>1, PushAllocInv, PushReadInv, PushLinkInv, PushRetryInv DEF PushStep
<1>2. CASE PopStep
  BY <1>2, PopBeforeUnlinkInv, PopUnlinkInv, PopTakeInv DEF PopStep
<1>3. CASE UNCHANGED vars
  BY <1>3 DEF vars, Inv, TypeOK, ChainInv, OwnerInv, NoLeak, ValueInv,
              Linked, Pushing, Private, Taken
<1> QED
  BY <1>1, <1>2, <1>3 DEF Next

(* The inductive invariant of the queue holds in every behaviour, for any  *)
(* number of threads: one owner per item, the list in the order of the     *)
(* successful pushes (queue.hpp:58-93).                                    *)
THEOREM InvHolds == Spec => []Inv
BY InitInv, NextInv, PTL DEF Spec

(* The queue's variables keep their types: a head, a register or a link is *)
(* an address or null and pops return messages only (queue.hpp:44-94).     *)
THEOREM TypeCorrect == Spec => []TypeOK
<1>1. Inv => TypeOK
  BY DEF Inv
<1> QED
  BY <1>1, InvHolds, PTL

(* No interleaving of pushes with the pops, and no reuse of addresses by   *)
(* the allocator, makes a thread touch a deleted item (queue.hpp:62-63,    *)
(* 70-77, 85-91).                                                          *)
THEOREM MemorySafe == Spec => []NoUseAfterFree
<1>1. Inv => NoUseAfterFree
  <2> SUFFICES ASSUME Inv PROVE NoUseAfterFree
    OBVIOUS
  <2>1. popPc \in {"next", "take"} => item \in heap
    BY InvFacts
  <2>2. headNext \in heap \cup {NULL}
    BY InvFacts
  <2>3. ASSUME NEW n \in Linked PROVE next[n] \in heap \cup {NULL}
    <3>1. PICK i \in 1..Len(chain) : n = chain[i]
      BY DEF Linked
    <3>2. i # 1 => i - 1 \in 1..Len(chain)
      BY InvFacts
    <3>3. i # 1 => chain[i - 1] \in heap
      BY <3>2, InvFacts DEF Linked
    <3> QED
      BY <3>1, <3>3 DEF Inv, ChainInv
  <2> QED
    BY <2>1, <2>2, <2>3, InvFacts DEF NoUseAfterFree
<1> QED
  BY <1>1, InvHolds, PTL

(* Every item ever allocated by push is deleted by the pop that returns    *)
(* its message (queue.hpp:59, 77, 91).                                     *)
THEOREM LeakFree == Spec => []NoLeak
<1>1. Inv => NoLeak
  BY DEF Inv, OwnerInv
<1> QED
  BY <1>1, InvHolds, PTL
-----------------------------------------------------------------------------
(* The channel's variables as the refinement mapping computes them. *)
absFresh == fresh \cup {value[newHead[p]] : p \in Pushing}
absItems == [i \in 1..Len(chain) |-> value[chain[i]]]
absHand  == IF popPc = "take" THEN value[item] ELSE NULL

(* A function on 1..n into a set is a sequence of length n. *)
LEMMA FunctionIsSeq ==
  ASSUME NEW n \in Nat, NEW S, NEW f \in [1..n -> S]
  PROVE  f \in Seq(S) /\ Len(f) = n
<1>1. f \in Seq(S)
  BY SeqDef
<1>2. Len(f) \in Nat /\ 1..Len(f) = 1..n
  BY <1>1, LenProperties
<1>3. Len(f) = n
  <2>1. n # 0 => n \in 1..Len(f)
    BY <1>2
  <2>2. Len(f) # 0 => Len(f) \in 1..n
    BY <1>2
  <2> QED
    BY <2>1, <2>2, <1>2
<1> QED
  BY <1>1, <1>3

LEMMA ItemsFacts ==
  ASSUME NEW c \in Seq(Nodes), NEW v, \A i \in 1..Len(c) : v[c[i]] \in Msgs
  PROVE  LET items == [i \in 1..Len(c) |-> v[c[i]]]
         IN  items \in Seq(Msgs) /\ Len(items) = Len(c)
<1>1. [i \in 1..Len(c) |-> v[c[i]]] \in [1..Len(c) -> Msgs]
  OBVIOUS
<1> QED
  BY <1>1, LenProperties, FunctionIsSeq

(* The messages in the list are messages: this and the next lemma state    *)
(* ItemsFacts of a state and of its successor.                             *)
LEMMA ItemsNow ==
  ASSUME Inv
  PROVE  absItems \in Seq(Msgs) /\ Len(absItems) = Len(chain)
<1>1. chain \in Seq(Nodes) /\ \A i \in 1..Len(chain) : value[chain[i]] \in Msgs
  BY DEF Linked, Inv, TypeOK, OwnerInv, NoLeak, ValueInv
<1> QED
  BY <1>1, ItemsFacts DEF absItems

LEMMA ItemsNext ==
  ASSUME Inv'
  PROVE  absItems' \in Seq(Msgs) /\ Len(absItems') = Len(chain')
<1>1. chain' \in Seq(Nodes) /\ \A i \in 1..Len(chain') : value'[chain'[i]] \in Msgs
  BY DEF Linked, Inv, TypeOK, OwnerInv, NoLeak, ValueInv
<1> QED
  BY <1>1, ItemsFacts DEF absItems

LEMMA InitRefines == Init => Lifo!Init
<1> SUFFICES ASSUME Init PROVE Lifo!Init
  OBVIOUS
<1>1. Pushing = {} /\ popPc # "take"
  BY DEF Init, Pushing
<1>2. Len(chain) = 0
  BY EmptySeq DEF Init
<1>3. [i \in 1..Len(chain) |-> value[chain[i]]] = <<>>
  BY <1>2
<1> QED
  BY <1>1, <1>3 DEF Init, Lifo!Init

(* A step that touches neither the list nor the messages in it stutters. *)
LEMMA StutterRefines ==
  ASSUME Inv, absFresh' = absFresh, delivered' = delivered, chain' = chain,
         \A n \in Linked : value'[n] = value[n],
         popPc # "take", popPc' # "take"
  PROVE  UNCHANGED Lifo!vars
<1>1. \A i \in 1..Len(chain) : value'[chain[i]] = value[chain[i]]
  BY DEF Linked
<1>2. absItems' = absItems
  BY <1>1 DEF absItems
<1> QED
  BY <1>2 DEF Lifo!vars, absFresh, absItems

LEMMA PushStutterRefines ==
  ASSUME Inv, NEW p \in Producers,
         \/ \E m \in Msgs, n \in Nodes : PushAlloc(p, m, n)
         \/ PushRead(p) \/ PushRetry(p)
  PROVE  UNCHANGED Lifo!vars
<1>1. ASSUME NEW m \in Msgs, NEW n \in Nodes, PushAlloc(p, m, n) PROVE UNCHANGED Lifo!vars
  <2> USE <1>1 DEF PushAlloc, popVars
  <2>1. \A k \in heap : value'[k] = value[k]
    BY DEF Inv, TypeOK
  <2>2. Pushing' = Pushing \cup {p} /\ p \notin Pushing
    BY DEF Pushing, Inv, TypeOK
  <2>3. newHead'[p] = n /\ value'[n] = m
    BY DEF Inv, TypeOK
  <2>4. \A q \in Pushing : newHead'[q] = newHead[q] /\ newHead[q] \in heap
    BY <2>2, InvFacts DEF Private, Pushing, Inv, TypeOK
  <2>5. absFresh' = absFresh
    BY <2>1, <2>2, <2>3, <2>4 DEF absFresh
  <2>6. absItems' = absItems
    BY <2>1, InvFacts DEF absItems, Linked
  <2>7. absHand' = absHand
    BY <2>1, InvFacts DEF absHand, Taken
  <2> QED
    BY <2>5, <2>6, <2>7 DEF Lifo!vars, absFresh, absItems, absHand
<1>2. CASE PushRead(p) \/ PushRetry(p)
  <2>1. /\ UNCHANGED <<value, newHead, popPc, item, fresh, delivered, chain>>
        /\ Pushing' = Pushing
    BY <1>2 DEF PushRead, PushRetry, heapVars, popVars, Pushing, Inv, TypeOK
  <2> QED
    BY <2>1 DEF Lifo!vars
<1> QED
  BY <1>1, <1>2

(* push takes effect at its compare-and-swap. *)
LEMMA PushLinkRefines ==
  ASSUME Inv, NEW p \in Producers, PushLink(p)
  PROVE  Lifo!Next
<1> USE DEF PushLink, popVars
<1> DEFINE n == newHead[p]
<1>1. p \in Pushing /\ n \in heap /\ n \in Nodes /\ value[n] \in Msgs \ fresh
  BY InvFacts DEF Pushing, Private, Inv, OwnerInv, ValueInv
<1>2. value[n] \in absFresh
  BY <1>1 DEF absFresh
<1>3. absFresh' = absFresh \ {value[n]}
  <2>1. Pushing' = Pushing \ {p}
    BY DEF Pushing, Inv, TypeOK
  <2>2. \A q \in Pushing \ {p} : value[newHead[q]] # value[n]
    BY <1>1, InvFacts DEF Private, Inv, OwnerInv, ValueInv
  <2> QED
    BY <1>1, <2>1, <2>2 DEF absFresh
<1>4. absItems' = Append(absItems, value[n])
  <2>1. /\ Len(chain') = Len(chain) + 1
        /\ \A i \in 1..Len(chain) : chain'[i] = chain[i]
        /\ chain'[Len(chain) + 1] = n
    BY <1>1, AppendFacts DEF Inv, TypeOK
  <2>2. /\ absItems \in Seq(Msgs) /\ Len(absItems) = Len(chain) /\ Len(chain) \in Nat
        /\ absItems' \in Seq(Msgs) /\ Len(absItems') = Len(chain')
    <3>1. Inv'
      BY PushLinkInv
    <3>2. absItems' \in Seq(Msgs) /\ Len(absItems') = Len(chain')
      BY <3>1, ItemsNext
    <3> QED
      BY <3>2, ItemsNow, InvFacts
  <2>3. LET a == Append(absItems, value[n])
        IN  /\ a \in Seq(Msgs)
            /\ Len(a) = Len(absItems) + 1
            /\ \A i \in 1..Len(absItems) : a[i] = absItems[i]
            /\ a[Len(absItems) + 1] = value[n]
    BY <1>1, <2>2, AppendProperties
  <2>4. \A i \in 1..Len(chain') : absItems'[i] = Append(absItems, value[n])[i]
    <3> SUFFICES ASSUME NEW i \in 1..Len(chain')
                 PROVE  absItems'[i] = Append(absItems, value[n])[i]
      OBVIOUS
    <3>1. absItems'[i] = value[chain'[i]]
      BY DEF absItems
    <3>2. CASE i \in 1..Len(chain)
      BY <3>1, <3>2, <2>1, <2>2, <2>3 DEF absItems
    <3>3. CASE i = Len(chain) + 1
      BY <3>1, <3>3, <2>1, <2>2, <2>3
    <3> QED
      BY <3>2, <3>3, <2>1, <2>2
  <2> QED
    BY <2>1, <2>2, <2>3, <2>4, SeqEqual
<1>5. absHand' = absHand
  BY DEF absHand
<1>6. PICK m \in Msgs : m = value[n]
  BY <1>1
<1>7. Lifo!Put(m)
  BY <1>2, <1>3, <1>4, <1>5, <1>6 DEF Lifo!Put, absFresh, absItems, absHand
<1> QED
  BY <1>7 DEF Lifo!Next

LEMMA PopStutterRefines ==
  ASSUME Inv, \/ \E w \in BOOLEAN : PopCall(w)
              \/ PopEmpty \/ PopRead \/ PopNext \/ PopRetry
  PROVE  UNCHANGED Lifo!vars
<1>1. /\ UNCHANGED <<heapVars, pushVars, fresh, delivered, chain>>
      /\ popPc # "take" /\ popPc' # "take"
  BY DEF PopCall, PopEmpty, PopRead, PopNext, PopRetry
<1>2. Pushing' = Pushing
  BY <1>1 DEF Pushing, pushVars
<1> QED
  BY <1>1, <1>2 DEF Lifo!vars, heapVars, pushVars

(* A pop takes effect at its compare-and-swap. *)
LEMMA PopUnlinkRefines ==
  ASSUME Inv, PopUnlink
  PROVE  Lifo!Next
<1>1. /\ UNCHANGED <<value, newHead, pushPc, fresh, delivered>>
      /\ popPc = "cas" /\ popPc' = "take" /\ item' = item
      /\ Pushing' = Pushing
  BY DEF PopUnlink, pushVars, Pushing
<1>2. absItems \in Seq(Msgs) /\ Len(absItems) = Len(chain) /\ Len(chain) \in Nat
  BY ItemsNow, InvFacts
<1>3. absItems # <<>>
  <2>1. Len(absItems) >= 1
    BY <1>2, PopUnlinkFacts
  <2> QED
    BY <2>1, EmptySeq
<1>4. absHand = NULL /\ absHand' = absItems[Len(absItems)]
  <2>1. Len(chain) \in 1..Len(chain)
    BY PopUnlinkFacts
  <2> QED
    BY <1>1, <1>2, <2>1, PopUnlinkFacts DEF absHand, absItems
<1>5. absItems' = SubSeq(absItems, 1, Len(absItems) - 1)
  <2>1. Inv'
    BY PopUnlinkInv
  <2>2. absItems' \in Seq(Msgs) /\ Len(absItems') = Len(chain')
    BY <2>1, ItemsNext
  <2>3. PICK k \in Nat : k = Len(absItems) - 1
    BY <1>2, PopUnlinkFacts
  <2>4. k - 1 + 1 = k /\ (1 <= k \/ k = 0) /\ Len(chain') = k
    BY <1>2, <2>3, PopUnlinkFacts
  <2>5. \A i \in 1..k : absItems[i] \in Msgs
    BY <1>2, <2>3, ElementOfSeq
  <2>6. /\ SubSeq(absItems, 1, k) \in Seq(Msgs)
        /\ Len(SubSeq(absItems, 1, k)) = IF 1 <= k THEN k - 1 + 1 ELSE 0
        /\ \A i \in 1..(k - 1 + 1) : SubSeq(absItems, 1, k)[i] = absItems[1 + i - 1]
    BY <2>4, <2>5, SubSeqProperties, Z3
  <2>7. /\ Len(SubSeq(absItems, 1, k)) = k
        /\ \A i \in 1..k : SubSeq(absItems, 1, k)[i] = absItems[i]
    BY <2>4, <2>6
  <2>8. \A i \in 1..k : absItems'[i] = absItems[i]
    <3>1. \A i \in 1..k : i \in 1..Len(chain) /\ i \in 1..Len(chain')
      BY <1>2, <2>3, <2>4
    <3> QED
      BY <1>1, <3>1, PopUnlinkFacts DEF absItems
  <2>9. absItems' = SubSeq(absItems, 1, k)
    BY <2>2, <2>4, <2>6, <2>7, <2>8, SeqEqual
  <2> QED
    BY <2>3, <2>9
<1>6. absFresh' = absFresh
  BY <1>1 DEF absFresh
<1>7. Lifo!Take
  BY <1>1, <1>3, <1>4, <1>5, <1>6
     DEF Lifo!Take, Lifo!NextOf, Lifo!RestOf, absFresh, absItems, absHand
<1> QED
  BY <1>7 DEF Lifo!Next

LEMMA PopTakeRefines ==
  ASSUME Inv, PopTake
  PROVE  Lifo!Next
<1> USE DEF PopTake, pushVars
<1>1. item \in heap /\ value[item] \in Msgs
  BY InvFacts DEF Inv, ValueInv
<1>2. absHand = value[item] /\ absHand # NULL /\ absHand' = NULL
  BY <1>1, QueueAssumption DEF absHand
<1>3. absFresh' = absFresh /\ absItems' = absItems
  BY DEF absFresh, absItems, Pushing
<1>4. Lifo!Deliver
  BY <1>2, <1>3 DEF Lifo!Deliver, absFresh, absItems, absHand
<1> QED
  BY <1>4 DEF Lifo!Next

(* For any number of threads, every push takes effect at its compare-and-  *)
(* swap and every pop returns, exactly once, the message that was pushed   *)
(* last among those inside: locklessQueue is a linearizable stack          *)
(* (queue.hpp:58-93).                                                      *)
THEOREM ImplementsLifo == Spec => LifoSpec
<1>1. Inv /\ [Next]_vars => [Lifo!Next]_(Lifo!vars)
  <2> SUFFICES ASSUME Inv, [Next]_vars PROVE [Lifo!Next]_(Lifo!vars)
    OBVIOUS
  <2>1. ASSUME NEW p \in Producers, PushStep(p) PROVE [Lifo!Next]_(Lifo!vars)
    BY <2>1, PushStutterRefines, PushLinkRefines DEF PushStep
  <2>2. CASE PopStep
    BY <2>2, PopStutterRefines, PopUnlinkRefines, PopTakeRefines DEF PopStep
  <2>3. CASE UNCHANGED vars
    BY <2>3 DEF vars, Lifo!vars, Pushing
  <2> QED
    BY <2>1, <2>2, <2>3 DEF Next
<1> QED
  BY <1>1, InitRefines, InvHolds, PTL DEF Spec, LifoSpec, Lifo!Spec
=============================================================================
