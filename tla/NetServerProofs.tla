-------------------------- MODULE NetServerProofs ---------------------------
(***************************************************************************)
(* The server process with any number of clients, connections that fail    *)
(* at any moment and messages in any order: each client is deleted once    *)
(* and after all that is written to it, and the clients keep the registry. *)
(***************************************************************************)
EXTENDS NetServer, FiniteSetTheorems, TLAPS

Spots == 1..Len(handlers)
Ran == {"alive", "deleted"}  \* the clients that have been spun up

AnyHandler == {Accept(c) : c \in Clients}
              \cup {Read(c, got) : c \in Clients, got \in {"known", "unknown", "error"}}
              \cup {Write(c) : c \in Clients} \cup {Delete(c) : c \in Clients}

(* What a pending handler says of its client. *)
Sound(h) ==
  /\ h.run = "accept" => object[h.cli] = "accepted"
  /\ h.run = "read" => object[h.cli] \in Ran /\ ~reading[h.cli]
  /\ h.run = "write" => object[h.cli] \in Ran /\ (object[h.cli] = "deleted" => h.cli \in late)
  /\ h.run = "delete" => object[h.cli] = "alive" /\ marked[h.cli]

HandlersInv ==
  /\ handlers \in Seq(AnyHandler)
  /\ \A i \in Spots : Sound(handlers[i])
  /\ \A i, j \in Spots : handlers[i].run = handlers[j].run /\ handlers[i].cli = handlers[j].cli
       => handlers[i].run = "write" \/ i = j
  /\ \A i, j \in Spots : handlers[i].run = "write" /\ handlers[j] = Delete(handlers[i].cli)
       => handlers[i].cli \in late \/ i < j

ConnTypes ==
  /\ object \in [Clients -> {"none", "accepted", "alive", "deleted"}]
  /\ peer \in [Clients -> {"none", "up", "gone"}]
  /\ sockOpen \in [Clients -> BOOLEAN]
  /\ reading \in [Clients -> BOOLEAN]
  /\ marked \in [Clients -> BOOLEAN]
  /\ partial \subseteq Clients

ServerTypes ==
  /\ srvPc \in {"loop", "finish", "close", "end", "ended"}
  /\ mainPc \in {"run", "done", "aborted"}
  /\ fault \in {"none", "dead client", "dead handler", "dead physics", "dead server"}
  /\ lobby \subseteq Clients /\ IsFiniteSet(lobby)
  /\ playing \subseteq Clients /\ IsFiniteSet(playing)
  /\ spoke \subseteq Clients /\ late \subseteq Clients

(* Only who has been spun up reads, fails, speaks or is registered, and    *)
(* who has failed is registered no more, unless late.                      *)
ClientsInv ==
  \A c \in Clients :
    /\ reading[c] => object[c] = "alive"
    /\ marked[c] => object[c] \in Ran
    /\ object[c] = "deleted" => marked[c]
    /\ c \in Registered => object[c] \in Ran
    /\ c \in Registered /\ marked[c] => c \in late
    /\ c \in spoke => object[c] \in Ran
    /\ [type |-> "LoadPlayer", sender |-> c] \in inbox => c \in spoke

NetInv == ConnTypes /\ ServerTypes /\ ClientsInv /\ HandlersInv
-----------------------------------------------------------------------------
LEMMA HandlerKinds ==
  ASSUME NEW h \in AnyHandler
  PROVE  /\ h.cli \in Clients
         /\ h.run \in {"accept", "read", "write", "delete"}
         /\ h.run = "read" => h.got \in {"known", "unknown", "error"}
         /\ h.run = "write" => h = Write(h.cli)
         /\ h.run = "delete" => h = Delete(h.cli)
BY DEF AnyHandler, Accept, Read, Write, Delete

LEMMA TheHandlers ==
  ASSUME NEW c \in Clients
  PROVE  /\ Accept(c) \in AnyHandler /\ Accept(c).run = "accept" /\ Accept(c).cli = c
         /\ Write(c) \in AnyHandler /\ Write(c).run = "write" /\ Write(c).cli = c
         /\ Delete(c) \in AnyHandler /\ Delete(c).run = "delete" /\ Delete(c).cli = c
         /\ \A got \in {"known", "unknown", "error"} :
              Read(c, got) \in AnyHandler /\ Read(c, got).run = "read" /\ Read(c, got).cli = c
BY DEF AnyHandler, Accept, Read, Write, Delete

(* How handlers changes in a step: the first handler is called (drop = 1)  *)
(* or none is; the clients of S are written to; and the handlers of last,  *)
(* one at most, is posted behind that.                                     *)
Moves(drop, S, last) ==
  /\ handlers' \in Seq(AnyHandler)
  /\ \A i \in 1..Len(handlers') :
       \/ i + drop \in Spots /\ handlers'[i] = handlers[i + drop]
       \/ i + drop > Len(handlers) /\ \E c \in S : handlers'[i] = Write(c)
       \/ i + drop > Len(handlers) /\ i = Len(handlers') /\ handlers'[i] \in last

LEMMA NoMove == ASSUME HandlersInv, UNCHANGED handlers PROVE Moves(0, {}, {})
BY DEF HandlersInv, Moves, Spots

LEMMA CallMoves ==
  ASSUME HandlersInv, handlers # <<>>, handlers' = Tail(handlers)
  PROVE  Moves(1, {}, {})
<1>1. /\ handlers \in Seq(AnyHandler) /\ handlers' \in Seq(AnyHandler)
      /\ Len(handlers) \in Nat \ {0} /\ Len(handlers') = Len(handlers) - 1
      /\ \A i \in 1..Len(handlers') : handlers'[i] = handlers[i + 1]
  BY DEF HandlersInv
<1>2. \A i \in 1..Len(handlers') : i + 1 \in Spots
  BY <1>1 DEF Spots
<1> QED
  BY <1>1, <1>2 DEF Moves

LEMMA PostMoves ==
  ASSUME HandlersInv, NEW h \in AnyHandler, handlers' = Append(handlers, h)
  PROVE  Moves(0, {}, {h})
<1>1. /\ handlers \in Seq(AnyHandler) /\ handlers' \in Seq(AnyHandler)
      /\ Len(handlers) \in Nat /\ Len(handlers') = Len(handlers) + 1
      /\ handlers'[Len(handlers) + 1] = h
      /\ \A i \in 1..Len(handlers) : handlers'[i] = handlers[i]
  BY DEF HandlersInv
<1>2. \A i \in 1..Len(handlers') : i + 0 = i /\ (i \in 1..Len(handlers) \/ i = Len(handlers) + 1)
  BY <1>1
<1> QED
  BY <1>1, <1>2 DEF Moves, Spots

LEMMA CallAndPostMoves ==
  ASSUME HandlersInv, NEW h \in AnyHandler, handlers # <<>>, handlers' = Append(Tail(handlers), h)
  PROVE  Moves(1, {}, {h})
<1> DEFINE q == Tail(handlers)
<1>1. /\ handlers \in Seq(AnyHandler) /\ q \in Seq(AnyHandler)
      /\ Len(handlers) \in Nat \ {0} /\ Len(q) = Len(handlers) - 1
      /\ \A i \in 1..Len(q) : q[i] = handlers[i + 1]
  BY DEF HandlersInv
<1> HIDE DEF q
<1>2. /\ handlers' \in Seq(AnyHandler) /\ Len(handlers') = Len(q) + 1
      /\ handlers'[Len(q) + 1] = h
      /\ \A i \in 1..Len(q) : handlers'[i] = q[i]
  BY <1>1 DEF q
<1>3. ASSUME NEW i \in 1..Len(handlers')
      PROVE  \/ i \in 1..Len(q) /\ i + 1 \in Spots
             \/ i = Len(q) + 1 /\ i + 1 > Len(handlers)
  BY <1>1, <1>2 DEF Spots
<1> QED
  BY <1>1, <1>2, <1>3 DEF Moves

(* Messages to the clients of S. *)
WriteSeqs(S) == Seq({Write(c) : c \in S})

LEMMA WriteMoves ==
  ASSUME HandlersInv, NEW S \in SUBSET Clients, NEW w \in WriteSeqs(S), handlers' = handlers \o w
  PROVE  Moves(0, S, {})
<1>1. w \in Seq(AnyHandler)
  <2>1. {Write(c) : c \in S} \subseteq AnyHandler
    BY TheHandlers
  <2> QED
    BY <2>1 DEF WriteSeqs
<1>2. /\ handlers \in Seq(AnyHandler) /\ handlers' \in Seq(AnyHandler)
      /\ Len(handlers) \in Nat /\ Len(w) \in Nat /\ Len(handlers') = Len(handlers) + Len(w)
  BY <1>1 DEF HandlersInv
<1>3. \A i \in 1..Len(handlers') :
        handlers'[i] = IF i <= Len(handlers) THEN handlers[i] ELSE w[i - Len(handlers)]
  BY <1>1, <1>2
<1>4. \A k \in 1..Len(w) : \E c \in S : w[k] = Write(c)
  BY DEF WriteSeqs
<1>5. ASSUME NEW i \in 1..Len(handlers')
      PROVE  \/ i + 0 \in Spots /\ handlers'[i] = handlers[i + 0]
             \/ i + 0 > Len(handlers) /\ \E c \in S : handlers'[i] = Write(c)
  <2>1. CASE i <= Len(handlers)
    BY <1>2, <1>3, <2>1 DEF Spots
  <2>2. CASE i > Len(handlers)
    <3>1. i - Len(handlers) \in 1..Len(w)
      BY <1>2, <2>2
    <3> QED
      BY <1>2, <1>3, <1>4, <2>2, <3>1
  <2> QED
    BY <1>2, <2>1, <2>2
<1> QED
  BY <1>2, <1>5 DEF Moves

LEMMA CallAndWriteMoves ==
  ASSUME HandlersInv, NEW S \in SUBSET Clients, NEW w \in WriteSeqs(S), handlers # <<>>,
         handlers' = Tail(handlers) \o w
  PROVE  Moves(1, S, {})
<1> DEFINE q == Tail(handlers)
<1>1. w \in Seq(AnyHandler)
  <2>1. {Write(c) : c \in S} \subseteq AnyHandler
    BY TheHandlers
  <2> QED
    BY <2>1 DEF WriteSeqs
<1>2. /\ handlers \in Seq(AnyHandler) /\ q \in Seq(AnyHandler)
      /\ Len(handlers) \in Nat \ {0} /\ Len(q) = Len(handlers) - 1 /\ Len(w) \in Nat
      /\ \A i \in 1..Len(q) : q[i] = handlers[i + 1]
  BY <1>1 DEF HandlersInv
<1> HIDE DEF q
<1>3. handlers' \in Seq(AnyHandler) /\ Len(handlers') = Len(q) + Len(w)
  BY <1>1, <1>2 DEF q
<1>4. \A i \in 1..Len(handlers') : handlers'[i] = IF i <= Len(q) THEN q[i] ELSE w[i - Len(q)]
  BY <1>1, <1>2, <1>3 DEF q
<1>5. \A k \in 1..Len(w) : \E c \in S : w[k] = Write(c)
  BY DEF WriteSeqs
<1>6. ASSUME NEW i \in 1..Len(handlers')
      PROVE  \/ i + 1 \in Spots /\ handlers'[i] = handlers[i + 1]
             \/ i + 1 > Len(handlers) /\ \E c \in S : handlers'[i] = Write(c)
  <2>1. CASE i <= Len(q)
    BY <1>2, <1>3, <1>4, <2>1 DEF Spots
  <2>2. CASE i > Len(q)
    <3>1. i - Len(q) \in 1..Len(w)
      BY <1>2, <1>3, <2>2
    <3> QED
      BY <1>2, <1>4, <1>5, <2>2, <3>1
  <2> QED
    BY <1>2, <2>1, <2>2
<1> QED
  BY <1>3, <1>6 DEF Moves

LEMMA CallWritePostMoves ==
  ASSUME HandlersInv, NEW S \in SUBSET Clients, NEW w \in WriteSeqs(S), NEW h \in AnyHandler,
         handlers # <<>>, handlers' = Tail(handlers) \o w \o <<h>>
  PROVE  Moves(1, S, {h})
<1> DEFINE q == Tail(handlers) \o w
<1>1. w \in Seq(AnyHandler)
  <2>1. {Write(c) : c \in S} \subseteq AnyHandler
    BY TheHandlers
  <2> QED
    BY <2>1 DEF WriteSeqs
<1>2. /\ handlers \in Seq(AnyHandler) /\ Tail(handlers) \in Seq(AnyHandler)
      /\ Len(handlers) \in Nat \ {0} /\ Len(Tail(handlers)) = Len(handlers) - 1 /\ Len(w) \in Nat
      /\ \A i \in 1..Len(Tail(handlers)) : Tail(handlers)[i] = handlers[i + 1]
  BY <1>1 DEF HandlersInv
<1>3. q \in Seq(AnyHandler) /\ Len(q) = Len(handlers) - 1 + Len(w)
  BY <1>1, <1>2
<1>4. \A i \in 1..Len(q) :
        q[i] = IF i <= Len(handlers) - 1 THEN Tail(handlers)[i] ELSE w[i - (Len(handlers) - 1)]
  BY <1>1, <1>2, <1>3
<1> HIDE DEF q
<1>5. \A k \in 1..Len(w) : \E c \in S : w[k] = Write(c)
  BY DEF WriteSeqs
<1>6. /\ handlers' \in Seq(AnyHandler) /\ Len(handlers') = Len(q) + 1
      /\ handlers'[Len(q) + 1] = h /\ \A i \in 1..Len(q) : handlers'[i] = q[i]
  BY <1>3 DEF q
<1>7. ASSUME NEW i \in 1..Len(handlers')
      PROVE  \/ i + 1 \in Spots /\ handlers'[i] = handlers[i + 1]
             \/ i + 1 > Len(handlers) /\ \E c \in S : handlers'[i] = Write(c)
             \/ i + 1 > Len(handlers) /\ i = Len(handlers') /\ handlers'[i] \in {h}
  <2>1. CASE i <= Len(handlers) - 1
    <3>1. i \in 1..Len(q) /\ i \in 1..Len(Tail(handlers)) /\ i + 1 \in Spots
      BY <1>2, <1>3, <2>1 DEF Spots
    <3> QED
      BY <3>1, <2>1, <1>2, <1>4, <1>6
  <2>2. CASE i > Len(handlers) - 1 /\ i <= Len(q)
    <3>1. i - (Len(handlers) - 1) \in 1..Len(w) /\ i \in 1..Len(q) /\ ~(i <= Len(handlers) - 1)
      BY <1>2, <1>3, <2>2
    <3>2. i + 1 > Len(handlers)
      BY <1>2, <2>2
    <3> QED
      BY <1>4, <1>5, <1>6, <3>1, <3>2
  <2>3. CASE i > Len(q)
    <3>1. i = Len(q) + 1 /\ i + 1 > Len(handlers)
      BY <1>2, <1>3, <1>6, <2>3
    <3> QED
      BY <3>1, <1>6
  <2> QED
    BY <1>2, <1>3, <2>1, <2>2, <2>3
<1> QED
  BY <1>6, <1>7 DEF Moves

(* WritesTo posts writes to the clients of S. *)
LEMMA WritesToType ==
  ASSUME NEW S, IsFiniteSet(S)
  PROVE  WritesTo(S) \in WriteSeqs(S)
<1> DEFINE n == Cardinality(S)
           order == CHOOSE q \in [1..n -> S] : {q[i] : i \in DOMAIN q} = S
<1>1. n \in Nat
  BY FS_CardinalityType
<1>2. PICK f \in Bijection(1..n, S) : TRUE
  BY FS_CardinalityType DEF ExistsBijection
<1>3. f \in [1..n -> S] /\ {f[i] : i \in DOMAIN f} = S
  BY <1>2 DEF Bijection, Surjection, Injection
<1>4. order \in [1..n -> S]
  BY <1>3
<1>5. WritesTo(S) = [i \in 1..n |-> Write(order[i])]
  BY DEF WritesTo
<1> HIDE DEF order, n
<1> QED
  BY <1>1, <1>4, <1>5 DEF WriteSeqs
-----------------------------------------------------------------------------
(* The handlers stay sound if those that wait do, if only clients that can *)
(* be written to are, and if what is posted is the only one of its kind.   *)
LEMMA HandlersKept ==
  ASSUME HandlersInv, NEW drop \in {0, 1}, NEW S \in SUBSET Clients, NEW last \in SUBSET AnyHandler,
         Moves(drop, S, last),
         late \subseteq late',
         \A i \in Spots : i > drop => \E h : h = handlers[i] /\ Sound(h)',
         \A c \in S : /\ object'[c] \in Ran /\ (object'[c] = "deleted" => c \in late')
                      /\ \A i \in Spots : i > drop /\ handlers[i] = Delete(c) => c \in late',
         \A h \in last : /\ h.run # "write"
                         /\ Sound(h)'
                         /\ \A k \in last : k = h
                         /\ \A i \in Spots :
                              i > drop => ~(handlers[i].run = h.run /\ handlers[i].cli = h.cli)
  PROVE  HandlersInv'
<1> DEFINE H == handlers'
           Waits(i) == i + drop \in Spots /\ i + drop > drop /\ H[i] = handlers[i + drop]
           Written(i) == i + drop > Len(handlers) /\ \E c \in S : H[i] = Write(c)
           Posted(i) == i + drop > Len(handlers) /\ i = Len(H) /\ H[i] \in last
<1>0. Len(handlers) \in Nat /\ H \in Seq(AnyHandler) /\ Len(H) \in Nat
  BY DEF HandlersInv, Moves
<1>1. \A i \in 1..Len(H) : Waits(i) \/ Written(i) \/ Posted(i)
  BY <1>0 DEF Moves
<1>2. \A i \in 1..Len(H) : i \in Nat /\ H[i] \in AnyHandler
  BY <1>0
<1>3. \A i \in 1..Len(H) : Written(i) => H[i].run = "write"
  BY TheHandlers
<1>4. \A i \in 1..Len(H) : Posted(i) => H[i].run # "write"
  OBVIOUS
<1>5. ASSUME NEW i \in 1..Len(H) PROVE \E h : h = H[i] /\ Sound(h)'
  <2>1. CASE Waits(i)
    BY <2>1
  <2>2. CASE Written(i)
    <3>1. PICK c \in S : H[i] = Write(c)
      BY <2>2
    <3>2. Write(c).run = "write" /\ Write(c).cli = c
      BY TheHandlers
    <3>3. Sound(Write(c))'
      <4>1. \E h : h = Write(c) /\ Sound(h)'
        <5>1. PICK h : h = Write(c)
          OBVIOUS
        <5>2. h.run = "write" /\ h.cli = c
          BY <3>2, <5>1
        <5>3. Sound(h)'
          BY <5>2 DEF Sound
        <5> QED
          BY <5>1, <5>3
      <4> QED
        BY <4>1
    <3> QED
      BY <3>1, <3>3
  <2>3. CASE Posted(i)
    BY <2>3
  <2> QED
    BY <1>1, <2>1, <2>2, <2>3
<1>6. ASSUME NEW i \in 1..Len(H), NEW j \in 1..Len(H), H[i].run = H[j].run, H[i].cli = H[j].cli,
             H[i].run # "write"
      PROVE  i = j
  <2>1. ~Written(i) /\ ~Written(j)
    BY <1>3, <1>6
  <2>2. CASE Waits(i) /\ Waits(j)
    <3>1. i + drop = j + drop
      BY <2>2, <1>6 DEF HandlersInv
    <3> QED
      BY <3>1, <1>2
  <2>3. CASE Posted(i) /\ Posted(j)
    BY <2>3
  <2>4. CASE Waits(i) /\ Posted(j)
    BY <2>4, <1>6
  <2>5. CASE Posted(i) /\ Waits(j)
    BY <2>5, <1>6
  <2> QED
    BY <1>1, <2>1, <2>2, <2>3, <2>4, <2>5
<1>7. ASSUME NEW i \in 1..Len(H), NEW j \in 1..Len(H), H[i].run = "write",
             H[j] = Delete(H[i].cli), H[i].cli \notin late'
      PROVE  i < j
  <2>1. H[i].cli \in Clients /\ H[j].run = "delete" /\ H[j].cli = H[i].cli
    BY <1>2, <1>7, HandlerKinds, TheHandlers
  <2>2. ~Posted(i) /\ ~Written(j) /\ i # j
    BY <1>3, <1>4, <1>7, <2>1
  <2>3. CASE Waits(i) /\ Waits(j)
    <3>0. /\ i + drop \in Spots /\ j + drop \in Spots /\ handlers[i + drop].run = "write"
          /\ handlers[j + drop] = Delete(handlers[i + drop].cli)
          /\ handlers[i + drop].cli \notin late
      BY <2>3, <1>7
    <3>1. i + drop < j + drop
      BY <3>0 DEF HandlersInv
    <3> QED
      BY <3>1, <1>2
  <2>4. CASE Written(i) /\ Waits(j)
    <3>1. PICK c \in S : H[i] = Write(c)
      BY <2>4
    <3>0. c \in Clients /\ Write(c).cli = c
      BY TheHandlers
    <3>2. c = H[i].cli /\ handlers[j + drop] = Delete(c)
      BY <3>0, <3>1, <2>4, <1>7
    <3>3. c \in late'
      BY <3>2, <2>4
    <3> QED
      BY <3>2, <3>3, <1>7
  <2>5. CASE Posted(j)
    BY <2>2, <2>5, <1>0
  <2> QED
    BY <1>1, <2>2, <2>3, <2>4, <2>5
<1> HIDE DEF Waits, Written, Posted
<1>8. HandlersInv'
  <2>1. \A i \in Spots' : Sound(handlers[i])'
    <3> SUFFICES ASSUME NEW i \in Spots' PROVE Sound(handlers[i])'
      OBVIOUS
    <3>1. i \in 1..Len(H)
      BY DEF Spots
    <3>2. PICK h : h = H[i] /\ Sound(h)'
      BY <3>1, <1>5
    <3> QED
      BY <3>2 DEF Sound
  <2>2. \A i, j \in Spots' : H[i].run = H[j].run /\ H[i].cli = H[j].cli => H[i].run = "write" \/ i = j
    BY <1>6 DEF Spots
  <2>3. \A i, j \in Spots' : H[i].run = "write" /\ H[j] = Delete(H[i].cli)
          => H[i].cli \in late' \/ i < j
    BY <1>7 DEF Spots
  <2> QED
    BY <1>0, <2>1, <2>2, <2>3 DEF HandlersInv
<1> QED
  BY <1>8
-----------------------------------------------------------------------------
LEMMA NetInvInit == Init => NetInv
<1> SUFFICES ASSUME Init PROVE NetInv
  OBVIOUS
<1>1. ConnTypes
  BY DEF Init, ConnTypes
<1>2. ServerTypes
  BY FS_EmptySet DEF Init, ServerTypes
<1>3. ClientsInv
  BY DEF Init, ClientsInv, Registered
<1>4. HandlersInv
  BY DEF Init, HandlersInv, Spots
<1> QED
  BY <1>1, <1>2, <1>3, <1>4 DEF NetInv

(* The handler that is called is the first, and no other of the kind waits.*)
LEMMA CalledFirst ==
  ASSUME NetInv, NEW c \in Clients, NEW kind, Calls(kind, c)
  PROVE  /\ 1 \in Spots /\ handlers[1] \in AnyHandler /\ handlers[1] = Head(handlers)
         /\ handlers[1].run = kind /\ handlers[1].cli = c
         /\ Sound(handlers[1])
         /\ kind # "write" =>
              \A i \in Spots : i > 1 => ~(handlers[i].run = kind /\ handlers[i].cli = c)
<1>1. handlers \in Seq(AnyHandler) /\ handlers # <<>>
  BY DEF NetInv, HandlersInv, Calls
<1>2. 1 \in Spots /\ handlers[1] = Head(handlers) /\ handlers[1] \in AnyHandler
  BY <1>1 DEF Spots
<1>3. handlers[1].run = kind /\ handlers[1].cli = c
  BY <1>2 DEF Calls
<1>4. Sound(handlers[1])
  BY <1>2 DEF NetInv, HandlersInv
<1>5. ASSUME kind # "write", NEW i \in Spots, i > 1
      PROVE  ~(handlers[i].run = kind /\ handlers[i].cli = c)
  <2>1. i # 1
    BY <1>5
  <2> QED
    BY <1>2, <1>3, <1>5, <2>1 DEF NetInv, HandlersInv
<1> QED
  BY <1>2, <1>3, <1>4, <1>5

(* Of a soundness that only concerns other clients. *)
LEMMA SoundElsewhere ==
  ASSUME NEW h, Sound(h), late \subseteq late',
         object'[h.cli] = object[h.cli], reading'[h.cli] = reading[h.cli],
         marked[h.cli] => marked'[h.cli]
  PROVE  Sound(h)'
BY DEF Sound

(* No handler changes, and nothing the handlers rest on. *)
LEMMA HandlersStay ==
  ASSUME NetInv, UNCHANGED <<handlers, object, reading, marked, late>>
  PROVE  HandlersInv'
BY DEF NetInv, HandlersInv, Sound, Spots

LEMMA HandleAcceptStep ==
  ASSUME NetInv, NEW c \in Clients, HandleAccept(c)
  PROVE  NetInv'
<1>1. /\ Calls("accept", c)
      /\ object' = [object EXCEPT ![c] = "alive"] /\ lobby' = lobby \cup {c}
      /\ reading' = [reading EXCEPT ![c] = TRUE]
      /\ handlers' = Tail(handlers) \o [i \in 1..Cardinality(playing) |-> Write(c)]
      /\ UNCHANGED <<peer, sockOpen, marked, partial, stopped, mainPc, playing, inbox, srvPc,
                     fault, spoke, late>>
  BY DEF HandleAccept, StartRead, histVars
<1>2. object[c] = "accepted"
  BY <1>1, CalledFirst DEF Sound
<1>3. ConnTypes'
  BY <1>1 DEF NetInv, ConnTypes
<1>4. ServerTypes'
  <2>1. IsFiniteSet(lobby')
    BY <1>1, FS_AddElement DEF NetInv, ServerTypes
  <2> QED
    BY <1>1, <2>1 DEF NetInv, ServerTypes
<1>5. ClientsInv'
  <2>1. \A d \in Clients : d # c => /\ object'[d] = object[d] /\ reading'[d] = reading[d]
                                   /\ (d \in Registered' <=> d \in Registered)
    BY <1>1 DEF NetInv, ConnTypes, Registered
  <2>2. object'[c] = "alive" /\ ~marked[c]
    BY <1>1, <1>2 DEF NetInv, ConnTypes, ClientsInv, Ran
  <2>3. ASSUME NEW d \in Clients, d # c
        PROVE  /\ reading'[d] => object'[d] = "alive"
               /\ marked'[d] => object'[d] \in Ran
               /\ object'[d] = "deleted" => marked'[d]
               /\ d \in Registered' => object'[d] \in Ran
               /\ d \in Registered' /\ marked'[d] => d \in late'
               /\ d \in spoke' => object'[d] \in Ran
               /\ [type |-> "LoadPlayer", sender |-> d] \in inbox' => d \in spoke'
    BY <1>1, <2>1, <2>3 DEF NetInv, ClientsInv
  <2>4. [type |-> "LoadPlayer", sender |-> c] \in inbox' => c \in spoke'
    BY <1>1 DEF NetInv, ClientsInv
  <2> QED
    BY <1>1, <2>2, <2>3, <2>4 DEF ClientsInv, Ran
<1>6. HandlersInv'
  <2> DEFINE w == [i \in 1..Cardinality(playing) |-> Write(c)]
  <2>1. w \in WriteSeqs({c})
    <3>1. Cardinality(playing) \in Nat
      BY FS_CardinalityType DEF NetInv, ServerTypes
    <3>2. Write(c) \in {Write(d) : d \in {c}}
      OBVIOUS
    <3> QED
      BY <3>1, <3>2 DEF WriteSeqs
  <2> HIDE DEF w
  <2>2. handlers # <<>> /\ handlers' = Tail(handlers) \o w
    BY <1>1 DEF Calls, w
  <2>3. Moves(1, {c}, {})
    BY <2>1, <2>2, CallAndWriteMoves DEF NetInv
  <2>4. ASSUME NEW i \in Spots, i > 1 PROVE \E h : h = handlers[i] /\ Sound(h)'
    <3>1. PICK h : h = handlers[i]
      OBVIOUS
    <3>2. Sound(h) /\ h \in AnyHandler
      BY <3>1 DEF NetInv, HandlersInv, Spots
    <3>3. h.cli # c
      <4>1. h.run # "accept" \/ h.cli # c
        BY <1>1, <2>4, <3>1, CalledFirst
      <4> QED
        BY <4>1, <3>2, <1>2, HandlerKinds DEF Sound, Ran
    <3>4. Sound(h)'
      BY <1>1, <3>2, <3>3, HandlerKinds DEF NetInv, ConnTypes, Sound
    <3> QED
      BY <3>1, <3>4
  <2>5. object'[c] = "alive"
    BY <1>1 DEF NetInv, ConnTypes
  <2>6. ASSUME NEW i \in Spots PROVE handlers[i] # Delete(c)
    <3>1. Sound(handlers[i])
      BY DEF NetInv, HandlersInv
    <3> QED
      BY <3>1, <1>2, TheHandlers DEF Sound
  <2> QED
    BY <1>1, <2>3, <2>4, <2>5, <2>6, HandlersKept DEF NetInv, Ran
<1> QED
  BY <1>3, <1>4, <1>5, <1>6 DEF NetInv

(* A client that fails leaves the server, and its deletion is posted. *)
LEMMA DisconnectStep ==
  ASSUME NetInv, NEW c \in Clients, NEW kind \in {"read", "write"}, Calls(kind, c),
         object[c] = "alive", ~marked[c], Disconnect(c, Tail(handlers)),
         UNCHANGED <<object, peer, sockOpen, reading, loopVars, histVars>>
  PROVE  NetInv'
<1> DEFINE others == IF c \in playing THEN Registered \ {c} ELSE {}
<1>1. /\ lobby' = lobby \ {c} /\ playing' = playing \ {c}
      /\ marked' = [marked EXCEPT ![c] = TRUE]
      /\ handlers' = Tail(handlers) \o WritesTo(others) \o <<Delete(c)>>
      /\ UNCHANGED <<object, peer, sockOpen, reading, mainPc, partial, inbox, srvPc, spoke, late>>
  BY DEF Disconnect, LobbyWithout, loopVars, histVars
<1>2. fault' \in {"none", "dead client", "dead handler", "dead physics", "dead server"}
  BY DEF Disconnect, Reached, NetInv, ServerTypes
<1>3. ConnTypes'
  BY <1>1 DEF NetInv, ConnTypes
<1>4. ServerTypes'
  <2>1. IsFiniteSet(lobby') /\ IsFiniteSet(playing')
    BY <1>1, FS_RemoveElement DEF NetInv, ServerTypes
  <2> QED
    BY <1>1, <1>2, <2>1 DEF NetInv, ServerTypes
<1>5. ClientsInv'
  <2>1. Registered' = Registered \ {c}
    BY <1>1 DEF Registered
  <2>2. marked'[c] /\ \A d \in Clients : d # c => marked'[d] = marked[d]
    BY <1>1 DEF NetInv, ConnTypes
  <2> QED
    BY <1>1, <2>1, <2>2 DEF NetInv, ClientsInv, Ran
<1>6. HandlersInv'
  <2>1. IsFiniteSet(others) /\ others \subseteq Registered /\ Registered \subseteq Clients
    <3>1. IsFiniteSet(Registered) /\ Registered \subseteq Clients
      BY FS_Union DEF NetInv, ServerTypes, Registered
    <3> QED
      BY <3>1, FS_RemoveElement, FS_EmptySet
  <2> HIDE DEF others
  <2>2. Moves(1, others, {Delete(c)})
    <3>1. handlers # <<>>
      BY DEF Calls
    <3>2. WritesTo(others) \in WriteSeqs(others)
      BY <2>1, WritesToType
    <3> QED
      BY <1>1, <2>1, <3>1, <3>2, CallWritePostMoves, TheHandlers DEF NetInv
  <2>3. ASSUME NEW i \in Spots, i > 1 PROVE \E h : h = handlers[i] /\ Sound(h)'
    <3>1. PICK h : h = handlers[i]
      OBVIOUS
    <3>2. Sound(h) /\ h \in AnyHandler
      BY <3>1 DEF NetInv, HandlersInv, Spots
    <3>3. marked[h.cli] => marked'[h.cli]
      BY <1>1, <3>2, HandlerKinds DEF NetInv, ConnTypes
    <3> QED
      BY <1>1, <3>1, <3>2, <3>3, SoundElsewhere
  <2>4. ASSUME NEW d \in others
        PROVE  /\ object'[d] \in Ran /\ (object'[d] = "deleted" => d \in late')
               /\ \A i \in Spots : i > 1 /\ handlers[i] = Delete(d) => d \in late'
    <3>1. d \in Clients /\ d \in Registered
      BY <2>1
    <3>2. object[d] \in Ran /\ (marked[d] => d \in late) /\ (object[d] = "deleted" => marked[d])
      BY <3>1 DEF NetInv, ClientsInv
    <3>3. ASSUME NEW i \in Spots, handlers[i] = Delete(d) PROVE marked[d]
      <4>1. Sound(handlers[i])
        BY DEF NetInv, HandlersInv
      <4> QED
        BY <3>1, <3>3, <4>1, TheHandlers DEF Sound
    <3> QED
      BY <1>1, <3>2, <3>3
  <2>5. \E h : h = Delete(c) /\ h.run = "delete" /\ h.cli = c /\ Sound(h)'
    <3>1. PICK h : h = Delete(c)
      OBVIOUS
    <3>2. h.run = "delete" /\ h.cli = c
      BY <3>1, TheHandlers
    <3>3. object'[c] = "alive" /\ marked'[c]
      BY <1>1 DEF NetInv, ConnTypes
    <3>4. Sound(h)'
      BY <3>2, <3>3 DEF Sound
    <3> QED
      BY <3>1, <3>2, <3>4
  <2>6. ASSUME NEW i \in Spots PROVE ~(handlers[i].run = "delete" /\ handlers[i].cli = c)
    <3>1. Sound(handlers[i])
      BY DEF NetInv, HandlersInv
    <3> QED
      BY <3>1 DEF Sound
  <2>7. {Delete(c)} \subseteq AnyHandler /\ others \subseteq Clients /\ late \subseteq late'
    BY <1>1, <2>1, TheHandlers
  <2>8. \A h \in {Delete(c)} : /\ h.run # "write"
                              /\ Sound(h)'
                              /\ \A k \in {Delete(c)} : k = h
                              /\ \A i \in Spots :
                                   i > 1 => ~(handlers[i].run = h.run /\ handlers[i].cli = h.cli)
    BY <2>5, <2>6
  <2> QED
    BY <2>2, <2>3, <2>4, <2>7, <2>8, HandlersKept DEF NetInv
<1> QED
  BY <1>3, <1>4, <1>5, <1>6 DEF NetInv

(* A handler is called that does nothing. *)
LEMMA QuietlyStep ==
  ASSUME NetInv, NEW c \in Clients, NEW kind, Calls(kind, c), handlers' = Tail(handlers),
         UNCHANGED <<object, peer, sockOpen, reading, marked, partial, mainPc, serverVars, fault,
                     spoke, late>>
  PROVE  NetInv'
<1>1. ConnTypes' /\ ServerTypes' /\ ClientsInv'
  BY DEF NetInv, ConnTypes, ServerTypes, ClientsInv, serverVars, Registered
<1>2. Moves(1, {}, {})
  BY CallMoves DEF NetInv, Calls
<1>3. ASSUME NEW i \in Spots, i > 1 PROVE \E h : h = handlers[i] /\ Sound(h)'
  <2>1. PICK h : h = handlers[i]
    OBVIOUS
  <2>2. Sound(h)
    BY <2>1 DEF NetInv, HandlersInv
  <2> QED
    BY <2>1, <2>2, SoundElsewhere
<1>4. HandlersInv'
  BY <1>2, <1>3, HandlersKept DEF NetInv
<1> QED
  BY <1>1, <1>4 DEF NetInv

LEMMA WriteMsgStep ==
  ASSUME NetInv, NEW c \in Clients, WriteMsg(c)
  PROVE  NetInv'
<1>1. /\ Calls("write", c) /\ c \notin Deleted
      /\ UNCHANGED <<object, peer, sockOpen, reading, loopVars, histVars>>
  BY DEF WriteMsg
<1>2. object[c] = "alive"
  BY <1>1, CalledFirst DEF Sound, Ran, Deleted
<1>3. CASE Quietly(Tail(handlers))
  BY <1>1, <1>3, QuietlyStep DEF Quietly, loopVars, histVars
<1>4. CASE Disconnect(c, Tail(handlers)) /\ ~marked[c]
  BY <1>1, <1>2, <1>4, DisconnectStep
<1> QED
  BY <1>3, <1>4 DEF WriteMsg, FirstError

LEMMA ReadEndsStep ==
  ASSUME NetInv, NEW c \in Clients, ReadEnds(c)
  PROVE  NetInv'
<1>1. /\ Calls("read", c) /\ c \notin Deleted
      /\ UNCHANGED <<object, peer, sockOpen, reading, loopVars, histVars>>
  BY DEF ReadEnds
<1>2. object[c] = "alive"
  BY <1>1, CalledFirst DEF Sound, Ran, Deleted
<1>3. CASE Quietly(Tail(handlers))
  BY <1>1, <1>3, QuietlyStep DEF Quietly, loopVars, histVars
<1>4. CASE Disconnect(c, Tail(handlers)) /\ ~marked[c]
  BY <1>1, <1>2, <1>4, DisconnectStep
<1> QED
  BY <1>3, <1>4 DEF ReadEnds

LEMMA ReadMsgStep ==
  ASSUME NetInv, NEW c \in Clients, NEW msg \in Messages(c), ReadMsg(c, msg)
  PROVE  NetInv'
<1>1. /\ Calls("read", c) /\ c \notin Deleted
      /\ inbox' = inbox \cup {msg} /\ spoke' = spoke \cup {c}
      /\ reading' = [reading EXCEPT ![c] = TRUE] /\ handlers' = Tail(handlers)
      /\ UNCHANGED <<object, peer, sockOpen, marked, partial, mainPc, lobby, playing, srvPc,
                     fault, late>>
  BY DEF ReadMsg, Reads, StartRead, loopVars
<1>2. object[c] = "alive"
  BY <1>1, CalledFirst DEF Sound, Ran, Deleted
<1>3. ConnTypes'
  BY <1>1 DEF NetInv, ConnTypes
<1>4. ServerTypes'
  BY <1>1 DEF NetInv, ServerTypes
<1>5. ClientsInv'
  <2>1. \A d \in Clients : d # c => reading'[d] = reading[d]
    BY <1>1 DEF NetInv, ConnTypes
  <2>2. \A d \in Clients : [type |-> "LoadPlayer", sender |-> d] \in inbox'
                            => [type |-> "LoadPlayer", sender |-> d] \in inbox \/ d = c
    BY <1>1 DEF Messages
  <2> QED
    BY <1>1, <1>2, <2>1, <2>2 DEF NetInv, ClientsInv, Ran, Registered
<1>6. HandlersInv'
  <2>1. Moves(1, {}, {})
    BY <1>1, CallMoves DEF NetInv, Calls
  <2>2. ASSUME NEW i \in Spots, i > 1 PROVE \E h : h = handlers[i] /\ Sound(h)'
    <3>1. PICK h : h = handlers[i]
      OBVIOUS
    <3>2. Sound(h) /\ h \in AnyHandler /\ ~(h.run = "read" /\ h.cli = c)
      <4>1. Sound(h) /\ h \in AnyHandler
        BY <3>1 DEF NetInv, HandlersInv, Spots
      <4>2. ~(h.run = "read" /\ h.cli = c)
        BY <3>1, <2>2, <1>1, CalledFirst
      <4> QED
        BY <4>1, <4>2
    <3>3. h.run = "read" => reading'[h.cli] = reading[h.cli]
      BY <1>1, <3>2, HandlerKinds DEF NetInv, ConnTypes
    <3>4. Sound(h)'
      BY <1>1, <3>2, <3>3 DEF Sound
    <3> QED
      BY <3>1, <3>4
  <2> QED
    BY <1>1, <2>1, <2>2, HandlersKept DEF NetInv
<1> QED
  BY <1>3, <1>4, <1>5, <1>6 DEF NetInv

(* A pending read of c that has ended waits to be called. *)
LEMMA ReadPosted ==
  ASSUME NetInv, NEW c \in Clients, NEW got \in {"known", "unknown", "error"}, reading[c],
         NEW drop \in {0, 1}, Moves(drop, {}, {Read(c, got)}),
         reading' = [reading EXCEPT ![c] = FALSE], object'[c] \in Ran, late' = late,
         \A i \in Spots : i > drop => \E h : h = handlers[i] /\ Sound(h)'
  PROVE  HandlersInv'
<1>1. \E h : h = Read(c, got) /\ h.run = "read" /\ h.cli = c /\ Sound(h)'
  <2>1. PICK h : h = Read(c, got)
    OBVIOUS
  <2>2. h.run = "read" /\ h.cli = c
    BY <2>1, TheHandlers
  <2>3. Sound(h)'
    BY <2>2 DEF Sound, NetInv, ConnTypes
  <2> QED
    BY <2>1, <2>2, <2>3
<1>2. ASSUME NEW i \in Spots PROVE ~(handlers[i].run = "read" /\ handlers[i].cli = c)
  <2>1. Sound(handlers[i])
    BY DEF NetInv, HandlersInv
  <2> QED
    BY <2>1 DEF Sound
<1>3. \A h \in {Read(c, got)} : /\ h.run # "write"
                               /\ Sound(h)'
                               /\ \A k \in {Read(c, got)} : k = h
                               /\ \A i \in Spots :
                                    i > drop => ~(handlers[i].run = h.run /\ handlers[i].cli = h.cli)
  BY <1>1, <1>2
<1>4. {Read(c, got)} \subseteq AnyHandler
  BY TheHandlers
<1> QED
  BY <1>3, <1>4, HandlersKept DEF NetInv

(* Once a read of c has ended the other handlers are as sound as before. *)
LEMMA SoundWithoutRead ==
  ASSUME NetInv, NEW c \in Clients, reading' = [reading EXCEPT ![c] = FALSE],
         UNCHANGED <<object, marked, late>>, NEW i \in Spots
  PROVE  \E h : h = handlers[i] /\ Sound(h)'
<1>1. PICK h : h = handlers[i]
  OBVIOUS
<1>2. Sound(h) /\ h \in AnyHandler
  BY <1>1 DEF NetInv, HandlersInv, Spots
<1>3. reading'[h.cli] => reading[h.cli]
  BY <1>2, HandlerKinds DEF NetInv, ConnTypes
<1>4. Sound(h)'
  BY <1>2, <1>3 DEF Sound
<1> QED
  BY <1>1, <1>4

LEMMA ReadFailsStep ==
  ASSUME NetInv, NEW c \in Clients, ReadFails(c)
  PROVE  NetInv'
<1>1. /\ reading[c] /\ reading' = [reading EXCEPT ![c] = FALSE]
      /\ handlers' = Append(handlers, Read(c, "error"))
      /\ UNCHANGED <<object, peer, sockOpen, marked, partial, mainPc, lobby, playing, inbox, srvPc,
                     fault, spoke, late>>
  BY DEF ReadFails, CancelRead, loopVars, serverVars, histVars
<1>2. ConnTypes' /\ ServerTypes'
  BY <1>1 DEF NetInv, ConnTypes, ServerTypes
<1>3. ClientsInv'
  <2>1. \A d \in Clients : reading'[d] => reading[d]
    BY <1>1 DEF NetInv, ConnTypes
  <2> QED
    BY <1>1, <2>1 DEF NetInv, ClientsInv, Registered
<1>4. Moves(0, {}, {Read(c, "error")})
  BY <1>1, PostMoves, TheHandlers DEF NetInv
<1>5. object'[c] \in Ran
  BY <1>1 DEF NetInv, ClientsInv, Ran
<1>6. HandlersInv'
  BY <1>1, <1>4, <1>5, SoundWithoutRead, ReadPosted
<1> QED
  BY <1>2, <1>3, <1>6 DEF NetInv

LEMMA PeerSendsStep ==
  ASSUME NetInv, NEW c \in Clients, NEW got \in {"known", "unknown"}, PeerSends(c, got)
  PROVE  NetInv'
<1>1. /\ reading[c] /\ reading' = [reading EXCEPT ![c] = FALSE]
      /\ partial' = partial \cup {c}
      /\ handlers' = Append(handlers, Read(c, got))
      /\ UNCHANGED <<object, peer, sockOpen, marked, mainPc, lobby, playing, inbox, srvPc,
                     fault, spoke, late>>
  BY DEF PeerSends, CancelRead, loopVars, serverVars, histVars
<1>2. ConnTypes' /\ ServerTypes'
  BY <1>1 DEF NetInv, ConnTypes, ServerTypes
<1>3. ClientsInv'
  <2>1. \A d \in Clients : reading'[d] => reading[d]
    BY <1>1 DEF NetInv, ConnTypes
  <2> QED
    BY <1>1, <2>1 DEF NetInv, ClientsInv, Registered
<1>4. Moves(0, {}, {Read(c, got)})
  BY <1>1, PostMoves, TheHandlers DEF NetInv
<1>5. object'[c] \in Ran
  BY <1>1 DEF NetInv, ClientsInv, Ran
<1>6. HandlersInv'
  BY <1>1, <1>4, <1>5, SoundWithoutRead, ReadPosted
<1> QED
  BY <1>2, <1>3, <1>6 DEF NetInv

(* deleteSelf; a read that is pending ends. *)
LEMMA DeleteSelfStep ==
  ASSUME NetInv, NEW c \in Clients, DeleteSelf(c)
  PROVE  NetInv'
<1>1. /\ Calls("delete", c)
      /\ object' = [object EXCEPT ![c] = "deleted"] /\ sockOpen' = [sockOpen EXCEPT ![c] = FALSE]
      /\ reading' = [reading EXCEPT ![c] = FALSE]
      /\ handlers' = IF reading[c] THEN Append(Tail(handlers), Read(c, "error")) ELSE Tail(handlers)
      /\ UNCHANGED <<peer, marked, partial, mainPc, lobby, playing, inbox, srvPc, fault, spoke, late>>
  BY DEF DeleteSelf, CancelRead, loopVars, serverVars, histVars
<1>2. object[c] = "alive" /\ marked[c] /\ handlers # <<>>
  BY <1>1, CalledFirst DEF Sound, Calls
<1>3. ConnTypes' /\ ServerTypes'
  BY <1>1 DEF NetInv, ConnTypes, ServerTypes
<1>4. /\ object'[c] = "deleted" /\ ~reading'[c]
      /\ \A d \in Clients : d # c => object'[d] = object[d] /\ reading'[d] = reading[d]
  BY <1>1 DEF NetInv, ConnTypes
<1>5. ClientsInv'
  BY <1>1, <1>2, <1>4 DEF NetInv, ClientsInv, Registered, Ran
<1>6. ASSUME NEW i \in Spots, i > 1 PROVE \E h : h = handlers[i] /\ Sound(h)'
  <2>1. PICK h : h = handlers[i]
    OBVIOUS
  <2>2. Sound(h) /\ h \in AnyHandler /\ ~(h.run = "delete" /\ h.cli = c)
    <3>1. Sound(h) /\ h \in AnyHandler
      BY <2>1 DEF NetInv, HandlersInv, Spots
    <3>2. ~(h.run = "delete" /\ h.cli = c)
      BY <2>1, <1>6, <1>1, CalledFirst
    <3> QED
      BY <3>1, <3>2
  <2>3. CASE h.cli # c
    BY <2>1, <2>2, <2>3, <1>1, <1>4, HandlerKinds, SoundElsewhere
  <2>4. CASE h.cli = c
    <3>1. h.run = "write" => c \in late
      <4> SUFFICES ASSUME h.run = "write", c \notin late PROVE FALSE
        OBVIOUS
      <4>1. 1 \in Spots /\ handlers[1] = Delete(handlers[i].cli)
        BY <1>1, <2>1, <2>4, CalledFirst, HandlerKinds
      <4>2. i < 1
        BY <4>1, <2>1, <2>4 DEF NetInv, HandlersInv
      <4> QED
        BY <4>2, <1>6 DEF Spots
    <3>2. Sound(h)'
      BY <1>1, <1>2, <1>4, <2>2, <2>4, <3>1 DEF Sound, Ran
    <3> QED
      BY <2>1, <3>2
  <2> QED
    BY <2>3, <2>4
<1>7. HandlersInv'
  <2>1. CASE reading[c]
    <3>1. Moves(1, {}, {Read(c, "error")})
      BY <1>1, <1>2, <2>1, CallAndPostMoves, TheHandlers DEF NetInv
    <3>2. object'[c] \in Ran
      BY <1>4 DEF Ran
    <3> QED
      BY <1>1, <1>6, <2>1, <3>1, <3>2, ReadPosted
  <2>2. CASE ~reading[c]
    <3>1. Moves(1, {}, {})
      BY <1>1, <1>2, <2>2, CallMoves DEF NetInv
    <3> QED
      BY <1>1, <1>6, <3>1, HandlersKept DEF NetInv
  <2> QED
    BY <2>1, <2>2
<1> QED
  BY <1>3, <1>5, <1>7 DEF NetInv

LEMMA PeerConnectsStep ==
  ASSUME NetInv, NEW c \in Clients, PeerConnects(c)
  PROVE  NetInv'
<1>1. /\ object[c] = "none"
      /\ object' = [object EXCEPT ![c] = "accepted"] /\ peer' = [peer EXCEPT ![c] = "up"]
      /\ sockOpen' = [sockOpen EXCEPT ![c] = TRUE]
      /\ handlers' = Append(handlers, Accept(c))
      /\ UNCHANGED <<reading, marked, partial, mainPc, lobby, playing, inbox, srvPc, fault, spoke, late>>
  BY DEF PeerConnects, serverVars, histVars
<1>2. ConnTypes' /\ ServerTypes'
  BY <1>1 DEF NetInv, ConnTypes, ServerTypes
<1>3. object'[c] = "accepted" /\ \A d \in Clients : d # c => object'[d] = object[d]
  BY <1>1 DEF NetInv, ConnTypes
<1>4. ClientsInv'
  BY <1>1, <1>3 DEF NetInv, ClientsInv, Registered, Ran
<1>5. ASSUME NEW i \in Spots
      PROVE  handlers[i].cli # c /\ \E h : h = handlers[i] /\ Sound(h)'
  <2>1. PICK h : h = handlers[i]
    OBVIOUS
  <2>2. Sound(h) /\ h \in AnyHandler
    BY <2>1 DEF NetInv, HandlersInv, Spots
  <2>3. h.cli # c /\ h.cli \in Clients
    BY <1>1, <2>2, HandlerKinds DEF Sound, Ran
  <2>4. Sound(h)'
    BY <1>1, <1>3, <2>2, <2>3, SoundElsewhere
  <2> QED
    BY <2>1, <2>3, <2>4
<1>6. \E h : h = Accept(c) /\ h.run = "accept" /\ h.cli = c /\ Sound(h)'
  <2>1. PICK h : h = Accept(c)
    OBVIOUS
  <2>2. h.run = "accept" /\ h.cli = c
    BY <2>1, TheHandlers
  <2>3. Sound(h)'
    BY <1>3, <2>2 DEF Sound
  <2> QED
    BY <2>1, <2>2, <2>3
<1>7. Moves(0, {}, {Accept(c)}) /\ {Accept(c)} \subseteq AnyHandler
  BY <1>1, PostMoves, TheHandlers DEF NetInv
<1>8. \A h \in {Accept(c)} : /\ h.run # "write"
                            /\ Sound(h)'
                            /\ \A k \in {Accept(c)} : k = h
                            /\ \A i \in Spots :
                                 i > 0 => ~(handlers[i].run = h.run /\ handlers[i].cli = h.cli)
  BY <1>5, <1>6
<1>9. HandlersInv'
  BY <1>1, <1>5, <1>7, <1>8, HandlersKept DEF NetInv
<1> QED
  BY <1>2, <1>4, <1>9 DEF NetInv
-----------------------------------------------------------------------------
(* The game server writes to the clients it has registered. *)
LEMMA ServerWrites ==
  ASSUME NetInv, NEW S \in SUBSET Clients, IsFiniteSet(S), handlers' = handlers \o WritesTo(S),
         \A c \in S : object[c] \in Ran /\ (marked[c] => c \in late'),
         UNCHANGED <<object, reading, marked>>, late \subseteq late'
  PROVE  HandlersInv'
<1>1. Moves(0, S, {})
  BY WritesToType, WriteMoves DEF NetInv
<1>2. ASSUME NEW i \in Spots PROVE \E h : h = handlers[i] /\ Sound(h)'
  <2>1. PICK h : h = handlers[i] /\ Sound(h)
    BY DEF NetInv, HandlersInv
  <2> QED
    BY <2>1, SoundElsewhere
<1>3. ASSUME NEW d \in S
      PROVE  /\ object'[d] \in Ran /\ (object'[d] = "deleted" => d \in late')
             /\ \A i \in Spots : i > 0 /\ handlers[i] = Delete(d) => d \in late'
  <2>1. object[d] = "deleted" => marked[d]
    BY DEF NetInv, ClientsInv
  <2>2. ASSUME NEW i \in Spots, handlers[i] = Delete(d) PROVE marked[d]
    <3>1. Sound(handlers[i])
      BY DEF NetInv, HandlersInv
    <3> QED
      BY <2>2, <3>1, TheHandlers DEF Sound
  <2> QED
    BY <2>1, <2>2
<1> QED
  BY <1>1, <1>2, <1>3, HandlersKept DEF NetInv

LEMMA LoadPlayerStep ==
  ASSUME NetInv, NEW c \in Clients, LoadPlayer(c)
  PROVE  NetInv'
<1>1. /\ [type |-> "LoadPlayer", sender |-> c] \in inbox
      /\ inbox' = inbox \ {[type |-> "LoadPlayer", sender |-> c]}
      /\ lobby' = lobby \ {c} /\ playing' = playing \cup {c}
      /\ late' = IF marked[c] THEN late \cup {c} ELSE late
      /\ handlers' = handlers \o WritesTo(playing')
      /\ UNCHANGED <<object, peer, sockOpen, reading, marked, partial, mainPc, srvPc, spoke>>
  BY DEF LoadPlayer, connVars, loopVars
<1>2. fault' \in {"none", "dead client", "dead handler", "dead physics", "dead server"}
  BY DEF LoadPlayer, Reached, NetInv, ServerTypes
<1>3. c \in spoke /\ object[c] \in Ran
  BY <1>1 DEF NetInv, ClientsInv
<1>4. IsFiniteSet(lobby') /\ IsFiniteSet(playing')
  BY <1>1, FS_RemoveElement, FS_AddElement DEF NetInv, ServerTypes
<1>5. ConnTypes' /\ ServerTypes'
  BY <1>1, <1>2, <1>4 DEF NetInv, ConnTypes, ServerTypes
<1>6. ClientsInv'
  BY <1>1, <1>3 DEF NetInv, ClientsInv, Registered
<1> DEFINE S == playing \cup {c}
<1>7. S \subseteq Clients /\ IsFiniteSet(S) /\ handlers' = handlers \o WritesTo(S)
  BY <1>1, <1>4 DEF NetInv, ServerTypes
<1>8. \A d \in S : object[d] \in Ran /\ (marked[d] => d \in late')
  BY <1>1, <1>3 DEF NetInv, ServerTypes, ClientsInv, Registered
<1> HIDE DEF S
<1>9. HandlersInv'
  BY <1>1, <1>7, <1>8, ServerWrites
<1> QED
  BY <1>5, <1>6, <1>9 DEF NetInv

LEMMA PushTransformsStep ==
  ASSUME NetInv, PushTransforms
  PROVE  NetInv'
<1>1. /\ handlers' = handlers \o WritesTo(Registered)
      /\ UNCHANGED <<object, peer, sockOpen, reading, marked, partial, mainPc, lobby, playing, inbox,
                     srvPc, spoke, late>>
  BY DEF PushTransforms, connVars, loopVars, serverVars
<1>2. fault' \in {"none", "dead client", "dead handler", "dead physics", "dead server"}
  BY DEF PushTransforms, Reached, NetInv, ServerTypes
<1>3. ConnTypes' /\ ServerTypes' /\ ClientsInv'
  BY <1>1, <1>2 DEF NetInv, ConnTypes, ServerTypes, ClientsInv, Registered
<1>4. Registered \subseteq Clients /\ IsFiniteSet(Registered)
  BY FS_Union DEF NetInv, ServerTypes, Registered
<1>5. \A d \in Registered : object[d] \in Ran /\ (marked[d] => d \in late')
  BY <1>1, <1>4 DEF NetInv, ClientsInv
<1>6. HandlersInv'
  BY <1>1, <1>4, <1>5, ServerWrites
<1> QED
  BY <1>3, <1>6 DEF NetInv

(* The steps that neither call nor post a handler. *)
Elsewhere ==
  \/ \E c \in Clients : DeadHandler(c) \/ ReadThrows(c) \/ PeerFinishes(c) \/ PeerLeaves(c)
  \/ RunReturns \/ Watcher \/ AcceptFails \/ Signal
  \/ HandleShutdown \/ DeletePhysics \/ CloseClients \/ ServerEnds

LEMMA ElsewhereStep ==
  ASSUME NetInv, Elsewhere
  PROVE  NetInv'
<1>1. UNCHANGED <<handlers, object, reading, marked, lobby, playing, spoke, late>>
  BY DEF Elsewhere, DeadHandler, ReadThrows, PeerFinishes, PeerLeaves, RunReturns, Watcher,
         AcceptFails, Signal, HandleShutdown, DeletePhysics, CloseClients, ServerEnds, Becomes,
         connVars, loopVars, serverVars, histVars
<1>2. HandlersInv'
  BY <1>1, HandlersStay
<1>3. peer' \in [Clients -> {"none", "up", "gone"}]
  <2>1. peer \in [Clients -> {"none", "up", "gone"}]
    BY DEF NetInv, ConnTypes
  <2>2. CASE \E c \in Clients : PeerLeaves(c)
    BY <2>1, <2>2 DEF PeerLeaves
  <2>3. CASE UNCHANGED peer
    BY <2>1, <2>3
  <2> QED
    BY <2>2, <2>3 DEF Elsewhere, DeadHandler, ReadThrows, PeerFinishes, RunReturns, Watcher,
         AcceptFails, Signal, HandleShutdown, DeletePhysics, CloseClients, ServerEnds, Becomes,
         connVars
<1>4. sockOpen' \in [Clients -> BOOLEAN]
  <2>1. sockOpen \in [Clients -> BOOLEAN]
    BY DEF NetInv, ConnTypes
  <2>2. CASE CloseClients
    BY <2>1, <2>2 DEF CloseClients
  <2>3. CASE UNCHANGED sockOpen
    BY <2>1, <2>3
  <2> QED
    BY <2>2, <2>3 DEF Elsewhere, DeadHandler, ReadThrows, PeerFinishes, PeerLeaves, RunReturns,
         Watcher, AcceptFails, Signal, HandleShutdown, DeletePhysics, ServerEnds, connVars
<1>5. partial' \subseteq Clients
  <2>1. partial \subseteq Clients
    BY DEF NetInv, ConnTypes
  <2>2. partial' \subseteq partial
    BY DEF Elsewhere, DeadHandler, ReadThrows, PeerFinishes, PeerLeaves, RunReturns, Watcher,
         AcceptFails, Signal, HandleShutdown, DeletePhysics, CloseClients, ServerEnds, Becomes,
         connVars
  <2> QED
    BY <2>1, <2>2
<1>6. ConnTypes'
  BY <1>1, <1>3, <1>4, <1>5 DEF NetInv, ConnTypes
<1>7. srvPc' \in {"loop", "finish", "close", "end", "ended"}
  BY DEF NetInv, ServerTypes, Elsewhere, DeadHandler, ReadThrows, PeerFinishes, PeerLeaves,
         RunReturns, Watcher, AcceptFails, Signal, HandleShutdown, DeletePhysics, CloseClients,
         ServerEnds, Becomes, serverVars
<1>8. mainPc' \in {"run", "done", "aborted"}
  BY DEF NetInv, ServerTypes, Elsewhere, DeadHandler, ReadThrows, PeerFinishes, PeerLeaves,
         RunReturns, Watcher, AcceptFails, Signal, HandleShutdown, DeletePhysics, CloseClients,
         ServerEnds, Becomes, loopVars
<1>9. fault' \in {"none", "dead client", "dead handler", "dead physics", "dead server"}
  BY DEF NetInv, ServerTypes, Elsewhere, DeadHandler, ReadThrows, PeerFinishes, PeerLeaves,
         RunReturns, Watcher, AcceptFails, Signal, HandleShutdown, DeletePhysics, CloseClients,
         ServerEnds, Becomes, Reached
<1>10. inbox' \subseteq inbox \cup {[type |-> "Shutdown"]}
  BY DEF Elsewhere, DeadHandler, ReadThrows, PeerFinishes, PeerLeaves,
         RunReturns, Watcher, AcceptFails, Signal, HandleShutdown, DeletePhysics, CloseClients,
         ServerEnds, Becomes, serverVars
<1>11. ServerTypes'
  BY <1>1, <1>7, <1>8, <1>9 DEF NetInv, ServerTypes
<1>12. ClientsInv'
  <2>1. \A c \in Clients : [type |-> "LoadPlayer", sender |-> c] # [type |-> "Shutdown"]
    OBVIOUS
  <2> QED
    BY <1>1, <1>10, <2>1 DEF NetInv, ClientsInv, Registered
<1> QED
  BY <1>2, <1>6, <1>11, <1>12 DEF NetInv

LEMMA NetInvStep == NetInv /\ [Next]_vars => NetInv'
<1> SUFFICES ASSUME NetInv, [Next]_vars PROVE NetInv'
  OBVIOUS
<1>1. ASSUME NEW c \in Clients, HandleAccept(c) PROVE NetInv'
  BY <1>1, HandleAcceptStep
<1>2. ASSUME NEW c \in Clients, WriteMsg(c) PROVE NetInv'
  BY <1>2, WriteMsgStep
<1>3. ASSUME NEW c \in Clients, NEW msg \in Messages(c), ReadMsg(c, msg) PROVE NetInv'
  BY <1>3, ReadMsgStep
<1>4. ASSUME NEW c \in Clients, ReadEnds(c) PROVE NetInv'
  BY <1>4, ReadEndsStep
<1>5. ASSUME NEW c \in Clients, DeleteSelf(c) PROVE NetInv'
  BY <1>5, DeleteSelfStep
<1>6. ASSUME NEW c \in Clients, ReadFails(c) PROVE NetInv'
  BY <1>6, ReadFailsStep
<1>7. ASSUME NEW c \in Clients, LoadPlayer(c) PROVE NetInv'
  BY <1>7, LoadPlayerStep
<1>8. CASE PushTransforms
  BY <1>8, PushTransformsStep
<1>9. ASSUME NEW c \in Clients, PeerConnects(c) PROVE NetInv'
  BY <1>9, PeerConnectsStep
<1>10. ASSUME NEW c \in Clients, NEW got \in {"known", "unknown"}, PeerSends(c, got) PROVE NetInv'
  BY <1>10, PeerSendsStep
<1>11. CASE Elsewhere
  BY <1>11, ElsewhereStep
<1>12. CASE UNCHANGED vars
  <2>1. UNCHANGED <<object, peer, sockOpen, reading, marked, partial, mainPc, handlers, lobby, playing,
                    inbox, srvPc, fault, spoke, late>>
    BY <1>12 DEF vars, connVars, loopVars, serverVars, histVars
  <2>2. HandlersInv'
    BY <2>1, HandlersStay
  <2>3. ConnTypes' /\ ServerTypes' /\ ClientsInv'
    BY <2>1 DEF NetInv, ConnTypes, ServerTypes, ClientsInv, Registered
  <2> QED
    BY <2>2, <2>3 DEF NetInv
<1>13. CASE IoThread
  BY <1>1, <1>2, <1>3, <1>4, <1>5, <1>6, <1>11, <1>13 DEF IoThread, Elsewhere
<1>14. CASE ServerThread
  BY <1>7, <1>11, <1>14 DEF ServerThread, Elsewhere
<1>15. CASE Environment
  BY <1>9, <1>10, <1>11, <1>15 DEF Environment, Elsewhere
<1>16. CASE Watcher
  BY <1>11, <1>16 DEF Elsewhere
<1> QED
  BY <1>8, <1>12, <1>13, <1>14, <1>15, <1>16 DEF Next, Up

LEMMA NetInvariant == Spec => []NetInv
BY NetInvInit, NetInvStep, PTL DEF Spec
-----------------------------------------------------------------------------
(* A set whose elements are all the same. *)
LEMMA AtMostOne ==
  ASSUME NEW S, \A x, y \in S : x = y
  PROVE  Cardinality(S) \in {0, 1} /\ (S = {} => Cardinality(S) = 0)
<1>1. CASE S = {}
  BY <1>1, FS_EmptySet
<1>2. CASE S # {}
  <2>1. PICK x \in S : TRUE
    BY <1>2
  <2>2. S = {x}
    BY <2>1
  <2> QED
    BY <1>2, <2>2, FS_Singleton
<1> QED
  BY <1>1, <1>2

LEMMA PendingOnce ==
  ASSUME NetInv, NEW c \in Clients, NEW kind \in {"read", "delete"}
  PROVE  /\ Cardinality(Pending(kind, c)) \in {0, 1}
         /\ Pending(kind, c) = {} => Cardinality(Pending(kind, c)) = 0
<1>1. \A i, j \in Pending(kind, c) : i = j
  BY DEF Pending, NetInv, HandlersInv, Spots
<1> QED
  BY <1>1, AtMostOne

LEMMA PendingSound ==
  ASSUME NetInv, NEW c \in Clients
  PROVE  /\ Pending("read", c) # {} => ~reading[c]
         /\ Pending("delete", c) # {} => object[c] = "alive" /\ marked[c]
         /\ Pending("write", c) # {} /\ object[c] = "deleted" => c \in late
<1>1. \A kind : \A i \in Pending(kind, c) :
        i \in Spots /\ Sound(handlers[i]) /\ handlers[i].run = kind /\ handlers[i].cli = c
  BY DEF Pending, NetInv, HandlersInv, Spots
<1> QED
  BY <1>1 DEF Sound

(* Every state has the types the module states, and a connection has one   *)
(* read at a time, of a client that is alive (remoteclient.hpp:34-44,      *)
(* remoteclient.cpp:23-27 and 71-72).                                      *)
THEOREM NetTypeCorrect == Spec => []TypeOK
<1>1. NetInv => TypeOK
  <2> SUFFICES ASSUME NetInv PROVE TypeOK
    OBVIOUS
  <2>1. ASSUME NEW c \in Clients
        PROVE  /\ object[c] \in {"none", "accepted", "alive", "deleted"}
               /\ peer[c] \in {"none", "up", "gone"}
               /\ reading[c] => object[c] = "alive" /\ Pending("read", c) = {}
               /\ marked[c] => object[c] \in {"alive", "deleted"}
               /\ Cardinality(Pending("read", c)) <= 1
    <3>1. Cardinality(Pending("read", c)) <= 1
      BY PendingOnce
    <3>2. reading[c] => object[c] = "alive" /\ Pending("read", c) = {}
      BY PendingSound DEF NetInv, ClientsInv
    <3> QED
      BY <3>1, <3>2 DEF NetInv, ConnTypes, ClientsInv, Ran
  <2> QED
    BY <2>1 DEF NetInv, ConnTypes, ServerTypes, TypeOK
<1> QED
  BY <1>1, NetInvariant, PTL

(* However many reads and writes of a connection fail, and in whichever    *)
(* order, its client is deleted once (remoteclient.cpp:34-45, 52-64).      *)
THEOREM ClientsAreDeletedOnce == Spec => []DeletedOnce
<1>1. NetInv => DeletedOnce
  <2> SUFFICES ASSUME NetInv, NEW c \in Clients
               PROVE  /\ Cardinality(Pending("delete", c)) <= (IF marked[c] THEN 1 ELSE 0)
                      /\ object[c] = "deleted" => Pending("delete", c) = {}
    BY DEF DeletedOnce
  <2>1. CASE Pending("delete", c) = {}
    BY <2>1, PendingOnce
  <2>2. CASE Pending("delete", c) # {}
    BY <2>2, PendingOnce, PendingSound
  <2> QED
    BY <2>1, <2>2
<1> QED
  BY <1>1, NetInvariant, PTL

(* The writes to a client are called before its deletion, unless an old    *)
(* message of its own has registered it again (remoteclient.cpp:42-44,     *)
(* localserver.cpp:107-121).                                               *)
THEOREM WritesComeFirst == Spec => []WritesPrecedeDelete
<1>1. NetInv => WritesPrecedeDelete
  <2> SUFFICES ASSUME NetInv, NEW c \in Clients, c \notin late
               PROVE  /\ object[c] = "deleted" => Pending("write", c) = {}
                      /\ \A i \in Pending("write", c), j \in Pending("delete", c) : i < j
    BY DEF WritesPrecedeDelete
  <2>1. object[c] = "deleted" => Pending("write", c) = {}
    BY PendingSound
  <2>2. ASSUME NEW i \in Pending("write", c), NEW j \in Pending("delete", c) PROVE i < j
    <3>1. i \in Spots /\ j \in Spots /\ handlers[i].run = "write" /\ handlers[i].cli = c
      BY DEF Pending, Spots
    <3>2. handlers[j] \in AnyHandler /\ handlers[j].run = "delete" /\ handlers[j].cli = c
      BY DEF Pending, NetInv, HandlersInv
    <3>3. handlers[j] = Delete(handlers[i].cli)
      BY <3>1, <3>2, HandlerKinds
    <3> QED
      BY <3>1, <3>3 DEF NetInv, HandlersInv
  <2> QED
    BY <2>1, <2>2
<1> QED
  BY <1>1, NetInvariant, PTL
-----------------------------------------------------------------------------
(* How the life of a client goes on. *)
LEMMA OneLife ==
  ASSUME NEW c \in Clients, NEW now, Life(c)' = now,
         \A d \in Clients : d # c => Life(d)' = Life(d)
  PROVE  [d \in Clients |-> Life(d)]' = [[d \in Clients |-> Life(d)] EXCEPT ![c] = now]
OBVIOUS

LEMMA SameLives ==
  ASSUME UNCHANGED <<object, marked>>
  PROVE  [d \in Clients |-> Life(d)]' = [d \in Clients |-> Life(d)]
<1>1. \A d \in Clients : Life(d)' = Life(d)
  BY DEF Life
<1> QED
  BY <1>1

LEMMA RegistryDisconnect ==
  ASSUME NetInv, NEW c \in Clients, object[c] = "alive", ~marked[c],
         Disconnect(c, Tail(handlers)), UNCHANGED <<object, spoke>>
  PROVE  Registry!Leave(c)
<1>1. lobby' = lobby \ {c} /\ playing' = playing \ {c} /\ marked' = [marked EXCEPT ![c] = TRUE]
  BY DEF Disconnect, LobbyWithout
<1>2. Life(c) = "connected" /\ Life(c)' = "removed"
  BY <1>1 DEF Life, NetInv, ConnTypes
<1>3. \A d \in Clients : d # c => Life(d)' = Life(d)
  BY <1>1 DEF Life, NetInv, ConnTypes
<1>4. Registered' = Registered \ {c}
  BY <1>1 DEF Registered
<1> QED
  BY <1>2, <1>3, <1>4, OneLife DEF Registry!Leave, Registry!Becomes

LEMMA RegistryIo ==
  ASSUME NetInv, IoThread
  PROVE  Registry!Next \/ UNCHANGED <<object, marked, spoke, lobby, playing>>
<1>1. ASSUME NEW c \in Clients, HandleAccept(c) PROVE Registry!Join(c)
  <2>1. /\ Calls("accept", c) /\ object' = [object EXCEPT ![c] = "alive"] /\ lobby' = lobby \cup {c}
        /\ UNCHANGED <<marked, playing, spoke>>
    BY <1>1 DEF HandleAccept, histVars
  <2>2. object[c] = "accepted"
    BY <2>1, CalledFirst DEF Sound
  <2>3. ~marked[c]
    BY <2>2 DEF NetInv, ClientsInv, Ran
  <2>4. Life(c) = "new" /\ Life(c)' = "connected"
    BY <2>1, <2>2, <2>3 DEF Life, NetInv, ConnTypes
  <2>5. \A d \in Clients : d # c => Life(d)' = Life(d)
    BY <2>1 DEF Life, NetInv, ConnTypes
  <2>6. Registered' = Registered \cup {c}
    BY <2>1 DEF Registered
  <2> QED
    BY <2>1, <2>4, <2>5, <2>6, OneLife DEF Registry!Join, Registry!Becomes
<1>2. ASSUME NEW c \in Clients, WriteMsg(c) \/ ReadEnds(c)
      PROVE  Registry!Leave(c) \/ UNCHANGED <<object, marked, spoke, lobby, playing>>
  <2>1. /\ Calls("write", c) \/ Calls("read", c)
        /\ c \notin Deleted /\ UNCHANGED <<object, spoke>>
    BY <1>2 DEF WriteMsg, ReadEnds, histVars
  <2>2. object[c] = "alive"
    BY <2>1, CalledFirst DEF Sound, Ran, Deleted
  <2>3. CASE Quietly(Tail(handlers))
    BY <2>1, <2>3 DEF Quietly, serverVars
  <2>4. CASE Disconnect(c, Tail(handlers)) /\ ~marked[c]
    BY <2>1, <2>2, <2>4, RegistryDisconnect
  <2> QED
    BY <1>2, <2>3, <2>4 DEF WriteMsg, ReadEnds, FirstError
<1>3. ASSUME NEW c \in Clients, NEW msg \in Messages(c), ReadMsg(c, msg) PROVE Registry!Speak(c)
  <2>1. /\ Calls("read", c) /\ c \notin Deleted /\ ~marked[c] /\ spoke' = spoke \cup {c}
        /\ UNCHANGED <<object, marked, lobby, playing>>
    BY <1>3 DEF ReadMsg, Reads
  <2>2. object[c] = "alive"
    BY <2>1, CalledFirst DEF Sound, Ran, Deleted
  <2>3. Life(c) = "connected"
    BY <2>1, <2>2 DEF Life
  <2> QED
    BY <2>1, <2>3, SameLives DEF Registry!Speak, Registered
<1>4. ASSUME NEW c \in Clients, DeleteSelf(c) PROVE Registry!Die(c)
  <2>1. /\ Calls("delete", c) /\ object' = [object EXCEPT ![c] = "deleted"]
        /\ UNCHANGED <<marked, spoke, lobby, playing>>
    BY <1>4 DEF DeleteSelf, serverVars, histVars
  <2>2. object[c] = "alive" /\ marked[c]
    BY <2>1, CalledFirst DEF Sound
  <2>3. Life(c) = "removed" /\ Life(c)' = "deleted"
    BY <2>1, <2>2 DEF Life, NetInv, ConnTypes
  <2>4. \A d \in Clients : d # c => Life(d)' = Life(d)
    BY <2>1 DEF Life, NetInv, ConnTypes
  <2>5. Registered' = Registered
    BY <2>1 DEF Registered
  <2> QED
    BY <2>1, <2>3, <2>4, <2>5, OneLife DEF Registry!Die, Registry!Becomes
<1>5. ASSUME NEW c \in Clients, DeadHandler(c) \/ ReadThrows(c) \/ ReadFails(c)
      PROVE  UNCHANGED <<object, marked, spoke, lobby, playing>>
  BY <1>5 DEF DeadHandler, ReadThrows, ReadFails, connVars, serverVars, histVars
<1>6. CASE RunReturns
  BY <1>6 DEF RunReturns, connVars, serverVars, histVars
<1> QED
  BY <1>1, <1>2, <1>3, <1>4, <1>5, <1>6 DEF IoThread, Registry!Next

LEMMA RegistryStep == NetInv /\ [Next]_vars => [Registry!Next]_(Registry!vars)
<1> SUFFICES ASSUME NetInv, [Next]_vars PROVE [Registry!Next]_(Registry!vars)
  OBVIOUS
<1>1. ASSUME UNCHANGED <<object, marked, spoke>>, Registered' = Registered
      PROVE  UNCHANGED Registry!vars
  BY <1>1, SameLives DEF Registry!vars
<1>2. CASE IoThread
  BY <1>1, <1>2, RegistryIo DEF Registered
<1>3. ASSUME NEW c \in Clients, LoadPlayer(c) PROVE Registry!Hear(c)
  <2>1. /\ [type |-> "LoadPlayer", sender |-> c] \in inbox
        /\ lobby' = lobby \ {c} /\ playing' = playing \cup {c}
        /\ UNCHANGED <<object, marked, spoke>>
    BY <1>3 DEF LoadPlayer, connVars
  <2>2. c \in spoke
    BY <2>1 DEF NetInv, ClientsInv
  <2>3. Registered' = Registered \cup {c}
    BY <2>1 DEF Registered
  <2> QED
    BY <2>1, <2>2, <2>3, SameLives DEF Registry!Hear
<1>4. ASSUME NEW c \in Clients, PeerConnects(c) PROVE UNCHANGED Registry!vars
  <2>1. /\ object[c] = "none" /\ object' = [object EXCEPT ![c] = "accepted"]
        /\ UNCHANGED <<marked, spoke, lobby, playing>>
    BY <1>4 DEF PeerConnects, serverVars, histVars
  <2>2. \A d \in Clients : Life(d)' = Life(d)
    BY <2>1 DEF Life, NetInv, ConnTypes
  <2> QED
    BY <2>1, <2>2 DEF Registry!vars, Registered
<1>5. CASE \/ PushTransforms \/ HandleShutdown \/ DeletePhysics \/ CloseClients \/ ServerEnds
           \/ Watcher \/ AcceptFails \/ Signal
           \/ \E c \in Clients : \/ \E got \in {"known", "unknown"} : PeerSends(c, got)
                                 \/ PeerFinishes(c) \/ PeerLeaves(c)
  <2>1. UNCHANGED <<object, marked, spoke, lobby, playing>>
    BY <1>5 DEF PushTransforms, HandleShutdown, DeletePhysics, CloseClients, ServerEnds, Becomes,
                Watcher, AcceptFails, Signal, PeerSends, PeerFinishes, PeerLeaves, connVars,
                serverVars, histVars
  <2> QED
    BY <1>1, <2>1 DEF Registered
<1>6. CASE UNCHANGED vars
  BY <1>1, <1>6 DEF vars, connVars, serverVars, histVars, Registered
<1> QED
  BY <1>2, <1>3, <1>4, <1>5, <1>6 DEF Next, Up, ServerThread, Environment, Registry!Next

(* The networked clients keep ClientRegistry, whatever fails on their      *)
(* connections and in whichever handler (remoteclient.cpp:19-84,           *)
(* qntsrv.cpp:33-39).                                                      *)
THEOREM NetKeepsRegistry == Spec => KeepsRegistry
<1>1. Init => Registry!Init
  BY DEF Init, Registry!Init, Life, Registered
<1> QED
  BY <1>1, NetInvariant, RegistryStep, PTL DEF Spec, KeepsRegistry, Registry!Spec
=============================================================================
