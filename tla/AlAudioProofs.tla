---------------------------- MODULE AlAudioProofs ---------------------------
(***************************************************************************)
(* Proofs about ThreadLifecycle for any number of waiting threads, and     *)
(* about the audio thread, which implements it, for any streams, headers   *)
(* and lengths.                                                            *)
(***************************************************************************)
EXTENDS AlAudio, TLAPS

LEMMA InitInv == Init => Inv
BY WaitersAssumption DEF Init, Inv, TypeOK, CleanedUpBeforeReturn, NoMissedNotify

LEMMA NextInv == Inv /\ [Next]_vars => Inv'
<1> SUFFICES ASSUME Inv, [Next]_vars PROVE Inv'
  OBVIOUS
<1> USE WaitersAssumption DEF Inv, TypeOK, CleanedUpBeforeReturn, NoMissedNotify
<1>1. CASE Launch
  BY <1>1 DEF Launch
<1>2. CASE CtorCheck
  BY <1>2 DEF CtorCheck
<1>3. CASE Delete
  BY <1>3 DEF Delete
<1>4. ASSUME NEW w \in Waiters, Finish(w) PROVE Inv'
  BY <1>4 DEF Finish
<1>5. ASSUME NEW w \in Waiters, WaitForTermination(w) PROVE Inv'
  BY <1>5 DEF WaitForTermination
<1>6. ASSUME NEW w \in Waiters, FinishCheck(w) PROVE Inv'
  BY <1>6 DEF FinishCheck
<1>7. CASE Initialise
  BY <1>7 DEF Initialise
<1>8. CASE NotifyUp
  BY <1>8 DEF NotifyUp, WakeAll
<1>9. CASE LoopCheck
  BY <1>9 DEF LoopCheck
<1>10. CASE Cleanup
  BY <1>10 DEF Cleanup
<1>11. CASE Lower
  BY <1>11 DEF Lower
<1>12. CASE NotifyDown
  BY <1>12 DEF NotifyDown, WakeAll
<1>13. CASE SpuriousWake
  BY <1>13 DEF SpuriousWake, WakeAll
<1>14. CASE UNCHANGED vars
  BY <1>14 DEF vars
<1> QED
  BY <1>1, <1>2, <1>3, <1>4, <1>5, <1>6, <1>7, <1>8, <1>9, <1>10, <1>11, <1>12,
     <1>13, <1>14 DEF Next, WorkerStep

LEMMA InvHolds == Spec => []Inv
BY InitInv, NextInv, PTL DEF Spec

(* However many threads wait, none returns before the thread has cleaned   *)
(* up after itself (btphysics.cpp:162-191, 198-204).                       *)
THEOREM CleanupPrecedesReturn == Spec => []CleanedUpBeforeReturn
<1>1. Inv => CleanedUpBeforeReturn
  BY DEF Inv
<1> QED
  BY <1>1, InvHolds, PTL

(* However many threads wait, none sleeps through the change it waits for  *)
(* (btphysics.cpp:112-115, 132-136, 187-191, 200-203).                     *)
THEOREM NotificationsAreNotMissed == Spec => []NoMissedNotify
<1>1. Inv => NoMissedNotify
  BY DEF Inv
<1> QED
  BY <1>1, InvHolds, PTL
-----------------------------------------------------------------------------
(* The audio thread implements ThreadLifecycle, so what is proved of every *)
(* such thread holds of it.                                                *)
LEMMA AudioStep == [AudioNext]_allVars => [Next]_vars
<1> SUFFICES ASSUME [AudioNext]_allVars PROVE [Next]_vars
  OBVIOUS
<1>1. CASE AudioThread
  BY <1>1 DEF AudioThread, NextPass, UpdateStream, CloseAudio, Next, WorkerStep
<1>2. CASE Owners /\ UNCHANGED audioVars
  BY <1>2 DEF Owners, Next
<1>3. CASE \E s \in Streams : \E h \in Headers : PlayFile(s, h)
  BY <1>3 DEF PlayFile
<1>4. CASE \E s \in Streams : SourcePlays(s) /\ UNCHANGED <<vars, todo>>
  BY <1>4
<1>5. CASE UNCHANGED allVars
  BY <1>5 DEF allVars
<1> QED
  BY <1>1, <1>2, <1>3, <1>4, <1>5 DEF AudioNext

(* The streams do not disturb the thread: AlAudio starts and ends as       *)
(* ThreadLifecycle says (alaudio.cpp:15-70).                               *)
THEOREM AudioImplementsLifecycle == AudioSpec => Spec
<1>1. AudioInit => Init
  BY DEF AudioInit
<1> QED
  BY <1>1, AudioStep, PTL DEF AudioSpec, Spec

(* finish returns only after the streams are deleted and OpenAL is closed  *)
(* (alaudio.cpp:50-70).                                                    *)
THEOREM AudioCleanupPrecedesReturn == AudioSpec => []CleanedUpBeforeReturn
BY AudioImplementsLifecycle, CleanupPrecedesReturn, PTL
-----------------------------------------------------------------------------
(* What is heard of each stream. *)

Buffers == Nat \X Nat

StreamType ==
  [life : {"new", "failed", "live", "over", "deleted"}, len : Nat, pos : Nat, next : {0, 1},
   usable : BOOLEAN, buffer : [0..1 -> Buffers], queue : Seq({0, 1}), played : Nat,
   source : {"initial", "playing", "stopped"}, heard : Seq(Buffers), starved : BOOLEAN]

InOrder(heard) == \A i \in 1..Len(heard) : heard[i][1] = IF i = 1 THEN 0 ELSE heard[i - 1][2]
EndOf(heard) == IF heard = <<>> THEN 0 ELSE heard[Len(heard)][2]

(* The buffer with data goes on where what comes before it ends, from a to *)
(* b; without data it adds nothing.                                        *)
GoesOn(a, data, b) ==
  IF data = Nothing THEN b = a ELSE data = <<a, b>> /\ a < b /\ b - a <= BufferLen

(* The buffers that the source has still to play go on with what has been  *)
(* heard, up to where the file has been read.                              *)
Unplayed(r) ==
  LET at(i) == r.buffer[r.queue[i]]
  IN  \/ r.played + 1 = Len(r.queue) /\ GoesOn(EndOf(r.heard), at(Len(r.queue)), r.pos)
      \/ r.played = 0 /\ Len(r.queue) = 2
           /\ \E mid \in 0..r.pos : GoesOn(EndOf(r.heard), at(1), mid) /\ GoesOn(mid, at(2), r.pos)

LiveInv(r) ==
  /\ r.pos <= r.len
  /\ Len(r.queue) <= 2 /\ (Len(r.queue) = 2 => r.queue[1] # r.queue[2])
  /\ HasMore(r) => Len(r.queue) = 2 /\ r.queue[1] = r.next
  /\ r.source \in {"playing", "stopped"}
  /\ r.source = "playing" => r.played < Len(r.queue)
  /\ r.usable /\ r.source = "playing" => Unplayed(r)
  /\ r.source = "stopped" /\ ~r.starved => ~HasMore(r) /\ (r.usable => EndOf(r.heard) = r.len)
  /\ ~r.usable => r.buffer[0] = Nothing /\ r.buffer[1] = Nothing

(* A stream that is alone finds in previous_result what its own last       *)
(* update left there.                                                      *)
StreamInv(s) ==
  LET r == stream[s]
  IN  /\ InOrder(r.heard)
      /\ r.life \in {"new", "failed"} => r.heard = <<>>
      /\ r.life = "live" => LiveInv(r)
      /\ Alone(s) /\ r.life \in {"new", "failed"} => previous_result
      /\ Alone(s) /\ r.life = "live" /\ ~previous_result => ~HasMore(r) /\ Len(r.queue) <= 1
      /\ r.life = "over" /\ r.usable /\ ~r.starved
           => r.len - EndOf(r.heard) <= IF Alone(s) THEN 0 ELSE BufferLen

StreamsInv ==
  /\ stream \in [Streams -> StreamType]
  /\ previous_result \in BOOLEAN
  /\ \A s \in Streams : StreamInv(s)
  /\ todo \subseteq Live
  /\ todo # {} => workerPc = "loop"
-----------------------------------------------------------------------------
LEMMA HeardMore ==
  ASSUME NEW h \in Seq(Buffers), NEW a \in Nat, NEW b \in Nat, InOrder(h), a = EndOf(h)
  PROVE  /\ Append(h, <<a, b>>) \in Seq(Buffers)
         /\ InOrder(Append(h, <<a, b>>))
         /\ EndOf(Append(h, <<a, b>>)) = b
<1> DEFINE d == <<a, b>>
           k == Append(h, d)
<1>1. d \in Buffers /\ d[1] = a /\ d[2] = b
  BY DEF Buffers
<1> HIDE DEF d
<1>2. /\ k \in Seq(Buffers) /\ Len(k) = Len(h) + 1 /\ Len(h) \in Nat
      /\ k[Len(h) + 1] = d /\ \A i \in 1..Len(h) : k[i] = h[i]
  BY <1>1
<1>3. k # <<>>
  BY <1>2
<1>4. h = <<>> <=> Len(h) = 0
  OBVIOUS
<1> HIDE DEF k
<1>5. EndOf(k) = b
  BY <1>1, <1>2, <1>3 DEF EndOf
<1>6. InOrder(k)
  <2> SUFFICES ASSUME NEW i \in 1..Len(k) PROVE k[i][1] = IF i = 1 THEN 0 ELSE k[i - 1][2]
    BY DEF InOrder
  <2>1. CASE i = Len(h) + 1 /\ Len(h) = 0
    BY <2>1, <1>1, <1>2, <1>4 DEF EndOf
  <2>2. CASE i = Len(h) + 1 /\ Len(h) # 0
    <3>1. k[i - 1] = h[Len(h)] /\ i # 1
      BY <2>2, <1>2
    <3>2. EndOf(h) = h[Len(h)][2]
      BY <2>2, <1>4 DEF EndOf
    <3> QED
      BY <3>1, <3>2, <2>2, <1>1, <1>2
  <2>3. CASE i \in 1..Len(h)
    <3>1. h[i][1] = IF i = 1 THEN 0 ELSE h[i - 1][2]
      BY <2>3 DEF InOrder
    <3>2. k[i] = h[i] /\ (i # 1 => k[i - 1] = h[i - 1])
      BY <2>3, <1>2
    <3> QED
      BY <3>1, <3>2
  <2> QED
    BY <2>1, <2>2, <2>3, <1>2
<1> QED
  BY <1>2, <1>5, <1>6 DEF k, d

LEMMA EndIsNat == ASSUME NEW h \in Seq(Buffers) PROVE EndOf(h) \in Nat
<1>1. CASE h = <<>>
  BY <1>1 DEF EndOf
<1>2. CASE h # <<>>
  <2>1. Len(h) \in 1..Len(h)
    BY <1>2
  <2>2. h[Len(h)] \in Buffers
    BY <2>1
  <2> QED
    BY <2>2, <1>2 DEF EndOf, Buffers
<1> QED
  BY <1>1, <1>2

(* What readyNextBuffer makes of a stream with data to read. *)
LEMMA Readied ==
  ASSUME NEW r \in StreamType, HasMore(r), NEW q, q = ReadyNextBuffer(r)
  PROVE  /\ q \in StreamType
         /\ q.pos - r.pos \in 1..BufferLen /\ q.pos <= r.len
         /\ q.next = 1 - r.next
         /\ r.usable /\ ~InUse(r, r.next) => q.buffer = [r.buffer EXCEPT ![r.next] = <<r.pos, q.pos>>]
         /\ ~r.usable => q.buffer = r.buffer
         /\ q.life = r.life /\ q.len = r.len /\ q.usable = r.usable /\ q.queue = r.queue
         /\ q.played = r.played /\ q.source = r.source /\ q.heard = r.heard /\ q.starved = r.starved
<1> DEFINE remaining == r.len - r.pos
           bufsize == IF BufferLen > remaining THEN remaining ELSE BufferLen
           pos == r.pos + bufsize
           m == [r EXCEPT !.pos = pos]
           data == <<r.pos, pos>>
<1>1. r.len \in Nat /\ r.pos \in Nat /\ r.next \in {0, 1} /\ r.usable \in BOOLEAN /\ r.buffer \in [0..1 -> Buffers]
  BY DEF StreamType
<1>2. bufsize \in 1..BufferLen /\ pos \in Nat /\ pos - r.pos = bufsize /\ pos <= r.len
  BY <1>1, StreamAssumption DEF HasMore
<1>3. data \in Buffers
  BY <1>1, <1>2 DEF Buffers
<1>4. q = FillNextBuffer(m, data)
  BY DEF ReadyNextBuffer
<1> HIDE DEF bufsize, pos, data
<1>5. /\ m \in StreamType
      /\ m.life = r.life /\ m.len = r.len /\ m.pos = pos /\ m.next = r.next /\ m.usable = r.usable
      /\ m.buffer = r.buffer /\ m.queue = r.queue /\ m.played = r.played /\ m.source = r.source
      /\ m.heard = r.heard /\ m.starved = r.starved
  BY <1>2 DEF StreamType
<1> HIDE DEF m
<1> DEFINE buf == BufferData(m, m.next, data)
<1>6. buf = IF r.usable /\ ~InUse(r, r.next) THEN [r.buffer EXCEPT ![r.next] = data] ELSE r.buffer
  BY <1>5 DEF BufferData, InUse
<1>7. buf \in [0..1 -> Buffers]
  BY <1>1, <1>3, <1>6
<1>8. q = [m EXCEPT !.buffer = buf, !.next = 1 - m.next]
  BY <1>4 DEF FillNextBuffer
<1> HIDE DEF buf
<1>9. /\ q \in StreamType
      /\ q.life = m.life /\ q.len = m.len /\ q.pos = m.pos /\ q.next = 1 - m.next /\ q.usable = m.usable
      /\ q.buffer = buf /\ q.queue = m.queue /\ q.played = m.played /\ q.source = m.source
      /\ q.heard = m.heard /\ q.starved = m.starved
  <2>1. 1 - m.next \in {0, 1}
    BY <1>1, <1>5
  <2> QED
    BY <1>5, <1>7, <1>8, <2>1 DEF StreamType
<1> QED
  BY <1>2, <1>5, <1>6, <1>9 DEF data

(* play of a stream that has just been made. *)
LEMMA Played ==
  ASSUME NEW len \in Nat, NEW ok \in BOOLEAN,
         NEW r, r = Play([NewStream EXCEPT !.life = "live", !.len = len, !.usable = ok])
  PROVE  r \in StreamType /\ LiveInv(r) /\ r.life = "live" /\ r.heard = <<>>
<1> DEFINE n == [NewStream EXCEPT !.life = "live", !.len = len, !.usable = ok]
           p == ReadyNextBuffer(n)
           q == ReadyNextBuffer(p)
<1>1. /\ n \in StreamType /\ n.life = "live" /\ n.len = len /\ n.usable = ok /\ n.pos = 0 /\ n.next = 0
      /\ n.buffer = [b \in 0..1 |-> Nothing] /\ n.queue = <<>> /\ n.played = 0
      /\ n.heard = <<>> /\ n.starved = FALSE
  <2>1. [b \in 0..1 |-> Nothing] \in [0..1 -> Buffers]
    BY DEF Nothing, Buffers
  <2>2. <<>> \in Seq({0, 1}) /\ <<>> \in Seq(Buffers)
    OBVIOUS
  <2> QED
    BY <2>1, <2>2 DEF NewStream, StreamType
<1>2. r = [q EXCEPT !.queue = <<0, 1>>, !.source = "playing"]
  BY DEF Play
<1> HIDE DEF n
<1>3. HasMore(n) => \E f \in 1..BufferLen :
        /\ p \in StreamType /\ p.life = "live" /\ p.len = len /\ p.usable = ok /\ p.pos = f /\ f <= len
        /\ p.next = 1 /\ p.queue = <<>> /\ p.played = 0 /\ p.heard = <<>> /\ p.starved = FALSE
        /\ ok => p.buffer[0] = <<0, f>> /\ p.buffer[1] = Nothing
        /\ ~ok => p.buffer = n.buffer
  <2> SUFFICES ASSUME HasMore(n) PROVE \E f \in 1..BufferLen :
        /\ p \in StreamType /\ p.life = "live" /\ p.len = len /\ p.usable = ok /\ p.pos = f /\ f <= len
        /\ p.next = 1 /\ p.queue = <<>> /\ p.played = 0 /\ p.heard = <<>> /\ p.starved = FALSE
        /\ ok => p.buffer[0] = <<0, f>> /\ p.buffer[1] = Nothing
        /\ ~ok => p.buffer = n.buffer
    OBVIOUS
  <2>1. ~InUse(n, n.next)
    BY <1>1 DEF InUse
  <2>2. /\ p \in StreamType
        /\ p.pos - n.pos \in 1..BufferLen /\ p.pos <= n.len
        /\ p.next = 1 - n.next
        /\ n.usable /\ ~InUse(n, n.next) => p.buffer = [n.buffer EXCEPT ![n.next] = <<n.pos, p.pos>>]
        /\ ~n.usable => p.buffer = n.buffer
        /\ p.life = n.life /\ p.len = n.len /\ p.usable = n.usable /\ p.queue = n.queue
        /\ p.played = n.played /\ p.source = n.source /\ p.heard = n.heard /\ p.starved = n.starved
    BY <1>1, Readied
  <2>3. p.pos \in Nat
    BY <2>2 DEF StreamType
  <2> HIDE DEF p
  <2>4. p.pos \in 1..BufferLen
    BY <2>2, <2>3, <1>1
  <2>5. ok => p.buffer[0] = <<0, p.pos>> /\ p.buffer[1] = Nothing
    BY <2>1, <2>2, <1>1
  <2> QED
    BY <2>2, <2>4, <2>5, <1>1
<1>4. ~HasMore(n) => p = n /\ len = 0
  BY <1>1 DEF ReadyNextBuffer, HasMore
(* Where the first of the two buffers ends, and where the second does. *)
<1>5. \E mid \in 0..q.pos :
        /\ q \in StreamType /\ q.life = "live" /\ q.len = len /\ q.usable = ok /\ q.pos <= len
        /\ q.pos < len => q.next = 0
        /\ q.played = 0 /\ q.heard = <<>> /\ q.starved = FALSE
        /\ ok => GoesOn(0, q.buffer[0], mid) /\ GoesOn(mid, q.buffer[1], q.pos)
        /\ ~ok => q.buffer = n.buffer
  <2>1. CASE ~HasMore(n)
    <3>1. q = n
      BY <2>1, <1>4
    <3>2. 0 \in 0..q.pos /\ GoesOn(0, q.buffer[0], 0) /\ GoesOn(0, q.buffer[1], q.pos)
      BY <3>1, <1>1 DEF GoesOn
    <3> HIDE DEF q
    <3> QED
      BY <3>1, <3>2, <2>1, <1>1, <1>4
  <2>2. CASE HasMore(n)
    <3>1. PICK f \in 1..BufferLen :
        /\ p \in StreamType /\ p.life = "live" /\ p.len = len /\ p.usable = ok /\ p.pos = f /\ f <= len
        /\ p.next = 1 /\ p.queue = <<>> /\ p.played = 0 /\ p.heard = <<>> /\ p.starved = FALSE
        /\ ok => p.buffer[0] = <<0, f>> /\ p.buffer[1] = Nothing
        /\ ~ok => p.buffer = n.buffer
      BY <2>2, <1>3
    <3>2. f \in Nat /\ 0 < f /\ f <= BufferLen /\ BufferLen \in Nat
      BY StreamAssumption
    <3>3. GoesOn(0, <<0, f>>, f)
      BY <3>2 DEF GoesOn, Nothing
    <3> HIDE DEF p
    <3>4. CASE ~HasMore(p)
      <4>1. q = p /\ f = len
        BY <3>1, <3>2, <3>4 DEF ReadyNextBuffer, HasMore
      <4>2. GoesOn(f, Nothing, f)
        BY DEF GoesOn
      <4> HIDE DEF q
      <4> QED
        BY <4>1, <4>2, <3>1, <3>2, <3>3
    <3>5. CASE HasMore(p)
      <4>1. ~InUse(p, p.next)
        BY <3>1 DEF InUse
      <4>2. /\ q \in StreamType
            /\ q.pos - p.pos \in 1..BufferLen /\ q.pos <= p.len
            /\ q.next = 1 - p.next
            /\ p.usable /\ ~InUse(p, p.next) => q.buffer = [p.buffer EXCEPT ![p.next] = <<p.pos, q.pos>>]
            /\ ~p.usable => q.buffer = p.buffer
            /\ q.life = p.life /\ q.len = p.len /\ q.usable = p.usable /\ q.queue = p.queue
            /\ q.played = p.played /\ q.source = p.source /\ q.heard = p.heard /\ q.starved = p.starved
        BY <3>1, <3>5, Readied
      <4>3. q.pos \in Nat
        BY <4>2 DEF StreamType
      <4> HIDE DEF q
      <4>4. f < q.pos /\ q.pos - f <= BufferLen /\ f \in 0..q.pos
        BY <4>2, <4>3, <3>1, <3>2
      <4>5. GoesOn(f, <<f, q.pos>>, q.pos)
        BY <4>4, <4>3, <3>2 DEF GoesOn, Nothing
      <4>6. p.buffer \in [0..1 -> Buffers]
        BY <3>1 DEF StreamType
      <4>7. ok => q.buffer[0] = <<0, f>> /\ q.buffer[1] = <<f, q.pos>>
        BY <4>1, <4>2, <4>6, <3>1
      <4> QED
        BY <4>2, <4>4, <4>5, <4>7, <3>1, <3>3
    <3> QED
      BY <3>4, <3>5
  <2> QED
    BY <2>1, <2>2
<1> HIDE DEF p, q
<1>6. PICK mid \in 0..q.pos :
        /\ q \in StreamType /\ q.life = "live" /\ q.len = len /\ q.usable = ok /\ q.pos <= len
        /\ q.pos < len => q.next = 0
        /\ q.played = 0 /\ q.heard = <<>> /\ q.starved = FALSE
        /\ ok => GoesOn(0, q.buffer[0], mid) /\ GoesOn(mid, q.buffer[1], q.pos)
        /\ ~ok => q.buffer = n.buffer
  BY <1>5
<1>7. <<0, 1>> \in Seq({0, 1}) /\ Len(<<0, 1>>) = 2 /\ <<0, 1>>[1] = 0 /\ <<0, 1>>[2] = 1
  OBVIOUS
<1>8. /\ r \in StreamType
      /\ r.life = q.life /\ r.len = q.len /\ r.pos = q.pos /\ r.next = q.next /\ r.usable = q.usable
      /\ r.buffer = q.buffer /\ r.queue = <<0, 1>> /\ r.played = q.played /\ r.source = "playing"
      /\ r.heard = q.heard /\ r.starved = q.starved
  BY <1>2, <1>6, <1>7 DEF StreamType
<1>9. r.usable => Unplayed(r)
  <2> SUFFICES ASSUME r.usable PROVE Unplayed(r)
    OBVIOUS
  <2>1. EndOf(r.heard) = 0
    BY <1>6, <1>8 DEF EndOf
  <2>2. Len(r.queue) = 2 /\ r.queue[1] = 0 /\ r.queue[2] = 1
    BY <1>7, <1>8
  <2>3. mid \in 0..r.pos /\ GoesOn(0, r.buffer[0], mid) /\ GoesOn(mid, r.buffer[1], r.pos)
    BY <1>6, <1>8
  <2>4. r.played = 0
    BY <1>6, <1>8
  <2>5. GoesOn(EndOf(r.heard), r.buffer[r.queue[1]], mid) /\ GoesOn(mid, r.buffer[r.queue[2]], r.pos)
    BY <2>1, <2>2, <2>3
  <2> QED
    BY <2>2, <2>3, <2>4, <2>5 DEF Unplayed
<1>10. HasMore(r) => r.next = 0
  BY <1>6, <1>8 DEF HasMore, StreamType
<1>11. ~r.usable => r.buffer[0] = Nothing /\ r.buffer[1] = Nothing
  BY <1>1, <1>6, <1>8
<1>12. LiveInv(r)
  <2>1. Len(r.queue) = 2 /\ r.queue[1] = 0 /\ r.queue[2] = 1
    BY <1>7, <1>8
  <2>2. r.pos <= r.len /\ r.source = "playing" /\ r.played = 0
    BY <1>6, <1>8
  <2>3. HasMore(r) => Len(r.queue) = 2 /\ r.queue[1] = r.next
    BY <2>1, <1>10
  <2>4. r.source # "stopped" /\ r.played < Len(r.queue)
    BY <2>1, <2>2
  <2>5. r.queue[1] # r.queue[2]
    BY <2>1
  <2>6. Len(r.queue) <= 2
    <3>1. ASSUME NEW l, l = 2 PROVE l <= 2
      BY <3>1
    <3> QED
      BY <3>1, <2>1
  <2> QED
    BY <2>2, <2>3, <2>4, <2>5, <2>6, <1>9, <1>11 DEF LiveInv
<1> QED
  BY <1>6, <1>8, <1>12

(* What SourcePlays makes of a stream. *)
AfterBlock(r) ==
  LET data == r.buffer[r.queue[r.played + 1]]
      last == r.played + 1 = Len(r.queue)
  IN  [r EXCEPT !.played = r.played + 1,
                !.heard = IF data = Nothing THEN @ ELSE Append(@, data),
                !.source = IF last THEN "stopped" ELSE @,
                !.starved = @ \/ (last /\ HasMore(r))]

LEMMA SourcePlaysOn ==
  ASSUME NEW r \in StreamType, LiveInv(r), InOrder(r.heard), r.source = "playing",
         NEW q, q = AfterBlock(r)
  PROVE  /\ q \in StreamType /\ LiveInv(q) /\ InOrder(q.heard)
         /\ q.life = r.life /\ q.queue = r.queue /\ (HasMore(q) <=> HasMore(r))
<1> DEFINE data == r.buffer[r.queue[r.played + 1]]
           last == r.played + 1 = Len(r.queue)
           heard == IF data = Nothing THEN r.heard ELSE Append(r.heard, data)
           source == IF last THEN "stopped" ELSE "playing"
           starved == r.starved \/ (last /\ HasMore(r))
<1>1. /\ r.played \in Nat /\ r.heard \in Seq(Buffers) /\ r.starved \in BOOLEAN /\ r.usable \in BOOLEAN
      /\ r.queue \in Seq({0, 1}) /\ r.buffer \in [0..1 -> Buffers] /\ r.pos \in Nat /\ r.len \in Nat
      /\ Len(r.queue) \in Nat /\ r.played < Len(r.queue) /\ Len(r.queue) <= 2
  BY DEF StreamType, LiveInv
<1>2. r.queue[r.played + 1] \in {0, 1}
  BY <1>1
<1>3. ~r.usable => heard = r.heard
  BY <1>2 DEF LiveInv
(* What is heard now ends where the block that was played does. *)
<1>4. r.usable => /\ heard \in Seq(Buffers) /\ InOrder(heard)
                  /\ last => EndOf(heard) = r.pos
                  /\ ~last => /\ r.played = 0 /\ Len(r.queue) = 2
                              /\ GoesOn(EndOf(heard), r.buffer[r.queue[2]], r.pos)
  <2> SUFFICES ASSUME r.usable
               PROVE  /\ heard \in Seq(Buffers) /\ InOrder(heard)
                      /\ last => EndOf(heard) = r.pos
                      /\ ~last => /\ r.played = 0 /\ Len(r.queue) = 2
                                  /\ GoesOn(EndOf(heard), r.buffer[r.queue[2]], r.pos)
    OBVIOUS
  <2>1. EndOf(r.heard) \in Nat
    BY <1>1, EndIsNat
  <2>2. ASSUME NEW b \in Nat, GoesOn(EndOf(r.heard), data, b)
        PROVE  heard \in Seq(Buffers) /\ InOrder(heard) /\ EndOf(heard) = b
    <3>1. CASE data = Nothing
      BY <3>1, <2>2, <1>1 DEF GoesOn
    <3>2. CASE data # Nothing
      <4>1. data = <<EndOf(r.heard), b>>
        BY <3>2, <2>2 DEF GoesOn
      <4> QED
        BY <4>1, <3>2, <2>1, <1>1, HeardMore
    <3> QED
      BY <3>1, <3>2
  <2>3. Unplayed(r)
    BY DEF LiveInv
  <2>4. CASE last
    <3>1. GoesOn(EndOf(r.heard), data, r.pos)
      BY <2>3, <2>4, <1>1 DEF Unplayed
    <3> HIDE DEF heard
    <3> QED
      BY <3>1, <2>2, <2>4, <1>1
  <2>5. CASE ~last
    <3>1. /\ r.played = 0 /\ Len(r.queue) = 2
          /\ \E mid \in 0..r.pos : /\ GoesOn(EndOf(r.heard), r.buffer[r.queue[1]], mid)
                                   /\ GoesOn(mid, r.buffer[r.queue[2]], r.pos)
      BY <2>3, <2>5, <1>1 DEF Unplayed
    <3>2. PICK mid \in 0..r.pos : /\ GoesOn(EndOf(r.heard), data, mid)
                                  /\ GoesOn(mid, r.buffer[r.queue[2]], r.pos)
      BY <3>1
    <3>3. mid \in Nat
      BY <1>1
    <3> HIDE DEF heard
    <3> QED
      BY <3>1, <3>2, <3>3, <2>2, <2>5
  <2> QED
    BY <2>4, <2>5
<1>5. heard \in Seq(Buffers) /\ InOrder(heard)
  BY <1>1, <1>3, <1>4
<1>6. q = [r EXCEPT !.played = r.played + 1, !.heard = heard, !.source = source, !.starved = starved]
  BY DEF AfterBlock
<1>6a. starved \in BOOLEAN /\ source \in {"initial", "playing", "stopped"} /\ r.played + 1 \in Nat
  BY <1>1
<1> HIDE DEF heard, source, starved
<1>7. /\ q \in StreamType
      /\ q.life = r.life /\ q.len = r.len /\ q.pos = r.pos /\ q.next = r.next /\ q.usable = r.usable
      /\ q.buffer = r.buffer /\ q.queue = r.queue /\ q.played = r.played + 1
      /\ q.source = source /\ q.heard = heard /\ q.starved = starved
  BY <1>5, <1>6, <1>6a DEF StreamType
<1> USE DEF source, starved
<1>8. HasMore(q) <=> HasMore(r)
  BY <1>7 DEF HasMore
<1>9. q.source = "playing" => q.played < Len(q.queue) /\ (q.usable => Unplayed(q))
  <2> SUFFICES ASSUME ~last PROVE q.played < Len(q.queue) /\ (q.usable => Unplayed(q))
    BY <1>7
  <2>1. q.played < Len(q.queue)
    BY <1>1, <1>7
  <2>2. ASSUME q.usable PROVE Unplayed(q)
    <3>1. r.played = 0 /\ Len(r.queue) = 2 /\ GoesOn(EndOf(heard), r.buffer[r.queue[2]], r.pos)
      BY <1>4, <1>7, <2>2
    <3>2. Len(q.queue) = 2 /\ q.played = 1
      BY <3>1, <1>7
    <3>3. GoesOn(EndOf(q.heard), q.buffer[q.queue[2]], q.pos)
      BY <3>1, <1>7
    <3> QED
      BY <3>2, <3>3 DEF Unplayed
  <2> QED
    BY <2>1, <2>2
<1>10. q.source = "stopped" /\ ~q.starved => ~HasMore(q) /\ (q.usable => EndOf(q.heard) = q.len)
  <2> SUFFICES ASSUME last, ~q.starved PROVE ~HasMore(q) /\ (q.usable => EndOf(q.heard) = q.len)
    BY <1>7
  <2>1. ~HasMore(q)
    BY <1>7, <1>8
  <2>2. r.pos = r.len
    BY <2>1, <1>1, <1>8 DEF HasMore, LiveInv
  <2> QED
    BY <2>1, <2>2, <1>4, <1>7
<1>11. LiveInv(q)
  <2>1. q.pos <= q.len /\ Len(q.queue) <= 2 /\ (Len(q.queue) = 2 => q.queue[1] # q.queue[2])
    BY <1>7 DEF LiveInv
  <2>2. HasMore(q) => Len(q.queue) = 2 /\ q.queue[1] = q.next
    BY <1>7, <1>8 DEF LiveInv
  <2>3. ~q.usable => q.buffer[0] = Nothing /\ q.buffer[1] = Nothing
    BY <1>7 DEF LiveInv
  <2>4. q.source \in {"playing", "stopped"}
    BY <1>7
  <2> QED
    BY <2>1, <2>2, <2>3, <2>4, <1>9, <1>10 DEF LiveInv
<1> QED
  BY <1>5, <1>7, <1>8, <1>11

LEMMA OneOfTwo ==
  ASSUME NEW k \in Nat, NEW l \in Nat, k # 0, k < l, l <= 2
  PROVE  k = 1 /\ l = 2
OBVIOUS

(* The streams that update has a buffer to take from. *)
LEMMA UpdatedTakes ==
  ASSUME NEW r \in StreamType, LiveInv(r), Processed(r) # 0, NEW q, q = Updated(r)
  PROVE  /\ q \in StreamType /\ LiveInv(q)
         /\ q.life = r.life /\ q.len = r.len /\ q.usable = r.usable
         /\ q.heard = r.heard /\ q.starved = r.starved
         /\ ~HasMore(r) => ~HasMore(q) /\ Len(q.queue) = Len(r.queue) - 1
<1> DEFINE u == Unqueued(r)
           played == IF r.played > 0 THEN r.played - 1 ELSE 0
<1>1. /\ r.played \in Nat /\ r.heard \in Seq(Buffers) /\ r.starved \in BOOLEAN /\ r.usable \in BOOLEAN
      /\ r.queue \in Seq({0, 1}) /\ r.buffer \in [0..1 -> Buffers] /\ r.pos \in Nat /\ r.len \in Nat
      /\ Len(r.queue) \in Nat /\ Len(r.queue) <= 2 /\ r.next \in {0, 1}
  BY DEF StreamType, LiveInv
<1>2. Len(r.queue) > 0 /\ (r.source = "playing" => r.played = 1 /\ Len(r.queue) = 2)
  <2>1. CASE r.source = "playing"
    <3>1. Processed(r) = r.played
      BY <2>1 DEF Processed
    <3>2. r.played # 0 /\ r.played < Len(r.queue)
      BY <3>1, <2>1 DEF LiveInv
    <3>3. r.played = 1 /\ Len(r.queue) = 2
      BY <3>2, <1>1, OneOfTwo
    <3> QED
      BY <3>3
  <2>2. CASE r.source = "stopped"
    <3>1. Processed(r) = Len(r.queue)
      BY <2>2 DEF Processed
    <3> QED
      BY <3>1, <2>2, <1>1
  <2> QED
    BY <2>1, <2>2 DEF LiveInv
<1>3. /\ Tail(r.queue) \in Seq({0, 1}) /\ Len(Tail(r.queue)) = Len(r.queue) - 1
      /\ Len(r.queue) = 2 => Tail(r.queue)[1] = r.queue[2]
  BY <1>1, <1>2
<1>4. played \in Nat
  BY <1>1
<1>5. u = [r EXCEPT !.queue = Tail(r.queue), !.played = played]
  BY DEF Unqueued
<1> HIDE DEF u, played
<1>6. /\ u \in StreamType
      /\ u.life = r.life /\ u.len = r.len /\ u.pos = r.pos /\ u.next = r.next /\ u.usable = r.usable
      /\ u.buffer = r.buffer /\ u.queue = Tail(r.queue) /\ u.played = played /\ u.source = r.source
      /\ u.heard = r.heard /\ u.starved = r.starved
  BY <1>3, <1>4, <1>5 DEF StreamType
<1>7. HasMore(u) <=> HasMore(r)
  BY <1>6 DEF HasMore
<1>8. r.source = "playing" => played = 0
  BY <1>2 DEF played
(* The block that a source that plays has left. *)
<1>9. r.usable /\ r.source = "playing" => GoesOn(EndOf(r.heard), r.buffer[r.queue[2]], r.pos)
  <2> SUFFICES ASSUME r.usable, r.source = "playing" PROVE GoesOn(EndOf(r.heard), r.buffer[r.queue[2]], r.pos)
    OBVIOUS
  <2>1. Unplayed(r)
    BY DEF LiveInv
  <2> QED
    BY <2>1, <1>2 DEF Unplayed
<1>10. CASE ~HasMore(r)
  <2>1. q = u
    BY <1>10 DEF Updated, u
  <2>2. ~HasMore(u)
    BY <1>7, <1>10
  <2>3. Len(u.queue) = Len(r.queue) - 1
    BY <1>3, <1>6
  <2>4. Len(u.queue) <= 2 /\ Len(u.queue) # 2
    <3> DEFINE l == Len(r.queue)
    <3>1. l \in Nat /\ l <= 2 /\ Len(u.queue) = l - 1
      BY <2>3, <1>1
    <3> HIDE DEF l
    <3> QED
      BY <3>1
  <2>5. u.source = "playing" => u.played < Len(u.queue) /\ (u.usable => Unplayed(u))
    <3> SUFFICES ASSUME r.source = "playing" PROVE u.played < Len(u.queue) /\ (u.usable => Unplayed(u))
      BY <1>6
    <3>1. u.played = 0 /\ Len(u.queue) = 1
      BY <1>2, <1>6, <1>8, <2>3
    <3>2. u.queue[1] = r.queue[2]
      BY <1>2, <1>3, <1>6
    <3>3. ASSUME u.usable PROVE Unplayed(u)
      <4>1. GoesOn(EndOf(u.heard), u.buffer[u.queue[1]], u.pos)
        BY <3>2, <3>3, <1>6, <1>9
      <4> QED
        BY <4>1, <3>1 DEF Unplayed
    <3> QED
      BY <3>1, <3>3
  <2>6. u.source = "stopped" /\ ~u.starved => (u.usable => EndOf(u.heard) = u.len)
    BY <1>6 DEF LiveInv
  <2>7. u.pos <= u.len /\ u.source \in {"playing", "stopped"}
    BY <1>6 DEF LiveInv
  <2>8. ~u.usable => u.buffer[0] = Nothing /\ u.buffer[1] = Nothing
    BY <1>6 DEF LiveInv
  <2>9. LiveInv(u)
    BY <2>2, <2>4, <2>5, <2>6, <2>7, <2>8 DEF LiveInv
  <2> QED
    BY <2>1, <2>2, <2>3, <2>9, <1>6
<1>11. CASE HasMore(r)
  <2> DEFINE p == ReadyNextBuffer(u)
             queue == Append(p.queue, Head(r.queue))
  <2>1. Len(r.queue) = 2 /\ r.queue[1] = r.next /\ r.queue[1] # r.queue[2]
    BY <1>11 DEF LiveInv
  <2>2. ~InUse(u, u.next)
    <3>1. \A i \in 1..Len(u.queue) : u.queue[i] = r.queue[2]
      BY <2>1, <1>3, <1>6
    <3> QED
      BY <3>1, <2>1, <1>6 DEF InUse
  <2>3. /\ p \in StreamType
        /\ p.pos - u.pos \in 1..BufferLen /\ p.pos <= u.len
        /\ p.next = 1 - u.next
        /\ u.usable /\ ~InUse(u, u.next) => p.buffer = [u.buffer EXCEPT ![u.next] = <<u.pos, p.pos>>]
        /\ ~u.usable => p.buffer = u.buffer
        /\ p.life = u.life /\ p.len = u.len /\ p.usable = u.usable /\ p.queue = u.queue
        /\ p.played = u.played /\ p.source = u.source /\ p.heard = u.heard /\ p.starved = u.starved
    BY <1>6, <1>7, <1>11, Readied
  <2>4. q = [p EXCEPT !.queue = queue]
    BY <1>11 DEF Updated, u
  <2> HIDE DEF p
  <2>5. p.queue = Tail(r.queue)
    BY <2>3, <1>6
  <2>6. Head(r.queue) = r.queue[1] /\ r.queue[1] \in {0, 1} /\ r.queue[2] \in {0, 1}
    BY <2>1, <1>1
  <2>7. /\ Append(Tail(r.queue), r.queue[1]) \in Seq({0, 1})
        /\ Len(Append(Tail(r.queue), r.queue[1])) = 2
        /\ Append(Tail(r.queue), r.queue[1])[1] = r.queue[2]
        /\ Append(Tail(r.queue), r.queue[1])[2] = r.queue[1]
    BY <2>1, <2>6, <1>3
  <2>8. queue = Append(Tail(r.queue), r.queue[1])
    BY <2>5, <2>6
  <2> HIDE DEF queue
  <2>9. queue \in Seq({0, 1}) /\ Len(queue) = 2 /\ queue[1] = r.queue[2] /\ queue[2] = r.queue[1]
    BY <2>7, <2>8
  <2>10. /\ q \in StreamType
         /\ q.life = r.life /\ q.len = r.len /\ q.pos = p.pos /\ q.next = 1 - r.next /\ q.usable = r.usable
         /\ q.buffer = p.buffer /\ q.queue = queue /\ q.played = played /\ q.source = r.source
         /\ q.heard = r.heard /\ q.starved = r.starved
    BY <2>3, <2>4, <2>9, <1>6 DEF StreamType
  <2>11. q.pos \in Nat /\ r.pos < q.pos /\ q.pos - r.pos <= BufferLen /\ q.pos <= q.len
    BY <2>3, <2>10, <1>1, <1>6, StreamAssumption DEF StreamType
  <2>12. q.source = "playing" => q.played < Len(q.queue)
    <3>1. q.source = "playing" => q.played = 0
      BY <2>10, <1>8
    <3>2. Len(q.queue) = 2
      BY <2>9, <2>10
    <3> QED
      BY <3>1, <3>2
  <2>13. ASSUME q.source = "playing", q.usable PROVE Unplayed(q)
    <3>1. q.buffer[r.queue[1]] = <<r.pos, q.pos>> /\ q.buffer[r.queue[2]] = r.buffer[r.queue[2]]
      <4>1. p.buffer = [r.buffer EXCEPT ![r.next] = <<r.pos, p.pos>>]
        BY <2>13, <2>2, <2>3, <2>10, <1>6
      <4> QED
        BY <4>1, <2>1, <2>6, <2>10, <1>1
    <3>2. GoesOn(r.pos, q.buffer[r.queue[1]], q.pos)
      BY <3>1, <2>11, <1>1 DEF GoesOn, Nothing
    <3>3. GoesOn(EndOf(q.heard), q.buffer[r.queue[2]], r.pos)
      BY <3>1, <2>10, <2>13, <1>9
    <3>4. q.queue[1] = r.queue[2] /\ q.queue[2] = r.queue[1]
      BY <2>9, <2>10
    <3>5. GoesOn(EndOf(q.heard), q.buffer[q.queue[1]], r.pos) /\ GoesOn(r.pos, q.buffer[q.queue[2]], q.pos)
      BY <3>2, <3>3, <3>4
    <3>6. r.pos \in 0..q.pos
      BY <2>11, <1>1
    <3>7. q.played = 0 /\ Len(q.queue) = 2
      BY <2>9, <2>10, <2>13, <1>8
    <3> QED
      BY <3>5, <3>6, <3>7 DEF Unplayed
  <2>14. ~(q.source = "stopped" /\ ~q.starved)
    BY <2>10, <1>11 DEF LiveInv
  <2>15. ASSUME ~q.usable PROVE q.buffer[0] = Nothing /\ q.buffer[1] = Nothing
    BY <2>15, <2>3, <2>10, <1>6 DEF LiveInv
  <2>16. Len(q.queue) = 2
    BY <2>9, <2>10
  <2>17. q.queue[1] = q.next /\ q.queue[1] # q.queue[2]
    <3>1. r.queue[2] = 1 - r.next
      BY <2>1, <2>6
    <3> QED
      BY <3>1, <2>1, <2>9, <2>10
  <2>18. q.source \in {"playing", "stopped"}
    BY <2>10 DEF LiveInv
  <2>19. Len(q.queue) <= 2
    BY <2>16
  <2>20. LiveInv(q)
    BY <2>11, <2>12, <2>13, <2>14, <2>15, <2>16, <2>17, <2>18, <2>19 DEF LiveInv
  <2> QED
    BY <2>10, <2>20, <1>11
<1> QED
  BY <1>10, <1>11

(* A stream that update gives up was heard to its end, but for the block   *)
(* of a source that plays.                                                 *)
LEMMA GivenUp ==
  ASSUME NEW r \in StreamType, LiveInv(r), GivesUp(r), r.usable, ~r.starved
  PROVE  /\ r.len - EndOf(r.heard) <= BufferLen
         /\ Len(r.queue) <= 1 => r.len - EndOf(r.heard) <= 0
<1>1. /\ r.played \in Nat /\ r.pos \in Nat /\ r.len \in Nat /\ Len(r.queue) \in Nat /\ Len(r.queue) <= 2
      /\ r.pos = r.len /\ Processed(r) # 0
  BY DEF StreamType, LiveInv, GivesUp, HasMore, Processed
<1>2. CASE r.source = "stopped"
  <2>1. EndOf(r.heard) = r.len
    BY <1>2 DEF LiveInv
  <2> QED
    BY <2>1, <1>1, StreamAssumption
<1>3. CASE r.source = "playing"
  <2>1. r.played = 1 /\ Len(r.queue) = 2
    <3>1. Processed(r) = r.played
      BY <1>3 DEF Processed
    <3>2. r.played < Len(r.queue)
      BY <1>3 DEF LiveInv
    <3>3. r.played # 0
      BY <3>1, <1>1
    <3> QED
      BY <3>2, <3>3, <1>1, OneOfTwo
  <2>2. Unplayed(r)
    BY <1>3 DEF LiveInv
  <2>3. GoesOn(EndOf(r.heard), r.buffer[r.queue[2]], r.pos)
    BY <2>1, <2>2 DEF Unplayed
  <2>4. r.pos - EndOf(r.heard) <= BufferLen
    BY <2>3, <1>1, StreamAssumption DEF GoesOn
  <2> QED
    BY <2>1, <2>4, <1>1
<1> QED
  BY <1>2, <1>3 DEF LiveInv
-----------------------------------------------------------------------------
(* A step that changes one stream does not disturb the others. *)
LEMMA OneStreamStep ==
  ASSUME StreamsInv, NEW s \in Streams, NEW q \in StreamType, stream' = [stream EXCEPT ![s] = q],
         q.life \in {"new", "failed"} => stream[s].life \in {"new", "failed"},
         previous_result' \in BOOLEAN, previous_result' = previous_result \/ stream[s].life = "live"
  PROVE  /\ stream' \in [Streams -> StreamType] /\ stream'[s] = q
         /\ Alone(s)' => Alone(s)
         /\ \A t \in Streams \ {s} : StreamInv(t)'
<1>1. stream \in [Streams -> StreamType] /\ \A t \in Streams : StreamInv(t)
  BY DEF StreamsInv
<1>2. stream' \in [Streams -> StreamType] /\ stream'[s] = q /\ \A t \in Streams \ {s} : stream'[t] = stream[t]
  BY <1>1
<1>3. ASSUME NEW t \in Streams, Alone(t)' PROVE Alone(t)
  BY <1>2, <1>3 DEF Alone
<1>4. ASSUME NEW t \in Streams \ {s} PROVE StreamInv(t)'
  <2> DEFINE r == stream[t]
  <2>1. stream'[t] = r /\ StreamInv(t)
    BY <1>1, <1>2
  <2>2. Alone(t)' => Alone(t) /\ (previous_result' <=> previous_result)
    <3>1. Alone(t)' => stream[s].life # "live"
      <4> SUFFICES ASSUME Alone(t)' PROVE stream[s].life # "live"
        OBVIOUS
      <4>1. Alone(t)
        BY <1>3
      <4> QED
        BY <4>1 DEF Alone
    <3> QED
      BY <3>1, <1>3
  <2>3. InOrder(r.heard) /\ (r.life \in {"new", "failed"} => r.heard = <<>>) /\ (r.life = "live" => LiveInv(r))
    BY <2>1 DEF StreamInv
  <2>4. /\ Alone(t)' /\ r.life \in {"new", "failed"} => previous_result'
        /\ Alone(t)' /\ r.life = "live" /\ ~previous_result' => ~HasMore(r) /\ Len(r.queue) <= 1
    BY <2>1, <2>2 DEF StreamInv
  <2>5. r.life = "over" /\ r.usable /\ ~r.starved
          => r.len - EndOf(r.heard) <= IF Alone(t)' THEN 0 ELSE BufferLen
    <3> SUFFICES ASSUME r.life = "over" /\ r.usable /\ ~r.starved
                 PROVE  r.len - EndOf(r.heard) <= IF Alone(t)' THEN 0 ELSE BufferLen
      OBVIOUS
    <3>1. r.len - EndOf(r.heard) <= IF Alone(t) THEN 0 ELSE BufferLen
      BY <2>1 DEF StreamInv
    <3>2. CASE Alone(t)'
      BY <3>1, <3>2, <2>2
    <3>3. CASE ~Alone(t)' /\ ~Alone(t)
      BY <3>1, <3>3
    <3>4. CASE ~Alone(t)' /\ Alone(t)
      <4>1. r.len - EndOf(r.heard) <= 0
        BY <3>1, <3>4
      <4>2. r.len - EndOf(r.heard) <= BufferLen
        <5>1. ASSUME NEW k, k <= 0, k \in Int PROVE k <= BufferLen
          BY <5>1, StreamAssumption
        <5>2. r.len - EndOf(r.heard) \in Int
          <6>1. r \in StreamType
            BY <1>1
          <6> QED
            BY <6>1, EndIsNat DEF StreamType
        <5> QED
          BY <4>1, <5>1, <5>2
      <4> QED
        BY <3>4, <4>2
    <3> QED
      BY <3>2, <3>3, <3>4
  <2> QED
    BY <2>1, <2>3, <2>4, <2>5 DEF StreamInv
<1> QED
  BY <1>2, <1>3, <1>4

LEMMA StreamsInit == AudioInit => StreamsInv
<1> SUFFICES ASSUME AudioInit PROVE StreamsInv
  OBVIOUS
<1>1. NewStream \in StreamType /\ NewStream.life = "new" /\ NewStream.heard = <<>>
  <2>1. [b \in 0..1 |-> Nothing] \in [0..1 -> Buffers]
    BY DEF Nothing, Buffers
  <2>2. <<>> \in Seq({0, 1}) /\ <<>> \in Seq(Buffers)
    OBVIOUS
  <2> QED
    BY <2>1, <2>2 DEF NewStream, StreamType
<1>2. InOrder(<<>>)
  BY DEF InOrder
<1> QED
  BY <1>1, <1>2 DEF AudioInit, StreamsInv, StreamInv

LEMMA StreamsNext == Inv /\ StreamsInv /\ [AudioNext]_allVars => StreamsInv'
<1> SUFFICES ASSUME Inv, StreamsInv, [AudioNext]_allVars PROVE StreamsInv'
  OBVIOUS
<1>1. /\ stream \in [Streams -> StreamType] /\ previous_result \in BOOLEAN
      /\ \A s \in Streams : StreamInv(s)
      /\ todo \subseteq Live /\ (todo # {} => workerPc = "loop")
  BY DEF StreamsInv
<1>2. ASSUME UNCHANGED audioVars, todo # {} => workerPc' = "loop" PROVE StreamsInv'
  BY <1>1, <1>2 DEF audioVars, streamVars, StreamsInv, StreamInv, Alone, Live
<1>3. CASE AudioThread
  <2>1. CASE (Initialise \/ NotifyUp \/ Lower \/ NotifyDown) /\ UNCHANGED audioVars
    <3>1. workerPc # "loop"
      BY <2>1 DEF Initialise, NotifyUp, Lower, NotifyDown
    <3> QED
      BY <3>1, <2>1, <1>1, <1>2
  <2>2. CASE NextPass
    <3>1. /\ UNCHANGED <<stream, previous_result>>
          /\ todo' = IF m_finish THEN {} ELSE Live
          /\ workerPc' = IF m_finish THEN "cleanup" ELSE "loop"
      BY <2>2 DEF NextPass, LoopCheck, streamVars
    <3>2. Live' = Live /\ \A s \in Streams : StreamInv(s)'
      BY <3>1, <1>1 DEF Live, StreamInv, Alone
    <3>3. todo' \subseteq Live' /\ (todo' # {} => workerPc' = "loop")
      BY <3>1, <3>2
    <3> QED
      BY <3>1, <3>2, <3>3, <1>1 DEF StreamsInv
  <2>3. ASSUME NEW s \in Streams, UpdateStream(s) PROVE StreamsInv'
    <3> DEFINE r == stream[s]
               u == Updated(r)
               life == IF GivesUp(r) THEN "over" ELSE u.life
               q == [u EXCEPT !.life = life]
    <3>1. /\ s \in todo /\ todo' = todo \ {s} /\ stream' = [stream EXCEPT ![s] = q]
          /\ previous_result' = PreviousResult(r) /\ UNCHANGED vars
      <4>1. stream' = [stream EXCEPT ![s] = q]
        BY <2>3, Zenon DEF UpdateStream
      <4>2. s \in todo /\ todo' = todo \ {s} /\ previous_result' = PreviousResult(r) /\ UNCHANGED vars
        BY <2>3, Zenon DEF UpdateStream
      <4> QED
        BY <4>1, <4>2
    <3>2. r \in StreamType /\ r.life = "live" /\ StreamInv(s) /\ LiveInv(r) /\ InOrder(r.heard)
      BY <3>1, <1>1 DEF Live, StreamInv
    <3>3. Processed(r) \in Nat
      BY <3>2 DEF Processed, StreamType
    <3>4. /\ u \in StreamType /\ LiveInv(u) /\ u.life = "live" /\ u.len = r.len /\ u.usable = r.usable
          /\ u.heard = r.heard /\ u.starved = r.starved
          /\ Processed(r) # 0 /\ ~HasMore(r) => ~HasMore(u) /\ Len(u.queue) = Len(r.queue) - 1
      <4>1. CASE Processed(r) = 0
        BY <4>1, <3>2 DEF Updated
      <4>2. CASE Processed(r) # 0
        BY <4>2, <3>2, UpdatedTakes
      <4> QED
        BY <4>1, <4>2
    <3>5. Processed(r) = 0 => u = r
      BY DEF Updated
    <3>6. previous_result' \in BOOLEAN
      <4>1. HasMore(r) \in BOOLEAN
        BY DEF HasMore
      <4> QED
        BY <4>1, <3>1, <1>1, Zenon DEF PreviousResult
    <3> HIDE DEF u, r
    <3>7. life = IF GivesUp(r) THEN "over" ELSE "live"
      BY <3>4
    <3> HIDE DEF life
    <3>8. /\ q \in StreamType /\ q.life = life /\ q.len = u.len /\ q.pos = u.pos /\ q.next = u.next
          /\ q.usable = u.usable /\ q.buffer = u.buffer /\ q.queue = u.queue /\ q.played = u.played
          /\ q.source = u.source /\ q.heard = u.heard /\ q.starved = u.starved
      BY <3>4, <3>7 DEF StreamType
    <3> HIDE DEF q
    <3>9. q.life \notin {"new", "failed"} /\ stream[s].life = "live"
      BY <3>2, <3>7, <3>8 DEF r
    <3>10. /\ stream' \in [Streams -> StreamType] /\ stream'[s] = q
           /\ Alone(s)' => Alone(s)
           /\ \A t \in Streams \ {s} : StreamInv(t)'
      BY <3>1, <3>6, <3>8, <3>9, OneStreamStep
    <3>11. LiveInv(q)
      BY <3>4, <3>8 DEF LiveInv, Unplayed, HasMore
    <3>12. ASSUME Alone(s)', q.life = "live", ~previous_result' PROVE ~HasMore(q) /\ Len(q.queue) <= 1
      <4>1. Alone(s) /\ ~GivesUp(r)
        BY <3>7, <3>8, <3>10, <3>12
      <4>2. CASE Processed(r) = 0
        <5>1. ~previous_result
          BY <4>2, <3>1, <3>12 DEF PreviousResult, r
        <5>2. ~HasMore(r) /\ Len(r.queue) <= 1
          BY <4>1, <5>1, <3>2 DEF StreamInv, r
        <5> QED
          BY <5>2, <4>2, <3>5, <3>8 DEF HasMore
      <4>3. CASE Processed(r) # 0
        <5>1. ~HasMore(r)
          BY <4>1, <4>3, <3>1, <3>12 DEF PreviousResult
        <5>2. ~HasMore(u) /\ Len(u.queue) = Len(r.queue) - 1
          BY <4>3, <5>1, <3>4
        <5>3. Len(r.queue) \in Nat /\ Len(r.queue) <= 2
          BY <3>2 DEF LiveInv, StreamType
        <5>4. Len(u.queue) <= 1
          BY <5>2, <5>3
        <5> QED
          BY <5>2, <5>4, <3>8 DEF HasMore
      <4> QED
        BY <4>2, <4>3
    <3>13. ASSUME q.life = "over", q.usable, ~q.starved
           PROVE  q.len - EndOf(q.heard) <= IF Alone(s)' THEN 0 ELSE BufferLen
      <4>1. GivesUp(r) /\ r.usable /\ ~r.starved
        BY <3>4, <3>7, <3>8, <3>13
      <4>2. /\ r.len - EndOf(r.heard) <= BufferLen
            /\ Len(r.queue) <= 1 => r.len - EndOf(r.heard) <= 0
        BY <4>1, <3>2, GivenUp
      <4>3. Alone(s)' => Len(r.queue) <= 1
        <5> SUFFICES ASSUME Alone(s)' PROVE Len(r.queue) <= 1
          OBVIOUS
        <5>1. Alone(s) /\ ~previous_result
          BY <4>1, <3>10 DEF GivesUp
        <5> QED
          BY <5>1, <3>2 DEF StreamInv, r
      <4>4. q.len = r.len /\ q.heard = r.heard
        BY <3>4, <3>8
      <4> QED
        BY <4>2, <4>3, <4>4
    <3>14. StreamInv(s)'
      <4>1. InOrder(q.heard) /\ (q.life \in {"new", "failed"} => q.heard = <<>>)
        BY <3>2, <3>4, <3>8, <3>9
      <4> QED
        BY <4>1, <3>9, <3>10, <3>11, <3>12, <3>13 DEF StreamInv
    <3>15. todo' \subseteq Live' /\ (todo' # {} => workerPc' = "loop")
      BY <3>1, <1>1 DEF Live, vars
    <3>16. \A t \in Streams : StreamInv(t)'
      BY <3>10, <3>14
    <3> QED
      BY <3>6, <3>10, <3>15, <3>16 DEF StreamsInv
  <2>4. CASE CloseAudio
    <3>1. /\ stream' = [s \in Streams |-> IF s \in Live THEN [stream[s] EXCEPT !.life = "deleted"] ELSE stream[s]]
          /\ UNCHANGED <<previous_result, todo>> /\ workerPc = "cleanup"
      BY <2>4 DEF CloseAudio, Cleanup
    <3>2. ASSUME NEW s \in Streams
          PROVE  /\ stream'[s] \in StreamType
                 /\ stream'[s].life = (IF s \in Live THEN "deleted" ELSE stream[s].life)
                 /\ s \notin Live => stream'[s] = stream[s]
                 /\ stream'[s].heard = stream[s].heard
      <4>1. stream[s] \in StreamType /\ stream'[s] = IF s \in Live THEN [stream[s] EXCEPT !.life = "deleted"] ELSE stream[s]
        BY <3>1, <1>1
      <4>2. CASE s \in Live
        BY <4>1, <4>2 DEF StreamType
      <4>3. CASE s \notin Live
        BY <4>1, <4>3
      <4> QED
        BY <4>2, <4>3
    <3>3. stream' \in [Streams -> StreamType]
      BY <3>1, <3>2
    <3>4. ASSUME NEW s \in Streams PROVE Alone(s)' <=> Alone(s)
      BY <3>2 DEF Alone, Live
    <3>5. ASSUME NEW s \in Streams PROVE StreamInv(s)'
      <4>1. StreamInv(s)
        BY <1>1
      <4>2. CASE s \in Live
        <5>1. stream'[s].life = "deleted" /\ stream'[s].heard = stream[s].heard
          BY <4>2, <3>2
        <5> QED
          BY <5>1, <4>1 DEF StreamInv
      <4>3. CASE s \notin Live
        <5>1. stream'[s] = stream[s]
          BY <4>3, <3>2
        <5> QED
          BY <5>1, <4>1, <3>1, <3>4 DEF StreamInv
      <4> QED
        BY <4>2, <4>3
    <3>6. todo' = {}
      BY <3>1, <1>1
    <3> QED
      BY <3>1, <3>3, <3>5, <3>6, <1>1 DEF StreamsInv
  <2> QED
    BY <1>3, <2>1, <2>2, <2>3, <2>4 DEF AudioThread
<1>4. CASE Owners /\ UNCHANGED audioVars
  <2>1. todo # {} => workerPc' = "loop"
    <3> SUFFICES ASSUME workerPc = "loop" PROVE workerPc' = "loop"
      BY <1>1
    <3>1. ~Launch
      BY DEF Launch, Inv
    <3> QED
      BY <3>1, <1>4 DEF Owners, CtorCheck, Delete, Finish, WaitForTermination, FinishCheck, SpuriousWake
  <2> QED
    BY <2>1, <1>2, <1>4
<1>5. ASSUME NEW s \in Streams, NEW h \in Headers, PlayFile(s, h) PROVE StreamsInv'
  <2> DEFINE r == stream[s]
  <2>1. r \in StreamType /\ r.life = "new" /\ StreamInv(s) /\ r.heard = <<>> /\ (Alone(s) => previous_result)
    BY <1>1, <1>5 DEF PlayFile, StreamInv
  <2>2. todo = {} /\ todo' = {} /\ previous_result' = previous_result
    BY <1>5 DEF PlayFile
  <2>3. PICK q \in StreamType :
          /\ stream' = [stream EXCEPT ![s] = q]
          /\ q.heard = <<>>
          /\ (q.life = "live" /\ LiveInv(q)) \/ q.life = "failed"
    <3>1. CASE Accepted(h)
      <4>1. PICK len \in Lengths, ok \in Usable(h) :
              stream' = [stream EXCEPT ![s] =
                           Play([NewStream EXCEPT !.life = "live", !.len = len, !.usable = ok])]
        BY <3>1, <1>5 DEF PlayFile
      <4> DEFINE q == Play([NewStream EXCEPT !.life = "live", !.len = len, !.usable = ok])
      <4>2. len \in Nat /\ ok \in BOOLEAN
        BY StreamAssumption DEF Usable
      <4>3. q \in StreamType /\ LiveInv(q) /\ q.life = "live" /\ q.heard = <<>>
        BY <4>2, Played
      <4> HIDE DEF q
      <4>4. stream' = [stream EXCEPT ![s] = q]
        BY <4>1 DEF q
      <4> QED
        BY <4>3, <4>4
    <3>2. CASE ~Accepted(h)
      <4> DEFINE q == [r EXCEPT !.life = "failed"]
      <4>1. stream' = [stream EXCEPT ![s] = q]
        BY <3>2, <1>5 DEF PlayFile
      <4>2. q \in StreamType /\ q.life = "failed" /\ q.heard = r.heard
        BY <2>1 DEF StreamType
      <4> HIDE DEF q
      <4> QED
        BY <4>1, <4>2, <2>1
    <3> QED
      BY <3>1, <3>2
  <2>4. /\ stream' \in [Streams -> StreamType] /\ stream'[s] = q
        /\ Alone(s)' => Alone(s)
        /\ \A t \in Streams \ {s} : StreamInv(t)'
    <3>1. q.life \in {"new", "failed"} => stream[s].life \in {"new", "failed"}
      BY <2>1
    <3>2. previous_result' \in BOOLEAN /\ (previous_result' = previous_result \/ stream[s].life = "live")
      BY <2>2, <1>1
    <3> HIDE DEF r
    <3> QED
      BY <3>1, <3>2, <2>3, OneStreamStep
  <2>5. StreamInv(s)'
    <3>1. InOrder(q.heard)
      <4>1. InOrder(<<>>)
        BY DEF InOrder
      <4> QED
        BY <4>1, <2>3
    <3> QED
      BY <3>1, <2>1, <2>2, <2>3, <2>4 DEF StreamInv
  <2>6. \A t \in Streams : StreamInv(t)'
    BY <2>4, <2>5
  <2> QED
    BY <2>2, <2>4, <2>6, <1>1 DEF StreamsInv
<1>6. ASSUME NEW s \in Streams, SourcePlays(s), UNCHANGED <<vars, todo>> PROVE StreamsInv'
  <2> DEFINE r == stream[s]
             q == AfterBlock(r)
  <2>1. r \in StreamType /\ r.life = "live" /\ r.source = "playing" /\ previous_result' = previous_result
    BY <1>1, <1>6 DEF SourcePlays
  <2>2. StreamInv(s) /\ LiveInv(r) /\ InOrder(r.heard)
    BY <2>1, <1>1 DEF StreamInv
  <2>3. stream' = [stream EXCEPT ![s] = q]
    BY <1>1, <1>6 DEF SourcePlays, AfterBlock
  <2>4. /\ q \in StreamType /\ LiveInv(q) /\ InOrder(q.heard)
        /\ q.life = r.life /\ q.queue = r.queue /\ (HasMore(q) <=> HasMore(r))
    BY <2>1, <2>2, SourcePlaysOn
  <2> HIDE DEF q
  <2>5. /\ stream' \in [Streams -> StreamType] /\ stream'[s] = q
        /\ Alone(s)' => Alone(s)
        /\ \A t \in Streams \ {s} : StreamInv(t)'
    BY <2>1, <2>3, <2>4, <1>1, OneStreamStep
  <2>6. Alone(s)' /\ ~previous_result' => ~HasMore(q) /\ Len(q.queue) <= 1
    BY <2>1, <2>2, <2>4, <2>5 DEF StreamInv
  <2>7. StreamInv(s)'
    BY <2>1, <2>4, <2>5, <2>6 DEF StreamInv
  <2>8. \A t \in Streams : StreamInv(t)'
    BY <2>5, <2>7
  <2>9. todo' \subseteq Live' /\ (todo' # {} => workerPc' = "loop")
    <3>1. \A t \in Streams : stream'[t].life = stream[t].life
      BY <2>3, <2>4, <1>1
    <3> QED
      BY <3>1, <1>1, <1>6 DEF Live, vars
  <2> QED
    BY <2>1, <2>5, <2>8, <2>9, <1>1 DEF StreamsInv
<1>7. CASE UNCHANGED allVars
  BY <1>1, <1>2, <1>7 DEF allVars, vars
<1> QED
  BY <1>3, <1>4, <1>5, <1>6, <1>7 DEF AudioNext

LEMMA StreamsHold == AudioSpec => []StreamsInv
<1>1. AudioSpec => []Inv
  BY AudioImplementsLifecycle, InvHolds, PTL
<1> QED
  BY <1>1, StreamsInit, StreamsNext, PTL DEF AudioSpec

(* Whatever the lengths and however the thread and OpenAL take turns, a    *)
(* stream is heard from its beginning without a gap or a repetition        *)
(* (streamingfile.cpp:24-47).                                              *)
THEOREM StreamsAreHeardInOrder == AudioSpec => []HeardInOrder
<1>1. StreamsInv => HeardInOrder
  BY DEF StreamsInv, StreamInv, InOrder, HeardInOrder
<1> QED
  BY <1>1, StreamsHold, PTL

(* A stream that update ends was heard to its end if it was the only one;  *)
(* any number of others cost it at most its last block                     *)
(* (streamingfile.cpp:27-38).                                              *)
THEOREM StreamsArePlayedToTheEnd == AudioSpec => []PlayedToTheEnd
<1>1. StreamsInv => PlayedToTheEnd
  BY DEF StreamsInv, StreamInv, EndOf, PlayedToTheEnd, HeardUpTo
<1> QED
  BY <1>1, StreamsHold, PTL
=============================================================================
