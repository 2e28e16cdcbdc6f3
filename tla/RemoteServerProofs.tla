------------------------- MODULE RemoteServerProofs -------------------------
(***************************************************************************)
(* The client process, whatever the messages, the keys and the order of    *)
(* the queues: no thread calls the client once it has been waited for; what*)
(* the client opened is open as long as its loader or its main loop can    *)
(* use it, and is given back; and the server is told of every key.  With   *)
(* queues that keep their order the client draws what the server asked     *)
(* for, and what comes through the socket is read as it was written.       *)
(***************************************************************************)
EXTENDS RemoteServer, SequenceTheorems, WellFoundedInduction, TLAPS

(* Where the two threads of the client process can be together: what the   *)
(* thread is past once the main thread has seen it run.                    *)
Started == {"run", "body", "closed", "lower", "notify", "down"}
ProxyOnly == {"waitRunning", "startRead", "load", "wait"}

EndInv ==
  /\ proxyPc \in {"none", "start"} \cup Started
  /\ m_running <=> proxyPc \in Started \ {"notify", "down"}
  /\ cliPc \in Starting => proxyPc = "none"
  /\ isLocal => cliPc \notin ProxyOnly /\ proxyPc = "none"
  /\ ~isLocal => cliPc \in Starting \cup {"waitRunning", "aborted"} \/ proxyPc \in Started
  /\ NoCallsAfterWait

LEMMA EndInvInit == Init => EndInv
  BY DEF Init, ClientInit, PlatformInit, EndInv, Started, Starting, ProxyOnly, NoCallsAfterWait

(* The main thread goes to "delete" only where it has waited. *)
LEMMA EndInvMain == EndInv /\ MainThread => EndInv'
<1> SUFFICES ASSUME EndInv, MainThread PROVE EndInv'
  OBVIOUS
<1> USE DEF EndInv, Started, Starting, ProxyOnly, NoCallsAfterWait
<1>1. CASE ClientStep
  <2> UNCHANGED <<proxyPc, m_running>>
    BY <1>1 DEF ClientStep
  <2>1. CASE LocalStart
    BY <2>1 DEF LocalStart, feedVars
  <2>2. CASE LoopCheck
    BY <2>2 DEF LoopCheck, feedVars
  <2>3. CASE Dispatch
    BY <2>3 DEF Dispatch, feedVars
  <2>4. CASE Drained
    BY <2>4 DEF Drained, feedVars
  <2>5. ASSUME NEW k \in Keys, NEW key_press \in BOOLEAN, KeyEvent(k, key_press)
        PROVE  EndInv'
    BY <2>5 DEF KeyEvent, feedVars
  <2>6. CASE CloseWindow
    BY <2>6 DEF CloseWindow, feedVars
  <2>7. CASE EventsDone
    BY <2>7 DEF EventsDone, feedVars
  <2>8. CASE LeaveLoop
    BY <2>8 DEF LeaveLoop, feedVars
  <2>9. CASE LocalWait
    BY <2>9 DEF LocalWait, feedVars
  <2> QED
    BY <1>1, <2>1, <2>2, <2>3, <2>4, <2>5, <2>6, <2>7, <2>8, <2>9
       DEF ClientStep, MainStep
<1>2. CASE Connect
  BY <1>2 DEF Connect, Go, feedVars
<1>3. CASE SeeRunning
  BY <1>3 DEF SeeRunning, Go, feedVars, proxyVars
<1>4. CASE StartRead
  BY <1>4 DEF StartRead, Go, feedVars
<1>5. CASE PostLoadPlayer
  BY <1>5 DEF PostLoadPlayer, Go, feedVars
<1>6. CASE StopService
  BY <1>6 DEF StopService, Go, feedVars
<1>7. CASE SeeEnded
  BY <1>7 DEF SeeEnded, Go, feedVars, proxyVars
<1>8. CASE WindowStep
  <2> UNCHANGED <<proxyPc, m_running, isLocal, srvPhase>>
    BY <1>8 DEF WindowStep, Elsewhere, proxyVars, feedVars
  <2>1. CASE InitializePlatform
    BY <2>1 DEF InitializePlatform, Stage, OpenDisplay, ChooseConfig, GetVisual,
       CreateWindow, CreateContext, StartLoader, SeeLoader
  <2>2. CASE FinishLoader \/ FinalizePlatform
    BY <2>2 DEF FinishLoader, FinalizePlatform
  <2> QED
    BY <1>8, <2>1, <2>2 DEF WindowStep
<1> QED
  BY <1>1, <1>2, <1>3, <1>4, <1>5, <1>6, <1>7, <1>8 DEF MainThread

(* The proxy's thread moves forward only, and m_running with it. *)
LEMMA EndInvProxy == EndInv /\ ProxyThread => EndInv'
<1> SUFFICES ASSUME EndInv, ProxyThread PROVE EndInv'
  OBVIOUS
<1> USE DEF EndInv, Started, Starting, ProxyOnly, NoCallsAfterWait
<1>1. CASE ProxyUp
  BY <1>1 DEF ProxyUp, clientVars, mainVars, feedVars
<1>2. CASE RunReturns
  BY <1>2 DEF RunReturns, clientVars, mainVars, feedVars
<1>3. CASE WriteMsg
  BY <1>3 DEF WriteMsg, clientVars, mainVars, feedVars
<1>4. CASE ReadType
  BY <1>4 DEF ReadType, Running, clientVars, mainVars, feedVars
<1>5. CASE ReadMsg
  BY <1>5 DEF ReadMsg, PushMessage, feedVars
<1>6. CASE ReadError
  BY <1>6 DEF ReadError, clientVars, mainVars, feedVars
<1>7. CASE ReadThrows
  BY <1>7 DEF ReadThrows, proxyVars, feedVars
<1>8. CASE ProxyClosed
  BY <1>8 DEF ProxyClosed, ServerClosed, feedVars
<1>9. CASE ProxyLower
  BY <1>9 DEF ProxyLower, clientVars, mainVars, feedVars
<1>10. CASE ProxyNotify
  BY <1>10 DEF ProxyNotify, LastNotify, ServerDeleted, feedVars
<1> QED
  BY <1>1, <1>2, <1>3, <1>4, <1>5, <1>6, <1>7, <1>8, <1>9, <1>10 DEF ProxyThread

(* The loader's thread has no part in it. *)
LEMMA EndInvLoader == EndInv /\ LoaderThread => EndInv'
BY DEF LoaderThread, LoaderUp, LoaderThrows, LoaderDown, LoaderNotify, Elsewhere, proxyVars,
   feedVars, EndInv, Started, Starting, ProxyOnly, NoCallsAfterWait

(* A server in the process does not come back from "ended". *)
LEMMA EndInvServer == EndInv /\ (ServerThread \/ Environment) => EndInv'
<1> SUFFICES ASSUME EndInv, ServerThread \/ Environment PROVE EndInv'
  OBVIOUS
<1> USE DEF EndInv, Started, Starting, ProxyOnly, NoCallsAfterWait
<1>1. CASE ServerThread
  BY <1>1 DEF ServerThread, LocalServerStep, LocalShutdown, LocalClosed, LocalLowered,
     LocalNotify, LastNotify, ServerDeleted, ServerClosed, mainVars, proxyVars
<1>2. CASE LocalFeed /\ UNCHANGED proxyVars
  BY <1>2 DEF LocalFeed, Feed, PushMessage, proxyVars
<1>3. CASE PeerFeed
  BY <1>3 DEF PeerFeed, Feed, mainVars
<1>4. CASE PeerWrites
  BY <1>4 DEF PeerWrites, clientVars, mainVars, feedVars
<1>5. CASE PeerClose
  BY <1>5 DEF PeerClose, clientVars, mainVars, feedVars
<1> QED
  BY <1>1, <1>2, <1>3, <1>4, <1>5 DEF Environment

(* The inductive invariant of the theorem below (localclient.cpp:44-48,    *)
(* remoteserver.cpp:26-47 and 65-90).                                      *)
THEOREM EndInvHolds == Spec => []EndInv
<1>1. EndInv /\ [Next]_vars => EndInv'
  <2> SUFFICES ASSUME EndInv, [Next]_vars PROVE EndInv'
    OBVIOUS
  <2>1. CASE UNCHANGED vars
    BY <2>1 DEF EndInv, Starting, NoCallsAfterWait, vars, clientVars, mainVars, feedVars, proxyVars
  <2> QED
    BY <2>1, EndInvMain, EndInvLoader, EndInvProxy, EndInvServer DEF Next
<1> QED
  BY <1>1, EndInvInit, PTL DEF Spec

(* When mainloop deletes the server and returns, the server's thread, or   *)
(* the proxy's, has made its last call of the client: it is past           *)
(* serverClosed and can only have the last notify left                     *)
(* (localclient.cpp:44-48, remoteserver.cpp:81-90).                        *)
THEOREM NoCallsAfterTheWait == Spec => []NoCallsAfterWait
<1>1. EndInv => NoCallsAfterWait
  BY DEF EndInv
<1> QED
  BY <1>1, EndInvHolds, PTL
-----------------------------------------------------------------------------
(* The window and the contexts. *)
All == OfMain \cup OfLoader \cup {"loader", "renderer"}

(* From the constructor's addClient to the end of mainloop. *)
InUse == {"new", "waitRunning", "startRead", "load", "check", "drain", "events",
          "shutdown", "stop", "wait", "delete"}

(* What is held where the main thread is, and where the loader can be then.*)
Opening ==
  \/ cliPc = "display" /\ loaderPc = "none" /\ held = {}
  \/ cliPc \in {"config", "visual", "window"} /\ loaderPc = "none" /\ held = {"platform", "dpy"}
  \/ cliPc = "context" /\ loaderPc = "none" /\ held = {"platform", "dpy", "win"}
  \/ cliPc = "loader" /\ loaderPc = "none" /\ held = OfMain
  \/ cliPc = "waitLoader" /\ loaderPc = "init" /\ held = OfMain
  \/ cliPc = "waitLoader" /\ loaderPc = "loop" /\ held = OfMain \cup OfLoader

Open == cliPc \in InUse /\ loaderPc = "loop" /\ held = All

Closing ==
  \/ cliPc = "finish" /\ loaderPc = "finish" /\ held = All
  \/ cliPc = "finish" /\ loaderPc \in {"ended", "gone"} /\ held = All \ OfLoader
  \/ cliPc = "gone" /\ loaderPc \in {"ended", "gone"} /\ held = {}

Aborted ==
  /\ cliPc = "aborted"
  /\ \/ loaderPc = "none" /\ held = {}
     \/ loaderPc \in {"thrown", "ended", "gone"}
     \/ loaderPc \in {"loop", "finish"} /\ held = All

PlatformInv == Opening \/ Open \/ Closing \/ Aborted

LEMMA PlatformInvInit == Init => PlatformInv
BY DEF Init, ClientInit, PlatformInit, PlatformInv, Opening

(* The steps that open and close. *)
LEMMA WindowStepKeeps == PlatformInv /\ WindowStep => PlatformInv'
<1> SUFFICES ASSUME PlatformInv, WindowStep PROVE PlatformInv'
  OBVIOUS
<1> USE DEF PlatformInv, Opening, Open, Closing, Aborted, InUse, All, OfMain, OfLoader
<1>1. CASE OpenDisplay
  BY <1>1 DEF OpenDisplay, Stage
<1>2. CASE ChooseConfig
  BY <1>2 DEF ChooseConfig, Stage
<1>3. CASE GetVisual
  BY <1>3 DEF GetVisual, Stage
<1>4. CASE CreateWindow
  BY <1>4 DEF CreateWindow, Stage
<1>5. CASE CreateContext
  BY <1>5 DEF CreateContext, Stage
<1>6. CASE StartLoader
  BY <1>6 DEF StartLoader
<1>7. CASE SeeLoader
  BY <1>7 DEF SeeLoader
<1>8. CASE FinishLoader
  BY <1>8 DEF FinishLoader
<1>9. CASE FinalizePlatform
  BY <1>9 DEF FinalizePlatform
<1> QED
  BY <1>1, <1>2, <1>3, <1>4, <1>5, <1>6, <1>7, <1>8, <1>9 DEF WindowStep, InitializePlatform

(* The loader's steps. *)
LEMMA LoaderKeeps == PlatformInv /\ LoaderThread => PlatformInv'
<1> SUFFICES ASSUME PlatformInv, LoaderThread PROVE PlatformInv'
  OBVIOUS
<1> USE DEF PlatformInv, Opening, Open, Closing, Aborted, InUse, All, OfMain, OfLoader
<1>1. CASE LoaderUp
  BY <1>1 DEF LoaderUp
<1>2. CASE LoaderThrows
  BY <1>2 DEF LoaderThrows
<1>3. CASE LoaderDown
  BY <1>3 DEF LoaderDown
<1>4. CASE LoaderNotify
  BY <1>4 DEF LoaderNotify
<1> QED
  BY <1>1, <1>2, <1>3, <1>4 DEF LoaderThread

(* The others open and close nothing: they take the main thread from one   *)
(* place where everything is open to another, or end the process there.    *)
Away ==
  \/ cliPc' = cliPc
  \/ cliPc \in InUse /\ cliPc' \in InUse
  \/ cliPc \in InUse \cup {"finish", "gone"} /\ cliPc' = "aborted"

LEMMA AwayKeeps == PlatformInv /\ Away /\ UNCHANGED platformVars => PlatformInv'
BY DEF PlatformInv, Opening, Open, Closing, Aborted, InUse, All, OfMain, OfLoader, Away,
   platformVars

LEMMA ClientStepIsAway == ClientStep => Away
<1> SUFFICES ASSUME ClientStep PROVE Away
  OBVIOUS
<1> USE DEF Away, InUse
<1>1. CASE LocalStart \/ LoopCheck \/ Dispatch \/ Drained
  BY <1>1 DEF LocalStart, LoopCheck, Dispatch, Drained
<1>2. ASSUME NEW k \in Keys, NEW key_press \in BOOLEAN, KeyEvent(k, key_press)
      PROVE  Away
  BY <1>2 DEF KeyEvent
<1>3. CASE CloseWindow \/ EventsDone \/ LeaveLoop \/ LocalWait
  BY <1>3 DEF CloseWindow, EventsDone, LeaveLoop, LocalWait
<1> QED
  BY <1>1, <1>2, <1>3 DEF ClientStep, MainStep

LEMMA MainIsAway == MainThread => WindowStep \/ (Away /\ UNCHANGED platformVars)
<1>1. Connect \/ SeeRunning \/ StartRead \/ PostLoadPlayer \/ StopService \/ SeeEnded => Away
  BY DEF Away, InUse, Connect, SeeRunning, StartRead, PostLoadPlayer, StopService, SeeEnded, Go
<1> QED
  BY <1>1, ClientStepIsAway DEF MainThread

(* The proxy's thread ends the process only while the client waits for it  *)
(* or runs (EndInv).                                                       *)
LEMMA ProxyIsAway == EndInv /\ PlatformInv /\ ProxyThread => Away /\ UNCHANGED platformVars
<1> SUFFICES ASSUME EndInv, PlatformInv, ProxyThread PROVE Away /\ UNCHANGED platformVars
  OBVIOUS
<1>1. UNCHANGED platformVars
  BY DEF ProxyThread
<1>2. CASE ReadThrows
  <2>1. cliPc' = "aborted" /\ proxyPc = "body"
    BY <1>2 DEF ReadThrows
  <2>2. ~isLocal /\ cliPc \notin Starting /\ cliPc \notin {"finish", "gone"}
    BY <2>1 DEF EndInv, NoCallsAfterWait
  <2> QED
    BY <2>1, <2>2, <1>1 DEF PlatformInv, Opening, Open, Closing, Aborted, Starting, Away
<1>3. CASE ~ReadThrows
  BY <1>1, <1>3 DEF ProxyThread, ProxyUp, RunReturns, WriteMsg, ReadType, ReadMsg, ReadError,
     ProxyClosed, ProxyLower, ProxyNotify, LastNotify, ServerDeleted, PushMessage, ServerClosed,
     clientVars, mainVars, Away
<1> QED
  BY <1>2, <1>3

LEMMA OthersAreAway == ServerThread \/ Environment => Away /\ UNCHANGED platformVars
BY DEF ServerThread, LocalServerStep, LocalShutdown, LocalClosed, LocalLowered, LocalNotify,
   LastNotify, ServerDeleted, ServerClosed, Environment, LocalFeed, PushMessage, PeerFeed, PeerWrites, PeerClose, clientVars,
   mainVars, Away

(* The inductive invariant of the theorem below: what is held is determined*)
(* by where the two threads are (localclient_x11.cpp:23-108).              *)
THEOREM PlatformInvHolds == Spec => []PlatformInv
<1>1. EndInv /\ PlatformInv /\ [Next]_vars => PlatformInv'
  <2> SUFFICES ASSUME EndInv, PlatformInv, [Next]_vars PROVE PlatformInv'
    OBVIOUS
  <2>1. CASE UNCHANGED vars
    <3>1. Away /\ UNCHANGED platformVars
      BY <2>1 DEF vars, clientVars, mainVars, Away
    <3> QED
      BY <3>1, AwayKeeps
  <2>2. CASE MainThread
    BY <2>2, MainIsAway, WindowStepKeeps, AwayKeeps
  <2>3. CASE LoaderThread
    BY <2>3, LoaderKeeps
  <2>4. CASE ProxyThread
    BY <2>4, ProxyIsAway, AwayKeeps
  <2>5. CASE ServerThread \/ Environment
    BY <2>5, OthersAreAway, AwayKeeps
  <2> QED
    BY <2>1, <2>2, <2>3, <2>4, <2>5 DEF Next
<1> QED
  BY <1>1, PlatformInvInit, EndInvHolds, PTL DEF Spec

(* Nothing is closed that the loader's thread still uses, nothing is left  *)
(* open by a client that has gone, a constructor that fails before it has  *)
(* started the loader gives back what it had, and one that fails later, in *)
(* addClient, gives back nothing (localclient_x11.cpp:23-108,              *)
(* glloader_x11.cpp:18-46, localclient.cpp:12-15).                         *)
THEOREM PlatformIsReleased == Spec => []PlatformOutlivesLoader
<1>1. PlatformInv => PlatformOutlivesLoader
  BY DEF PlatformInv, Opening, Open, Closing, Aborted, InUse, All, OfMain, OfLoader,
     PlatformOutlivesLoader
<1> QED
  BY <1>1, PlatformInvHolds, PTL
-----------------------------------------------------------------------------
(* Induction, from the least element of a set of numbers. *)
LEMMA LeastNumber ==
  ASSUME NEW T, T \subseteq Nat, T # {}
  PROVE  \E x \in T : \A y \in T : x <= y
<1>1. IsWellFoundedOn(OpToRel(<, Nat), Nat)
  BY NatLessThanWellFounded
<1>2. PICK x \in T : \A y \in T : ~(<<y, x>> \in OpToRel(<, Nat))
  BY <1>1, WFMin
<1>3. \A y \in T : ~(y < x)
  BY <1>2 DEF OpToRel
<1> QED
  BY <1>3

LEMMA NumbersUpTo ==
  ASSUME NEW N \in Nat, NEW S, 0 \in S, \A n \in 0..N : n < N /\ n \in S => n + 1 \in S
  PROVE  N \in S
<1> DEFINE T == (0..N) \ S
<1> SUFFICES ASSUME T # {} PROVE FALSE
  OBVIOUS
<1>1. T \subseteq Nat
  OBVIOUS
<1> HIDE DEF T
<1>2. PICK x \in T : \A y \in T : x <= y
  BY <1>1, LeastNumber
<1>3. x \in 0..N /\ x \notin S
  BY DEF T
<1>4. x - 1 \in 0..N /\ x - 1 < N /\ (x - 1) + 1 = x /\ x - 1 \notin T
  BY <1>2, <1>3
<1>5. x - 1 \in S
  BY <1>4 DEF T
<1>6. (x - 1) + 1 \in S
  BY <1>4, <1>5
<1> QED
  BY <1>3, <1>4, <1>6
-----------------------------------------------------------------------------
(* Drawn, one message after the other. *)
Drawing(f, map, msgs) ==
  /\ f = [n \in 0..Len(msgs) |-> f[n]]
  /\ f[0] = map
  /\ \A n \in 1..Len(msgs) : f[n] = Render(f[n - 1], msgs[n])

LEMMA DrawingExists ==
  ASSUME NEW map, NEW msgs, Len(msgs) \in Nat
  PROVE  \E f : Drawing(f, map, msgs)
<1> DEFINE N == Len(msgs)
           Up(f, k) == /\ f = [n \in 0..k |-> f[n]] /\ f[0] = map
                       /\ \A n \in 1..k : f[n] = Render(f[n - 1], msgs[n])
           S == {k \in 0..N : \E f : Up(f, k)}
<1>1. 0 \in S
  <2> DEFINE f == [n \in 0..0 |-> map]
  <2>1. Up(f, 0)
    OBVIOUS
  <2>2. 0 \in 0..N
    OBVIOUS
  <2> HIDE DEF f
  <2> QED
    BY <2>1, <2>2
<1>2. ASSUME NEW k \in 0..N, k < N, k \in S PROVE k + 1 \in S
  <2>1. PICK f : Up(f, k)
    BY <1>2
  <2> DEFINE g == [n \in 0..(k + 1) |-> IF n <= k THEN f[n] ELSE Render(f[k], msgs[k + 1])]
  <2>2. g[0] = map /\ g[k + 1] = Render(g[k], msgs[k + 1])
    BY <2>1
  <2>3. \A n \in 1..k : g[n] = Render(g[n - 1], msgs[n])
    BY <2>1
  <2>4. g = [n \in 0..(k + 1) |-> g[n]]
    OBVIOUS
  <2> HIDE DEF g
  <2>5. \A n \in 1..(k + 1) : g[n] = Render(g[n - 1], msgs[n])
    BY <2>2, <2>3
  <2>6. Up(g, k + 1)
    BY <2>2, <2>4, <2>5
  <2> QED
    BY <2>6
<1> HIDE DEF S
<1>3. N \in S
  BY <1>1, <1>2, NumbersUpTo
<1> QED
  BY <1>3 DEF S, Drawing

LEMMA DrawnBy ==
  ASSUME NEW map, NEW msgs, Len(msgs) \in Nat, NEW f, Drawing(f, map, msgs)
  PROVE  Drawn(map, msgs) = f[Len(msgs)]
<1> DEFINE N == Len(msgs)
           after == CHOOSE g : g = [n \in 0..N |-> IF n = 0 THEN map ELSE Render(g[n - 1], msgs[n])]
<1>1. f = [n \in 0..N |-> IF n = 0 THEN map ELSE Render(f[n - 1], msgs[n])]
  BY DEF Drawing
<1>2. after = [n \in 0..N |-> IF n = 0 THEN map ELSE Render(after[n - 1], msgs[n])]
  BY <1>1
<1>3. Drawn(map, msgs) = after[N]
  BY DEF Drawn
<1> HIDE DEF after
<1> DEFINE S == {k \in 0..N : after[k] = f[k]}
<1>4. 0 \in S
  BY <1>1, <1>2
<1>5. ASSUME NEW k \in 0..N, k < N, k \in S PROVE k + 1 \in S
  <2>1. k + 1 \in 1..N /\ k + 1 # 0 /\ (k + 1) - 1 = k
    BY <1>5
  <2>2. after[k + 1] = Render(after[k], msgs[k + 1]) /\ f[k + 1] = Render(f[k], msgs[k + 1])
    BY <1>1, <1>2, <2>1
  <2> QED
    BY <1>5, <2>1, <2>2
<1> HIDE DEF S
<1>6. N \in S
  BY <1>4, <1>5, NumbersUpTo
<1> QED
  BY <1>3, <1>6 DEF S

LEMMA DrawnNothing == ASSUME NEW map PROVE Drawn(map, <<>>) = map
<1>1. PICK f : Drawing(f, map, <<>>)
  BY DrawingExists
<1>2. Drawn(map, <<>>) = f[Len(<<>>)]
  BY <1>1, DrawnBy
<1> QED
  BY <1>1, <1>2 DEF Drawing

LEMMA DrawnAppend ==
  ASSUME NEW map, NEW M, NEW msgs \in Seq(M), NEW msg \in M
  PROVE  Drawn(map, Append(msgs, msg)) = Render(Drawn(map, msgs), msg)
<1> DEFINE N == Len(msgs)
           all == Append(msgs, msg)
<1>1. /\ N \in Nat /\ Len(all) = N + 1 /\ all[N + 1] = msg /\ \A n \in 1..N : all[n] = msgs[n]
  OBVIOUS
<1> HIDE DEF all
<1>2. PICK f : Drawing(f, map, msgs)
  BY <1>1, DrawingExists
<1> DEFINE g == [n \in 0..(N + 1) |-> IF n <= N THEN f[n] ELSE Render(f[N], msg)]
<1>3. g[0] = map /\ g[N] = f[N] /\ g[N + 1] = Render(f[N], msg)
  BY <1>1, <1>2 DEF Drawing
<1>4. \A n \in 1..N : g[n] = Render(g[n - 1], all[n])
  BY <1>1, <1>2 DEF Drawing
<1>5. g = [n \in 0..(N + 1) |-> g[n]]
  OBVIOUS
<1> HIDE DEF g
<1>6. \A n \in 1..(N + 1) : g[n] = Render(g[n - 1], all[n])
  BY <1>1, <1>3, <1>4
<1>7. Drawing(g, map, all)
  BY <1>1, <1>3, <1>5, <1>6 DEF Drawing
<1>8. Drawn(map, all) = g[N + 1]
  BY <1>1, <1>7, DrawnBy
<1>9. Drawn(map, msgs) = f[N]
  BY <1>1, <1>2, DrawnBy
<1> QED
  BY <1>3, <1>8, <1>9 DEF all

LEMMA DrawnHead ==
  ASSUME NEW map, NEW M, NEW msgs \in Seq(M), msgs # <<>>
  PROVE  Drawn(map, msgs) = Drawn(Render(map, Head(msgs)), Tail(msgs))
<1> DEFINE N == Len(msgs)
           rest == Tail(msgs)
<1>1. /\ N \in Nat \ {0} /\ Len(rest) = N - 1 /\ Head(msgs) = msgs[1]
      /\ \A n \in 1..(N - 1) : rest[n] = msgs[n + 1]
  OBVIOUS
<1> HIDE DEF rest
<1>2. PICK f : Drawing(f, map, msgs)
  BY <1>1, DrawingExists
<1> DEFINE g == [n \in 0..(N - 1) |-> f[n + 1]]
<1>2a. f[0] = map /\ \A n \in 1..N : f[n] = Render(f[n - 1], msgs[n])
  BY <1>2 DEF Drawing
<1>3. g[0] = Render(map, msgs[1]) /\ g[N - 1] = f[N]
  <2>1. 0 \in 0..(N - 1) /\ N - 1 \in 0..(N - 1) /\ (N - 1) + 1 = N /\ 1 \in 1..N /\ 1 - 1 = 0 /\ 0 + 1 = 1
    BY <1>1
  <2>2. g[0] = f[1] /\ g[N - 1] = f[N]
    BY <2>1
  <2> QED
    BY <2>1, <2>2, <1>2a
<1>4. \A n \in 1..(N - 1) : g[n] = Render(g[n - 1], rest[n])
  <2> SUFFICES ASSUME NEW n \in 1..(N - 1) PROVE g[n] = Render(g[n - 1], rest[n])
    OBVIOUS
  <2>1. n \in 0..(N - 1) /\ n - 1 \in 0..(N - 1) /\ n + 1 \in 1..N /\ (n + 1) - 1 = n /\ (n - 1) + 1 = n
    BY <1>1
  <2>2. g[n] = f[n + 1] /\ g[n - 1] = f[n]
    BY <2>1
  <2> QED
    BY <2>1, <2>2, <1>1, <1>2a
<1>5. g = [n \in 0..(N - 1) |-> g[n]]
  OBVIOUS
<1> HIDE DEF g
<1>6. Drawing(g, Render(map, msgs[1]), rest)
  BY <1>1, <1>3, <1>4, <1>5 DEF Drawing
<1>7. Drawn(Render(map, msgs[1]), rest) = g[N - 1]
  BY <1>1, <1>6, DrawnBy
<1>8. Drawn(map, msgs) = f[N]
  BY <1>1, <1>2, DrawnBy
<1> QED
  BY <1>1, <1>3, <1>7, <1>8 DEF rest
-----------------------------------------------------------------------------
(* The messages of each direction, and the fields that they are written in.*)
FromServer == {AddDrawable(id) : id \in Ids} \cup {DelDrawable(id) : id \in Ids}
                \cup {TransDrawable(id, t) : id \in Ids, t \in Nat}
FromClient == {LoadPlayer} \cup {Input(keys) : keys \in SUBSET Keys}

Field == [bytes : Nat, value : Nat \cup Ids \cup {"Player"} \cup SUBSET Keys]

(* What writeMsg writes is what readMsg reads. *)
ReadAsWritten(kind, msg) ==
  LET e == Encode(kind, msg)
      n == Len(Wanted(msg.type))
  IN  /\ e \in Seq(Field)
      /\ n \in Nat /\ Len(e) = n + 1
      /\ e[1] = [bytes |-> 4, value |-> kind[msg.type]]
      /\ msg.type \in DOMAIN kind /\ TypeOf(kind, kind[msg.type]) = msg.type
      /\ \A s : (\A k \in 1..n : s[k] = e[k + 1]) => Body(msg.type, s) = msg

LEMMA Chain ==
  ASSUME NEW S, NEW a \in S, NEW s \in Seq(S), NEW t \in Seq(S),
         Len(t) = Len(s) + 1, t[1] = a, \A i \in 1..Len(s) : t[i + 1] = s[i]
  PROVE  <<a>> \o s = t
<1> DEFINE h == <<a>>
<1>1. h \in Seq(S) /\ Len(h) = 1 /\ h[1] = a /\ Len(s) \in Nat
  OBVIOUS
<1> HIDE DEF h
<1> DEFINE c == h \o s
<1>2. /\ c \in Seq(S) /\ Len(c) = 1 + Len(s)
      /\ \A i \in 1..1 + Len(s) : c[i] = IF i <= 1 THEN h[i] ELSE s[i - 1]
  <2>1. /\ h \o s \in Seq(S) /\ Len(h \o s) = Len(h) + Len(s)
        /\ \A i \in 1..Len(h) + Len(s) : (h \o s)[i] = IF i <= Len(h) THEN h[i] ELSE s[i - Len(h)]
    BY <1>1, ConcatProperties
  <2> QED
    BY <2>1, <1>1
<1> HIDE DEF c
<1>3. ASSUME NEW i \in 1..Len(c) PROVE c[i] = t[i]
  <2>1. CASE i = 1
    BY <2>1, <1>1, <1>2
  <2>2. CASE i # 1
    <3>1. i - 1 \in 1..Len(s) /\ (i - 1) + 1 = i /\ ~(i <= 1)
      BY <2>2, <1>1, <1>2
    <3>2. t[i] = s[i - 1]
      BY <3>1
    <3> QED
      BY <3>1, <3>2, <1>1, <1>2
  <2> QED
    BY <2>1, <2>2
<1>4. c = t
  <2>1. Len(c) = Len(t)
    BY <1>1, <1>2
  <2> QED
    BY <2>1, <1>2, <1>3, SeqEqual
<1> QED
  BY <1>4 DEF c, h

LEMMA Chain2 == ASSUME NEW a, NEW b PROVE <<a>> \o <<b>> = <<a, b>>
<1> DEFINE S == {a, b}
           s == <<b>>
           t == <<a, b>>
<1>1. a \in S /\ s \in Seq(S) /\ t \in Seq(S)
  OBVIOUS
<1>2. Len(s) = 1 /\ Len(t) = 2 /\ t[1] = a /\ t[2] = s[1]
  OBVIOUS
<1> HIDE DEF S, s, t
<1>3. Len(t) = Len(s) + 1 /\ \A i \in 1..Len(s) : t[i + 1] = s[i]
  BY <1>2
<1>4. <<a>> \o s = t
  BY <1>1, <1>2, <1>3, Chain
<1> QED
  BY <1>4 DEF s, t

LEMMA Chain3 == ASSUME NEW a, NEW b, NEW c PROVE <<a>> \o <<b, c>> = <<a, b, c>>
<1> DEFINE S == {a, b, c}
           s == <<b, c>>
           t == <<a, b, c>>
<1>1. a \in S /\ s \in Seq(S) /\ t \in Seq(S)
  OBVIOUS
<1>2. Len(s) = 2 /\ Len(t) = 3 /\ t[1] = a /\ t[2] = s[1] /\ t[3] = s[2]
  OBVIOUS
<1> HIDE DEF S, s, t
<1>3. Len(t) = Len(s) + 1 /\ \A i \in 1..Len(s) : t[i + 1] = s[i]
  BY <1>2
<1>4. <<a>> \o s = t
  BY <1>1, <1>2, <1>3, Chain
<1> QED
  BY <1>4 DEF s, t

LEMMA Chain4 == ASSUME NEW a, NEW b, NEW c, NEW d PROVE <<a>> \o <<b, c, d>> = <<a, b, c, d>>
<1> DEFINE S == {a, b, c, d}
           s == <<b, c, d>>
           t == <<a, b, c, d>>
<1>1. a \in S /\ s \in Seq(S) /\ t \in Seq(S)
  OBVIOUS
<1>2. Len(s) = 3 /\ Len(t) = 4 /\ t[1] = a /\ t[2] = s[1] /\ t[3] = s[2] /\ t[4] = s[3]
  OBVIOUS
<1> HIDE DEF S, s, t
<1>3. Len(t) = Len(s) + 1 /\ \A i \in 1..Len(s) : t[i + 1] = s[i]
  BY <1>2
<1>4. <<a>> \o s = t
  BY <1>1, <1>2, <1>3, Chain
<1> QED
  BY <1>4 DEF s, t

(* What the fields of one message come to when they are read, for each     *)
(* message.                                                                *)
LEMMA AddIsRead == ASSUME NEW id \in Ids PROVE ReadAsWritten(ClientMsg, AddDrawable(id))
<1> DEFINE msg == AddDrawable(id)
           a == [bytes |-> 4, value |-> 0]
           b == [bytes |-> 4, value |-> id]
           c == [bytes |-> 4, value |-> 6]
           d == [bytes |-> 6, value |-> "Player"]
           w == <<4, 4, Counted>>
           e == <<a, b, c, d>>
<1>1. msg.type = "Add" /\ msg.objid = id
  BY DEF AddDrawable
<1>2. ClientMsg["Add"] = 0
  BY DEF ClientMsg
<1>3. Fields(msg) = Pod(4, msg.objid) \o String
  BY <1>1 DEF Fields
<1>4. Pod(4, 0) = <<a>> /\ Pod(4, id) = <<b>> /\ Pod(4, 6) = <<c>> /\ Pod(6, "Player") = <<d>>
  BY DEF Pod
<1>5. a \in Field /\ b \in Field /\ c \in Field /\ d \in Field
  BY DEF Field
<1> HIDE DEF a, b, c, d
<1>6. String = <<c, d>>
  BY <1>4, Chain2 DEF String, TemplateLength
<1>7. Encode(ClientMsg, msg) = e
  <2>1. Fields(msg) = <<b, c, d>>
    BY <1>1, <1>3, <1>4, <1>6, Chain3
  <2>2. Pod(4, ClientMsg[msg.type]) = <<a>>
    BY <1>1, <1>2, <1>4
  <2> QED
    BY <2>1, <2>2, Chain4 DEF Encode
<1>8. msg.type \in DOMAIN ClientMsg /\ TypeOf(ClientMsg, ClientMsg[msg.type]) = msg.type
  BY <1>1 DEF TypeOf, ClientMsg
<1>9. Wanted(msg.type) = w
  BY <1>1 DEF Wanted
<1>10. Len(w) = 3 /\ w[1] = 4 /\ w[2] = 4 /\ w[3] = Counted
  OBVIOUS
<1>11. e \in Seq(Field) /\ Len(e) = 4 /\ e[1] = a /\ e[2] = b /\ e[3] = c /\ e[4] = d
  BY <1>5
<1> HIDE DEF w, e
<1>12. ASSUME NEW s, \A k \in 1..3 : s[k] = e[k + 1] PROVE Body(msg.type, s) = msg
  <2>1. s[1] = b /\ s[2] = c /\ s[3] = d
    BY <1>11, <1>12
  <2>2. ~ \E i \in 1..3 : ~(s[i].bytes = IF w[i] = Counted THEN s[i - 1].value ELSE w[i])
    BY <2>1, <1>10 DEF b, c, d, Counted
  <2>3. s[1].value = id
    BY <2>1 DEF b
  <2> QED
    BY <2>2, <2>3, <1>1, <1>9, <1>10 DEF Body
<1>13. e[1] = [bytes |-> 4, value |-> ClientMsg[msg.type]]
  BY <1>1, <1>2, <1>11 DEF a
<1> HIDE DEF msg
<1>14. ReadAsWritten(ClientMsg, msg)
  BY <1>7, <1>8, <1>9, <1>10, <1>11, <1>12, <1>13 DEF ReadAsWritten
<1> QED
  BY <1>14 DEF msg

LEMMA TransIsRead ==
  ASSUME NEW id \in Ids, NEW t \in Nat PROVE ReadAsWritten(ClientMsg, TransDrawable(id, t))
<1> DEFINE msg == TransDrawable(id, t)
           a == [bytes |-> 4, value |-> 2]
           b == [bytes |-> 4, value |-> id]
           c == [bytes |-> 64, value |-> t]
           w == <<4, 64>>
           e == <<a, b, c>>
<1>1. msg.type = "Trans" /\ msg.objid = id /\ msg.transform = t
  BY DEF TransDrawable
<1>2. ClientMsg["Trans"] = 2
  BY DEF ClientMsg
<1>3. Fields(msg) = Pod(4, msg.objid) \o Pod(64, msg.transform)
  BY <1>1 DEF Fields
<1>4. Pod(4, 2) = <<a>> /\ Pod(4, id) = <<b>> /\ Pod(64, t) = <<c>>
  BY DEF Pod
<1>5. a \in Field /\ b \in Field /\ c \in Field
  BY DEF Field
<1> HIDE DEF a, b, c
<1>7. Encode(ClientMsg, msg) = e
  <2>1. Fields(msg) = <<b, c>>
    BY <1>1, <1>3, <1>4, Chain2
  <2>2. Pod(4, ClientMsg[msg.type]) = <<a>>
    BY <1>1, <1>2, <1>4
  <2> QED
    BY <2>1, <2>2, Chain3 DEF Encode
<1>8. msg.type \in DOMAIN ClientMsg /\ TypeOf(ClientMsg, ClientMsg[msg.type]) = msg.type
  BY <1>1 DEF TypeOf, ClientMsg
<1>9. Wanted(msg.type) = w
  BY <1>1 DEF Wanted
<1>10. Len(w) = 2 /\ w[1] = 4 /\ w[2] = 64
  OBVIOUS
<1>11. e \in Seq(Field) /\ Len(e) = 3 /\ e[1] = a /\ e[2] = b /\ e[3] = c
  BY <1>5
<1> HIDE DEF w, e
<1>12. ASSUME NEW s, \A k \in 1..2 : s[k] = e[k + 1] PROVE Body(msg.type, s) = msg
  <2>1. s[1] = b /\ s[2] = c
    BY <1>11, <1>12
  <2>2. ~ \E i \in 1..2 : ~(s[i].bytes = IF w[i] = Counted THEN s[i - 1].value ELSE w[i])
    BY <2>1, <1>10 DEF b, c, Counted
  <2>3. s[1].value = id /\ s[2].value = t
    BY <2>1 DEF b, c
  <2> QED
    BY <2>2, <2>3, <1>1, <1>9, <1>10 DEF Body
<1>13. e[1] = [bytes |-> 4, value |-> ClientMsg[msg.type]]
  BY <1>1, <1>2, <1>11 DEF a
<1> HIDE DEF msg
<1>14. ReadAsWritten(ClientMsg, msg)
  BY <1>7, <1>8, <1>9, <1>10, <1>11, <1>12, <1>13 DEF ReadAsWritten
<1> QED
  BY <1>14 DEF msg

LEMMA DelIsRead == ASSUME NEW id \in Ids PROVE ReadAsWritten(ClientMsg, DelDrawable(id))
<1> DEFINE msg == DelDrawable(id)
           a == [bytes |-> 4, value |-> 4]
           b == [bytes |-> 4, value |-> id]
           w == <<4>>
           e == <<a, b>>
<1>1. msg.type = "Del" /\ msg.objid = id
  BY DEF DelDrawable
<1>2. ClientMsg["Del"] = 4
  BY DEF ClientMsg
<1>3. Fields(msg) = Pod(4, msg.objid)
  BY <1>1 DEF Fields
<1>4. Pod(4, 4) = <<a>> /\ Pod(4, id) = <<b>>
  BY DEF Pod
<1>5. a \in Field /\ b \in Field
  BY DEF Field
<1> HIDE DEF a, b
<1>7. Encode(ClientMsg, msg) = e
  BY <1>1, <1>2, <1>3, <1>4, Chain2 DEF Encode
<1>8. msg.type \in DOMAIN ClientMsg /\ TypeOf(ClientMsg, ClientMsg[msg.type]) = msg.type
  BY <1>1 DEF TypeOf, ClientMsg
<1>9. Wanted(msg.type) = w
  BY <1>1 DEF Wanted
<1>10. Len(w) = 1 /\ w[1] = 4
  OBVIOUS
<1>11. e \in Seq(Field) /\ Len(e) = 2 /\ e[1] = a /\ e[2] = b
  BY <1>5
<1> HIDE DEF w, e
<1>12. ASSUME NEW s, \A k \in 1..1 : s[k] = e[k + 1] PROVE Body(msg.type, s) = msg
  <2>1. s[1] = b
    BY <1>11, <1>12
  <2>2. ~ \E i \in 1..1 : ~(s[i].bytes = IF w[i] = Counted THEN s[i - 1].value ELSE w[i])
    BY <2>1, <1>10 DEF b, Counted
  <2>3. s[1].value = id
    BY <2>1 DEF b
  <2> QED
    BY <2>2, <2>3, <1>1, <1>9, <1>10 DEF Body
<1>13. e[1] = [bytes |-> 4, value |-> ClientMsg[msg.type]]
  BY <1>1, <1>2, <1>11 DEF a
<1> HIDE DEF msg
<1>14. ReadAsWritten(ClientMsg, msg)
  BY <1>7, <1>8, <1>9, <1>10, <1>11, <1>12, <1>13 DEF ReadAsWritten
<1> QED
  BY <1>14 DEF msg

LEMMA InputIsRead ==
  ASSUME NEW keys \in SUBSET Keys PROVE ReadAsWritten(ServerMsg, Input(keys))
<1> DEFINE msg == Input(keys)
           a == [bytes |-> 4, value |-> 1]
           b == [bytes |-> 2, value |-> keys]
           w == <<2>>
           e == <<a, b>>
<1>1. msg.type = "Input" /\ msg.state = keys
  BY DEF Input
<1>2. ServerMsg["Input"] = 1
  BY DEF ServerMsg
<1>3. Fields(msg) = Pod(2, msg.state)
  BY <1>1 DEF Fields
<1>4. Pod(4, 1) = <<a>> /\ Pod(2, keys) = <<b>>
  BY DEF Pod
<1>5. a \in Field /\ b \in Field
  BY DEF Field
<1> HIDE DEF a, b
<1>7. Encode(ServerMsg, msg) = e
  BY <1>1, <1>2, <1>3, <1>4, Chain2 DEF Encode
<1>8. msg.type \in DOMAIN ServerMsg /\ TypeOf(ServerMsg, ServerMsg[msg.type]) = msg.type
  BY <1>1 DEF TypeOf, ServerMsg
<1>9. Wanted(msg.type) = w
  BY <1>1 DEF Wanted
<1>10. Len(w) = 1 /\ w[1] = 2
  OBVIOUS
<1>11. e \in Seq(Field) /\ Len(e) = 2 /\ e[1] = a /\ e[2] = b
  BY <1>5
<1> HIDE DEF w, e
<1>12. ASSUME NEW s, \A k \in 1..1 : s[k] = e[k + 1] PROVE Body(msg.type, s) = msg
  <2>1. s[1] = b
    BY <1>11, <1>12
  <2>2. ~ \E i \in 1..1 : ~(s[i].bytes = IF w[i] = Counted THEN s[i - 1].value ELSE w[i])
    BY <2>1, <1>10 DEF b, Counted
  <2>3. s[1].value = keys
    BY <2>1 DEF b
  <2> QED
    BY <2>2, <2>3, <1>1, <1>9, <1>10 DEF Body
<1>13. e[1] = [bytes |-> 4, value |-> ServerMsg[msg.type]]
  BY <1>1, <1>2, <1>11 DEF a
<1> HIDE DEF msg
<1>14. ReadAsWritten(ServerMsg, msg)
  BY <1>7, <1>8, <1>9, <1>10, <1>11, <1>12, <1>13 DEF ReadAsWritten
<1> QED
  BY <1>14 DEF msg

LEMMA LoadPlayerIsRead == ReadAsWritten(ServerMsg, LoadPlayer)
<1> DEFINE msg == LoadPlayer
           a == [bytes |-> 4, value |-> 2]
           b == [bytes |-> 4, value |-> 6]
           c == [bytes |-> 6, value |-> "Player"]
           w == <<4, Counted>>
           e == <<a, b, c>>
<1>1. msg.type = "LoadPlayer" /\ msg = [type |-> "LoadPlayer"]
  BY DEF LoadPlayer
<1>2. ServerMsg["LoadPlayer"] = 2
  BY DEF ServerMsg
<1>3. Fields(msg) = String
  BY <1>1 DEF Fields
<1>4. Pod(4, 2) = <<a>> /\ Pod(4, 6) = <<b>> /\ Pod(6, "Player") = <<c>>
  BY DEF Pod
<1>5. a \in Field /\ b \in Field /\ c \in Field
  BY DEF Field
<1> HIDE DEF a, b, c
<1>6. String = <<b, c>>
  BY <1>4, Chain2 DEF String, TemplateLength
<1>7. Encode(ServerMsg, msg) = e
  BY <1>1, <1>2, <1>3, <1>4, <1>6, Chain3 DEF Encode
<1>8. msg.type \in DOMAIN ServerMsg /\ TypeOf(ServerMsg, ServerMsg[msg.type]) = msg.type
  BY <1>1 DEF TypeOf, ServerMsg
<1>9. Wanted(msg.type) = w
  BY <1>1 DEF Wanted
<1>10. Len(w) = 2 /\ w[1] = 4 /\ w[2] = Counted
  OBVIOUS
<1>11. e \in Seq(Field) /\ Len(e) = 3 /\ e[1] = a /\ e[2] = b /\ e[3] = c
  BY <1>5
<1> HIDE DEF w, e
<1>12. ASSUME NEW s, \A k \in 1..2 : s[k] = e[k + 1] PROVE Body(msg.type, s) = msg
  <2>1. s[1] = b /\ s[2] = c
    BY <1>11, <1>12
  <2>2. ~ \E i \in 1..2 : ~(s[i].bytes = IF w[i] = Counted THEN s[i - 1].value ELSE w[i])
    BY <2>1, <1>10 DEF b, c, Counted
  <2> QED
    BY <2>2, <1>1, <1>9, <1>10 DEF Body
<1>13. e[1] = [bytes |-> 4, value |-> ServerMsg[msg.type]]
  BY <1>1, <1>2, <1>11 DEF a
<1> HIDE DEF msg
<1>14. ReadAsWritten(ServerMsg, msg)
  BY <1>7, <1>8, <1>9, <1>10, <1>11, <1>12, <1>13 DEF ReadAsWritten
<1> QED
  BY <1>14 DEF msg

LEMMA WrittenAreRead ==
  /\ \A msg \in FromServer : ReadAsWritten(ClientMsg, msg)
  /\ \A msg \in FromClient : ReadAsWritten(ServerMsg, msg)
BY AddIsRead, TransIsRead, DelIsRead, InputIsRead, LoadPlayerIsRead DEF FromServer, FromClient
-----------------------------------------------------------------------------
(* A sequence grows by its last element.                                   *)
LEMMA PrefixGrows ==
  ASSUME NEW M, NEW s \in Seq(M), NEW k \in 0..(Len(s) - 1)
  PROVE  /\ SubSeq(s, 1, k) \in Seq(M) /\ Len(SubSeq(s, 1, k)) = k
         /\ s[k + 1] \in M
         /\ SubSeq(s, 1, k + 1) = Append(SubSeq(s, 1, k), s[k + 1])
<1>1. Len(s) \in Nat /\ 1 \in 1..Len(s) /\ k + 1 \in 1..Len(s) /\ (k + 1) - 1 = k /\ k \in Int
  OBVIOUS
<1>2. SubSeq(s, 1, k + 1) = SubSeq(s, 1, k) \o <<s[k + 1]>>
  BY <1>1, SubSeqRecursiveSecond
<1>3. \A i \in 1..Len(s) : s[i] \in M
  BY ElementOfSeq
<1>4. SubSeq(s, 1, k) \in Seq(M) /\ Len(SubSeq(s, 1, k)) = k
  <2>1. \A i \in 1..k : s[i] \in M
    BY <1>1, <1>3
  <2> QED
    BY <2>1, <1>1, SubSeqProperties
<1>5. s[k + 1] \in M
  BY <1>1, <1>3
<1> QED
  BY <1>2, <1>4, <1>5, AppendIsConcat

LEMMA SequencesIn ==
  ASSUME NEW M, NEW S, <<>> \in S, \A s \in Seq(M) : \A e \in M : s \in S => Append(s, e) \in S
  PROVE  Seq(M) \subseteq S
<1> SUFFICES ASSUME NEW s \in Seq(M) PROVE s \in S
  OBVIOUS
<1> DEFINE N == Len(s)
           T == {k \in 0..N : SubSeq(s, 1, k) \in S}
<1>1. N \in Nat
  OBVIOUS
<1>2. 0 \in T
  <2>1. SubSeq(s, 1, 0) \in S
    <3>1. SubSeq(s, 1, 0) = <<>>
      BY SubSeqEmpty
    <3> QED
      BY <3>1, Zenon
  <2>2. 0 \in 0..N
    BY <1>1
  <2> QED
    BY <2>1, <2>2
<1>3. ASSUME NEW k \in 0..N, k < N, k \in T PROVE k + 1 \in T
  <2>1. k \in 0..(Len(s) - 1) /\ k + 1 \in 0..N
    BY <1>1, <1>3
  <2>2. /\ SubSeq(s, 1, k) \in Seq(M) /\ s[k + 1] \in M
        /\ SubSeq(s, 1, k + 1) = Append(SubSeq(s, 1, k), s[k + 1])
    BY <2>1, PrefixGrows
  <2> QED
    BY <1>3, <2>1, <2>2
<1> HIDE DEF T
<1>4. N \in T
  BY <1>1, <1>2, <1>3, NumbersUpTo
<1>5. SubSeq(s, 1, N) = s
  BY SubSeqFull
<1> QED
  BY <1>4, <1>5 DEF T
-----------------------------------------------------------------------------
(* ReadAll, one field after the other. *)
NothingRead == [msgs |-> <<>>, part |-> <<>>]

Reading(f, kind, s) ==
  /\ f = [n \in 0..Len(s) |-> f[n]]
  /\ f[0] = NothingRead
  /\ \A n \in 1..Len(s) : f[n] = Take(kind, f[n - 1], s[n])

LEMMA ReadingExists ==
  ASSUME NEW kind, NEW s, Len(s) \in Nat
  PROVE  \E f : Reading(f, kind, s)
<1> DEFINE N == Len(s)
           Up(f, k) == /\ f = [n \in 0..k |-> f[n]] /\ f[0] = NothingRead
                       /\ \A n \in 1..k : f[n] = Take(kind, f[n - 1], s[n])
           S == {k \in 0..N : \E f : Up(f, k)}
<1>1. 0 \in S
  <2> DEFINE f == [n \in 0..0 |-> NothingRead]
  <2>1. Up(f, 0)
    OBVIOUS
  <2>2. 0 \in 0..N
    OBVIOUS
  <2> HIDE DEF f
  <2> QED
    BY <2>1, <2>2
<1>2. ASSUME NEW k \in 0..N, k < N, k \in S PROVE k + 1 \in S
  <2>1. PICK f : Up(f, k)
    BY <1>2
  <2> DEFINE g == [n \in 0..(k + 1) |-> IF n <= k THEN f[n] ELSE Take(kind, f[k], s[k + 1])]
  <2>2. g[0] = NothingRead /\ g[k + 1] = Take(kind, g[k], s[k + 1])
    BY <2>1
  <2>3. \A n \in 1..k : g[n] = Take(kind, g[n - 1], s[n])
    BY <2>1
  <2>4. g = [n \in 0..(k + 1) |-> g[n]]
    OBVIOUS
  <2> HIDE DEF g
  <2>5. \A n \in 1..(k + 1) : g[n] = Take(kind, g[n - 1], s[n])
    BY <2>2, <2>3
  <2>6. Up(g, k + 1)
    BY <2>2, <2>4, <2>5
  <2> QED
    BY <2>6
<1> HIDE DEF S
<1>3. N \in S
  BY <1>1, <1>2, NumbersUpTo
<1> QED
  BY <1>3 DEF S, Reading

LEMMA ReadBy ==
  ASSUME NEW kind, NEW s, Len(s) \in Nat, NEW f, Reading(f, kind, s)
  PROVE  ReadAll(kind, s) = f[Len(s)]
<1> DEFINE N == Len(s)
           after == CHOOSE g : g = [n \in 0..N |-> IF n = 0 THEN [msgs |-> <<>>, part |-> <<>>]
                                                   ELSE Take(kind, g[n - 1], s[n])]
<1>1. f = [n \in 0..N |-> IF n = 0 THEN NothingRead ELSE Take(kind, f[n - 1], s[n])]
  BY DEF Reading
<1>2. after = [n \in 0..N |-> IF n = 0 THEN NothingRead ELSE Take(kind, after[n - 1], s[n])]
  BY <1>1 DEF NothingRead
<1>3. ReadAll(kind, s) = after[N]
  BY DEF ReadAll
<1> HIDE DEF after
<1> DEFINE S == {k \in 0..N : after[k] = f[k]}
<1>4. 0 \in S
  BY <1>1, <1>2
<1>5. ASSUME NEW k \in 0..N, k < N, k \in S PROVE k + 1 \in S
  <2>1. k + 1 \in 1..N /\ k + 1 # 0 /\ (k + 1) - 1 = k
    BY <1>5
  <2>2. after[k + 1] = Take(kind, after[k], s[k + 1]) /\ f[k + 1] = Take(kind, f[k], s[k + 1])
    BY <1>1, <1>2, <2>1
  <2> QED
    BY <1>5, <2>1, <2>2
<1> HIDE DEF S
<1>6. N \in S
  BY <1>4, <1>5, NumbersUpTo
<1> QED
  BY <1>3, <1>6 DEF S

LEMMA ReadNothing == ASSUME NEW kind PROVE ReadAll(kind, <<>>) = NothingRead
<1>1. PICK f : Reading(f, kind, <<>>)
  BY ReadingExists
<1>2. ReadAll(kind, <<>>) = f[Len(<<>>)]
  BY <1>1, ReadBy
<1> QED
  BY <1>1, <1>2 DEF Reading

LEMMA ReadAppend ==
  ASSUME NEW kind, NEW M, NEW s \in Seq(M), NEW x \in M
  PROVE  ReadAll(kind, Append(s, x)) = Take(kind, ReadAll(kind, s), x)
<1> DEFINE N == Len(s)
           all == Append(s, x)
<1>1. /\ N \in Nat /\ Len(all) = N + 1 /\ all[N + 1] = x /\ \A n \in 1..N : all[n] = s[n]
  OBVIOUS
<1> HIDE DEF all
<1>2. PICK f : Reading(f, kind, s)
  BY <1>1, ReadingExists
<1> DEFINE g == [n \in 0..(N + 1) |-> IF n <= N THEN f[n] ELSE Take(kind, f[N], x)]
<1>3. g[0] = NothingRead /\ g[N] = f[N] /\ g[N + 1] = Take(kind, f[N], x)
  BY <1>1, <1>2 DEF Reading
<1>4. \A n \in 1..N : g[n] = Take(kind, g[n - 1], all[n])
  BY <1>1, <1>2 DEF Reading
<1>5. g = [n \in 0..(N + 1) |-> g[n]]
  OBVIOUS
<1> HIDE DEF g
<1>6. \A n \in 1..(N + 1) : g[n] = Take(kind, g[n - 1], all[n])
  BY <1>1, <1>3, <1>4
<1>7. Reading(g, kind, all)
  BY <1>1, <1>3, <1>5, <1>6 DEF Reading
<1>8. ReadAll(kind, all) = g[N + 1]
  BY <1>1, <1>7, ReadBy
<1>9. ReadAll(kind, s) = f[N]
  BY <1>1, <1>2, ReadBy
<1> QED
  BY <1>3, <1>8, <1>9 DEF all
(* What reading gives. *)
Bodies(kind) == {Body(TypeOf(kind, p[1].value), Tail(p)) : p \in Seq(Field)}

Acc(kind) == [msgs : Seq(Bodies(kind)), part : Seq(Field)]

LEMMA TakeIsAcc ==
  ASSUME NEW kind, NEW acc \in Acc(kind), NEW x \in Field
  PROVE  Take(kind, acc, x) \in Acc(kind)
<1> DEFINE part == Append(acc.part, x)
           body == Body(TypeOf(kind, part[1].value), Tail(part))
<1>1. acc.msgs \in Seq(Bodies(kind)) /\ acc.part \in Seq(Field)
  BY DEF Acc
<1>2. part \in Seq(Field) /\ <<>> \in Seq(Field)
  BY <1>1
<1>3. body \in Bodies(kind)
  BY <1>2 DEF Bodies
<1>4. Take(kind, acc, x) = IF Arrived(TypeOf(kind, part[1].value), Tail(part))
                             THEN [msgs |-> Append(acc.msgs, body), part |-> <<>>]
                             ELSE [msgs |-> acc.msgs, part |-> part]
  BY DEF Take
<1> HIDE DEF part, body
<1>5. Append(acc.msgs, body) \in Seq(Bodies(kind))
  BY <1>1, <1>3
<1> QED
  BY <1>1, <1>2, <1>4, <1>5 DEF Acc

LEMMA ReadIsAcc ==
  ASSUME NEW kind, NEW s \in Seq(Field)
  PROVE  ReadAll(kind, s) \in Acc(kind)
<1> DEFINE S == {t \in Seq(Field) : ReadAll(kind, t) \in Acc(kind)}
<1>1. <<>> \in S
  <2>1. <<>> \in Seq(Field) /\ <<>> \in Seq(Bodies(kind))
    OBVIOUS
  <2>2. NothingRead \in Acc(kind)
    BY <2>1 DEF NothingRead, Acc
  <2> QED
    BY <2>1, <2>2, ReadNothing
<1>2. ASSUME NEW t \in Seq(Field), NEW e \in Field, t \in S PROVE Append(t, e) \in S
  <2>1. Append(t, e) \in Seq(Field)
    OBVIOUS
  <2>2. ReadAll(kind, Append(t, e)) = Take(kind, ReadAll(kind, t), e)
    BY ReadAppend
  <2>3. ReadAll(kind, t) \in Acc(kind)
    BY <1>2
  <2>4. Take(kind, ReadAll(kind, t), e) \in Acc(kind)
    BY <2>3, TakeIsAcc
  <2> QED
    BY <2>1, <2>2, <2>4
<1> HIDE DEF S
<1>3. Seq(Field) \subseteq S
  BY <1>1, <1>2, SequencesIn
<1> QED
  BY <1>3 DEF S

(* What was read before stays in front of what is read now. *)
LEMMA TakeAfter ==
  ASSUME NEW kind, NEW msgs \in Seq(Bodies(kind)), NEW acc \in Acc(kind), NEW x \in Field
  PROVE  Take(kind, [msgs |-> msgs \o acc.msgs, part |-> acc.part], x)
           = [msgs |-> msgs \o Take(kind, acc, x).msgs, part |-> Take(kind, acc, x).part]
<1> DEFINE part == Append(acc.part, x)
           body == Body(TypeOf(kind, part[1].value), Tail(part))
           here == Arrived(TypeOf(kind, part[1].value), Tail(part))
<1>1. acc.msgs \in Seq(Bodies(kind)) /\ acc.part \in Seq(Field)
  BY DEF Acc
<1>2. body \in Bodies(kind)
  <2>1. part \in Seq(Field)
    BY <1>1
  <2> QED
    BY <2>1 DEF Bodies
<1>3. Take(kind, acc, x) = IF here THEN [msgs |-> Append(acc.msgs, body), part |-> <<>>]
                           ELSE [msgs |-> acc.msgs, part |-> part]
  BY DEF Take
<1>4. Take(kind, [msgs |-> msgs \o acc.msgs, part |-> acc.part], x)
        = IF here THEN [msgs |-> Append(msgs \o acc.msgs, body), part |-> <<>>]
          ELSE [msgs |-> msgs \o acc.msgs, part |-> part]
  BY DEF Take
<1> HIDE DEF part, body, here
<1>5. Append(msgs \o acc.msgs, body) = msgs \o Append(acc.msgs, body)
  <2> DEFINE last == <<body>>
             M == Bodies(kind)
             q == acc.msgs
  <2>1. last \in Seq(M)
    BY <1>2
  <2>2. msgs \in Seq(M) /\ q \in Seq(M) /\ body \in M
    BY <1>1, <1>2
  <2> SUFFICES Append(msgs \o q, body) = msgs \o Append(q, body)
    OBVIOUS
  <2> HIDE DEF M, q
  <2>3. msgs \o q \in Seq(M)
    BY <2>2, ConcatProperties
  <2>4. Append(msgs \o q, body) = (msgs \o q) \o last
    BY <2>2, <2>3, AppendIsConcat
  <2>5. Append(q, body) = q \o last
    BY <2>2, AppendIsConcat
  <2> HIDE DEF last
  <2>6. (msgs \o q) \o last = msgs \o (q \o last)
    BY <2>1, <2>2, ConcatAssociative
  <2> QED
    BY <2>4, <2>5, <2>6
<1>6. CASE here
  BY <1>3, <1>4, <1>5, <1>6
<1>7. CASE ~here
  BY <1>3, <1>4, <1>7
<1> QED
  BY <1>6, <1>7

LEMMA ReadConcat ==
  ASSUME NEW kind, NEW p \in Seq(Field), NEW s \in Seq(Field), ReadAll(kind, p).part = <<>>
  PROVE  /\ ReadAll(kind, p \o s).msgs = ReadAll(kind, p).msgs \o ReadAll(kind, s).msgs
         /\ ReadAll(kind, p \o s).part = ReadAll(kind, s).part
<1> DEFINE msgs == ReadAll(kind, p).msgs
           Both(t) == [msgs |-> msgs \o ReadAll(kind, t).msgs, part |-> ReadAll(kind, t).part]
           S == {t \in Seq(Field) : ReadAll(kind, p \o t) = Both(t)}
<1>1. ReadAll(kind, p) = [msgs |-> msgs, part |-> <<>>] /\ msgs \in Seq(Bodies(kind))
  BY ReadIsAcc DEF Acc
<1> HIDE DEF msgs
<1>2. <<>> \in S
  <2>1. p \o <<>> = p /\ msgs \o <<>> = msgs
    BY <1>1, ConcatEmptySeq
  <2>2. Both(<<>>) = [msgs |-> msgs, part |-> <<>>]
    <3>1. ReadAll(kind, <<>>).msgs = <<>> /\ ReadAll(kind, <<>>).part = <<>>
      BY ReadNothing DEF NothingRead
    <3> QED
      BY <2>1, <3>1
  <2> HIDE DEF Both
  <2> QED
    BY <1>1, <2>1, <2>2
<1>3. ASSUME NEW t \in Seq(Field), NEW e \in Field, t \in S PROVE Append(t, e) \in S
  <2>1. Append(t, e) \in Seq(Field) /\ p \o t \in Seq(Field)
    BY ConcatProperties
  <2>2. p \o Append(t, e) = Append(p \o t, e)
    <3>1. <<e>> \in Seq(Field)
      OBVIOUS
    <3>2. Append(t, e) = t \o <<e>> /\ Append(p \o t, e) = (p \o t) \o <<e>>
      BY <2>1, AppendIsConcat
    <3> QED
      BY <3>1, <3>2, ConcatAssociative
  <2>3. ReadAll(kind, Append(p \o t, e)) = Take(kind, ReadAll(kind, p \o t), e)
    BY <2>1, ReadAppend
  <2>4. ReadAll(kind, Append(t, e)) = Take(kind, ReadAll(kind, t), e)
    BY ReadAppend
  <2>5. Take(kind, Both(t), e)
          = [msgs |-> msgs \o Take(kind, ReadAll(kind, t), e).msgs,
             part |-> Take(kind, ReadAll(kind, t), e).part]
    BY <1>1, ReadIsAcc, TakeAfter
  <2>6. ReadAll(kind, p \o t) = Both(t)
    BY <1>3
  <2>7. Take(kind, Both(t), e) = Both(Append(t, e))
    BY <2>4, <2>5
  <2> HIDE DEF Both
  <2> QED
    BY <2>1, <2>2, <2>3, <2>6, <2>7
<1> HIDE DEF S
<1>4. Seq(Field) \subseteq S
  BY <1>2, <1>3, SequencesIn
<1>5. ReadAll(kind, p \o s) = Both(s)
  BY <1>4 DEF S
<1>6. /\ Both(s).msgs = msgs \o ReadAll(kind, s).msgs
      /\ Both(s).part = ReadAll(kind, s).part
  OBVIOUS
<1> HIDE DEF Both
<1> QED
  BY <1>5, <1>6 DEF msgs

(* The fields of one message, and no more. *)
LEMMA OneIsRead ==
  ASSUME NEW kind, NEW p \in Seq(Field), NEW n \in Nat, Len(p) = n + 1,
         Len(Wanted(TypeOf(kind, p[1].value))) = n
  PROVE  /\ \A k \in 0..n : ReadAll(kind, SubSeq(p, 1, k)) = [msgs |-> <<>>, part |-> SubSeq(p, 1, k)]
         /\ ReadAll(kind, p) = [msgs |-> <<Body(TypeOf(kind, p[1].value), Tail(p))>>, part |-> <<>>]
<1> DEFINE type == TypeOf(kind, p[1].value)
           Partly(k) == [msgs |-> <<>>, part |-> SubSeq(p, 1, k)]
           T == {k \in 0..n : ReadAll(kind, SubSeq(p, 1, k)) = Partly(k)}
<1>1. ASSUME NEW k \in 0..n
      PROVE  /\ Append(SubSeq(p, 1, k), p[k + 1]) = SubSeq(p, 1, k + 1)
             /\ SubSeq(p, 1, k + 1)[1] = p[1]
             /\ Len(Tail(SubSeq(p, 1, k + 1))) = k
             /\ ReadAll(kind, SubSeq(p, 1, k + 1)) = Take(kind, ReadAll(kind, SubSeq(p, 1, k)), p[k + 1])
  <2>1. k \in 0..(Len(p) - 1)
    OBVIOUS
  <2>2. /\ SubSeq(p, 1, k) \in Seq(Field) /\ p[k + 1] \in Field
        /\ SubSeq(p, 1, k + 1) = Append(SubSeq(p, 1, k), p[k + 1])
        /\ Len(SubSeq(p, 1, k)) = k
    BY <2>1, PrefixGrows
  <2>3. SubSeq(p, 1, k + 1) \in Seq(Field) /\ Len(SubSeq(p, 1, k + 1)) = k + 1
    BY <2>2, AppendProperties
  <2>4. SubSeq(p, 1, k + 1)[1] = p[1]
    <3>1. \A i \in 1..(k + 1) : p[i] \in Field
      BY ElementOfSeq
    <3>2. 1 \in Int /\ k + 1 \in Int /\ 1 \in 1..((k + 1) - 1 + 1) /\ 1 + 1 - 1 = 1
      OBVIOUS
    <3>3. SubSeq(p, 1, k + 1)[1] = p[1 + 1 - 1]
      BY <3>1, <3>2, SubSeqProperties
    <3> QED
      BY <3>2, <3>3
  <2>5. SubSeq(p, 1, k + 1) # <<>>
    BY <2>3
  <2>6. Len(Tail(SubSeq(p, 1, k + 1))) = k
    BY <2>3, <2>5, HeadTailProperties
  <2>7. ReadAll(kind, SubSeq(p, 1, k + 1)) = Take(kind, ReadAll(kind, SubSeq(p, 1, k)), p[k + 1])
    <3>1. ReadAll(kind, Append(SubSeq(p, 1, k), p[k + 1]))
            = Take(kind, ReadAll(kind, SubSeq(p, 1, k)), p[k + 1])
      BY <2>2, ReadAppend
    <3> QED
      BY <2>2, <3>1
  <2> QED
    BY <2>2, <2>4, <2>6, <2>7
<1>2. 0 \in T
  <2>1. SubSeq(p, 1, 0) = <<>>
    BY SubSeqEmpty
  <2>2. ReadAll(kind, SubSeq(p, 1, 0)) = Partly(0)
    BY <2>1, ReadNothing DEF NothingRead
  <2>3. 0 \in 0..n
    OBVIOUS
  <2> QED
    BY <2>2, <2>3
<1>3. ASSUME NEW k \in 0..n, k < n, k \in T PROVE k + 1 \in T
  <2>1. ReadAll(kind, SubSeq(p, 1, k)) = Partly(k) /\ k + 1 \in 0..n
    BY <1>3
  <2>2. Append(Partly(k).part, p[k + 1]) = SubSeq(p, 1, k + 1)
    BY <1>1
  <2>3. ~Arrived(type, Tail(SubSeq(p, 1, k + 1)))
    BY <1>1, <1>3 DEF Arrived
  <2>4. Take(kind, Partly(k), p[k + 1]) = [msgs |-> Partly(k).msgs, part |-> SubSeq(p, 1, k + 1)]
    BY <1>1, <2>2, <2>3 DEF Take
  <2>5. Take(kind, Partly(k), p[k + 1]) = Partly(k + 1)
    BY <2>4
  <2>6. ReadAll(kind, SubSeq(p, 1, k + 1)) = Take(kind, ReadAll(kind, SubSeq(p, 1, k)), p[k + 1])
    BY <1>1
  <2> HIDE DEF Partly
  <2> QED
    BY <2>1, <2>5, <2>6
<1>4. ASSUME NEW k \in 0..n PROVE k \in T
  <2>1. \A i \in 0..k : i < k /\ i \in T => i + 1 \in T
    BY <1>3
  <2> HIDE DEF T
  <2>2. k \in Nat
    OBVIOUS
  <2> QED
    BY <1>2, <2>1, <2>2, NumbersUpTo
<1>5. n \in 0..n
  OBVIOUS
<1>6. SubSeq(p, 1, n + 1) = p
  BY SubSeqFull
<1>7. ReadAll(kind, p) = Take(kind, Partly(n), p[n + 1])
  <2>1. ReadAll(kind, SubSeq(p, 1, n)) = Partly(n)
    BY <1>4, <1>5
  <2>2. ReadAll(kind, SubSeq(p, 1, n + 1)) = Take(kind, ReadAll(kind, SubSeq(p, 1, n)), p[n + 1])
    BY <1>1, <1>5
  <2> HIDE DEF Partly
  <2> QED
    BY <1>6, <2>1, <2>2
<1>8. Take(kind, Partly(n), p[n + 1]) = [msgs |-> <<Body(type, Tail(p))>>, part |-> <<>>]
  <2>1. Append(Partly(n).part, p[n + 1]) = p
    BY <1>1, <1>5, <1>6
  <2>2. Arrived(type, Tail(p))
    BY <1>1, <1>5, <1>6 DEF Arrived
  <2>3. Append(<<>>, Body(type, Tail(p))) = <<Body(type, Tail(p))>>
    OBVIOUS
  <2> QED
    BY <2>1, <2>2, <2>3 DEF Take
<1> QED
  BY <1>4, <1>7, <1>8
-----------------------------------------------------------------------------
(* A stream with nothing but whole messages: wherever one is read to the   *)
(* end, the next field is a type.                                          *)
Heads(kind) == {[bytes |-> 4, value |-> kind[type]] : type \in DOMAIN kind}

Clean(kind, s) ==
  /\ s \in Seq(Field)
  /\ ReadAll(kind, s).part = <<>>
  /\ \A n \in 0..(Len(s) - 1) : ReadAll(kind, SubSeq(s, 1, n)).part = <<>> => s[n + 1] \in Heads(kind)

LEMMA CleanNothing == ASSUME NEW kind PROVE Clean(kind, <<>>) /\ Decode(kind, <<>>) = <<>>
<1>1. ReadAll(kind, <<>>).part = <<>> /\ ReadAll(kind, <<>>).msgs = <<>>
  BY ReadNothing DEF NothingRead
<1>2. <<>> \in Seq(Field) /\ 0..(Len(<<>>) - 1) = {}
  OBVIOUS
<1> QED
  BY <1>1, <1>2 DEF Clean, Decode

LEMMA CleanHead ==
  ASSUME NEW kind, NEW s, Clean(kind, s), s # <<>>
  PROVE  s[1] \in Heads(kind)
<1>1. s \in Seq(Field) /\ 0 \in 0..(Len(s) - 1) /\ 0 + 1 = 1
  BY DEF Clean
<1>2. SubSeq(s, 1, 0) = <<>>
  BY SubSeqEmpty
<1>3. ReadAll(kind, SubSeq(s, 1, 0)).part = <<>>
  <2>1. ReadAll(kind, <<>>).part = <<>>
    BY ReadNothing DEF NothingRead
  <2> QED
    BY <1>2, <2>1
<1> QED
  BY <1>1, <1>3 DEF Clean

(* The front of two sequences one after the other, where it ends in the    *)
(* first and where it ends in the second.                                  *)
LEMMA FirstPart ==
  ASSUME NEW p \in Seq(Field), NEW s \in Seq(Field), NEW n \in 0..(Len(p) - 1)
  PROVE  SubSeq(p \o s, 1, n) = SubSeq(p, 1, n) /\ (p \o s)[n + 1] = p[n + 1]
<1> DEFINE c == p \o s
<1>1. /\ c \in Seq(Field) /\ Len(c) = Len(p) + Len(s)
      /\ \A i \in 1..Len(p) + Len(s) : c[i] = IF i <= Len(p) THEN p[i] ELSE s[i - Len(p)]
  BY ConcatProperties
<1> HIDE DEF c
<1>2. Len(p) \in Nat /\ Len(s) \in Nat /\ 1 \in Int
  OBVIOUS
<1>3. \A i \in 1..Len(p) : p[i] \in Field
  BY ElementOfSeq
<1>4. \A i \in 1..Len(s) : s[i] \in Field
  BY ElementOfSeq
<1>5. \A i \in 1..Len(c) : c[i] \in Field
  BY <1>1, ElementOfSeq
<1>6. SubSeq(c, 1, n) = SubSeq(p, 1, n)
  <2> DEFINE x == SubSeq(c, 1, n)
             y == SubSeq(p, 1, n)
  <2>1. n \in Int /\ (\A i \in 1..n : c[i] \in Field) /\ (\A i \in 1..n : p[i] \in Field)
    BY <1>1, <1>2, <1>3, <1>5
  <2>2. /\ x \in Seq(Field) /\ Len(x) = (IF 1 <= n THEN n - 1 + 1 ELSE 0)
        /\ \A i \in 1..n - 1 + 1 : x[i] = c[1 + i - 1]
    BY <2>1, <1>2, SubSeqProperties
  <2>3. /\ y \in Seq(Field) /\ Len(y) = (IF 1 <= n THEN n - 1 + 1 ELSE 0)
        /\ \A i \in 1..n - 1 + 1 : y[i] = p[1 + i - 1]
    BY <2>1, <1>2, SubSeqProperties
  <2> HIDE DEF x, y
  <2>4. Len(x) = n /\ Len(y) = n
    BY <2>2, <2>3
  <2>5. ASSUME NEW i \in 1..n PROVE x[i] = y[i]
    <3>1. i \in 1..n - 1 + 1 /\ 1 + i - 1 = i /\ i <= Len(p) /\ i \in 1..Len(p) + Len(s)
      BY <1>2
    <3> QED
      BY <3>1, <2>2, <2>3, <1>1
  <2>6. x = y
    BY <2>2, <2>3, <2>4, <2>5, SeqEqual
  <2> QED
    BY <2>6 DEF x, y
<1>7. c[n + 1] = p[n + 1]
  BY <1>1, <1>2
<1> QED
  BY <1>6, <1>7 DEF c

LEMMA SecondPart ==
  ASSUME NEW p \in Seq(Field), NEW s \in Seq(Field), NEW n \in 0..(Len(s) - 1)
  PROVE  /\ SubSeq(p \o s, 1, Len(p) + n) = p \o SubSeq(s, 1, n)
         /\ (p \o s)[(Len(p) + n) + 1] = s[n + 1]
<1> DEFINE c == p \o s
<1>1. /\ c \in Seq(Field) /\ Len(c) = Len(p) + Len(s)
      /\ \A i \in 1..Len(p) + Len(s) : c[i] = IF i <= Len(p) THEN p[i] ELSE s[i - Len(p)]
  BY ConcatProperties
<1> HIDE DEF c
<1>2. Len(p) \in Nat /\ Len(s) \in Nat /\ 1 \in Int
  OBVIOUS
<1>3. \A i \in 1..Len(p) : p[i] \in Field
  BY ElementOfSeq
<1>4. \A i \in 1..Len(s) : s[i] \in Field
  BY ElementOfSeq
<1>5. \A i \in 1..Len(c) : c[i] \in Field
  BY <1>1, ElementOfSeq
<1>6. SubSeq(c, 1, Len(p) + n) = p \o SubSeq(s, 1, n)
  <2> DEFINE m == Len(p) + n
             x == SubSeq(c, 1, m)
             z == SubSeq(s, 1, n)
             y == p \o z
  <2>1. /\ n \in Int /\ m \in Nat /\ m <= Len(c)
        /\ (\A i \in 1..m : c[i] \in Field) /\ (\A i \in 1..n : s[i] \in Field)
    BY <1>1, <1>2, <1>4, <1>5
  <2> HIDE DEF m
  <2>2. /\ x \in Seq(Field) /\ Len(x) = (IF 1 <= m THEN m - 1 + 1 ELSE 0)
        /\ \A i \in 1..m - 1 + 1 : x[i] = c[1 + i - 1]
    BY <2>1, <1>2, SubSeqProperties
  <2>3. /\ z \in Seq(Field) /\ Len(z) = (IF 1 <= n THEN n - 1 + 1 ELSE 0)
        /\ \A i \in 1..n - 1 + 1 : z[i] = s[1 + i - 1]
    BY <2>1, <1>2, SubSeqProperties
  <2> HIDE DEF x, z
  <2>4. Len(x) = m /\ Len(z) = n
    BY <2>1, <2>2, <2>3
  <2>5. y \in Seq(Field) /\ Len(y) = Len(p) + Len(z)
        /\ \A i \in 1..Len(p) + Len(z) : y[i] = IF i <= Len(p) THEN p[i] ELSE z[i - Len(p)]
    BY <2>3, ConcatProperties
  <2> HIDE DEF y
  <2>6. ASSUME NEW i \in 1..m PROVE x[i] = y[i]
    <3>1. i \in 1..m - 1 + 1 /\ 1 + i - 1 = i /\ i \in 1..Len(p) + Len(s) /\ i \in 1..Len(p) + Len(z)
      BY <1>2, <2>1, <2>4 DEF m
    <3>2. x[i] = c[i]
      BY <3>1, <2>2
    <3>3. CASE i <= Len(p)
      BY <3>1, <3>2, <3>3, <1>1, <2>5
    <3>4. CASE ~(i <= Len(p))
      <4> DEFINE k == i - Len(p)
      <4>1. k \in 1..n - 1 + 1 /\ 1 + k - 1 = k
        BY <3>1, <3>4, <1>2, <2>4
      <4>2. x[i] = s[k] /\ y[i] = z[k]
        BY <3>1, <3>2, <3>4, <1>1, <2>5
      <4> HIDE DEF k
      <4>3. z[k] = s[k]
        BY <4>1, <2>3
      <4> QED
        BY <4>2, <4>3
    <3> QED
      BY <3>3, <3>4
  <2>7. Len(y) = m
    BY <2>4, <2>5 DEF m
  <2>8. x = y
    BY <2>2, <2>4, <2>5, <2>6, <2>7, SeqEqual
  <2> QED
    BY <2>8 DEF x, y, z, m
<1>7. c[(Len(p) + n) + 1] = s[n + 1]
  <2>1. /\ (Len(p) + n) + 1 \in 1..Len(p) + Len(s) /\ ~((Len(p) + n) + 1 <= Len(p))
        /\ ((Len(p) + n) + 1) - Len(p) = n + 1
    BY <1>2
  <2> QED
    BY <2>1, <1>1
<1> QED
  BY <1>6, <1>7 DEF c

(* A whole message is taken from the front... *)
LEMMA CleanRest ==
  ASSUME NEW kind, NEW p \in Seq(Field), NEW s \in Seq(Field),
         Clean(kind, p \o s), ReadAll(kind, p).part = <<>>
  PROVE  Clean(kind, s) /\ Decode(kind, p \o s) = Decode(kind, p) \o Decode(kind, s)
<1>1. /\ ReadAll(kind, p \o s).msgs = ReadAll(kind, p).msgs \o ReadAll(kind, s).msgs
      /\ ReadAll(kind, p \o s).part = ReadAll(kind, s).part
  BY ReadConcat
<1>2. ReadAll(kind, s).part = <<>> /\ Decode(kind, p \o s) = Decode(kind, p) \o Decode(kind, s)
  BY <1>1 DEF Clean, Decode
<1>3. ASSUME NEW n \in 0..(Len(s) - 1), ReadAll(kind, SubSeq(s, 1, n)).part = <<>>
      PROVE  s[n + 1] \in Heads(kind)
  <2>1. SubSeq(s, 1, n) \in Seq(Field)
    BY PrefixGrows
  <2>2. ReadAll(kind, p \o SubSeq(s, 1, n)).part = <<>>
    <3>1. ReadAll(kind, p \o SubSeq(s, 1, n)).part = ReadAll(kind, SubSeq(s, 1, n)).part
      BY <2>1, ReadConcat
    <3> QED
      BY <3>1, <1>3
  <2>3. n \in 0..Len(s) /\ Len(p) \in Nat /\ Len(s) \in Nat
    OBVIOUS
  <2>4. /\ Len(p \o s) = Len(p) + Len(s) /\ SubSeq(p \o s, 1, Len(p) + n) = p \o SubSeq(s, 1, n)
        /\ (p \o s)[(Len(p) + n) + 1] = s[n + 1]
    <3>1. Len(p \o s) = Len(p) + Len(s)
      BY ConcatProperties
    <3> QED
      BY <3>1, SecondPart
  <2>5. Len(p) + n \in 0..(Len(p \o s) - 1)
    BY <2>3, <2>4
  <2>6. (p \o s)[(Len(p) + n) + 1] \in Heads(kind)
    BY <2>2, <2>4, <2>5 DEF Clean
  <2> QED
    BY <2>4, <2>6
<1> QED
  BY <1>2, <1>3 DEF Clean

(* ... and put behind. *)
LEMMA CleanMore ==
  ASSUME NEW kind, NEW s, Clean(kind, s), NEW msg, ReadAsWritten(kind, msg)
  PROVE  /\ Clean(kind, s \o Encode(kind, msg))
         /\ Decode(kind, s \o Encode(kind, msg)) = Append(Decode(kind, s), msg)
<1> DEFINE e == Encode(kind, msg)
           n == Len(Wanted(msg.type))
           all == s \o e
<1>1. /\ e \in Seq(Field) /\ n \in Nat /\ Len(e) = n + 1
      /\ e[1] = [bytes |-> 4, value |-> kind[msg.type]] /\ msg.type \in DOMAIN kind
      /\ TypeOf(kind, e[1].value) = msg.type
      /\ \A t : (\A k \in 1..n : t[k] = e[k + 1]) => Body(msg.type, t) = msg
  BY DEF ReadAsWritten
<1>2. s \in Seq(Field) /\ ReadAll(kind, s).part = <<>>
  BY DEF Clean
<1> HIDE DEF e
<1>3. e[1] \in Heads(kind)
  BY <1>1 DEF Heads
<1>4. Body(msg.type, Tail(e)) = msg
  <2>1. e # <<>>
    BY <1>1
  <2>2. Len(Tail(e)) = n /\ \A i \in 1..Len(Tail(e)) : Tail(e)[i] = e[i + 1]
    BY <1>1, <2>1, HeadTailProperties
  <2> QED
    BY <1>1, <2>2
<1>5. /\ \A k \in 0..n : ReadAll(kind, SubSeq(e, 1, k)) = [msgs |-> <<>>, part |-> SubSeq(e, 1, k)]
      /\ ReadAll(kind, e) = [msgs |-> <<msg>>, part |-> <<>>]
  BY <1>1, <1>4, OneIsRead
<1>6. /\ ReadAll(kind, all).msgs = ReadAll(kind, s).msgs \o ReadAll(kind, e).msgs
      /\ ReadAll(kind, all).part = ReadAll(kind, e).part
  BY <1>1, <1>2, ReadConcat
<1>7. ReadAll(kind, all).part = <<>> /\ ReadAll(kind, all).msgs = ReadAll(kind, s).msgs \o <<msg>>
  BY <1>5, <1>6
<1>8. ReadAll(kind, s).msgs \o <<msg>> = Append(ReadAll(kind, s).msgs, msg)
  <2> DEFINE q == ReadAll(kind, s).msgs
             M == Bodies(kind) \cup {msg}
  <2>1. q \in Seq(Bodies(kind))
    BY <1>2, ReadIsAcc DEF Acc
  <2>2. q \in Seq(M)
    BY <2>1, SeqMonotonic
  <2>3. msg \in M
    OBVIOUS
  <2> HIDE DEF q, M
  <2>4. q \o <<msg>> = Append(q, msg)
    BY <2>2, <2>3, AppendIsConcat
  <2> QED
    BY <2>4 DEF q
<1>9. all \in Seq(Field) /\ Len(all) = Len(s) + Len(e) /\ Len(s) \in Nat
  <2>1. e \in Seq(Field) /\ s \in Seq(Field)
    BY <1>1, <1>2
  <2>2. all \in Seq(Field) /\ Len(all) = Len(s) + Len(e)
    BY <2>1, ConcatProperties
  <2> QED
    BY <2>1, <2>2
<1>10. ASSUME NEW i \in 0..(Len(all) - 1), ReadAll(kind, SubSeq(all, 1, i)).part = <<>>
       PROVE  all[i + 1] \in Heads(kind)
  <2>1. CASE i < Len(s)
    <3>1. i \in 0..Len(s) /\ i \in 0..(Len(s) - 1)
      BY <2>1, <1>9
    <3>2. SubSeq(all, 1, i) = SubSeq(s, 1, i) /\ all[i + 1] = s[i + 1]
      BY <3>1, <1>1, <1>2, FirstPart
    <3> QED
      BY <3>1, <3>2, <1>10 DEF Clean
  <2>2. CASE i >= Len(s)
    <3> DEFINE k == i - Len(s)
    <3>1. k \in 0..n /\ k \in 0..Len(e) /\ k \in 0..(Len(e) - 1) /\ i = Len(s) + k
      BY <2>2, <1>9, <1>1
    <3> HIDE DEF k
    <3>2. SubSeq(all, 1, Len(s) + k) = s \o SubSeq(e, 1, k) /\ all[(Len(s) + k) + 1] = e[k + 1]
      BY <3>1, <1>1, <1>2, SecondPart
    <3>3. SubSeq(e, 1, k) \in Seq(Field) /\ Len(SubSeq(e, 1, k)) = k
      BY <3>1, <1>1, PrefixGrows
    <3>4. ReadAll(kind, s \o SubSeq(e, 1, k)).part = ReadAll(kind, SubSeq(e, 1, k)).part
      BY <3>3, <1>2, ReadConcat
    <3>5. SubSeq(e, 1, k) = <<>>
      <4>1. ReadAll(kind, SubSeq(e, 1, k)).part = SubSeq(e, 1, k)
        <5>1. ReadAll(kind, SubSeq(e, 1, k)) = [msgs |-> <<>>, part |-> SubSeq(e, 1, k)]
          BY <3>1, <1>5
        <5> QED
          BY <5>1
      <4> QED
        BY <4>1, <3>1, <3>2, <3>4, <1>10
    <3>6. k = 0
      BY <3>3, <3>5
    <3> QED
      BY <3>1, <3>2, <3>6, <1>3, <1>9
  <2> QED
    BY <2>1, <2>2, <1>9
<1>11. Clean(kind, all)
  BY <1>7, <1>9, <1>10 DEF Clean
<1>12. Decode(kind, all) = Append(Decode(kind, s), msg)
  BY <1>7, <1>8 DEF Decode
<1> QED
  BY <1>11, <1>12 DEF e
-----------------------------------------------------------------------------
(* The keys.  The largest of a set of numbers, and the last input of a     *)
(* sequence.                                                               *)
LEMMA LargestNumber ==
  ASSUME NEW N \in Nat, NEW J, J \subseteq 1..N, J # {}
  PROVE  \E i \in J : \A j \in J : j <= i
<1> DEFINE T == {N - j : j \in J}
<1>1. T \subseteq Nat /\ T # {}
  <2>1. \A j \in J : N - j \in Nat
    OBVIOUS
  <2>2. PICK j \in J : TRUE
    OBVIOUS
  <2>3. N - j \in T
    BY <2>2
  <2> QED
    BY <2>1, <2>3
<1>2. PICK x \in T : \A y \in T : x <= y
  <2> HIDE DEF T
  <2> QED
    BY <1>1, LeastNumber
<1>3. PICK i \in J : x = N - i
  BY <1>2
<1>4. ASSUME NEW j \in J PROVE j <= i
  <2>1. N - i <= N - j
    BY <1>2, <1>3
  <2> QED
    BY <2>1
<1> QED
  BY <1>4

LEMMA KeysInNothing == KeysIn(<<>>) = {}
<1>1. {i \in 1..Len(<<>>) : IsInput(<<>>[i])} = {}
  OBVIOUS
<1> QED
  BY <1>1 DEF KeysIn

LEMMA KeysInAppend ==
  ASSUME NEW M, NEW msgs \in Seq(M), NEW msg \in M
  PROVE  KeysIn(Append(msgs, msg)) = IF IsInput(msg) THEN msg.state ELSE KeysIn(msgs)
<1> DEFINE N == Len(msgs)
           all == Append(msgs, msg)
           Of(s) == {i \in 1..Len(s) : IsInput(s[i])}
           Largest(J) == CHOOSE i \in J : \A j \in J : j <= i
<1>1. /\ N \in Nat /\ Len(all) = N + 1 /\ all[N + 1] = msg /\ \A n \in 1..N : all[n] = msgs[n]
  BY AppendProperties
<1> HIDE DEF all
<1>2. /\ KeysIn(all) = IF Of(all) = {} THEN {} ELSE all[Largest(Of(all))].state
      /\ KeysIn(msgs) = IF Of(msgs) = {} THEN {} ELSE msgs[Largest(Of(msgs))].state
  BY DEF KeysIn
<1>3. CASE IsInput(msg)
  <2>1. N + 1 \in Of(all) /\ \A j \in Of(all) : j <= N + 1
    BY <1>1, <1>3
  <2> DEFINE J == Of(all)
  <2>2. J \subseteq Nat
    OBVIOUS
  <2> HIDE DEF J
  <2>3. Largest(J) = N + 1
    <3>1. Largest(J) \in J /\ \A j \in J : j <= Largest(J)
      BY <2>1 DEF J
    <3>2. N + 1 <= Largest(J) /\ Largest(J) <= N + 1 /\ Largest(J) \in Nat
      BY <2>1, <2>2, <3>1 DEF J
    <3> HIDE DEF Largest
    <3> QED
      BY <3>2, <1>1
  <2> HIDE DEF Largest
  <2>4. KeysIn(all) = all[Largest(J)].state
    BY <1>2, <2>1 DEF J
  <2> QED
    BY <1>1, <1>3, <2>3, <2>4 DEF all
<1>4. CASE ~IsInput(msg)
  <2> DEFINE J == Of(msgs)
  <2>1. Of(all) = J
    BY <1>1, <1>4
  <2>2. J \subseteq 1..N
    OBVIOUS
  <2> HIDE DEF J
  <2>3. CASE J = {}
    BY <1>2, <1>4, <2>1, <2>3 DEF J, all
  <2>4. CASE J # {}
    <3>1. \E i \in J : \A j \in J : j <= i
      BY <1>1, <2>2, <2>4, LargestNumber
    <3>2. Largest(J) \in J
      BY <3>1
    <3> HIDE DEF Largest
    <3>3. KeysIn(all) = all[Largest(J)].state /\ KeysIn(msgs) = msgs[Largest(J)].state
      BY <1>2, <2>1, <2>4 DEF J
    <3>4. all[Largest(J)] = msgs[Largest(J)]
      BY <1>1, <2>2, <3>2
    <3> QED
      BY <1>4, <3>3, <3>4 DEF all
  <2> QED
    BY <2>3, <2>4
<1> QED
  BY <1>3, <1>4

(* A message goes from the head of one sequence to the end of another.     *)
LEMMA MovedOver ==
  ASSUME NEW M, NEW d \in Seq(M), NEW h \in Seq(M), h # <<>>
  PROVE  Append(d, Head(h)) \o Tail(h) = d \o h
<1> DEFINE x == Head(h)
           t == Tail(h)
           one == <<x>>
<1>1. x \in M /\ t \in Seq(M) /\ Len(t) = Len(h) - 1 /\ h[1] = x /\ \A i \in 1..Len(t) : t[i] = h[i + 1]
  BY HeadTailProperties
<1>2. one \in Seq(M)
  BY <1>1
<1>3. Len(h) = Len(t) + 1
  BY <1>1
<1> HIDE DEF x, t
<1>4. one \o t = h
  <2>1. \A i \in 1..Len(t) : h[i + 1] = t[i]
    BY <1>1
  <2> QED
    BY <1>1, <1>3, <2>1, Chain
<1>5. Append(d, x) = d \o one
  BY <1>1, AppendIsConcat
<1> HIDE DEF one
<1>6. (d \o one) \o t = d \o (one \o t)
  BY <1>1, <1>2, ConcatAssociative
<1> QED
  BY <1>4, <1>5, <1>6 DEF x, t

(* What is behind a sequence that something was put to.                    *)
LEMMA WhatIsNew ==
  ASSUME NEW M, NEW s \in Seq(M), NEW t \in Seq(M)
  PROVE  SubSeq(s \o t, Len(s) + 1, Len(s \o t)) = t
<1>1. Len(s \o t) = Len(s) + Len(t) /\ Len(s) \in Nat /\ Len(t) \in Nat
  BY ConcatProperties
<1>2. CASE t = <<>>
  <2>1. Len(s \o t) < Len(s) + 1 /\ Len(s \o t) \in Int /\ Len(s) + 1 \in Int
    BY <1>1, <1>2
  <2>2. SubSeq(s \o t, Len(s) + 1, Len(s \o t)) = <<>>
    BY <2>1, SubSeqEmpty
  <2> QED
    BY <1>2, <2>2
<1>3. CASE t # <<>>
  <2> DEFINE m == Len(s) + 1
             n == Len(s) + Len(t)
  <2>1. m \in Len(s)+1 .. Len(s)+Len(t) /\ n \in Len(s)+1 .. Len(s)+Len(t)
    BY <1>1, <1>3, EmptySeq
  <2>2. m - Len(s) = 1 /\ n - Len(s) = Len(t)
    BY <1>1
  <2> HIDE DEF m, n
  <2>3. SubSeq(s \o t, m, n) = SubSeq(t, m - Len(s), n - Len(s))
    BY <2>1, SubSeqOfConcat2
  <2>4. SubSeq(t, 1, Len(t)) = t
    BY SubSeqFull
  <2> QED
    BY <1>1, <2>2, <2>3, <2>4 DEF m, n
<1> QED
  BY <1>2, <1>3
-----------------------------------------------------------------------------
(* The messages that were written and those that wait to be are the ones   *)
(* the main thread has sent, and the last input among them is what the     *)
(* keyboard was when platformEvents last returned.                         *)
Sendable == FromClient \cup {Shutdown}

Link ==
  ~isLocal /\ peer = "open"
    => Clean(ServerMsg, written) /\ Decode(ServerMsg, written) \o handlers = toServer

Known ==
  (cliPc \notin {"events", "aborted"} \/ (cliPc = "events" /\ ~keys_changed))
    => KeysIn(toServer) = keymap

KeysInv ==
  /\ keymap \in SUBSET Keys
  /\ toServer \in Seq(Sendable)
  /\ handlers \in Seq(FromClient)
  /\ Link
  /\ Known

LEMMA KeysInvInit == Init => KeysInv
<1> SUFFICES ASSUME Init PROVE KeysInv
  OBVIOUS
<1>1. keymap = {} /\ toServer = <<>> /\ handlers = <<>> /\ written = <<>>
  BY DEF Init, ClientInit
<1>2. Link
  BY <1>1, CleanNothing DEF Link
<1>3. Known
  BY <1>1, KeysInNothing DEF Known
<1> QED
  BY <1>1, <1>2, <1>3 DEF KeysInv

(* The steps that send nothing, and after which the main thread is not     *)
(* behind with the keys.                                                   *)
Quiet ==
  /\ UNCHANGED <<keymap, isLocal, toServer, handlers, written>>
  /\ peer' = peer \/ peer' = "closed"
  /\ \/ cliPc' = cliPc /\ keys_changed' = keys_changed
     \/ cliPc \notin {"events", "aborted"} /\ (cliPc' # "events" \/ ~keys_changed')
     \/ cliPc' = "aborted"

LEMMA QuietKeeps == KeysInv /\ Quiet => KeysInv'
<1> SUFFICES ASSUME KeysInv, Quiet PROVE KeysInv'
  OBVIOUS
<1>1. UNCHANGED <<keymap, isLocal, toServer, handlers, written>>
  BY DEF Quiet
<1>2. Link'
  BY <1>1 DEF Quiet, Link, KeysInv
<1>3. Known'
  BY <1>1 DEF Quiet, Known, KeysInv
<1> QED
  BY <1>1, <1>2, <1>3 DEF KeysInv

(* Those that send: the message goes to the local server, or is posted.    *)
LEMMA SendKeeps ==
  ASSUME KeysInv, NEW sent \in Seq(Sendable), toServer' = toServer \o sent,
         isLocal \/ sent \in Seq(FromClient),
         handlers' = IF isLocal THEN handlers ELSE handlers \o sent,
         UNCHANGED <<keymap, isLocal, written, peer>>, Known'
  PROVE  KeysInv'
<1>1. toServer \in Seq(Sendable) /\ handlers \in Seq(FromClient)
  BY DEF KeysInv
<1>2. toServer' \in Seq(Sendable)
  BY <1>1, ConcatProperties
<1>3. handlers' \in Seq(FromClient)
  BY <1>1, ConcatProperties
<1>4. Link'
  <2> SUFFICES ASSUME ~isLocal, peer = "open"
               PROVE  Clean(ServerMsg, written) /\ Decode(ServerMsg, written) \o handlers' = toServer'
    BY DEF Link
  <2> DEFINE d == Decode(ServerMsg, written)
             M == Bodies(ServerMsg) \cup FromClient
  <2>1. Clean(ServerMsg, written) /\ d \o handlers = toServer
    BY DEF KeysInv, Link
  <2>2. d \in Seq(Bodies(ServerMsg))
    BY <2>1, ReadIsAcc DEF Clean, Decode, Acc
  <2>3. d \in Seq(M) /\ handlers \in Seq(M) /\ sent \in Seq(M)
    BY <1>1, <2>2, SeqMonotonic
  <2> HIDE DEF d, M
  <2>4. d \o (handlers \o sent) = (d \o handlers) \o sent
    BY <2>3, ConcatAssociative
  <2>5. handlers' = handlers \o sent
    OBVIOUS
  <2> QED
    BY <2>1, <2>4, <2>5 DEF d
<1> QED
  BY <1>2, <1>3, <1>4 DEF KeysInv

(* The posted messages are those the step has sent.                        *)
LEMMA PostedIsSent ==
  ASSUME KeysInv, ClientStep, NEW sent \in Seq(Sendable), toServer' = toServer \o sent
  PROVE  /\ handlers' = IF isLocal THEN handlers ELSE handlers \o sent
         /\ UNCHANGED <<written, peer>>
<1>1. toServer \in Seq(Sendable)
  BY DEF KeysInv
<1>2. PostedBy(toServer') = sent
  BY <1>1, WhatIsNew DEF PostedBy
<1>3. handlers' = IF isLocal THEN handlers ELSE Post(PostedBy(toServer'))
  BY DEF ClientStep
<1>4. UNCHANGED <<written, peer>>
  BY DEF ClientStep, netVars, peerVars
<1> QED
  BY <1>2, <1>3, <1>4 DEF Post

LEMMA KeysInvClient == KeysInv /\ ClientStep => KeysInv'
<1> SUFFICES ASSUME KeysInv, ClientStep PROVE KeysInv'
  OBVIOUS
<1>1. toServer \in Seq(Sendable) /\ handlers \in Seq(FromClient) /\ keymap \in SUBSET Keys
  BY DEF KeysInv
<1>2. <<>> \in Seq(Sendable) /\ <<>> \in Seq(FromClient) /\ toServer \o <<>> = toServer
      /\ handlers \o <<>> = handlers
  BY <1>1, ConcatEmptySeq
<1>3. toServer' = toServer => UNCHANGED <<handlers, written, peer>>
  BY <1>2, PostedIsSent
<1>4. ASSUME NEW msg \in Sendable, toServer' = Append(toServer, msg), isLocal \/ msg \in FromClient,
             keymap' = keymap, isLocal' = isLocal, Known'
      PROVE  KeysInv'
  <2> DEFINE sent == <<msg>>
  <2>1. sent \in Seq(Sendable) /\ (isLocal \/ sent \in Seq(FromClient))
    BY <1>4
  <2>2. toServer' = toServer \o sent
    BY <1>1, <1>4, AppendIsConcat
  <2> HIDE DEF sent
  <2>3. /\ handlers' = IF isLocal THEN handlers ELSE handlers \o sent
        /\ UNCHANGED <<written, peer>>
    BY <2>1, <2>2, PostedIsSent
  <2> QED
    BY <1>4, <2>1, <2>2, <2>3, SendKeeps
<1>5. ASSUME NEW msg \in Sendable
      PROVE  KeysIn(Append(toServer, msg)) = IF IsInput(msg) THEN msg.state ELSE KeysIn(toServer)
  BY <1>1, KeysInAppend
<1>6. CASE LocalStart
  <2>1. LoadPlayer \in FromClient /\ LoadPlayer \in Sendable /\ ~IsInput(LoadPlayer)
    BY DEF FromClient, Sendable, LoadPlayer, IsInput
  <2>2. /\ toServer' = Append(toServer, LoadPlayer) /\ UNCHANGED <<keymap, isLocal>>
        /\ cliPc = "new"
    BY <1>6 DEF LocalStart
  <2>3. Known'
    BY <1>5, <2>1, <2>2 DEF KeysInv, Known
  <2> QED
    BY <1>4, <2>1, <2>2, <2>3
<1>7. CASE LoopCheck \/ Dispatch \/ Drained \/ CloseWindow \/ LocalWait
  <2>1. UNCHANGED <<toServer, keymap, isLocal>>
    BY <1>7 DEF LoopCheck, Dispatch, Drained, CloseWindow, LocalWait
  <2>2. Quiet
    BY <1>3, <1>7, <2>1 DEF Quiet, LoopCheck, Dispatch, Drained, CloseWindow, LocalWait
  <2> QED
    BY <2>2, QuietKeeps
<1>8. ASSUME NEW k \in Keys, NEW key_press \in BOOLEAN, KeyEvent(k, key_press) PROVE KeysInv'
  <2>1. /\ UNCHANGED <<toServer, isLocal, cliPc>> /\ cliPc = "events" /\ keys_changed' = TRUE
        /\ keymap' = Adjust(k, key_press)
    BY <1>8 DEF KeyEvent
  <2>2. UNCHANGED <<handlers, written, peer>>
    BY <1>3, <2>1
  <2>3. keymap' \in SUBSET Keys
    BY <1>1, <2>1 DEF Adjust
  <2>4. Known'
    BY <2>1 DEF Known
  <2>5. Link'
    BY <2>1, <2>2 DEF KeysInv, Link
  <2> QED
    BY <1>1, <2>1, <2>2, <2>3, <2>4, <2>5 DEF KeysInv
<1>9. CASE EventsDone
  <2>1. /\ toServer' = toServer \o InputOf /\ UNCHANGED <<keymap, isLocal>>
        /\ cliPc = "events" /\ cliPc' = "check"
    BY <1>9 DEF EventsDone
  <2>2. CASE keys_changed
    <3>1. InputOf = <<Input(keymap)>>
      BY <2>2 DEF InputOf
    <3>2. Input(keymap) \in FromClient /\ Input(keymap) \in Sendable
      BY <1>1 DEF FromClient, Sendable
    <3>3. IsInput(Input(keymap)) /\ Input(keymap).state = keymap
      BY DEF IsInput, Input
    <3>4. toServer' = Append(toServer, Input(keymap))
      BY <1>1, <2>1, <3>1, <3>2, AppendIsConcat
    <3>5. Known'
      BY <1>5, <2>1, <3>2, <3>3, <3>4 DEF Known
    <3> QED
      BY <1>4, <2>1, <3>2, <3>4, <3>5
  <2>3. CASE ~keys_changed
    <3>1. toServer' = toServer
      BY <1>2, <2>1, <2>3 DEF InputOf
    <3>2. KeysIn(toServer) = keymap
      BY <2>1, <2>3 DEF KeysInv, Known
    <3>3. Known'
      BY <2>1, <3>1, <3>2 DEF Known
    <3>4. Link'
      BY <1>3, <2>1, <3>1 DEF KeysInv, Link
    <3> QED
      BY <1>1, <1>3, <2>1, <3>1, <3>3, <3>4 DEF KeysInv
  <2> QED
    BY <2>2, <2>3
<1>10. CASE LeaveLoop
  <2>1. /\ toServer' = IF isLocal THEN Append(toServer, Shutdown) ELSE toServer
        /\ UNCHANGED <<keymap, isLocal>> /\ cliPc = "shutdown" /\ cliPc' = "stop"
    BY <1>10 DEF LeaveLoop
  <2>2. CASE isLocal
    <3>1. Shutdown \in Sendable /\ ~IsInput(Shutdown)
      BY DEF Sendable, Shutdown, IsInput
    <3>2. toServer' = Append(toServer, Shutdown)
      BY <2>1, <2>2
    <3>3. Known'
      BY <1>5, <2>1, <3>1, <3>2 DEF KeysInv, Known
    <3> QED
      BY <1>4, <2>1, <2>2, <3>1, <3>2, <3>3
  <2>3. CASE ~isLocal
    <3>1. Quiet
      BY <1>3, <2>1, <2>3 DEF Quiet
    <3> QED
      BY <3>1, QuietKeeps
  <2> QED
    BY <2>2, <2>3
<1> QED
  BY <1>6, <1>7, <1>8, <1>9, <1>10 DEF ClientStep, MainStep

LEMMA KeysInvMain == EndInv /\ KeysInv /\ MainThread => KeysInv'
<1> SUFFICES ASSUME EndInv, KeysInv, MainThread PROVE KeysInv'
  OBVIOUS
<1>1. CASE WindowStep
  <2>1. UNCHANGED <<keymap, isLocal, toServer, keys_changed, handlers, written, peer>>
    BY <1>1 DEF WindowStep, Elsewhere, proxyVars, ioVars, netVars, peerVars
  <2>2. cliPc \notin {"events", "aborted"} /\ cliPc' # "events"
    BY <1>1 DEF WindowStep, InitializePlatform, Stage, OpenDisplay, ChooseConfig, GetVisual,
       CreateWindow, CreateContext, StartLoader, SeeLoader, FinishLoader, FinalizePlatform
  <2>3. Quiet
    BY <2>1, <2>2 DEF Quiet
  <2> QED
    BY <2>3, QuietKeeps
<1>2. CASE Connect \/ SeeRunning \/ StartRead \/ StopService \/ SeeEnded
  <2>1. UNCHANGED <<keymap, isLocal, toServer, keys_changed, handlers, written, peer>>
    BY <1>2 DEF Connect, SeeRunning, StartRead, StopService, SeeEnded, Go, proxyVars, ioVars,
       netVars, peerVars
  <2>2. cliPc \notin {"events", "aborted"} /\ cliPc' # "events"
    BY <1>2 DEF Connect, SeeRunning, StartRead, StopService, SeeEnded, Go
  <2>3. Quiet
    BY <2>1, <2>2 DEF Quiet
  <2> QED
    BY <2>3, QuietKeeps
<1>3. CASE PostLoadPlayer
  <2> DEFINE sent == <<LoadPlayer>>
  <2>6. ~isLocal
    BY <1>3 DEF PostLoadPlayer, Go, EndInv, ProxyOnly
  <2>1. /\ toServer' = Append(toServer, LoadPlayer) /\ handlers' = handlers \o sent
        /\ UNCHANGED <<keymap, isLocal, written, peer>> /\ cliPc = "load"
    BY <1>3 DEF PostLoadPlayer, Go, Post, netVars, peerVars
  <2>2. LoadPlayer \in FromClient /\ LoadPlayer \in Sendable /\ ~IsInput(LoadPlayer)
    BY DEF FromClient, Sendable, LoadPlayer, IsInput
  <2>3. sent \in Seq(Sendable) /\ sent \in Seq(FromClient)
    BY <2>2
  <2>4. toServer' = toServer \o sent
    BY <2>1, <2>2, AppendIsConcat DEF KeysInv
  <2>5. Known'
    <3>1. KeysIn(toServer') = KeysIn(toServer)
      BY <2>1, <2>2, KeysInAppend DEF KeysInv
    <3> QED
      BY <2>1, <3>1 DEF KeysInv, Known
  <2> HIDE DEF sent
  <2> QED
    BY <2>1, <2>3, <2>4, <2>5, <2>6, SendKeeps
<1>4. CASE ClientStep
  BY <1>4, KeysInvClient
<1> QED
  BY <1>1, <1>2, <1>3, <1>4 DEF MainThread
(* What is written is taken from the messages that wait.                   *)
LEMMA KeysInvProxy == KeysInv /\ ProxyThread => KeysInv'
<1> SUFFICES ASSUME KeysInv, ProxyThread PROVE KeysInv'
  OBVIOUS
<1>1. CASE WriteMsg
  <2> DEFINE h == Head(handlers)
             d == Decode(ServerMsg, written)
             M == Bodies(ServerMsg) \cup FromClient
  <2>1. /\ handlers # <<>> /\ handlers' = Tail(handlers)
        /\ UNCHANGED <<keymap, keys_changed, cliPc, isLocal, toServer, peer>>
        /\ peer = "closed" \/ written' = written \o Encode(ServerMsg, h)
    BY <1>1 DEF WriteMsg, WritePending, clientVars, mainVars, peerVars
  <2>2. handlers \in Seq(FromClient)
    BY DEF KeysInv
  <2>3. h \in FromClient /\ handlers' \in Seq(FromClient)
    BY <2>1, <2>2, HeadTailProperties
  <2>4. Known'
    BY <2>1 DEF KeysInv, Known
  <2>5. ASSUME ~isLocal, peer = "open"
        PROVE  Clean(ServerMsg, written') /\ Decode(ServerMsg, written') \o handlers' = toServer'
    <3>1. Clean(ServerMsg, written) /\ d \o handlers = toServer
      BY <2>5 DEF KeysInv, Link
    <3>2. ReadAsWritten(ServerMsg, h)
      BY <2>3, WrittenAreRead
    <3>3. written' = written \o Encode(ServerMsg, h)
      BY <2>1, <2>5
    <3>4. Clean(ServerMsg, written') /\ Decode(ServerMsg, written') = Append(d, h)
      BY <3>1, <3>2, <3>3, CleanMore
    <3>5. d \in Seq(Bodies(ServerMsg))
      BY <3>1, ReadIsAcc DEF Clean, Decode, Acc
    <3>6. d \in Seq(M) /\ handlers \in Seq(M)
      BY <2>2, <3>5, SeqMonotonic
    <3> HIDE DEF d, M
    <3>7. Append(d, Head(handlers)) \o Tail(handlers) = d \o handlers
      BY <2>1, <3>6, MovedOver
    <3> QED
      BY <2>1, <3>1, <3>4, <3>7
  <2>6. Link'
    BY <2>1, <2>5 DEF Link
  <2> QED
    BY <2>1, <2>3, <2>4, <2>6 DEF KeysInv
<1>2. CASE ~WriteMsg
  <2>1. Quiet
    BY <1>2 DEF ProxyThread, ProxyUp, RunReturns, ReadType, ReadMsg, ReadError, ReadThrows,
       ProxyClosed, ProxyLower, ProxyNotify, LastNotify, PushMessage, ServerClosed, Quiet,
       clientVars, mainVars, proxyVars, ioVars, netVars, peerVars
  <2> QED
    BY <2>1, QuietKeeps
<1> QED
  BY <1>1, <1>2

LEMMA KeysInvOthers == KeysInv /\ (LoaderThread \/ ServerThread \/ Environment) => KeysInv'
<1> SUFFICES ASSUME KeysInv, LoaderThread \/ ServerThread \/ Environment PROVE KeysInv'
  OBVIOUS
<1>1. CASE LoaderThread
  <2>1. Quiet
    BY <1>1 DEF LoaderThread, LoaderUp, LoaderThrows, LoaderDown, LoaderNotify, Elsewhere, Quiet,
       proxyVars, ioVars, netVars, peerVars
  <2> QED
    BY <2>1, QuietKeeps
<1>2. CASE ServerThread
  <2>1. Quiet
    BY <1>2 DEF ServerThread, LocalServerStep, LocalShutdown, LocalClosed, LocalLowered,
       LocalNotify, LastNotify, ServerClosed, Quiet, mainVars, proxyVars, ioVars, netVars, peerVars
  <2> QED
    BY <2>1, QuietKeeps
<1>3. CASE Environment
  <2>1. Quiet
    BY <1>3 DEF Environment, LocalFeed, PushMessage, PeerFeed, PeerWrites, PeerClose, Quiet,
       clientVars, mainVars, proxyVars, ioVars, netVars, peerVars
  <2> QED
    BY <2>1, QuietKeeps
<1> QED
  BY <1>1, <1>2, <1>3

(* The inductive invariant of the theorem below                            *)
(* (localclient_x11.cpp:122-165, remoteserver.cpp:60-63 and 92-107).       *)
THEOREM KeysInvHolds == Spec => []KeysInv
<1>1. EndInv /\ KeysInv /\ [Next]_vars => KeysInv'
  <2> SUFFICES ASSUME EndInv, KeysInv, [Next]_vars PROVE KeysInv'
    OBVIOUS
  <2>1. CASE UNCHANGED vars
    <3>1. Quiet
      BY <2>1 DEF Quiet, vars, clientVars, mainVars, proxyVars, ioVars, netVars, peerVars
    <3> QED
      BY <3>1, QuietKeeps
  <2> QED
    BY <2>1, KeysInvMain, KeysInvProxy, KeysInvOthers DEF Next
<1> QED
  BY <1>1, KeysInvInit, EndInvHolds, PTL DEF Spec

(* Between two calls of platformEvents the last input the server has been  *)
(* or will be given is the state of the keyboard, through the posted calls *)
(* and the fields of the socket as well (localclient_x11.cpp:122-165,      *)
(* remoteserver.cpp:60-63 and 92-107).                                     *)
THEOREM TheServerKnowsTheKeys == Spec => []ServerKnowsKeys
<1>1. KeysInv => ServerKnowsKeys
  BY DEF KeysInv, Known, Link, ServerKnowsKeys
<1> QED
  BY <1>1, KeysInvHolds, PTL
-----------------------------------------------------------------------------
(* The drawables.  A message depends on its own fields only.               *)
LEMMA WantedFields ==
  /\ Len(Wanted("Add")) = 3 /\ Wanted("Add")[1] = 4 /\ Wanted("Add")[2] = 4 /\ Wanted("Add")[3] = Counted
  /\ Len(Wanted("Trans")) = 2 /\ Wanted("Trans")[1] = 4 /\ Wanted("Trans")[2] = 64
  /\ Len(Wanted("Del")) = 1 /\ Wanted("Del")[1] = 4
BY DEF Wanted

LEMMA ClientTypes ==
  ASSUME NEW type \in DOMAIN ClientMsg
  PROVE  /\ type \in {"Add", "Trans", "Del"}
         /\ TypeOf(ClientMsg, ClientMsg[type]) = type
         /\ ClientMsg[type] \in Nat
         /\ Len(Wanted(type)) \in Nat
<1>1. type \in {"Add", "Trans", "Del"}
  BY DEF ClientMsg
<1>2. TypeOf(ClientMsg, ClientMsg[type]) = type /\ ClientMsg[type] \in Nat
  BY <1>1 DEF TypeOf, ClientMsg
<1>3. Len(Wanted(type)) \in Nat
  BY <1>1, WantedFields
<1> QED
  BY <1>1, <1>2, <1>3

LEMMA BodyOfItsFields ==
  ASSUME NEW type \in DOMAIN ClientMsg, NEW s, NEW t,
         \A k \in 1..Len(Wanted(type)) : s[k] = t[k]
  PROVE  Body(type, s) = Body(type, t)
<1> DEFINE w == Wanted(type)
           Fits(x, i) == x[i].bytes = IF w[i] = Counted THEN x[i - 1].value ELSE w[i]
<1>1. type \in {"Add", "Trans", "Del"}
  BY ClientTypes
<1>2. \A i \in 1..Len(w) : Fits(s, i) <=> Fits(t, i)
  BY <1>1, WantedFields DEF Counted
<1>3. type # "Trans" => s[1] = t[1]
  BY <1>1, WantedFields
<1>4. type = "Trans" => s[1] = t[1] /\ s[2] = t[2]
  BY <1>1, WantedFields
<1>5. ASSUME NEW x
      PROVE  Body(type, x) = IF \E i \in 1..Len(w) : ~Fits(x, i) THEN Garbage
                             ELSE IF type = "Add" THEN AddDrawable(x[1].value)
                             ELSE IF type = "Del" THEN DelDrawable(x[1].value)
                             ELSE TransDrawable(x[1].value, x[2].value)
  BY <1>1 DEF Body
<1>6. (\E i \in 1..Len(w) : ~Fits(s, i)) <=> (\E i \in 1..Len(w) : ~Fits(t, i))
  BY <1>2
<1> HIDE DEF Fits, w
<1>7. CASE \E i \in 1..Len(w) : ~Fits(s, i)
  BY <1>5, <1>6, <1>7
<1>8. CASE ~ \E i \in 1..Len(w) : ~Fits(s, i)
  BY <1>1, <1>3, <1>4, <1>5, <1>6, <1>8
<1> QED
  BY <1>7, <1>8

LEMMA AppendedInFront ==
  ASSUME NEW M, NEW q \in Seq(M), NEW x \in M, NEW t \in Seq(M)
  PROVE  /\ Append(q, x) \o t = q \o (<<x>> \o t)
         /\ q \o Append(t, x) = Append(q \o t, x)
<1> DEFINE one == <<x>>
<1>1. one \in Seq(M) /\ q \o t \in Seq(M)
  BY ConcatProperties
<1>2. Append(q, x) = q \o one /\ Append(t, x) = t \o one /\ Append(q \o t, x) = (q \o t) \o one
  BY <1>1, AppendIsConcat
<1> HIDE DEF one
<1>3. (q \o one) \o t = q \o (one \o t) /\ (q \o t) \o one = q \o (t \o one)
  BY <1>1, ConcatAssociative
<1> QED
  BY <1>2, <1>3 DEF one

LEMMA ConcatHeadTail ==
  ASSUME NEW M, NEW q \in Seq(M), NEW d \in Seq(M), q # <<>>
  PROVE  q \o d \in Seq(M) /\ q \o d # <<>> /\ Head(q \o d) = Head(q) /\ Tail(q \o d) = Tail(q) \o d
<1> DEFINE x == Head(q)
           t == Tail(q)
           one == <<x>>
           c == q \o d
<1>1. x \in M /\ t \in Seq(M) /\ Len(q) = Len(t) + 1 /\ q[1] = x /\ \A i \in 1..Len(t) : q[i + 1] = t[i]
  BY HeadTailProperties
<1>2. one \in Seq(M) /\ Len(one) = 1
  BY <1>1
<1>3. /\ c \in Seq(M) /\ Len(c) = Len(q) + Len(d)
      /\ \A i \in 1..Len(q) + Len(d) : c[i] = IF i <= Len(q) THEN q[i] ELSE d[i - Len(q)]
  BY ConcatProperties
<1> DEFINE r == t \o d
<1>4. /\ r \in Seq(M) /\ Len(r) = Len(t) + Len(d)
      /\ \A i \in 1..Len(t) + Len(d) : r[i] = IF i <= Len(t) THEN t[i] ELSE d[i - Len(t)]
  BY <1>1, ConcatProperties
<1>5. Len(d) \in Nat /\ Len(t) \in Nat
  BY <1>1, LenProperties
<1> HIDE DEF x, t, one, c, r
<1>6. c # <<>>
  BY <1>1, <1>3, <1>5, EmptySeq
<1>7. Head(c) = c[1] /\ Tail(c) \in Seq(M) /\ Len(Tail(c)) = Len(c) - 1
      /\ \A i \in 1..Len(Tail(c)) : Tail(c)[i] = c[i + 1]
  BY <1>3, <1>6, HeadTailProperties
<1>8. c[1] = x
  <2>1. 1 \in 1..Len(q) + Len(d) /\ 1 <= Len(q)
    BY <1>1, <1>5
  <2> QED
    BY <2>1, <1>1, <1>3
<1>9. Tail(c) = r
  <2> DEFINE y == Tail(c)
  <2>1. y \in Seq(M) /\ Len(y) = Len(t) + Len(d) /\ \A i \in 1..Len(y) : y[i] = c[i + 1]
    BY <1>1, <1>3, <1>5, <1>7
  <2> HIDE DEF y
  <2>2. ASSUME NEW i \in 1..Len(y) PROVE y[i] = r[i]
    <3>1. i \in 1..Len(t) + Len(d) /\ i + 1 \in 1..Len(q) + Len(d) /\ (i + 1 <= Len(q) <=> i <= Len(t))
          /\ (i + 1) - Len(q) = i - Len(t)
      BY <1>1, <1>5, <2>1
    <3>2. CASE i <= Len(t)
      <4>1. c[i + 1] = q[i + 1] /\ q[i + 1] = t[i] /\ r[i] = t[i]
        BY <3>1, <3>2, <1>1, <1>3, <1>4
      <4> QED
        BY <4>1, <2>1
    <3>3. CASE ~(i <= Len(t))
      <4>1. c[i + 1] = d[i - Len(t)] /\ r[i] = d[i - Len(t)]
        BY <3>1, <3>3, <1>3, <1>4
      <4> QED
        BY <4>1, <2>1
    <3> QED
      BY <3>2, <3>3
  <2>3. y = r
    BY <1>4, <2>1, <2>2, SeqEqual
  <2> QED
    BY <2>3 DEF y
<1> QED
  BY <1>3, <1>6, <1>7, <1>8, <1>9 DEF x, t, c, r
-----------------------------------------------------------------------------
(* While the connection is read: what has arrived and what the peer has    *)
(* still to write are whole messages, from the type that readMsg is called *)
(* with on; and the messages in the queue and in there, drawn one after    *)
(* the other, make what was asked for.                                     *)
Wired == peer = "open" /\ proxyPc \notin {"notify", "down"} /\ cliPc \notin {"gone", "aborted"}

TypeRead == IF proxyPc = "body" THEN Pod(4, m_next_msg_type) ELSE <<>>
Coming == (TypeRead \o wire) \o unsent

Told == FromServer \cup Bodies(ClientMsg)

Flow ==
  /\ TypeRead \in Seq(Field) /\ wire \in Seq(Field) /\ unsent \in Seq(Field)
  /\ cliQueue \in Seq(Told)
  /\ transforms \in Nat
  /\ asked = [id \in DOMAIN asked |-> asked[id]]
  /\ DOMAIN asked \subseteq used
  /\ proxyPc = "none" => wire = <<>> /\ unsent = <<>>
  /\ Clean(ClientMsg, Coming)
  /\ Drawn(m_drawables, cliQueue \o Decode(ClientMsg, Coming)) = asked

FlowInv ==
  /\ cliPc \in Starting => m_drawables = EmptyMap
  /\ Wired => Flow

LEMMA FlowInvInit == Init => FlowInv
<1> SUFFICES ASSUME Init PROVE FlowInv
  OBVIOUS
<1>1. /\ m_drawables = EmptyMap /\ asked = EmptyMap /\ wire = <<>> /\ unsent = <<>> /\ cliQueue = <<>>
      /\ transforms = 0 /\ used = {} /\ proxyPc = "none"
  BY DEF Init, ClientInit
<1>2. TypeRead = <<>>
  BY <1>1 DEF TypeRead
<1>3. Coming = <<>>
  BY <1>1, <1>2 DEF Coming
<1>4. Clean(ClientMsg, Coming) /\ Decode(ClientMsg, Coming) = <<>>
  BY <1>3, CleanNothing
<1>5. Drawn(m_drawables, cliQueue \o Decode(ClientMsg, Coming)) = asked
  <2>1. cliQueue \o Decode(ClientMsg, Coming) = <<>>
    BY <1>1, <1>4
  <2> QED
    BY <1>1, <2>1, DrawnNothing
<1>6. asked = [id \in DOMAIN asked |-> asked[id]] /\ DOMAIN asked \subseteq used
  BY <1>1 DEF EmptyMap
<1> QED
  BY <1>1, <1>2, <1>4, <1>5, <1>6 DEF FlowInv, Flow

(* The steps that touch none of this.                                      *)
Steady ==
  /\ UNCHANGED <<wire, unsent, cliQueue, m_drawables, transforms, asked, used, m_next_msg_type>>
  /\ proxyPc' = "body" <=> proxyPc = "body"
  /\ proxyPc' = "none" => proxyPc = "none"
  /\ cliPc' \in Starting => cliPc \in Starting
  /\ Wired' => Wired

LEMMA SteadyKeeps == FlowInv /\ Steady => FlowInv'
<1> SUFFICES ASSUME FlowInv, Steady PROVE FlowInv'
  OBVIOUS
<1>1. Coming' = Coming /\ TypeRead' = TypeRead
  BY DEF Steady, Coming, TypeRead
<1>2. Wired => Flow'
  BY <1>1 DEF Steady, FlowInv, Flow
<1> QED
  BY <1>2 DEF Steady, FlowInv

(* What a message of the server does to what was asked for is what the     *)
(* renderer does with it.                                                  *)
LEMMA FeedIsRender ==
  ASSUME Flow, NEW msg \in ServerMsgs, Feed(msg)
  PROVE  /\ msg \in FromServer
         /\ asked' = Render(asked, msg)
         /\ asked' = [id \in DOMAIN asked' |-> asked'[id]] /\ DOMAIN asked' \subseteq used'
         /\ transforms' \in Nat
<1>1. /\ asked = [id \in DOMAIN asked |-> asked[id]] /\ DOMAIN asked \subseteq used
      /\ transforms \in Nat
  BY DEF Flow
<1>2. msg \in FromServer
  BY <1>1 DEF ServerMsgs, FromServer
<1>3. CASE msg.type = "Add"
  <2>1. /\ msg.objid \notin used /\ used' = used \cup {msg.objid}
        /\ asked' = Assign(asked, msg.objid, Unset) /\ transforms' = transforms
    BY <1>3 DEF Feed
  <2>2. asked' = Render(asked, msg)
    BY <1>1, <1>3, <2>1 DEF Render, AddTo, Insert
  <2> QED
    BY <1>1, <1>2, <2>1, <2>2 DEF Assign
<1>4. CASE msg.type = "Del"
  <2>1. /\ asked' = Erase(asked, msg.objid) /\ UNCHANGED <<used, transforms>>
    BY <1>4 DEF Feed
  <2>2. asked' = Render(asked, msg)
    BY <1>4, <2>1 DEF Render, DelFrom
  <2> QED
    BY <1>1, <1>2, <2>1, <2>2 DEF Erase
<1>5. CASE msg.type = "Trans"
  <2>1. /\ transforms' = transforms + 1 /\ used' = used
        /\ asked' = [id \in DOMAIN asked |-> IF id = msg.objid THEN msg.transform ELSE asked[id]]
    BY <1>5 DEF Feed
  <2>2. Render(asked, msg) = TransIn(asked, msg)
    BY <1>5 DEF Render
  <2>3. CASE msg.objid \in DOMAIN asked
    <3>1. DOMAIN asked \cup {msg.objid} = DOMAIN asked
      BY <2>3
    <3>2. asked' = Assign(asked, msg.objid, msg.transform)
      BY <2>1, <3>1 DEF Assign
    <3> QED
      BY <1>1, <1>2, <2>1, <2>2, <2>3, <3>2 DEF TransIn
  <2>4. CASE msg.objid \notin DOMAIN asked
    <3>1. asked' = [id \in DOMAIN asked |-> asked[id]]
      BY <2>1, <2>4
    <3>2. asked' = asked
      BY <1>1, <3>1
    <3> QED
      BY <1>1, <1>2, <2>1, <2>2, <2>4, <3>2 DEF TransIn
  <2> QED
    BY <2>3, <2>4
<1> QED
  BY <1>3, <1>4, <1>5 DEF Feed

LEMMA DecodeIsTold ==
  ASSUME NEW s, Clean(ClientMsg, s)
  PROVE  Decode(ClientMsg, s) \in Seq(Told)
<1>1. Decode(ClientMsg, s) \in Seq(Bodies(ClientMsg))
  BY ReadIsAcc DEF Clean, Decode, Acc
<1> QED
  BY <1>1, SeqMonotonic DEF Told

(* The peer sends a message: its type arrives, the rest is still to come.  *)
LEMMA PeerFeedKeeps == FlowInv /\ PeerFeed => FlowInv'
<1> SUFFICES ASSUME FlowInv, PeerFeed PROVE FlowInv'
  OBVIOUS
<1> PICK msg \in ServerMsgs : /\ Feed(msg)
                              /\ wire' = wire \o SubSeq(Encode(ClientMsg, msg), 1, 1)
                              /\ unsent' = Tail(Encode(ClientMsg, msg))
  BY DEF PeerFeed
<1>1. /\ UNCHANGED <<cliQueue, m_drawables, cliPc, proxyPc, m_next_msg_type, peer>>
      /\ unsent = <<>> /\ proxyPc # "none"
  BY DEF PeerFeed, mainVars
<1>2. cliPc' \in Starting => m_drawables' = EmptyMap
  BY <1>1 DEF FlowInv
<1> SUFFICES ASSUME Wired PROVE Flow'
  BY <1>1, <1>2 DEF FlowInv, Wired
<1> DEFINE e == Encode(ClientMsg, msg)
           one == SubSeq(e, 1, 1)
           rest == Tail(e)
           front == TypeRead \o wire
           d == Decode(ClientMsg, Coming)
<1>3. Flow
  BY DEF FlowInv
<1>4. /\ msg \in FromServer /\ asked' = Render(asked, msg)
      /\ asked' = [id \in DOMAIN asked' |-> asked'[id]] /\ DOMAIN asked' \subseteq used'
      /\ transforms' \in Nat
  BY <1>3, FeedIsRender
<1>5. ReadAsWritten(ClientMsg, msg)
  BY <1>4, WrittenAreRead
<1>6. e \in Seq(Field) /\ Len(e) \in Nat \ {0}
  BY <1>5 DEF ReadAsWritten
<1>7. TypeRead' = TypeRead
  BY <1>1 DEF TypeRead
<1> HIDE DEF e
<1>8. one \in Seq(Field) /\ rest \in Seq(Field) /\ one \o rest = e
  <2>1. e # <<>> /\ \A i \in 1..1 : e[i] \in Field
    BY <1>6, ElementOfSeq
  <2>2. one \in Seq(Field)
    BY <2>1, SubSeqProperties
  <2>3. rest \in Seq(Field) /\ rest = SubSeq(e, 2, Len(e))
    BY <1>6, <2>1, HeadTailProperties, TailIsSubSeq
  <2>4. SubSeq(e, 1, 1) \o SubSeq(e, 1 + 1, Len(e)) = SubSeq(e, 1, Len(e))
    <3>1. 1 \in 1..Len(e)+1 /\ 1 \in 1-1..Len(e) /\ Len(e) \in 1..Len(e)
      BY <1>6
    <3> QED
      BY <1>6, <3>1, ConcatAdjacentSubSeq
  <2>5. SubSeq(e, 1, Len(e)) = e
    BY <1>6, SubSeqFull
  <2> QED
    BY <2>2, <2>3, <2>4, <2>5
<1>9. TypeRead \in Seq(Field) /\ wire \in Seq(Field) /\ front \in Seq(Field)
  BY <1>3, ConcatProperties DEF Flow
<1>10. wire' = wire \o one /\ unsent' = rest
  BY DEF e
<1>11. Coming' = (TypeRead \o (wire \o one)) \o rest
  BY <1>7, <1>10 DEF Coming
<1>12. Coming = front
  BY <1>1, <1>9, ConcatEmptySeq DEF Coming
<1> HIDE DEF one, rest
<1>13. Coming' = Coming \o e
  <2>1. TypeRead \o (wire \o one) = front \o one
    <3>1. TypeRead \in Seq(Field) /\ wire \in Seq(Field) /\ one \in Seq(Field)
      BY <1>8, <1>9
    <3>2. (TypeRead \o wire) \o one = TypeRead \o (wire \o one)
      BY <3>1, ConcatAssociative
    <3> QED
      BY <3>2
  <2> HIDE DEF front
  <2>2. (front \o one) \o rest = front \o (one \o rest)
    <3>1. front \in Seq(Field) /\ one \in Seq(Field) /\ rest \in Seq(Field)
      BY <1>8, <1>9
    <3> QED
      BY <3>1, ConcatAssociative
  <2> QED
    BY <1>8, <1>11, <1>12, <2>1, <2>2
<1>14. Clean(ClientMsg, Coming') /\ Decode(ClientMsg, Coming') = Append(d, msg)
  BY <1>3, <1>5, <1>13, CleanMore DEF Flow, e
<1>15. d \in Seq(Told) /\ cliQueue \in Seq(Told) /\ msg \in Told
  BY <1>3, <1>4, DecodeIsTold DEF Flow, Told
<1>16. Drawn(m_drawables, cliQueue \o d) = asked
  BY <1>3 DEF Flow
<1> HIDE DEF d
<1>17. Drawn(m_drawables', cliQueue' \o Decode(ClientMsg, Coming')) = asked'
  <2>1. cliQueue \o Append(d, msg) = Append(cliQueue \o d, msg)
    BY <1>15, AppendedInFront
  <2>2. cliQueue \o d \in Seq(Told)
    BY <1>15, ConcatProperties
  <2>3. Drawn(m_drawables, Append(cliQueue \o d, msg)) = Render(Drawn(m_drawables, cliQueue \o d), msg)
    BY <1>15, <2>2, DrawnAppend
  <2> QED
    BY <1>1, <1>4, <1>14, <1>16, <2>1, <2>3
<1>18. wire' \in Seq(Field) /\ unsent' \in Seq(Field)
  BY <1>8, <1>9, <1>10, ConcatProperties
<1> QED
  BY <1>1, <1>4, <1>7, <1>9, <1>14, <1>15, <1>17, <1>18 DEF Flow

(* ... and comes.                                                          *)
LEMMA PeerWritesKeeps == FlowInv /\ PeerWrites => FlowInv'
<1> SUFFICES ASSUME FlowInv, PeerWrites PROVE FlowInv'
  OBVIOUS
<1>1. /\ UNCHANGED <<cliQueue, m_drawables, cliPc, proxyPc, m_next_msg_type, peer, asked, used, transforms>>
      /\ unsent # <<>> /\ wire' = wire \o unsent /\ unsent' = <<>>
  BY DEF PeerWrites, clientVars, mainVars, feedVars
<1>2. cliPc' \in Starting => m_drawables' = EmptyMap
  BY <1>1 DEF FlowInv
<1> SUFFICES ASSUME Wired PROVE Flow'
  BY <1>1, <1>2 DEF FlowInv, Wired
<1>3. Flow
  BY DEF FlowInv
<1>4. TypeRead' = TypeRead
  BY <1>1 DEF TypeRead
<1>5. TypeRead \in Seq(Field) /\ wire \in Seq(Field) /\ unsent \in Seq(Field)
  BY <1>3 DEF Flow
<1>6. wire \o unsent \in Seq(Field) /\ TypeRead \o (wire \o unsent) \in Seq(Field)
  BY <1>5, ConcatProperties
<1>7. Coming' = Coming
  <2>1. Coming' = (TypeRead \o (wire \o unsent)) \o <<>>
    BY <1>1, <1>4 DEF Coming
  <2>2. (TypeRead \o (wire \o unsent)) \o <<>> = TypeRead \o (wire \o unsent)
    BY <1>6, ConcatEmptySeq
  <2>3. TypeRead \o (wire \o unsent) = (TypeRead \o wire) \o unsent
    BY <1>5, ConcatAssociative
  <2> QED
    BY <2>1, <2>2, <2>3 DEF Coming
<1>8. wire' \in Seq(Field) /\ unsent' \in Seq(Field)
  BY <1>1, <1>6
<1>9. proxyPc' # "none"
  BY <1>1, <1>3 DEF Flow
<1> QED
  BY <1>1, <1>3, <1>4, <1>7, <1>8, <1>9 DEF Flow
(* The thread reads a type, which a whole message follows.                 *)
LEMMA ReadTypeKeeps == FlowInv /\ ReadType => FlowInv'
<1> SUFFICES ASSUME FlowInv, ReadType PROVE FlowInv'
  OBVIOUS
<1> DEFINE h == Head(wire)
           t == Tail(wire)
           one == <<h>>
<1>1. /\ UNCHANGED <<cliQueue, m_drawables, cliPc, peer, asked, used, transforms, unsent>>
      /\ proxyPc = "run" /\ proxyPc' = "body" /\ wire # <<>>
      /\ wire' = t /\ m_next_msg_type' = h.value
  BY DEF ReadType, Running, clientVars, mainVars, feedVars
<1>2. cliPc' \in Starting => m_drawables' = EmptyMap
  BY <1>1 DEF FlowInv
<1> SUFFICES ASSUME Wired PROVE Flow'
  BY <1>1, <1>2 DEF FlowInv, Wired
<1>3. Flow
  BY DEF FlowInv
<1>4. wire \in Seq(Field) /\ unsent \in Seq(Field)
  BY <1>3 DEF Flow
<1>5. TypeRead = <<>>
  BY <1>1 DEF TypeRead
<1>6. Coming = wire \o unsent
  BY <1>4, <1>5, ConcatEmptySeq DEF Coming
<1>7. h \in Field /\ t \in Seq(Field) /\ Len(wire) = Len(t) + 1 /\ wire[1] = h
      /\ \A i \in 1..Len(t) : wire[i + 1] = t[i]
  BY <1>1, <1>4, HeadTailProperties
<1>8. one \in Seq(Field)
  BY <1>7
<1> HIDE DEF h, t
<1>9. h \in Heads(ClientMsg)
  <2>1. Coming # <<>> /\ Coming[1] = h
    <3>1. Len(wire) \in Nat /\ Len(unsent) \in Nat /\ 1 \in 1..Len(wire) + Len(unsent) /\ 1 <= Len(wire)
      BY <1>4, <1>7
    <3>2. Len(wire \o unsent) = Len(wire) + Len(unsent) /\ (wire \o unsent)[1] = wire[1]
      BY <3>1, <1>4, ConcatProperties
    <3>3. wire \o unsent # <<>>
      BY <1>1, <1>4, ConcatEqualIffEmpty
    <3> QED
      BY <1>6, <1>7, <3>2, <3>3
  <2> QED
    BY <2>1, <1>3, CleanHead DEF Flow
<1>10. TypeRead' = one
  <2>1. h = [bytes |-> 4, value |-> h.value]
    BY <1>9 DEF Heads
  <2> QED
    BY <1>1, <2>1 DEF TypeRead, Pod
<1>11. one \o t = wire
  BY <1>4, <1>7, Chain
<1>12. Coming' = Coming
  BY <1>1, <1>6, <1>10, <1>11 DEF Coming
<1>13. TypeRead' \in Seq(Field) /\ wire' \in Seq(Field) /\ unsent' \in Seq(Field)
  BY <1>1, <1>4, <1>7, <1>8, <1>10
<1>14. proxyPc' # "none"
  BY <1>1
<1> QED
  BY <1>1, <1>3, <1>12, <1>13, <1>14 DEF Flow

(* readMsg passes on the first of the messages that are coming.            *)
LEMMA ReadMsgKeeps == FlowInv /\ ReadMsg => FlowInv'
<1> SUFFICES ASSUME FlowInv, ReadMsg PROVE FlowInv'
  OBVIOUS
<1> DEFINE type == NextType
           n == Len(Wanted(type))
           body == Body(type, wire)
           after == AfterBody(type, wire)
           fields == SubSeq(wire, 1, n)
           p == TypeRead \o fields
           rest == after \o unsent
<1>1. /\ UNCHANGED <<m_drawables, cliPc, peer, asked, used, transforms, unsent>>
      /\ proxyPc = "body" /\ proxyPc' = "run" /\ Arrived(type, wire)
      /\ cliQueue' = Append(cliQueue, body) /\ wire' = after
  BY DEF ReadMsg, PushMessage, feedVars
<1>2. cliPc' \in Starting => m_drawables' = EmptyMap
  BY <1>1 DEF FlowInv
<1> SUFFICES ASSUME Wired PROVE Flow'
  BY <1>1, <1>2 DEF FlowInv, Wired
<1>3. Flow
  BY DEF FlowInv
<1>4. /\ TypeRead \in Seq(Field) /\ wire \in Seq(Field) /\ unsent \in Seq(Field)
      /\ cliQueue \in Seq(Told) /\ Clean(ClientMsg, Coming)
  BY <1>3 DEF Flow
<1> DEFINE h == [bytes |-> 4, value |-> m_next_msg_type]
<1>5. TypeRead = <<h>> /\ Len(TypeRead) = 1 /\ TypeRead[1] = h
  BY <1>1 DEF TypeRead, Pod
<1>6. h \in Heads(ClientMsg)
  <2> DEFINE w == wire \o unsent
  <2>1. w \in Seq(Field) /\ Coming = TypeRead \o w
    BY <1>4, ConcatProperties, ConcatAssociative DEF Coming
  <2> HIDE DEF w, h
  <2>2. Len(w) \in Nat /\ 1 \in 1..Len(TypeRead) + Len(w) /\ 1 <= Len(TypeRead)
    BY <1>5, <2>1
  <2>3. Coming[1] = TypeRead[1]
    BY <1>4, <2>1, <2>2, ConcatProperties
  <2>4. Coming # <<>>
    <3>1. TypeRead # <<>>
      BY <1>5
    <3> QED
      BY <1>4, <2>1, <3>1, ConcatEqualIffEmpty
  <2> QED
    BY <1>4, <1>5, <2>3, <2>4, CleanHead
<1>7. type \in DOMAIN ClientMsg /\ type = TypeOf(ClientMsg, h.value)
  <2>1. PICK t \in DOMAIN ClientMsg : h = [bytes |-> 4, value |-> ClientMsg[t]]
    BY <1>6 DEF Heads
  <2>2. m_next_msg_type = ClientMsg[t]
    BY <2>1
  <2>3. type = t
    BY <2>2, ClientTypes DEF NextType
  <2> QED
    BY <2>2, <2>3 DEF NextType
<1> HIDE DEF type, h
<1>8. n \in Nat /\ n <= Len(wire) /\ Len(wire) \in Nat
  BY <1>1, <1>4, <1>7, ClientTypes DEF Arrived
<1> HIDE DEF n
<1>9. /\ fields \in Seq(Field) /\ Len(fields) = n /\ \A i \in 1..n : fields[i] = wire[i]
      /\ after \in Seq(Field) /\ fields \o after = wire
  <2>1. \A i \in 1..Len(wire) : wire[i] \in Field
    BY <1>4, ElementOfSeq
  <2>2. \A i \in 1..n : wire[i] \in Field
    BY <1>8, <2>1
  <2>3. fields \in Seq(Field) /\ Len(fields) = (IF 1 <= n THEN n - 1 + 1 ELSE 0)
        /\ \A i \in 1..n - 1 + 1 : fields[i] = wire[1 + i - 1]
    BY <1>8, <2>2, SubSeqProperties
  <2>4. after = SubSeq(wire, n + 1, Len(wire))
    BY DEF AfterBody, n
  <2>5. after \in Seq(Field)
    <3>1. \A i \in (n + 1)..Len(wire) : wire[i] \in Field
      BY <1>8, <2>1
    <3>2. n + 1 \in Int /\ Len(wire) \in Int
      BY <1>8
    <3> QED
      BY <2>4, <3>1, <3>2, SubSeqProperties
  <2>6. fields \o after = SubSeq(wire, 1, Len(wire))
    <3>1. 1 \in 1..Len(wire)+1 /\ n \in 1-1..Len(wire) /\ Len(wire) \in n..Len(wire)
      BY <1>8
    <3> QED
      BY <1>4, <2>4, <3>1, ConcatAdjacentSubSeq
  <2>7. SubSeq(wire, 1, Len(wire)) = wire
    BY <1>4, SubSeqFull
  <2>8. Len(fields) = n /\ \A i \in 1..n : fields[i] = wire[i]
    <3> HIDE DEF fields
    <3> QED
      BY <1>8, <2>3
  <2> QED
    BY <2>3, <2>5, <2>6, <2>7, <2>8
<1> HIDE DEF fields, after
<1>10. rest \in Seq(Field) /\ p \in Seq(Field) /\ Coming = p \o rest
  <2>1. rest \in Seq(Field) /\ p \in Seq(Field)
    BY <1>4, <1>9, ConcatProperties
  <2>2. TypeRead \o wire = p \o after
    <3>1. TypeRead \in Seq(Field) /\ fields \in Seq(Field) /\ after \in Seq(Field)
      BY <1>4, <1>9
    <3>2. (TypeRead \o fields) \o after = TypeRead \o (fields \o after)
      BY <3>1, ConcatAssociative
    <3> QED
      BY <1>9, <3>2
  <2> HIDE DEF p
  <2>3. (p \o after) \o unsent = p \o (after \o unsent)
    <3>1. p \in Seq(Field) /\ after \in Seq(Field) /\ unsent \in Seq(Field)
      BY <1>4, <1>9, <2>1
    <3> QED
      BY <3>1, ConcatAssociative
  <2> QED
    BY <2>1, <2>2, <2>3 DEF Coming
<1>11. /\ Len(p) = n + 1 /\ p[1] = h /\ \A i \in 1..n : p[i + 1] = wire[i]
  <2>1. /\ Len(p) = 1 + n
        /\ \A i \in 1..1 + n : p[i] = IF i <= 1 THEN TypeRead[i] ELSE fields[i - 1]
    <3>1. /\ Len(p) = Len(TypeRead) + Len(fields)
          /\ \A i \in 1..Len(TypeRead) + Len(fields) :
               p[i] = IF i <= Len(TypeRead) THEN TypeRead[i] ELSE fields[i - Len(TypeRead)]
      BY <1>4, <1>9, ConcatProperties
    <3> HIDE DEF p
    <3> QED
      BY <1>5, <1>9, <3>1
  <2> HIDE DEF p
  <2>2. p[1] = h
    <3>1. 1 \in 1..1 + n
      BY <1>8
    <3> QED
      BY <1>5, <2>1, <3>1
  <2>3. ASSUME NEW i \in 1..n PROVE p[i + 1] = wire[i]
    <3>1. i + 1 \in 1..1 + n /\ ~(i + 1 <= 1) /\ (i + 1) - 1 = i
      BY <1>8
    <3>2. p[i + 1] = fields[i]
      BY <2>1, <3>1
    <3> QED
      BY <1>9, <3>2
  <2> QED
    BY <1>8, <2>1, <2>2, <2>3
<1> HIDE DEF p
<1>12. Body(type, Tail(p)) = body
  <2>1. p # <<>>
    BY <1>8, <1>10, <1>11
  <2>2. Len(Tail(p)) = n /\ \A i \in 1..Len(Tail(p)) : Tail(p)[i] = p[i + 1]
    BY <1>8, <1>10, <1>11, <2>1, HeadTailProperties
  <2>3. \A i \in 1..Len(Wanted(type)) : Tail(p)[i] = wire[i]
    BY <1>11, <2>2 DEF n
  <2> QED
    BY <1>7, <2>3, BodyOfItsFields
<1>13. ReadAll(ClientMsg, p).msgs = <<body>> /\ ReadAll(ClientMsg, p).part = <<>>
  <2>1. TypeOf(ClientMsg, p[1].value) = type
    BY <1>7, <1>11
  <2>2. Len(Wanted(TypeOf(ClientMsg, p[1].value))) = n
    BY <2>1 DEF n
  <2>3. ReadAll(ClientMsg, p) = [msgs |-> <<Body(TypeOf(ClientMsg, p[1].value), Tail(p))>>, part |-> <<>>]
    BY <1>8, <1>10, <1>11, <2>2, OneIsRead
  <2> QED
    BY <1>12, <2>1, <2>3
<1>14. body \in Told
  <2>1. body = Body(TypeOf(ClientMsg, p[1].value), Tail(p))
    BY <1>7, <1>11, <1>12
  <2> QED
    BY <1>10, <2>1 DEF Told, Bodies
<1> HIDE DEF body
<1> DEFINE d == Decode(ClientMsg, rest)
<1>15. Clean(ClientMsg, rest) /\ Decode(ClientMsg, Coming) = <<body>> \o d
  <2> HIDE DEF rest
  <2>1. Clean(ClientMsg, p \o rest)
    BY <1>4, <1>10
  <2>2. /\ Clean(ClientMsg, rest)
        /\ Decode(ClientMsg, p \o rest) = Decode(ClientMsg, p) \o Decode(ClientMsg, rest)
    BY <1>10, <1>13, <2>1, CleanRest
  <2> QED
    BY <1>10, <1>13, <2>2 DEF Decode
<1>16. TypeRead' = <<>> /\ Coming' = rest
  <2>1. TypeRead' = <<>>
    BY <1>1 DEF TypeRead
  <2>2. Coming' = (<<>> \o after) \o unsent
    BY <1>1, <2>1 DEF Coming
  <2> QED
    BY <1>9, <2>1, <2>2, ConcatEmptySeq
<1> HIDE DEF rest
<1>17. d \in Seq(Told)
  BY <1>15, DecodeIsTold
<1> HIDE DEF d
<1>18. cliQueue' \o d = cliQueue \o (<<body>> \o d)
  BY <1>1, <1>4, <1>14, <1>17, AppendedInFront
<1>19. Drawn(m_drawables', cliQueue' \o Decode(ClientMsg, Coming')) = asked'
  <2>1. Drawn(m_drawables, cliQueue \o Decode(ClientMsg, Coming)) = asked
    BY <1>3 DEF Flow
  <2> QED
    BY <1>1, <1>15, <1>16, <1>18, <2>1 DEF d
<1>20. cliQueue' \in Seq(Told)
  BY <1>1, <1>4, <1>14, AppendProperties
<1>21. /\ TypeRead' \in Seq(Field) /\ wire' \in Seq(Field) /\ unsent' \in Seq(Field)
       /\ Clean(ClientMsg, Coming')
  BY <1>1, <1>4, <1>9, <1>15, <1>16, EmptySeq
<1> QED
  BY <1>1, <1>3, <1>19, <1>20, <1>21 DEF Flow
(* A local server's message, and one that the main thread takes from the   *)
(* queue: the oldest.                                                      *)
LEMMA LocalFeedKeeps == EndInv /\ FlowInv /\ LocalFeed /\ UNCHANGED proxyVars => FlowInv'
<1> SUFFICES ASSUME EndInv, FlowInv, LocalFeed, UNCHANGED proxyVars PROVE FlowInv'
  OBVIOUS
<1> PICK msg \in ServerMsgs : Feed(msg) /\ PushMessage(msg)
  BY DEF LocalFeed
<1>1. /\ UNCHANGED <<m_drawables, cliPc, proxyPc, m_next_msg_type, peer, wire, unsent>>
      /\ cliQueue' = Append(cliQueue, msg) /\ isLocal
  BY DEF LocalFeed, PushMessage, proxyVars, netVars, peerVars
<1>2. cliPc' \in Starting => m_drawables' = EmptyMap
  BY <1>1 DEF FlowInv
<1> SUFFICES ASSUME Wired PROVE Flow'
  BY <1>1, <1>2 DEF FlowInv, Wired
<1>3. Flow
  BY DEF FlowInv
<1>4. /\ msg \in FromServer /\ asked' = Render(asked, msg)
      /\ asked' = [id \in DOMAIN asked' |-> asked'[id]] /\ DOMAIN asked' \subseteq used'
      /\ transforms' \in Nat
  BY <1>3, FeedIsRender
<1>5. TypeRead = <<>> /\ wire = <<>> /\ unsent = <<>> /\ TypeRead' = TypeRead
  BY <1>1, <1>3 DEF EndInv, Flow, TypeRead
<1>6. Coming = <<>> /\ Coming' = <<>>
  BY <1>1, <1>5 DEF Coming
<1>7. Clean(ClientMsg, <<>>) /\ Decode(ClientMsg, <<>>) = <<>>
  BY CleanNothing
<1>8. cliQueue \in Seq(Told) /\ msg \in Told
  BY <1>3, <1>4 DEF Flow, Told
<1>9. cliQueue' \in Seq(Told)
  BY <1>1, <1>8, AppendProperties
<1>10. Drawn(m_drawables', cliQueue' \o Decode(ClientMsg, Coming')) = asked'
  <2>1. cliQueue \o <<>> = cliQueue /\ cliQueue' \o <<>> = cliQueue'
    BY <1>8, <1>9, ConcatEmptySeq
  <2>2. Drawn(m_drawables, cliQueue) = asked
    BY <1>3, <1>6, <1>7, <2>1 DEF Flow
  <2>3. Drawn(m_drawables, Append(cliQueue, msg)) = Render(Drawn(m_drawables, cliQueue), msg)
    BY <1>8, DrawnAppend
  <2> QED
    BY <1>1, <1>4, <1>6, <1>7, <2>1, <2>2, <2>3
<1> QED
  BY <1>1, <1>3, <1>4, <1>5, <1>6, <1>7, <1>9, <1>10 DEF Flow

LEMMA DispatchKeeps ==
  Order = "fifo" /\ FlowInv /\ Dispatch /\ UNCHANGED <<proxyPc, netVars>> => FlowInv'
<1> SUFFICES ASSUME Order = "fifo", FlowInv, Dispatch, UNCHANGED <<proxyPc, netVars>> PROVE FlowInv'
  OBVIOUS
<1>1. /\ UNCHANGED <<cliPc, proxyPc, m_next_msg_type, peer, wire, unsent, asked, used, transforms>>
      /\ cliPc = "drain" /\ cliQueue # <<>>
      /\ m_drawables' = Render(m_drawables, Head(cliQueue)) /\ cliQueue' = Tail(cliQueue)
  BY DEF Dispatch, NextOf, RestOf, feedVars, netVars, peerVars
<1>2. cliPc' \notin Starting
  BY <1>1 DEF Starting
<1> SUFFICES ASSUME Wired PROVE Flow'
  BY <1>1, <1>2 DEF FlowInv, Wired
<1> DEFINE d == Decode(ClientMsg, Coming)
<1>3. Flow
  BY DEF FlowInv
<1>4. TypeRead' = TypeRead /\ Coming' = Coming
  BY <1>1 DEF TypeRead, Coming
<1>5. cliQueue \in Seq(Told) /\ d \in Seq(Told)
  BY <1>3, DecodeIsTold DEF Flow
<1>6. Drawn(m_drawables, cliQueue \o d) = asked
  BY <1>3 DEF Flow
<1> HIDE DEF d
<1>7. Drawn(m_drawables', cliQueue' \o d) = asked
  <2> DEFINE all == cliQueue \o d
  <2>1. all \in Seq(Told) /\ all # <<>> /\ Head(all) = Head(cliQueue) /\ Tail(all) = Tail(cliQueue) \o d
    BY <1>1, <1>5, ConcatHeadTail
  <2> HIDE DEF all
  <2>2. Drawn(m_drawables, all) = Drawn(Render(m_drawables, Head(all)), Tail(all))
    BY <2>1, DrawnHead
  <2> QED
    BY <1>1, <1>6, <2>1, <2>2 DEF all
<1>8. cliQueue' \in Seq(Told)
  BY <1>1, <1>5, HeadTailProperties
<1> QED
  BY <1>1, <1>3, <1>4, <1>7, <1>8 DEF Flow, d

(* The window is opened before there is anything to draw, and closed when  *)
(* the client goes.                                                        *)
LEMMA WindowFlow == PlatformInv /\ FlowInv /\ WindowStep => FlowInv'
<1> SUFFICES ASSUME PlatformInv, FlowInv, WindowStep PROVE FlowInv'
  OBVIOUS
<1>1. /\ UNCHANGED <<wire, unsent, cliQueue, transforms, asked, used, m_next_msg_type, proxyPc, peer>>
      /\ m_drawables' = IF "renderer" \in held' THEN m_drawables ELSE EmptyMap
  BY DEF WindowStep, Elsewhere, feedVars, proxyVars, netVars, peerVars
<1>2. CASE InitializePlatform
  <2>1. cliPc \in Starting
    BY <1>2 DEF InitializePlatform, Stage, OpenDisplay, ChooseConfig, GetVisual, CreateWindow,
       CreateContext, StartLoader, SeeLoader, Starting
  <2>2. m_drawables' = m_drawables
    BY <1>1, <2>1 DEF FlowInv
  <2>3. Steady
    BY <1>1, <2>1, <2>2 DEF Steady, Wired, Starting
  <2> QED
    BY <2>3, SteadyKeeps
<1>3. CASE FinishLoader
  <2>1. held' = held /\ cliPc = "delete" /\ cliPc' = "finish"
    BY <1>3 DEF FinishLoader
  <2>2. m_drawables' = m_drawables
    BY <1>1, <2>1 DEF PlatformInv, Opening, Open, Closing, Aborted, All
  <2>3. Steady
    BY <1>1, <2>1, <2>2 DEF Steady, Wired, Starting
  <2> QED
    BY <2>3, SteadyKeeps
<1>4. CASE FinalizePlatform
  BY <1>4 DEF FinalizePlatform, FlowInv, Wired, Starting
<1> QED
  BY <1>2, <1>3, <1>4 DEF WindowStep

LEMMA FlowInvMain == Order = "fifo" /\ EndInv /\ PlatformInv /\ FlowInv /\ MainThread => FlowInv'
<1> SUFFICES ASSUME Order = "fifo", EndInv, PlatformInv, FlowInv, MainThread PROVE FlowInv'
  OBVIOUS
<1>1. CASE ClientStep /\ Dispatch
  BY <1>1, DispatchKeeps DEF ClientStep
<1>2. CASE ClientStep /\ ~Dispatch
  <2>1. UNCHANGED <<proxyPc, m_next_msg_type, wire, unsent, peer>>
    BY <1>2 DEF ClientStep, netVars, peerVars
  <2>2. ASSUME NEW k \in Keys, NEW key_press \in BOOLEAN, KeyEvent(k, key_press)
        PROVE  Steady
    BY <2>1, <2>2 DEF KeyEvent, feedVars, Steady, Wired, Starting
  <2>3. LocalStart \/ LoopCheck \/ Drained \/ CloseWindow \/ EventsDone \/ LeaveLoop \/ LocalWait
          => Steady
    BY <2>1 DEF LocalStart, LoopCheck, Drained, CloseWindow, EventsDone, LeaveLoop, LocalWait,
       feedVars, Steady, Wired, Starting
  <2> QED
    BY <1>2, <2>2, <2>3, SteadyKeeps DEF ClientStep, MainStep
<1>3. CASE Connect \/ SeeRunning \/ StartRead \/ PostLoadPlayer \/ StopService \/ SeeEnded
  <2>1. Connect => Steady
    BY DEF Connect, Go, EndInv, feedVars, netVars, peerVars, Steady, Wired, Starting
  <2>2. SeeRunning \/ SeeEnded => Steady
    BY DEF SeeRunning, SeeEnded, Go, feedVars, proxyVars, netVars, peerVars, Steady, Wired, Starting
  <2>3. StartRead \/ PostLoadPlayer \/ StopService => Steady
    BY DEF StartRead, PostLoadPlayer, StopService, Go, feedVars, netVars, peerVars, Steady, Wired,
       Starting
  <2> QED
    BY <1>3, <2>1, <2>2, <2>3, SteadyKeeps
<1>4. CASE WindowStep
  BY <1>4, WindowFlow
<1> QED
  BY <1>1, <1>2, <1>3, <1>4 DEF MainThread

LEMMA FlowInvProxy == FlowInv /\ ProxyThread => FlowInv'
<1> SUFFICES ASSUME FlowInv, ProxyThread PROVE FlowInv'
  OBVIOUS
<1>1. CASE ProxyUp \/ RunReturns \/ WriteMsg \/ ReadError \/ ReadThrows \/ ProxyClosed
  <2>1. Steady
    BY <1>1 DEF ProxyUp, RunReturns, WriteMsg, ReadError, ReadThrows, ProxyClosed, ServerClosed,
       clientVars, mainVars, feedVars, proxyVars, netVars, peerVars, Steady, Wired, Starting
  <2> QED
    BY <2>1, SteadyKeeps
<1>2. CASE ProxyLower
  BY <1>2 DEF ProxyLower, clientVars, mainVars, FlowInv, Wired
<1>3. CASE ProxyNotify
  <2>1. Steady
    BY <1>3 DEF ProxyNotify, LastNotify, ServerDeleted, feedVars, netVars, peerVars, Steady, Wired,
       Starting
  <2> QED
    BY <2>1, SteadyKeeps
<1> QED
  BY <1>1, <1>2, <1>3, ReadTypeKeeps, ReadMsgKeeps DEF ProxyThread

LEMMA FlowInvOthers ==
  EndInv /\ PlatformInv /\ FlowInv /\ (LoaderThread \/ ServerThread \/ Environment) => FlowInv'
<1> SUFFICES ASSUME EndInv, PlatformInv, FlowInv, LoaderThread \/ ServerThread \/ Environment PROVE FlowInv'
  OBVIOUS
<1>1. CASE LoaderThread
  <2>1. cliPc' = cliPc \/ cliPc' = "aborted"
    BY <1>1 DEF LoaderThread, LoaderUp, LoaderThrows, LoaderDown, LoaderNotify
  <2>2. Steady
    BY <1>1, <2>1 DEF LoaderThread, Elsewhere, feedVars, proxyVars, netVars, peerVars, Steady,
       Wired, Starting
  <2> QED
    BY <2>2, SteadyKeeps
<1>2. CASE ServerThread
  <2>1. Steady
    BY <1>2 DEF ServerThread, LocalServerStep, LocalShutdown, LocalClosed, LocalLowered,
       LocalNotify, LastNotify, ServerClosed, mainVars, proxyVars, netVars, peerVars, Steady, Wired, Starting
  <2> QED
    BY <2>1, SteadyKeeps
<1>3. CASE PeerClose
  BY <1>3 DEF PeerClose, clientVars, mainVars, FlowInv, Wired
<1> QED
  BY <1>1, <1>2, <1>3, LocalFeedKeeps, PeerFeedKeeps, PeerWritesKeeps DEF Environment

(* The inductive invariant of the theorem below (localclient.cpp:28-39,    *)
(* remoteserver.cpp:109-135, socket.hpp, the read and write functions of   *)
(* core/messages).  A queue that gives out the newest message first draws  *)
(* something else.                                                         *)
THEOREM FlowInvHolds == ASSUME Order = "fifo" PROVE Spec => []FlowInv
<1>1. EndInv /\ PlatformInv /\ FlowInv /\ [Next]_vars => FlowInv'
  <2> SUFFICES ASSUME EndInv, PlatformInv, FlowInv, [Next]_vars PROVE FlowInv'
    OBVIOUS
  <2>1. CASE UNCHANGED vars
    <3>1. Steady
      BY <2>1 DEF Steady, vars, clientVars, mainVars, feedVars, proxyVars, netVars, peerVars, Wired
    <3> QED
      BY <3>1, SteadyKeeps
  <2> QED
    BY <2>1, FlowInvMain, FlowInvProxy, FlowInvOthers DEF Next
<1> QED
  BY <1>1, FlowInvInit, EndInvHolds, PlatformInvHolds, PTL DEF Spec

(* With the queue in order, what the client draws and will draw is what    *)
(* the server asked for, whatever part of a message has come through the   *)
(* socket and wherever the two threads are (localclient.cpp:28-39,         *)
(* remoteserver.cpp:121-128, glrender.cpp:22-57).                          *)
THEOREM DrawnIsAsked == ASSUME Order = "fifo" PROVE Spec => []DrawsWhatIsAsked
<1>1. FlowInv => DrawsWhatIsAsked
  BY DEF FlowInv, Flow, Wired, DrawsWhatIsAsked, UnderWay, Coming, TypeRead
<1> QED
  BY <1>1, FlowInvHolds, PTL
=============================================================================
