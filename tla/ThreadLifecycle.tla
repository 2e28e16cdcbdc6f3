-------------------------- MODULE ThreadLifecycle ---------------------------
(***************************************************************************)
(* How the objects that own a thread start and end it.  BtPhysics,         *)
(* GlLoader and AlAudio have the same constructor, run and finish, with a  *)
(* flag m_running under m_status_mutex and m_status_cond; LocalServer has  *)
(* waitForTermination in the place of finish, and a message in the place   *)
(* of m_finish.  The lines named are those of BtPhysics.                   *)
(*                                                                         *)
(* A critical section of the mutex is one step; a wait on the condition    *)
(* variable releases the mutex in the step that starts to wait.  The       *)
(* thread object is a local of the constructor, so the thread is detached: *)
(* nothing joins it.                                                       *)
(***************************************************************************)
EXTENDS Integers

CONSTANT Waiters  \* the threads that wait for the end; when all of them have
                  \* returned, the owner deletes the object

ASSUME WaitersAssumption == Waiters # {}

VARIABLES
  m_running, m_finish,
  ctorPc,    \* "new", "locked", "waiting" or "done"
  waiterPc,  \* per waiter: "idle", "locked", "waiting" or "returned"
  workerPc,  \* "none", "init", "notifyUp", "loop", "cleanup", "lower",
             \* "notifyDown" or "gone"
  object,    \* "alive" or "deleted"
  fault      \* the worker used the object after it was deleted

vars == <<m_running, m_finish, ctorPc, waiterPc, workerPc, object, fault>>

Init ==
  /\ m_running = FALSE
  /\ m_finish = FALSE
  /\ ctorPc = "new"
  /\ waiterPc = [w \in Waiters |-> "idle"]
  /\ workerPc = "none"
  /\ object = "alive"
  /\ fault = FALSE
-----------------------------------------------------------------------------
(* The constructor clears the flags and starts the thread... *)
Launch ==
  /\ ctorPc = "new"
  /\ ctorPc' = "locked"
  /\ workerPc' = "init"
  /\ UNCHANGED <<m_running, m_finish, waiterPc, object, fault>>

(* ... and waits until it runs. *)
CtorCheck ==
  /\ ctorPc = "locked"
  /\ ctorPc' = IF m_running THEN "done" ELSE "waiting"
  /\ UNCHANGED <<m_running, m_finish, waiterPc, workerPc, object, fault>>

(* finish asks the thread to end, without the mutex. *)
Finish(w) ==
  /\ ctorPc = "done"
  /\ waiterPc[w] = "idle"
  /\ m_finish' = TRUE
  /\ waiterPc' = [waiterPc EXCEPT ![w] = "locked"]
  /\ UNCHANGED <<m_running, ctorPc, workerPc, object, fault>>

(* waitForTermination leaves it to somebody else to ask. *)
WaitForTermination(w) ==
  /\ ctorPc = "done"
  /\ waiterPc[w] = "idle"
  /\ waiterPc' = [waiterPc EXCEPT ![w] = "locked"]
  /\ UNCHANGED <<m_running, m_finish, ctorPc, workerPc, object, fault>>

(* Both then wait until the thread no longer runs. *)
FinishCheck(w) ==
  /\ waiterPc[w] = "locked"
  /\ waiterPc' = [waiterPc EXCEPT ![w] = IF m_running THEN "waiting" ELSE "returned"]
  /\ UNCHANGED <<m_running, m_finish, ctorPc, workerPc, object, fault>>

(* The owner deletes the object once nobody waits (localserver.cpp:71-72,  *)
(* localclient.cpp:20-21, 47-48).                                          *)
Delete ==
  /\ object = "alive"
  /\ \A w \in Waiters : waiterPc[w] = "returned"
  /\ object' = "deleted"
  /\ UNCHANGED <<m_running, m_finish, ctorPc, waiterPc, workerPc, fault>>
-----------------------------------------------------------------------------
(* Faulty variant: if in the place of while around the waits, so a wakeup  *)
(* is taken for the condition.                                             *)
WakeAllOnce ==
  /\ ctorPc' = IF ctorPc = "waiting" THEN "done" ELSE ctorPc
  /\ waiterPc' = [w \in Waiters |-> IF waiterPc[w] = "waiting" THEN "returned" ELSE waiterPc[w]]

(* notify_all. *)
WakeAll ==
  /\ ctorPc' = IF ctorPc = "waiting" THEN "locked" ELSE ctorPc
  /\ waiterPc' = [w \in Waiters |-> IF waiterPc[w] = "waiting" THEN "locked" ELSE waiterPc[w]]

Initialise ==
  /\ workerPc = "init"
  /\ m_running' = TRUE
  /\ workerPc' = "notifyUp"
  /\ UNCHANGED <<m_finish, ctorPc, waiterPc, object, fault>>

NotifyUp ==
  /\ workerPc = "notifyUp"
  /\ WakeAll
  /\ workerPc' = "loop"
  /\ fault' = (fault \/ object = "deleted")
  /\ UNCHANGED <<m_running, m_finish, object>>

(* while(!m_finish). *)
LoopCheck ==
  /\ workerPc = "loop"
  /\ workerPc' = IF m_finish THEN "cleanup" ELSE "loop"
  /\ fault' = (fault \/ object = "deleted")
  /\ UNCHANGED <<m_running, m_finish, ctorPc, waiterPc, object>>

(* What the thread allocated is deleted. *)
Cleanup ==
  /\ workerPc = "cleanup"
  /\ workerPc' = "lower"
  /\ fault' = (fault \/ object = "deleted")
  /\ UNCHANGED <<m_running, m_finish, ctorPc, waiterPc, object>>

(* Faulty variant: the end is not notified. *)
LowerSilent ==
  /\ workerPc = "lower"
  /\ m_running' = FALSE
  /\ workerPc' = "gone"
  /\ fault' = (fault \/ object = "deleted")
  /\ UNCHANGED <<m_finish, ctorPc, waiterPc, object>>

Lower ==
  /\ workerPc = "lower"
  /\ m_running' = FALSE
  /\ workerPc' = "notifyDown"
  /\ fault' = (fault \/ object = "deleted")
  /\ UNCHANGED <<m_finish, ctorPc, waiterPc, object>>

(* Faulty variant: notify_one in the place of notify_all. *)
NotifyDownOne ==
  LET sleepers == {w \in Waiters : waiterPc[w] = "waiting"}
  IN  /\ workerPc = "notifyDown"
      /\ IF sleepers = {} THEN UNCHANGED waiterPc
         ELSE \E w \in sleepers : waiterPc' = [waiterPc EXCEPT ![w] = "locked"]
      /\ workerPc' = "gone"
      /\ fault' = (fault \/ object = "deleted")
      /\ UNCHANGED <<m_running, m_finish, ctorPc, object>>

NotifyDown ==
  /\ workerPc = "notifyDown"
  /\ WakeAll
  /\ workerPc' = "gone"
  /\ fault' = (fault \/ object = "deleted")
  /\ UNCHANGED <<m_running, m_finish, object>>

(* A condition variable may wake without a signal. *)
SpuriousWake == WakeAll /\ UNCHANGED <<m_running, m_finish, workerPc, object, fault>>
-----------------------------------------------------------------------------
WorkerStep == Initialise \/ NotifyUp \/ LoopCheck \/ Cleanup \/ Lower \/ NotifyDown

Next ==
  \/ Launch \/ CtorCheck \/ Delete
  \/ \E w \in Waiters : Finish(w) \/ WaitForTermination(w) \/ FinishCheck(w)
  \/ WorkerStep
  \/ SpuriousWake

Spec == Init /\ [][Next]_vars

(* Every thread runs unless it waits; nobody is obliged to call finish, and*)
(* nothing obliges the condition variable to wake by itself.               *)
Fairness ==
  /\ WF_vars(Launch) /\ WF_vars(CtorCheck) /\ WF_vars(WorkerStep)
  /\ \A w \in Waiters : WF_vars(FinishCheck(w))

FairSpec == Spec /\ Fairness
-----------------------------------------------------------------------------
TypeOK ==
  /\ m_running \in BOOLEAN /\ m_finish \in BOOLEAN /\ fault \in BOOLEAN
  /\ ctorPc \in {"new", "locked", "waiting", "done"}
  /\ waiterPc \in [Waiters -> {"idle", "locked", "waiting", "returned"}]
  /\ workerPc \in {"none", "init", "notifyUp", "loop", "cleanup", "lower", "notifyDown", "gone"}
  /\ object \in {"alive", "deleted"}

(* finish returns only after the thread has cleaned up: what it allocated  *)
(* is gone before the owner goes on, and before the object is deleted no   *)
(* line of its loop or cleanup runs (btphysics.cpp:138-191, 198-204).      *)
CleanedUpBeforeReturn ==
  /\ \A w \in Waiters : waiterPc[w] = "returned" => workerPc \in {"notifyDown", "gone"}
  /\ object = "deleted" => workerPc \in {"notifyDown", "gone"}

(* Nobody sleeps through the change it waits for: whoever waits on the     *)
(* condition variable although its condition holds is about to be notified *)
(* (btphysics.cpp:112-115, 132-136, 187-191, 200-203).                     *)
NoMissedNotify ==
  /\ ctorPc = "waiting" /\ m_running => workerPc = "notifyUp"
  /\ \A w \in Waiters : waiterPc[w] = "waiting" /\ ~m_running => workerPc = "notifyDown"

(* The inductive invariant: where the worker can be, given what the others *)
(* have seen.                                                              *)
Inv ==
  /\ TypeOK
  /\ CleanedUpBeforeReturn
  /\ NoMissedNotify
  /\ m_running <=> workerPc \in {"notifyUp", "loop", "cleanup", "lower"}
  /\ ctorPc = "new" <=> workerPc = "none"
  /\ ctorPc # "done" => ~m_finish /\ \A w \in Waiters : waiterPc[w] = "idle"
  /\ ctorPc = "done" => workerPc \notin {"none", "init"}
  /\ workerPc \in {"cleanup", "lower", "notifyDown", "gone"} => m_finish

(* The constructor returns (btphysics.cpp:105-116, 132-136). *)
StartReturns == ctorPc # "new" ~> ctorPc = "done"

(* Once the end is asked for, every thread that waits for it returns       *)
(* (btphysics.cpp:187-204; localserver.cpp:83-87, 134-140).                *)
FinishReturns ==
  \A w \in Waiters : (m_finish /\ waiterPc[w] # "idle") ~> (waiterPc[w] = "returned")

(* Nobody who starts or ends the thread waits for ever. *)
EverybodyReturns == StartReturns /\ FinishReturns

(* "Signals the physics thread to be terminated, and waits for that        *)
(* termination to occur" (physicsiface.hpp:22-23): the thread does not     *)
(* touch the object after finish has returned and the owner has deleted it.*)
TerminatedBeforeDelete == ~fault
=============================================================================
