----------------------------- MODULE CellSemaphore -----------------------------
(* Server/Cell_Semaphore.h: a semaphore made of a mutex, a condition variable   *)
(* and two counters. _wait counts the permits when positive and the threads that *)
(* still lack one when negative; _wakeup counts the permits handed to blocked    *)
(* threads and not yet taken.                                                    *)
(*                                                                               *)
(* Both methods hold _mutex from their first to their last statement, except     *)
(* while _cond.wait() sleeps, so a method is one step up to the point where it   *)
(* sleeps or returns.                                                            *)
EXTENDS Integers, FiniteSets

CONSTANTS Thread,   \* the threads calling wait() and wakeup()
          MaxWait   \* bound of the model: wakeup() is not called above this _wait

ASSUME ThreadAssumption == IsFiniteSet(Thread)
ASSUME MaxWaitAssumption == MaxWait \in Nat

VARIABLES wait,     \* _wait
          wakeup,   \* _wakeup
          pc        \* where each thread is: outside ("idle"), inside _cond.wait()
                    \* ("asleep"), or notified and about to relock ("awake")

vars == <<wait, wakeup, pc>>

Asleep == {t \in Thread : pc[t] = "asleep"}
Awake == {t \in Thread : pc[t] = "awake"}
Blocked == Asleep \cup Awake

Init == /\ wait = 0
        /\ wakeup = 0
        /\ pc = [t \in Thread |-> "idle"]

-------------------------------------------------------------------------------
(* Faulty variants used as mutants. *)

NotifyNobody == UNCHANGED pc

WakeupStrictTest(t) ==
  /\ pc[t] = "idle"
  /\ wait < MaxWait
  /\ wait' = wait + 1
  /\ \/ wait' < 0 /\ wakeup' = wakeup + 1 /\ UNCHANGED pc
     \/ wait' >= 0 /\ UNCHANGED <<wakeup, pc>>

WaitWithoutPredicate(t) ==
  /\ pc[t] = "idle"
  /\ wait' = wait - 1
  /\ \/ wait' >= 0 /\ UNCHANGED <<wakeup, pc>>
     \/ /\ wait' < 0
        /\ pc' = [pc EXCEPT ![t] = "asleep"]
        /\ UNCHANGED wakeup

-------------------------------------------------------------------------------
(* _cond.notify_one(): some sleeping thread, if there is one, wakes up. *)
NotifyOne ==
  \/ Asleep = {} /\ UNCHANGED pc
  \/ \E u \in Asleep : pc' = [pc EXCEPT ![u] = "awake"]

(* wait(), up to its return or to its sleep. The predicate of _cond.wait() is *)
(* tested before the first sleep, so a newcomer may take a token meant for a  *)
(* thread that was notified and has not relocked the mutex yet.               *)
Wait(t) ==
  /\ pc[t] = "idle"
  /\ wait' = wait - 1
  /\ \/ wait' >= 0 /\ UNCHANGED <<wakeup, pc>>
     \/ wait' < 0 /\ wakeup > 0 /\ wakeup' = wakeup - 1 /\ UNCHANGED pc
     \/ /\ wait' < 0 /\ wakeup = 0
        /\ pc' = [pc EXCEPT ![t] = "asleep"]
        /\ UNCHANGED wakeup

(* The rest of wait(): an awake thread relocks and tests the predicate again. *)
Resume(t) ==
  /\ pc[t] = "awake"
  /\ \/ wakeup > 0 /\ wakeup' = wakeup - 1 /\ pc' = [pc EXCEPT ![t] = "idle"]
     \/ wakeup = 0 /\ pc' = [pc EXCEPT ![t] = "asleep"] /\ UNCHANGED wakeup
  /\ UNCHANGED wait

(* A condition variable may wake a thread that nobody notified. *)
SpuriousWake(t) ==
  /\ pc[t] = "asleep"
  /\ pc' = [pc EXCEPT ![t] = "awake"]
  /\ UNCHANGED <<wait, wakeup>>

(* wakeup() *)
Wakeup(t) ==
  /\ pc[t] = "idle"
  /\ wait < MaxWait
  /\ wait' = wait + 1
  /\ \/ wait' <= 0 /\ wakeup' = wakeup + 1 /\ NotifyOne
     \/ wait' > 0 /\ UNCHANGED <<wakeup, pc>>

Next == \E t \in Thread : Wait(t) \/ Resume(t) \/ SpuriousWake(t) \/ Wakeup(t)

SafeSpec == Init /\ [][Next]_vars

(* A thread that has been woken gets the mutex and the processor at last: the   *)
(* critical sections are short and the operating system schedules every thread. *)
(* Nothing obliges a thread to call wait() or wakeup().                         *)
Spec == SafeSpec /\ \A t \in Thread : WF_vars(Resume(t))

-------------------------------------------------------------------------------
(* Types and ranges of the two counters and of the control points. *)
TypeOK ==
  /\ wait \in Int
  /\ wakeup \in Nat
  /\ pc \in [Thread -> {"idle", "asleep", "awake"}]

Positive(n) == IF n > 0 THEN n ELSE 0

(* The counters agree with the threads: every thread inside the blocking part of *)
(* wait() is either covered by a token of _wakeup or counted by a negative       *)
(* _wait. A miscount would leave a Close() blocked for ever or let it return     *)
(* early.                                                                        *)
BlockedCount == Cardinality(Blocked) = wakeup + Positive(-wait)

(* No wakeup is lost: there are never more tokens than threads on their way to  *)
(* fetch one, so no token waits for a thread that sleeps unnotified, whatever   *)
(* newcomers and spurious wakeups do in between.                                *)
NoLostWakeup == wakeup <= Cardinality(Awake)

(* The two-counter protocol is a counting semaphore, including its liveness. *)
Sem == INSTANCE Semaphore
         WITH permits <- wakeup + Positive(wait), waiting <- Blocked

SemSpec == Sem!Spec
SemSafeSpec == Sem!SafeSpec
=================================================================================
