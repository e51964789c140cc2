------------------------------- MODULE CellThread -------------------------------
(* Server/Cell_Thread.h: one detached worker thread at a time, started by        *)
(* Start(), stopped and joined by Close(), and stopped from inside by Exit().    *)
(* Start, Close and Exit hold _mutex throughout; Close keeps it while it waits   *)
(* on the semaphore, which is composed here as what it promises.                 *)
EXTENDS Naturals, FiniteSets

CONSTANTS Caller,     \* the threads that own the object and call Start and Close
          Worker,     \* identities for the detached threads
          MaxPermits  \* bound of the model on permits that no Close() has taken

Nobody == "nobody"

ASSUME CallerAssumption == IsFiniteSet(Caller) /\ IsFiniteSet(Worker)
ASSUME IdentityAssumption == /\ Caller \cap Worker = {}
                             /\ Nobody \notin Caller \cup Worker
ASSUME MaxPermitsAssumption == MaxPermits \in Nat

VARIABLES isRun,      \* _isRun, read by the work function without the mutex
          mutex,      \* the holder of _mutex
          permits,    \* _sem
          waiting,    \* _sem
          callerPc,   \* "idle", "closing" inside Close(), "closed" after it
          workerPc,   \* "unborn"; "test" and "body", the loop of the work function;
                      \* "exit", inside Exit(); "destroy", after the loop
          exited      \* history: whether a work function has called Exit()

vars == <<isRun, mutex, permits, waiting, callerPc, workerPc, exited>>

Sem == INSTANCE Semaphore WITH Thread <- Caller

Live == {w \in Worker : workerPc[w] # "unborn"}
Goes(w, from, to) == workerPc[w] = from /\ workerPc' = [workerPc EXCEPT ![w] = to]

Init == /\ isRun = FALSE
        /\ mutex = Nobody
        /\ Sem!Init
        /\ callerPc = [c \in Caller |-> "idle"]
        /\ workerPc = [w \in Worker |-> "unborn"]
        /\ exited = FALSE

-------------------------------------------------------------------------------
(* Faulty variants used as mutants. *)

StartUnchecked(c) ==
  /\ callerPc[c] # "closing"
  /\ mutex = Nobody
  /\ Cardinality(Live) + permits < MaxPermits
  /\ isRun' = TRUE
  /\ callerPc' = [callerPc EXCEPT ![c] = "idle"]
  /\ \E w \in Worker : Goes(w, "unborn", "test")
  /\ UNCHANGED <<mutex, permits, waiting, exited>>

CloseStopKeepsFlag(c) ==
  /\ callerPc[c] # "closing"
  /\ mutex = Nobody
  /\ isRun
  /\ mutex' = c
  /\ callerPc' = [callerPc EXCEPT ![c] = "closing"]
  /\ UNCHANGED <<isRun, permits, waiting, workerPc, exited>>

CloseReturnWithoutWait(c) ==
  /\ callerPc[c] = "closing"
  /\ mutex' = Nobody
  /\ callerPc' = [callerPc EXCEPT ![c] = "closed"]
  /\ UNCHANGED <<isRun, permits, waiting, workerPc, exited>>

FinishWithoutWakeup(w) ==
  /\ Goes(w, "destroy", "unborn")
  /\ UNCHANGED <<isRun, mutex, permits, waiting, callerPc, exited>>

-------------------------------------------------------------------------------
(* Start() on a stopped object spawns a worker ... *)
Start(c) ==
  /\ callerPc[c] # "closing"
  /\ mutex = Nobody
  /\ ~isRun
  /\ Cardinality(Live) + permits < MaxPermits
  /\ isRun' = TRUE
  /\ callerPc' = [callerPc EXCEPT ![c] = "idle"]
  /\ \E w \in Worker : Goes(w, "unborn", "test")
  /\ UNCHANGED <<mutex, permits, waiting, exited>>

(* ... and does nothing on a running one. *)
StartNop(c) ==
  /\ callerPc[c] # "closing"
  /\ mutex = Nobody
  /\ isRun
  /\ callerPc' = [callerPc EXCEPT ![c] = "idle"]
  /\ UNCHANGED <<isRun, mutex, permits, waiting, workerPc, exited>>

(* Close() lowers the flag and goes to the semaphore, keeping the mutex ... *)
CloseStop(c) ==
  /\ callerPc[c] # "closing"
  /\ mutex = Nobody
  /\ isRun
  /\ isRun' = FALSE
  /\ mutex' = c
  /\ callerPc' = [callerPc EXCEPT ![c] = "closing"]
  /\ UNCHANGED <<permits, waiting, workerPc, exited>>

(* ... or finds the flag lowered and returns at once. *)
CloseNop(c) ==
  /\ callerPc[c] # "closing"
  /\ mutex = Nobody
  /\ ~isRun
  /\ callerPc' = [callerPc EXCEPT ![c] = "closed"]
  /\ UNCHANGED <<isRun, mutex, permits, waiting, workerPc, exited>>

(* _sem.wait() inside Close(): it may block, and in the end takes a permit. *)
CloseSleep(c) ==
  /\ callerPc[c] = "closing"
  /\ Sem!Block(c)
  /\ UNCHANGED <<isRun, mutex, callerPc, workerPc, exited>>

CloseReturn(c) ==
  /\ callerPc[c] = "closing"
  /\ Sem!Acquire(c)
  /\ mutex' = Nobody
  /\ callerPc' = [callerPc EXCEPT ![c] = "closed"]
  /\ UNCHANGED <<isRun, workerPc, exited>>

(* The work functions of this program loop while isRun(). *)
RunTest(w) ==
  /\ Goes(w, "test", IF isRun THEN "body" ELSE "destroy")
  /\ UNCHANGED <<isRun, mutex, permits, waiting, callerPc, exited>>

RunBody(w) ==
  /\ Goes(w, "body", "test")
  /\ UNCHANGED <<isRun, mutex, permits, waiting, callerPc, exited>>

(* A work function that fails calls Exit() and leaves its loop. *)
CallExit(w) ==
  /\ Goes(w, "body", "exit")
  /\ exited' = TRUE
  /\ UNCHANGED <<isRun, mutex, permits, waiting, callerPc>>

ExitLocked(w) ==
  /\ mutex = Nobody
  /\ isRun' = FALSE
  /\ Goes(w, "exit", "destroy")
  /\ UNCHANGED <<mutex, permits, waiting, callerPc, exited>>

(* onDestory has run; the last thing the thread does is _sem.wakeup(). *)
FinishWork(w) ==
  /\ Goes(w, "destroy", "unborn")
  /\ Sem!Release
  /\ UNCHANGED <<isRun, mutex, callerPc, exited>>

CallerNext(c) == \/ Start(c) \/ StartNop(c) \/ CloseStop(c) \/ CloseNop(c)
                 \/ CloseSleep(c) \/ CloseReturn(c)

WorkerNext(w) == \/ RunTest(w) \/ RunBody(w) \/ CallExit(w)
                 \/ ExitLocked(w) \/ FinishWork(w)

Next == (\E c \in Caller : CallerNext(c)) \/ (\E w \in Worker : WorkerNext(w))

SafeSpec == Init /\ [][Next]_vars

(* The operating system schedules the workers, every round of a work function    *)
(* ends, the mutex is granted to a worker that asks again and again, and the     *)
(* semaphore gives its permit to the thread blocked on it. No caller is obliged  *)
(* to start or to close anything.                                                *)
Spec == /\ SafeSpec
        /\ \A w \in Worker : /\ WF_vars(RunTest(w)) /\ WF_vars(RunBody(w))
                             /\ SF_vars(ExitLocked(w)) /\ WF_vars(FinishWork(w))
        /\ \A c \in Caller : WF_vars(CloseReturn(c))

-------------------------------------------------------------------------------
(* Control points and holders; only a caller inside Close() sleeps or keeps the *)
(* mutex from one step to the next.                                             *)
TypeOK ==
  /\ isRun \in BOOLEAN
  /\ mutex \in Caller \cup {Nobody}
  /\ permits \in Nat
  /\ waiting \subseteq Caller
  /\ callerPc \in [Caller -> {"idle", "closing", "closed"}]
  /\ workerPc \in [Worker -> {"unborn", "test", "body", "exit", "destroy"}]
  /\ exited \in BOOLEAN
  /\ \A c \in Caller : mutex = c <=> callerPc[c] = "closing"
  /\ \A c \in waiting : callerPc[c] = "closing"

(* Close() never sleeps without somebody to wake it: each Start() brings one     *)
(* wakeup() and each Close() that waits answers one Start(), whatever Exit() and *)
(* other callers did in between.                                                 *)
CloserHasWaker == waiting # {} => permits > 0 \/ Live # {}

(* As long as no work function has called Exit(), the work function never runs   *)
(* twice at once: a Start() after a Close() finds no worker of the previous round. *)
(* The callbacks share unprotected members on the strength of that.              *)
OneWorker == ~exited => \A v, w \in Live : v = w

(* Close() closes the thread ("关闭线程"): as long as no work function has called   *)
(* Exit(), no worker is left when it returns, so the owner may free what the      *)
(* worker uses.                                                                  *)
CloseJoins == [][\A c \in Caller : callerPc'[c] = "closed" /\ callerPc[c] # "closed"
                                     => exited \/ Live' = {}]_vars

(* A Close() that began to wait returns, unless a worker is inside Exit(), which  *)
(* may then wait for the mutex of that Close().                                  *)
CloseReturns ==
  \A c \in Caller :
    callerPc[c] = "closing" ~> callerPc[c] = "closed" \/ \E w \in Worker : workerPc[w] = "exit"

(* Exit() called in the work function does not deadlock ("如果使用会死锁" is said  *)
(* of the semaphore, which Exit() avoids for that reason).                       *)
ExitCompletes == \A w \in Worker : workerPc[w] = "exit" ~> workerPc[w] # "exit"
=================================================================================
