---------------------------- MODULE CellThread_proofs ----------------------------
(* Proofs about CellThread. Two invariants: Accounted, that a thread that waits   *)
(* or will wait on the semaphore has a permit or a worker to bring one, holds     *)
(* with and without Exit(). Rounds, that rounds of the worker do not overlap,     *)
(* holds until a work function calls Exit(), and gives the join.                  *)
EXTENDS CellThread, TLAPS

Accounted ==
  /\ isRun => mutex = Nobody
  /\ isRun \/ mutex # Nobody => permits > 0 \/ Live # {}

IInv == TypeOK /\ Accounted

LEMMA InitIInv == Init => IInv
<1> SUFFICES ASSUME Init PROVE TypeOK /\ Accounted
  BY DEF IInv
<1> USE IdentityAssumption DEF Init, Sem!Init
<1>1. TypeOK
  BY DEF TypeOK
<1>2. Accounted
  BY DEF Accounted
<1> QED
  BY <1>1, <1>2

LEMMA NextIInv == IInv /\ [Next]_vars => IInv'
<1> SUFFICES ASSUME IInv, [Next]_vars PROVE IInv'
  OBVIOUS
<1> USE IdentityAssumption DEF IInv, TypeOK, Accounted, Live, Goes
<1>1. CASE UNCHANGED vars
  BY <1>1 DEF vars
<1>2. ASSUME NEW c \in Caller, CallerNext(c) PROVE IInv'
  <2>1. CASE Start(c)
    BY <2>1 DEF Start
  <2>2. CASE StartNop(c)
    BY <2>2 DEF StartNop
  <2>3. CASE CloseStop(c)
    BY <2>3 DEF CloseStop
  <2>4. CASE CloseNop(c)
    BY <2>4 DEF CloseNop
  <2>5. CASE CloseSleep(c)
    BY <2>5 DEF CloseSleep, Sem!Block
  <2>6. CASE CloseReturn(c)
    BY <2>6 DEF CloseReturn, Sem!Acquire
  <2> QED
    BY <1>2, <2>1, <2>2, <2>3, <2>4, <2>5, <2>6 DEF CallerNext
<1>3. ASSUME NEW w \in Worker, WorkerNext(w) PROVE IInv'
  <2>1. CASE RunTest(w)
    BY <2>1 DEF RunTest
  <2>2. CASE RunBody(w)
    BY <2>2 DEF RunBody
  <2>3. CASE CallExit(w)
    BY <2>3 DEF CallExit
  <2>4. CASE ExitLocked(w)
    BY <2>4 DEF ExitLocked
  <2>5. CASE FinishWork(w)
    BY <2>5 DEF FinishWork, Sem!Release
  <2> QED
    BY <1>3, <2>1, <2>2, <2>3, <2>4, <2>5 DEF WorkerNext
<1> QED
  BY <1>1, <1>2, <1>3 DEF Next

(* The control points of Start, Close, Exit and the worker stay in their ranges, *)
(* and _mutex is held from one step to the next by a closing caller only.        *)
THEOREM TypesCorrect == SafeSpec => []TypeOK
<1>1. IInv => TypeOK
  BY DEF IInv
<1> QED
  BY InitIInv, NextIInv, <1>1, PTL DEF SafeSpec

(* Whatever mix of Start, Close and Exit, a Close() blocked on the semaphore has *)
(* a permit or a worker that will bring one.                                     *)
THEOREM CloserNotForgotten == SafeSpec => []CloserHasWaker
<1>1. IInv => CloserHasWaker
  BY IdentityAssumption DEF IInv, TypeOK, Accounted, CloserHasWaker
<1> QED
  BY InitIInv, NextIInv, <1>1, PTL DEF SafeSpec

--------------------------------------------------------------------------------
(* Until an Exit(): the flag is up exactly while a worker loops and nobody closes; *)
(* the permit exists only between the end of the worker and the end of Close().   *)
Rounds ==
  /\ \A v, w \in Live : v = w
  /\ isRun => /\ mutex = Nobody
              /\ permits = 0
              /\ Live # {}
              /\ \A w \in Live : workerPc[w] \in {"test", "body"}
  /\ ~isRun /\ mutex = Nobody => permits = 0 /\ Live = {}
  /\ mutex # Nobody => \/ Live # {} /\ permits = 0
                       \/ Live = {} /\ permits = 1
  /\ \A w \in Live : workerPc[w] # "exit"

JInv == IInv /\ (exited \/ Rounds)

LEMMA InitJInv == Init => JInv
BY InitIInv DEF JInv, Init, Rounds, Live, Sem!Init

LEMMA NextJInv == JInv /\ [Next]_vars => JInv'
<1> SUFFICES ASSUME JInv, [Next]_vars, ~exited' PROVE Rounds'
  BY NextIInv DEF JInv
<1>0. TypeOK' /\ ~exited /\ Rounds
  <2>1. exited => exited'
    BY DEF Next, CallerNext, WorkerNext, Start, StartNop, CloseStop, CloseNop, CloseSleep,
           CloseReturn, RunTest, RunBody, CallExit, ExitLocked, FinishWork, vars
  <2> QED
    BY <2>1, NextIInv DEF IInv, JInv
<1> USE IdentityAssumption, <1>0 DEF JInv, IInv, TypeOK, Rounds, Live, Goes
<1>1. CASE UNCHANGED vars
  BY <1>1 DEF vars
<1>2. ASSUME NEW c \in Caller, CallerNext(c) PROVE Rounds'
  <2>1. CASE Start(c)
    BY <2>1 DEF Start
  <2>2. CASE StartNop(c)
    BY <2>2 DEF StartNop
  <2>3. CASE CloseStop(c)
    BY <2>3 DEF CloseStop
  <2>4. CASE CloseNop(c)
    BY <2>4 DEF CloseNop
  <2>5. CASE CloseSleep(c)
    BY <2>5 DEF CloseSleep, Sem!Block
  <2>6. CASE CloseReturn(c)
    BY <2>6 DEF CloseReturn, Sem!Acquire
  <2> QED
    BY <1>2, <2>1, <2>2, <2>3, <2>4, <2>5, <2>6 DEF CallerNext
<1>3. ASSUME NEW w \in Worker, WorkerNext(w) PROVE Rounds'
  <2>1. CASE RunTest(w)
    BY <2>1 DEF RunTest
  <2>2. CASE RunBody(w)
    BY <2>2 DEF RunBody
  <2>3. CASE CallExit(w)
    BY <2>3 DEF CallExit
  <2>4. CASE ExitLocked(w)
    BY <2>4 DEF ExitLocked
  <2>5. CASE FinishWork(w)
    BY <2>5 DEF FinishWork, Sem!Release
  <2> QED
    BY <1>3, <2>1, <2>2, <2>3, <2>4, <2>5 DEF WorkerNext
<1> QED
  BY <1>1, <1>2, <1>3 DEF Next

(* Until it calls Exit(), a work function is never run by two threads at once. *)
THEOREM OneWorkerAtATime == SafeSpec => []OneWorker
<1>1. JInv => OneWorker
  BY DEF JInv, Rounds, OneWorker
<1>2. JInv /\ [Next]_vars => JInv'
  BY NextJInv
<1> QED
  BY InitJInv, <1>1, <1>2, PTL DEF SafeSpec

(* Until an Exit(), the worker is gone when Close() returns: the semaphore has no *)
(* other permit to give than the one that worker left as its last act.           *)
THEOREM CloseIsJoin == SafeSpec => CloseJoins
<1> DEFINE Joined == \A c \in Caller : callerPc'[c] = "closed" /\ callerPc[c] # "closed"
                                         => exited \/ Live' = {}
<1>1. JInv /\ [Next]_vars => [Joined]_vars
  <2> SUFFICES ASSUME JInv, Next, ~exited PROVE Joined
    BY DEF vars
  <2> USE IdentityAssumption DEF JInv, IInv, TypeOK, Rounds, Live
  <2>1. ASSUME NEW c \in Caller, CallerNext(c) PROVE Joined
    <3>1. CASE CloseNop(c)
      BY <3>1 DEF CloseNop
    <3>2. CASE CloseReturn(c)
      BY <3>2 DEF CloseReturn, Sem!Acquire
    <3>3. CASE Start(c) \/ StartNop(c) \/ CloseStop(c) \/ CloseSleep(c)
      BY <3>3 DEF Start, StartNop, CloseStop, CloseSleep
    <3> QED
      BY <2>1, <3>1, <3>2, <3>3 DEF CallerNext
  <2>2. ASSUME NEW w \in Worker, WorkerNext(w) PROVE Joined
    BY <2>2 DEF WorkerNext, RunTest, RunBody, CallExit, ExitLocked, FinishWork
  <2> QED
    BY <2>1, <2>2 DEF Next
<1>2. JInv /\ [Next]_vars => JInv'
  BY NextJInv
<1> QED
  BY InitJInv, <1>1, <1>2, PTL DEF SafeSpec, CloseJoins
=================================================================================
