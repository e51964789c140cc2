-------------------------------- MODULE CellTask --------------------------------
(* Server/Cell_Task.h: CellTaskServer, one worker thread that runs the tasks that *)
(* other threads add. addTask() and the move from _taskBuf to _tasks hold _mutex; *)
(* the test of _taskBuf and, after the loop, its traversal and clear() do not.    *)
(* Start() and Close() are those of Cell_Thread, called by one owner; the worker  *)
(* never calls Exit().                                                            *)
EXTENDS Naturals, Sequences, FiniteSets

CONSTANT MaxTask   \* bound of the model: number of tasks added

ASSUME MaxTaskAssumption == MaxTask \in Nat

VARIABLES added,    \* number of addTask() calls; the tasks are 1..added
          taskBuf,  \* _taskBuf
          tasks,    \* _tasks
          cur,      \* number of elements a range-for loop has gone through
          done,     \* history: the tasks that ran
          late,     \* history: the tasks added during a Close()
          isRun,    \* _isRun of _thread
          pc,       \* control point of the worker, "none" when there is none
          closer    \* the owner: "idle", "closing" inside Close(), "closed" after it

queueVars == <<added, taskBuf, tasks, cur, done, late>>
threadVars == <<isRun, pc, closer>>
vars == <<queueVars, threadVars>>

Init == /\ added = 0
        /\ taskBuf = <<>> /\ tasks = <<>>
        /\ cur = 0
        /\ done = <<>>
        /\ late = {}
        /\ isRun = FALSE
        /\ pc = "none"
        /\ closer = "idle"

-------------------------------------------------------------------------------
(* Faulty variants used as mutants. *)

MoveWithoutClear ==
  /\ pc = "move"
  /\ tasks' = tasks \o taskBuf
  /\ pc' = "batch"
  /\ UNCHANGED <<added, taskBuf, cur, done, late, isRun, closer>>

CheckInverted ==
  /\ pc = "check"
  /\ pc' = IF taskBuf = <<>> THEN "move" ELSE "batch"
  /\ UNCHANGED <<queueVars, isRun, closer>>

CloseReturnEarly ==
  /\ closer = "closing"
  /\ closer' = "closed"
  /\ UNCHANGED <<queueVars, isRun, pc>>

-------------------------------------------------------------------------------
(* Start() on a stopped server. *)
Start ==
  /\ closer # "closing"
  /\ ~isRun
  /\ isRun' = TRUE
  /\ pc' = "test"
  /\ closer' = "idle"
  /\ UNCHANGED queueVars

(* Close(): stops the thread and waits for its end, or finds it stopped. *)
CloseStop ==
  /\ closer # "closing"
  /\ isRun
  /\ isRun' = FALSE
  /\ closer' = "closing"
  /\ UNCHANGED <<queueVars, pc>>

CloseReturn ==
  /\ closer = "closing"
  /\ pc = "none"
  /\ closer' = "closed"
  /\ UNCHANGED <<queueVars, isRun, pc>>

CloseNop ==
  /\ closer # "closing"
  /\ ~isRun
  /\ closer' = "closed"
  /\ UNCHANGED <<queueVars, isRun, pc>>

(* addTask(), by any thread; the worker may be inside an unlocked traversal. *)
AddTask ==
  /\ added < MaxTask
  /\ added' = added + 1
  /\ taskBuf' = Append(taskBuf, added')
  /\ late' = IF closer = "closing" THEN late \cup {added'} ELSE late
  /\ UNCHANGED <<tasks, cur, done, threadVars>>

(* The worker: onRun(), from its test of isRun(). *)
Test ==
  /\ pc = "test"
  /\ pc' = IF isRun THEN "check" ELSE "drain"
  /\ UNCHANGED <<queueVars, isRun, closer>>

(* The unlocked test of _taskBuf.empty(). *)
Check ==
  /\ pc = "check"
  /\ pc' = IF taskBuf # <<>> THEN "move" ELSE "batch"
  /\ UNCHANGED <<queueVars, isRun, closer>>

(* The locked move. *)
Move ==
  /\ pc = "move"
  /\ tasks' = tasks \o taskBuf
  /\ taskBuf' = <<>>
  /\ pc' = "batch"
  /\ UNCHANGED <<added, cur, done, late, isRun, closer>>

(* Nothing to do: sleep and start again. *)
Batch ==
  /\ pc = "batch"
  /\ pc' = IF tasks = <<>> THEN "test" ELSE "exec"
  /\ UNCHANGED <<queueVars, isRun, closer>>

RunTask ==
  /\ pc = "exec"
  /\ cur < Len(tasks)
  /\ done' = Append(done, tasks[cur + 1])
  /\ cur' = cur + 1
  /\ UNCHANGED <<added, taskBuf, tasks, late, threadVars>>

EndBatch ==
  /\ pc = "exec"
  /\ cur = Len(tasks)
  /\ tasks' = <<>>
  /\ cur' = 0
  /\ pc' = "test"
  /\ UNCHANGED <<added, taskBuf, done, late, isRun, closer>>

(* After the loop, without the lock: what _taskBuf holds is run in place. An     *)
(* addTask() meanwhile is a data race on the list; the traversal sees the new    *)
(* element or not, according to when it reaches the end.                         *)
DrainTask ==
  /\ pc = "drain"
  /\ cur < Len(taskBuf)
  /\ done' = Append(done, taskBuf[cur + 1])
  /\ cur' = cur + 1
  /\ UNCHANGED <<added, taskBuf, tasks, late, threadVars>>

EndDrain ==
  /\ pc = "drain"
  /\ cur = Len(taskBuf)
  /\ pc' = "clear"
  /\ UNCHANGED <<queueVars, isRun, closer>>

(* _taskBuf.clear() takes along what was added since the traversal ended. *)
ClearBuf ==
  /\ pc = "clear"
  /\ taskBuf' = <<>>
  /\ cur' = 0
  /\ pc' = "finish"
  /\ UNCHANGED <<added, tasks, done, late, isRun, closer>>

(* onRun() returns and OnWork() posts the semaphore. *)
Finish ==
  /\ pc = "finish"
  /\ pc' = "none"
  /\ UNCHANGED <<queueVars, isRun, closer>>

OwnerNext == Start \/ CloseStop \/ CloseReturn \/ CloseNop

WorkerNext == \/ Test \/ Check \/ Move \/ Batch \/ RunTask \/ EndBatch
              \/ DrainTask \/ EndDrain \/ ClearBuf \/ Finish

Next == OwnerNext \/ AddTask \/ WorkerNext

SafeSpec == Init /\ [][Next]_vars

(* The operating system schedules the worker, a task returns, and an owner that *)
(* waits in Close() resumes. Nobody is obliged to add, start or close.          *)
Spec == SafeSpec /\ WF_vars(WorkerNext) /\ WF_vars(CloseReturn)

-------------------------------------------------------------------------------
(* The tasks still to run: the part of _tasks, or of _taskBuf after the loop, not *)
(* gone through yet, and what follows.                                           *)
Remaining == SubSeq(tasks \o taskBuf, cur + 1, Len(tasks) + Len(taskBuf))

Elements(s) == {s[i] : i \in 1..Len(s)}

(* A task added to a running server runs, even if a Close() comes in between. *)
TaskRuns ==
  \A n \in 1..MaxTask :
    isRun /\ n \in Elements(Remaining) ~> n \in Elements(done)

(* The two lists and their unlocked reads are a first-in first-out queue: tasks   *)
(* run in the order in which they were added, each once, and when Close() returns *)
(* all that was added before it was called has run.                              *)
Queue == INSTANCE TaskQueue WITH queue <- Remaining, closing <- closer = "closing"

QueueSpec == Queue!Spec

(* The owner and the worker use Cell_Thread as that module describes it. *)
Thread == INSTANCE CellThread
            WITH Caller <- {"owner"}, Worker <- {"worker"},
                 exited <- FALSE, MaxPermits <- 1,
                 mutex <- IF closer = "closing" THEN "owner" ELSE "nobody",
                 permits <- IF closer = "closing" /\ pc = "none" THEN 1 ELSE 0,
                 waiting <- {},
                 callerPc <- [c \in {"owner"} |-> closer],
                 workerPc <- [w \in {"worker"} |->
                                CASE pc = "none" -> "unborn"
                                  [] pc = "test" -> "test"
                                  [] pc \in {"drain", "clear", "finish"} -> "destroy"
                                  [] OTHER -> "body"]

ThreadSpec == Thread!SafeSpec
=================================================================================
