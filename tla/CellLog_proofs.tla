------------------------------ MODULE CellLog_proofs ------------------------------
(* Proofs about CellLog and the CellTask under it, for every number of tasks and  *)
(* of files. The invariant of the log says of a message whose file is open that   *)
(* the pointer still names that file: a file is closed before its pointer         *)
(* changes, and no file is opened twice. The second part shows that the task      *)
(* server implements a queue and uses its thread as CellThread describes.         *)
EXTENDS CellLog, SequenceTheorems, FiniteSetTheorems, TLAPS

Tasks == 1..added

(* The queued tasks are numbers of messages. *)
QueueOK ==
  /\ added \in Nat /\ cur \in Nat
  /\ tasks \in Seq(Tasks) /\ taskBuf \in Seq(Tasks)

MessageOK ==
  /\ logPc \in {"none", "new", "idle", "close", "null", "open", "report",
                "destroy", "gone", "crashed"}
  /\ level \in Level
  /\ opened \in Nat
  /\ open \subseteq 1..opened /\ replaced \subseteq 1..opened
  /\ file \in [Level -> 0..opened]
  /\ logged \in Seq([level : Level, target : 1..opened])
  /\ seen \in [User -> [level : Level, target : 0..opened]]
  /\ InLog => Len(logged) = added

(* The end: once the files are closed, the worker is gone. *)
Ends ==
  /\ closer \in {"idle", "closing", "closed"}
  /\ closer = "idle" => isRun \/ pc = "none"
  /\ closer = "closing" => ~isRun
  /\ closer = "closed" => pc = "none" /\ ~isRun
  /\ logPc \in {"gone", "crashed"} => closer = "closed"

(* A pointer names an open file, but for the one set...Path() is about to forget. *)
Files ==
  /\ \A l \in Level : \/ file[l] = Null \/ file[l] \in open
                      \/ logPc \in {"gone", "crashed"}
                      \/ logPc = "null" /\ l = level /\ file[l] \in replaced
  /\ logPc = "close" => file[level] # Null
  /\ logPc = "null" => file[level] \notin open
  /\ logPc = "open" => file[level] = Null
  /\ file["warning"] = file["error"] => file["warning"] = Null

(* What is known of a message that was queued, or whose Info() has seen its file. *)
Known(m) ==
  /\ m.target \in open => file[m.level] = m.target
  /\ logPc \notin {"gone", "crashed"} => m.target \in open \cup replaced

Targets ==
  /\ \A n \in 1..Len(logged) : Known(logged[n])
  /\ \A u \in User : seen[u] # NoCall => InLog /\ Known(seen[u]) /\ seen[u].target # Null

History ==
  /\ apart = {}
  /\ \A n \in astray : n \in 1..Len(logged) /\ logged[n].target \in replaced

IInv == QueueOK /\ MessageOK /\ Ends /\ Files /\ Targets /\ History

LEMMA InitIInv == LogInit => IInv
<1> SUFFICES ASSUME LogInit PROVE IInv
  OBVIOUS
<1> USE DEF LogInit, Init, Level, Null, NoCall, InLog
<1>1. QueueOK /\ MessageOK
  BY DEF QueueOK, MessageOK, Tasks
<1>2. Ends /\ Files /\ Targets /\ History
  BY DEF Ends, Files, Targets, Known, History
<1> QED
  BY <1>1, <1>2 DEF IInv

-------------------------------------------------------------------------------
(* The steps of the task server. *)

LEMMA AddedQueue ==
  ASSUME QueueOK, AddTask
  PROVE  QueueOK'
<1>1. added' \in Nat /\ added' \in Tasks' /\ Tasks \subseteq Tasks'
  BY DEF QueueOK, AddTask, Tasks
<1>2. tasks \in Seq(Tasks') /\ taskBuf \in Seq(Tasks')
  BY <1>1, SeqMonotonic DEF QueueOK
<1>3. Append(taskBuf, added') \in Seq(Tasks')
  BY <1>1, <1>2
<1> QED
  BY <1>1, <1>2, <1>3 DEF QueueOK, AddTask

LEMMA WorkerQueue ==
  ASSUME QueueOK, WorkerNext
  PROVE  QueueOK' /\ added' = added
<1> USE DEF QueueOK, Tasks
<1>1. CASE Test \/ Check \/ Batch \/ EndDrain \/ Finish
  BY <1>1 DEF Test, Check, Batch, EndDrain, Finish, queueVars
<1>2. CASE Move
  BY <1>2 DEF Move
<1>3. CASE RunTask \/ DrainTask
  BY <1>3 DEF RunTask, DrainTask, threadVars
<1>4. CASE EndBatch \/ ClearBuf
  <2>1. <<>> \in Seq(1..added)
    OBVIOUS
  <2>2. added' = added /\ cur' = 0
    BY <1>4 DEF EndBatch, ClearBuf
  <2>3. tasks' \in {tasks, <<>>} /\ taskBuf' \in {taskBuf, <<>>}
    BY <1>4 DEF EndBatch, ClearBuf
  <2> QED
    BY <2>1, <2>2, <2>3
<1> QED
  BY <1>1, <1>2, <1>3, <1>4 DEF WorkerNext

LEMMA WorkerEnds ==
  ASSUME Ends, WorkerNext, UNCHANGED logPc
  PROVE  Ends'
BY DEF Ends, WorkerNext, Test, Check, Move, Batch, RunTask, EndBatch, DrainTask, EndDrain,
       ClearBuf, Finish, queueVars, threadVars

LEMMA OwnerQueue ==
  ASSUME QueueOK, OwnerNext
  PROVE  QueueOK' /\ added' = added
BY DEF QueueOK, Tasks, OwnerNext, Start, CloseStop, CloseReturn, CloseNop, queueVars

LEMMA OwnerEnds ==
  ASSUME Ends, OwnerNext, UNCHANGED logPc, logPc \notin {"gone", "crashed"}
  PROVE  Ends'
BY DEF Ends, OwnerNext, Start, CloseStop, CloseReturn, CloseNop, queueVars

LEMMA AddedEnds ==
  ASSUME Ends, AddTask, logPc' \notin {"gone", "crashed"}
  PROVE  Ends'
BY DEF Ends, AddTask, threadVars
-------------------------------------------------------------------------------
(* A message is queued, by Info() or by set...Path(). *)
LEMMA Queued ==
  ASSUME IInv, NEW m \in [level : Level, target : 1..opened], Known(m), QueueTask(m),
         logPc \notin {"none", "gone", "crashed"},
         logPc' \notin {"none", "gone", "crashed"},
         \A u \in User : seen'[u] = seen[u] \/ seen'[u] = NoCall,
         UNCHANGED <<file, opened, open, replaced, astray, apart>>
  PROVE  /\ QueueOK'
         /\ logged' \in Seq([level : Level, target : 1..opened]) /\ Len(logged') = added'
         /\ Targets' /\ History'
<1>1. QueueOK' /\ added' = added + 1
  BY AddedQueue DEF IInv, QueueTask, AddTask
<1>3. /\ logged \in Seq([level : Level, target : 1..opened]) /\ Len(logged) = added
      /\ logged' = Append(logged, m)
  BY DEF IInv, MessageOK, InLog, QueueTask
<1>4. /\ logged' \in Seq([level : Level, target : 1..opened]) /\ Len(logged') = added'
      /\ \A n \in 1..Len(logged) : logged'[n] = logged[n]
      /\ logged'[Len(logged')] = m
      /\ \A n \in 1..Len(logged') : n \in 1..Len(logged) \/ n = Len(logged')
      /\ \A n \in 1..Len(logged) : n \in 1..Len(logged')
  BY <1>1, <1>3
<1>5. ASSUME NEW x, Known(x) PROVE Known(x)'
  BY <1>5 DEF Known
<1>6. Targets'
  <2>1. \A n \in 1..Len(logged) : Known(logged[n])
    BY DEF IInv, Targets
  <2>2. ASSUME NEW n \in 1..Len(logged') PROVE Known(logged'[n])
    BY <1>4, <2>1
  <2>3. \A n \in 1..Len(logged') : Known(logged[n])'
    BY <2>2 DEF Known
  <2>4. \A u \in User : seen'[u] # NoCall => InLog' /\ Known(seen[u])' /\ seen'[u].target # Null
    BY DEF IInv, Targets, Known, InLog
  <2> QED
    BY <2>3, <2>4 DEF Targets
<1>7. History'
  BY <1>4 DEF IInv, History
<1> QED
  BY <1>1, <1>4, <1>6, <1>7

LEMMA OwnErrorKeeps ==
  ASSUME IInv, OwnError, logPc \notin {"none", "new", "gone", "crashed"},
         UNCHANGED <<file, opened, open, replaced>>, logPc' \notin {"none", "gone", "crashed"}
  PROVE  /\ QueueOK' /\ Ends'
         /\ logged' \in Seq([level : Level, target : 1..opened]) /\ Len(logged') = added'
         /\ Targets' /\ History'
<1>1. CASE file["error"] # Null /\ QueueTask([level |-> "error", target |-> file["error"]])
  <2> DEFINE m == [level |-> "error", target |-> file["error"]]
  <2>1. m \in [level : Level, target : 1..opened] /\ m.target = file["error"]
    BY <1>1 DEF IInv, MessageOK, Level, Null
  <2>2. Known(m)
    BY <1>1 DEF IInv, Files, Known, Level, Null
  <2>3. seen' = seen /\ UNCHANGED <<astray, apart>> /\ QueueTask(m)
    BY <1>1 DEF OwnError
  <2>4. AddTask
    BY <1>1 DEF QueueTask
  <2> HIDE DEF m
  <2> QED
    BY <2>1, <2>2, <2>3, <2>4, Queued, AddedEnds DEF IInv
<1>2. CASE UNCHANGED <<vars, logged>>
  BY <1>2 DEF OwnError, IInv, QueueOK, Tasks, Ends, MessageOK, InLog, Targets, Known, History,
              vars, queueVars, threadVars
<1> QED
  BY <1>1, <1>2 DEF OwnError

(* A log task writes to its file, or finds that a set...Path() closed it. *)
LEMMA Written ==
  ASSUME IInv, InLog, Running, Write, UNCHANGED <<logged, replaced>>
  PROVE  History'
<1>1. pc # "none"
  BY DEF Running
<1>2. logPc \notin {"gone", "crashed"}
  BY <1>1 DEF IInv, Ends
<1>3. Current \in 1..Len(logged)
  <2>1. Current \in Tasks
    BY ElementOfSeq DEF IInv, QueueOK, Running, Current, Tasks
  <2> QED
    BY <2>1 DEF IInv, MessageOK, Tasks
<1>4. logged[Current].target \in open \cup replaced
  BY <1>2, <1>3 DEF IInv, Targets, Known
<1>5. logged[Current].target \in open => file[logged[Current].level] = logged[Current].target
  BY <1>3 DEF IInv, Targets, Known
<1> HIDE DEF Current
<1> QED
  BY <1>3, <1>4, <1>5 DEF Write, IInv, History
-------------------------------------------------------------------------------
(* Steps that leave the log alone. *)
LEMMA Outside ==
  ASSUME IInv, QueueOK', Ends', UNCHANGED logVars, ~InLog \/ added' = added
  PROVE  IInv'
BY DEF IInv, MessageOK, InLog, Files, Targets, Known, History, logVars, fileVars, taskVars

LEMMA Unchanged == IInv /\ UNCHANGED logAll => IInv'
<1> SUFFICES ASSUME IInv, UNCHANGED logAll PROVE IInv'
  OBVIOUS
<1>1. QueueOK' /\ Ends'
  BY DEF IInv, QueueOK, Tasks, Ends, logAll, vars, queueVars, threadVars, logVars, fileVars
<1>2. UNCHANGED logVars /\ added' = added
  BY DEF logAll, vars, queueVars
<1> QED
  BY <1>1, <1>2, Outside

LEMMA LoggedTypes ==
  IInv => \A n \in 1..Len(logged) : logged[n].level \in Level /\ logged[n].target \in 1..opened
<1> SUFFICES ASSUME IInv, NEW n \in 1..Len(logged)
             PROVE  logged[n].level \in Level /\ logged[n].target \in 1..opened
  OBVIOUS
<1>1. logged \in Seq([level : Level, target : 1..opened])
  BY DEF IInv, MessageOK
<1>2. logged[n] \in [level : Level, target : 1..opened]
  BY <1>1, ElementOfSeq
<1> QED
  BY <1>2

(* A step that leaves queued messages and callers alone, and what is known of any. *)
LEMMA TargetsKept ==
  ASSUME IInv, UNCHANGED <<logged, seen>>, InLog => InLog',
         ASSUME NEW m, m.level \in Level, m.target \in 1..opened, Known(m) PROVE Known(m)'
  PROVE  Targets'
<1>1. \A n \in 1..Len(logged) : Known(logged[n])'
  BY LoggedTypes DEF IInv, Targets
<1>2. ASSUME NEW u \in User, seen[u] # NoCall PROVE Known(seen[u])' /\ seen[u].target # Null /\ InLog'
  <2>1. seen[u] \in [level : Level, target : 0..opened] /\ opened \in Nat
    BY DEF IInv, MessageOK
  <2>2. InLog /\ Known(seen[u]) /\ seen[u].target # Null
    BY <1>2 DEF IInv, Targets
  <2>3. seen[u].level \in Level /\ seen[u].target \in 1..opened
    BY <2>1, <2>2 DEF Null
  <2> QED
    BY <2>2, <2>3
<1> QED
  BY <1>1, <1>2 DEF Targets, Known

LEMMA NextIInv == IInv /\ [LogNext]_logAll => IInv'
<1> SUFFICES ASSUME IInv, LogNext PROVE IInv'
  BY Unchanged
<1>1. CASE ~InLog /\ OwnerNext /\ UNCHANGED logVars
  BY <1>1, OwnerQueue, OwnerEnds, Outside DEF IInv, InLog, logVars, fileVars
<1>2. CASE ~InLog /\ AddTask /\ UNCHANGED logVars
  BY <1>2, AddedQueue, AddedEnds, Outside DEF IInv, InLog, logVars, fileVars
<1>3. CASE Construct
  <2>1. QueueOK' /\ added' = added
    BY <1>3, OwnerQueue DEF IInv, Construct, OwnerNext
  <2>2. Ends'
    BY <1>3 DEF IInv, Ends, Construct, Moves, Start
  <2> QED
    BY <1>3, <2>1, <2>2
       DEF IInv, Construct, Moves, MessageOK, InLog, Files, Targets, Known, History, taskVars
<1>4. ASSUME NEW u \in User, NEW l \in Level, Info(u, l) PROVE IInv'
  <2> DEFINE m == [level |-> l, target |-> file[l]]
  <2>1. /\ seen' = [seen EXCEPT ![u] = m] /\ file[l] # Null
        /\ logPc \notin {"none", "new", "gone", "crashed"}
        /\ UNCHANGED <<fileVars, logged, headed, astray, apart, vars>>
    BY <1>4 DEF Info
  <2>2. m.target # Null /\ m \in [level : Level, target : 0..opened] /\ m.level = l /\ m.target = file[l]
    BY <2>1 DEF IInv, MessageOK
  <2>3. Known(m)
    BY <2>1, <2>2 DEF IInv, Files, Known
  <2> HIDE DEF m
  <2>4. MessageOK' /\ \A v \in User : seen'[v] = IF v = u THEN m ELSE seen[v]
    BY <2>1, <2>2 DEF IInv, MessageOK, InLog, fileVars, vars, queueVars
  <2>5. Targets'
    BY <2>1, <2>2, <2>3, <2>4 DEF IInv, Targets, Known, InLog, fileVars
  <2>6. QueueOK' /\ Ends' /\ Files' /\ History'
    BY <2>1 DEF IInv, QueueOK, Tasks, Ends, Files, History, fileVars, vars, queueVars, threadVars
  <2> QED
    BY <2>4, <2>5, <2>6 DEF IInv
<1>16. ASSUME NEW u \in User, InfoTask(u) PROVE IInv'
  <2> DEFINE m == seen[u]
  <2>1. /\ m # NoCall /\ QueueTask(m) /\ seen' = [seen EXCEPT ![u] = NoCall]
        /\ logPc \notin {"gone", "crashed"}
        /\ UNCHANGED <<fileVars, headed, astray, apart>>
    BY <1>16 DEF InfoTask
  <2>2. /\ seen \in [User -> [level : Level, target : 0..opened]]
        /\ m \in [level : Level, target : 1..opened] /\ Known(m)
    BY <2>1 DEF IInv, MessageOK, Targets, Null
  <2>3. NoCall \in [level : Level, target : 0..opened]
    BY DEF IInv, MessageOK, NoCall, Level, Null
  <2>4. seen' \in [User -> [level : Level, target : 0..opened]]
        /\ \A v \in User : seen'[v] = seen[v] \/ seen'[v] = NoCall
    BY <2>1, <2>2, <2>3
  <2> HIDE DEF m
  <2>5. InLog
    BY <1>16 DEF InfoTask, IInv, Targets
  <2>6. /\ QueueOK'
        /\ logged' \in Seq([level : Level, target : 1..opened]) /\ Len(logged') = added'
        /\ Targets' /\ History'
    BY <2>1, <2>2, <2>4, <2>5, Queued DEF fileVars, InLog
  <2>7. Ends'
    BY <2>1, AddedEnds DEF IInv, QueueTask, fileVars
  <2> QED
    BY <2>1, <2>4, <2>6, <2>7 DEF IInv, MessageOK, Files, fileVars
<1>5. ASSUME NEW l \in Level, SetPath(l) PROVE IInv'
  <2>1. /\ logPc = "idle" /\ logPc' \in {"close", "open"} /\ level' = l
        /\ IF logPc' = "open" THEN file[l] = Null ELSE file[l] # Null
        /\ UNCHANGED <<file, opened, open, replaced>>
    BY <1>5 DEF SetPath
  <2>2. CASE OwnError
    <3>1. /\ QueueOK' /\ Ends'
          /\ logged' \in Seq([level : Level, target : 1..opened]) /\ Len(logged') = added'
          /\ Targets' /\ History'
      BY <2>1, <2>2, OwnErrorKeeps
    <3> QED
      BY <2>1, <2>2, <3>1 DEF OwnError, IInv, MessageOK, Files
  <2>3. CASE UNCHANGED <<vars, taskVars>>
    BY <2>1, <2>3 DEF IInv, QueueOK, Tasks, MessageOK, InLog, Ends, Files, Targets, Known, History,
       vars, queueVars, threadVars, taskVars
  <2> QED
    BY <1>5, <2>2, <2>3 DEF SetPath
<1>6. CASE PathClose
  <2>1. QueueOK' /\ Ends' /\ logged' = logged /\ seen' = seen
    BY <1>6 DEF PathClose, Moves, IInv, QueueOK, Tasks, Ends, vars, queueVars, threadVars, taskVars
  <2>2. MessageOK'
    <3>1. level \in Level /\ file[level] \in 1..opened
      BY <1>6 DEF PathClose, Moves, IInv, MessageOK, Files, Null
    <3>2. open' \subseteq 1..opened' /\ replaced' \subseteq 1..opened'
      BY <1>6, <3>1 DEF PathClose, IInv, MessageOK
    <3> QED
      BY <1>6, <3>2 DEF PathClose, Moves, IInv, MessageOK, InLog, vars, queueVars, taskVars
  <2>3. Files'
    BY <1>6 DEF PathClose, Moves, IInv, MessageOK, Files, Level, Null
  <2>4. Targets'
    BY <1>6, <2>1, TargetsKept DEF PathClose, Moves, IInv, Files, Known, InLog, Level, Null
  <2>5. History'
    BY <1>6, <2>1 DEF PathClose, Moves, IInv, History, taskVars
  <2> QED
    BY <2>1, <2>2, <2>3, <2>4, <2>5 DEF IInv
<1>7. CASE PathNull
  <2>1. QueueOK' /\ Ends' /\ logged' = logged /\ seen' = seen
    BY <1>7 DEF PathNull, Moves, IInv, QueueOK, Tasks, Ends, vars, queueVars, threadVars, taskVars
  <2>2. MessageOK'
    BY <1>7 DEF PathNull, Moves, IInv, MessageOK, InLog, Level, Null, vars, queueVars, taskVars
  <2>3. Files'
    BY <1>7 DEF PathNull, Moves, IInv, MessageOK, Files, Level, Null
  <2>4. Targets'
    <3>1. /\ logPc = "null" /\ logPc' = "open"
          /\ \A l \in Level : l # level => file'[l] = file[l]
          /\ UNCHANGED <<open, replaced>>
      BY <1>7 DEF PathNull, Moves, IInv, MessageOK
    <3>2. file[level] \notin open
      BY <3>1 DEF IInv, Files
    <3> QED
      BY <2>1, <3>1, <3>2, TargetsKept DEF Known, InLog
  <2>5. History'
    BY <1>7, <2>1 DEF PathNull, Moves, IInv, History, taskVars
  <2> QED
    BY <2>1, <2>2, <2>3, <2>4, <2>5 DEF IInv
<1>8. CASE PathOpen
  <2>1. QueueOK' /\ Ends' /\ logged' = logged /\ seen' = seen
    BY <1>8 DEF PathOpen, Moves, IInv, QueueOK, Tasks, Ends, vars, queueVars, threadVars, taskVars
  <2>2. MessageOK'
    <3>1. /\ opened' \in Nat /\ 1..opened \subseteq 1..opened'
          /\ open' \subseteq 1..opened' /\ replaced' \subseteq 1..opened'
      <4>1. opened' \in {opened, opened + 1} /\ open' \subseteq open \cup {opened'}
            /\ (opened' = opened => open' = open) /\ replaced' = replaced
        BY <1>8 DEF PathOpen, IInv, MessageOK
      <4>2. opened \in Nat /\ open \subseteq 1..opened /\ replaced \subseteq 1..opened
        BY DEF IInv, MessageOK
      <4>3. 1..opened \subseteq 1..opened' /\ (opened' = opened + 1 => opened' \in 1..opened')
        BY <4>1, <4>2
      <4>4. opened + 1 # opened
        BY <4>2
      <4> QED
        BY <4>1, <4>2, <4>3, <4>4
    <3>2. file' \in [Level -> 0..opened']
      BY <1>8 DEF PathOpen, IInv, MessageOK, Null
    <3>3. logged' \in Seq([level : Level, target : 1..opened'])
      <4>1. [level : Level, target : 1..opened] \subseteq [level : Level, target : 1..opened']
        BY <3>1
      <4>2. logged \in Seq([level : Level, target : 1..opened])
        BY DEF IInv, MessageOK
      <4> QED
        BY <2>1, <4>1, <4>2, SeqMonotonic
    <3>4. seen' \in [User -> [level : Level, target : 0..opened']]
      <4>1. opened \in Nat /\ opened' \in Nat /\ opened <= opened'
        BY <1>8 DEF PathOpen, IInv, MessageOK
      <4>2. 0..opened \subseteq 0..opened'
        BY <4>1
      <4>3. [level : Level, target : 0..opened] \subseteq [level : Level, target : 0..opened']
        BY <4>2
      <4> QED
        BY <2>1, <4>3 DEF IInv, MessageOK
    <3> QED
      BY <1>8, <3>1, <3>2, <3>3, <3>4 DEF PathOpen, Moves, IInv, MessageOK, InLog, vars, queueVars, taskVars
  <2>3. Files'
    BY <1>8 DEF PathOpen, Moves, IInv, MessageOK, Files, Level, Null
  <2>4. Targets'
    <3>1. /\ logPc = "open" /\ logPc' = "report" /\ file[level] = 0 /\ replaced' = replaced
          /\ \A l \in Level : l # level => file'[l] = file[l]
      BY <1>8 DEF PathOpen, Moves, IInv, MessageOK, Files, Null
    <3>2. open' = open \/ open' = open \cup {opened + 1}
      BY <1>8 DEF PathOpen
    <3>3. opened \in Nat /\ opened + 1 \notin 1..opened /\ 0 \notin 1..opened
      BY DEF IInv, MessageOK
    <3>4. ASSUME NEW m, m.level \in Level, m.target \in 1..opened, Known(m) PROVE Known(m)'
      BY <3>1, <3>2, <3>3, <3>4 DEF Known
    <3> QED
      BY <2>1, <3>1, <3>4, TargetsKept DEF InLog
  <2>5. History'
    BY <1>8, <2>1 DEF PathOpen, Moves, IInv, History, taskVars
  <2> QED
    BY <2>1, <2>2, <2>3, <2>4, <2>5 DEF IInv
<1>9. CASE PathReport
  <2>1. /\ logPc = "report" /\ logPc' = "idle" /\ level' = "warning"
        /\ UNCHANGED <<file, opened, open, replaced>>
    BY <1>9 DEF PathReport, Moves
  <2>2. CASE OwnError
    <3>1. /\ QueueOK' /\ Ends'
          /\ logged' \in Seq([level : Level, target : 1..opened]) /\ Len(logged') = added'
          /\ Targets' /\ History'
      BY <2>1, <2>2, OwnErrorKeeps
    <3> QED
      BY <2>1, <2>2, <3>1 DEF OwnError, IInv, MessageOK, Files, Level
  <2>3. CASE UNCHANGED <<vars, taskVars>>
    BY <2>1, <2>3 DEF IInv, QueueOK, Tasks, MessageOK, InLog, Ends, Files, Targets, Known, History,
       Level, vars, queueVars, threadVars, taskVars
  <2> QED
    BY <1>9, <2>2, <2>3 DEF PathReport
<1>10. CASE Destroy
  BY <1>10 DEF Destroy, CloseStop, IInv, QueueOK, Tasks, MessageOK, InLog, Ends, Files, Targets,
     Known, History, queueVars, taskVars
<1>11. CASE DestroyJoined
  BY <1>11, Outside DEF DestroyJoined, CloseReturn, IInv, QueueOK, Tasks, Ends,
     queueVars, logVars, fileVars
<1>12. CASE DestroyFiles
  <2>1. QueueOK' /\ Ends' /\ logged' = logged /\ seen' = seen
    BY <1>12 DEF DestroyFiles, IInv, QueueOK, Tasks, Ends, vars, queueVars, threadVars, taskVars
  <2>2. MessageOK'
    <3>1. logPc' \in {"gone", "crashed"} /\ open' \subseteq open
      BY <1>12 DEF DestroyFiles
    <3>2. file' \in [Level -> 0..opened']
      BY <1>12 DEF DestroyFiles, IInv, MessageOK, Null
    <3> QED
      BY <1>12, <3>1, <3>2 DEF DestroyFiles, IInv, MessageOK, InLog, vars, queueVars, taskVars
  <2>3. Files'
    BY <1>12 DEF DestroyFiles, IInv, MessageOK, Files, Level, Null
  <2>4. Targets'
    BY <1>12, <2>1, TargetsKept DEF DestroyFiles, IInv, Files, Known, InLog, Level, Null
  <2>5. History'
    BY <1>12, <2>1 DEF DestroyFiles, IInv, History, taskVars
  <2> QED
    BY <2>1, <2>2, <2>3, <2>4, <2>5 DEF IInv
<1>13. CASE WriteHead
  <2>1. History'
    BY <1>13, Written DEF WriteHead, fileVars
  <2> QED
    BY <1>13, <2>1 DEF WriteHead, IInv, QueueOK, Tasks, MessageOK, InLog, Ends, Files, Targets, Known,
       vars, queueVars, threadVars, fileVars
<1>14. CASE WriteText
  <2>1. Running /\ WorkerNext
    BY <1>14 DEF WriteText, RunTask, DrainTask, Running, WorkerNext
  <2>2. QueueOK' /\ added' = added /\ Ends'
    BY <1>14, <2>1, WorkerQueue, WorkerEnds DEF WriteText, IInv, fileVars
  <2>3. History'
    BY <1>14, <2>1, Written DEF WriteText, fileVars
  <2> QED
    BY <1>14, <2>2, <2>3 DEF WriteText, IInv, MessageOK, InLog, Files, Targets, Known, fileVars
<1>15. CASE WorkerNext /\ UNCHANGED logVars
  BY <1>15, WorkerQueue, WorkerEnds, Outside DEF IInv, logVars, fileVars
<1> QED
  BY <1>1, <1>2, <1>3, <1>4, <1>5, <1>6, <1>7, <1>8, <1>9, <1>10, <1>11, <1>12, <1>13, <1>14, <1>15, <1>16
     DEF LogNext, Owner, LogWorker, WorkerNext

(* No message goes to another file while the one it was meant for is open, for    *)
(* every number of messages and of files.                                        *)
THEOREM MessagesStay == LogSpec => []MessageToItsFile
<1>1. IInv => MessageToItsFile
  BY DEF IInv, History, MessageToItsFile
<1> QED
  BY InitIInv, NextIInv, <1>1, PTL DEF LogSpec

(* Only messages whose file a set...Path() has closed are written to a closed     *)
(* file; the destructor never causes it.                                         *)
THEOREM DestructorIsSafe == LogSpec => []OnlyReplacedFilesMissed
<1>1. IInv => OnlyReplacedFilesMissed
  BY DEF IInv, History, OnlyReplacedFilesMissed
<1> QED
  BY InitIInv, NextIInv, <1>1, PTL DEF LogSpec

-------------------------------------------------------------------------------
(* The task server itself, in a Cell_Server or in the log, implements its two     *)
(* abstract specifications. The worker's control point says which of the lists is *)
(* empty and how far it has gone; after the unlocked traversal, _taskBuf holds    *)
(* nothing but what was added while Close() waited.                               *)
Scheduled ==
  /\ pc \in {"none", "test", "check", "move", "batch", "exec", "drain", "clear", "finish"}
  /\ closer \in {"idle", "closing", "closed"}
  /\ isRun \in BOOLEAN
  /\ isRun => pc # "none" /\ closer # "closing"
  /\ ~isRun /\ closer # "closing" => pc = "none"
  /\ pc \in {"drain", "clear", "finish"} => ~isRun

Position ==
  /\ pc \notin {"batch", "exec"} => tasks = <<>>
  /\ pc \notin {"exec", "drain", "clear"} => cur = 0
  /\ pc = "exec" => cur <= Len(tasks)
  /\ pc \in {"drain", "clear"} => cur <= Len(taskBuf)

Traversed ==
  \/ pc = "clear"
  \/ pc \in {"finish", "none"} /\ closer = "closing"

OnlyLate == Traversed => \A i \in cur + 1..Len(taskBuf) : taskBuf[i] \in late

TInv == QueueOK /\ Scheduled /\ Position /\ OnlyLate

LEMMA InitTInv == Init => TInv
<1> SUFFICES ASSUME Init PROVE TInv
  OBVIOUS
<1>1. <<>> \in Seq(1..0)
  OBVIOUS
<1>2. QueueOK
  BY <1>1 DEF Init, QueueOK, Tasks
<1>3. Len(taskBuf) = 0 /\ ~Traversed
  BY DEF Init, Traversed
<1> QED
  BY <1>2, <1>3 DEF Init, TInv, Scheduled, Position, OnlyLate

LEMMA Lengths ==
  ASSUME QueueOK
  PROVE  /\ Len(tasks) \in Nat /\ Len(taskBuf) \in Nat /\ cur \in Nat
         /\ Len(<<>>) = 0
         /\ taskBuf = <<>> <=> Len(taskBuf) = 0
         /\ tasks = <<>> <=> Len(tasks) = 0
BY LenProperties, EmptySeq DEF QueueOK

LEMMA NextTInv == TInv /\ [Next]_vars => TInv'
<1>1. ASSUME TInv, UNCHANGED vars PROVE TInv'
  BY <1>1 DEF TInv, QueueOK, Tasks, Scheduled, Position, Traversed, OnlyLate,
              vars, queueVars, threadVars
<1>2. ASSUME TInv, OwnerNext PROVE TInv'
  <2>1. QueueOK' /\ UNCHANGED queueVars
    BY <1>2, OwnerQueue DEF TInv, OwnerNext, Start, CloseStop, CloseReturn, CloseNop
  <2>2. Scheduled'
    <3>1. Scheduled
      BY <1>2 DEF TInv
    <3>2. CASE Start
      BY <3>1, <3>2 DEF Scheduled, Start
    <3>3. CASE CloseStop
      BY <3>1, <3>3 DEF Scheduled, CloseStop
    <3>4. CASE CloseReturn
      BY <3>1, <3>4 DEF Scheduled, CloseReturn
    <3>5. CASE CloseNop
      BY <3>1, <3>5 DEF Scheduled, CloseNop
    <3> QED
      BY <1>2, <3>2, <3>3, <3>4, <3>5 DEF OwnerNext
  <2>3. Position'
    BY <1>2, <2>1 DEF TInv, Scheduled, Position, OwnerNext, Start, CloseStop, CloseReturn, CloseNop,
                      queueVars
  <2>4. Traversed' => Traversed
    BY <1>2 DEF TInv, Scheduled, Traversed, OwnerNext, Start, CloseStop, CloseReturn, CloseNop
  <2>5. OnlyLate'
    BY <1>2, <2>1, <2>4 DEF TInv, OnlyLate, queueVars
  <2> QED
    BY <2>1, <2>2, <2>3, <2>5 DEF TInv
<1>3. ASSUME TInv, AddTask PROVE TInv'
  <2>1. QueueOK'
    BY <1>3, AddedQueue DEF TInv
  <2>2. /\ Len(taskBuf') = Len(taskBuf) + 1 /\ taskBuf'[Len(taskBuf) + 1] = added'
        /\ \A i \in 1..Len(taskBuf) : taskBuf'[i] = taskBuf[i]
        /\ Len(taskBuf) \in Nat /\ cur \in Nat
    BY <1>3, Lengths, AppendProperties DEF TInv, AddTask, QueueOK, Tasks
  <2>3. Scheduled' /\ UNCHANGED <<tasks, cur, pc, closer>>
    BY <1>3 DEF TInv, Scheduled, AddTask, threadVars
  <2>4. Position'
    BY <1>3, <2>2, <2>3 DEF TInv, Position
  <2>5. ASSUME Traversed', NEW i \in cur' + 1..Len(taskBuf') PROVE taskBuf'[i] \in late'
    <3>1. closer = "closing" /\ Traversed
      BY <2>3, <2>5, <1>3 DEF TInv, Scheduled, Traversed
    <3>2. late' = late \cup {added'}
      BY <1>3, <3>1 DEF AddTask
    <3>3. (i \in 1..Len(taskBuf) /\ i \in cur + 1..Len(taskBuf)) \/ i = Len(taskBuf) + 1
      BY <2>2, <2>3
    <3> QED
      BY <1>3, <2>2, <3>1, <3>2, <3>3 DEF TInv, OnlyLate
  <2>6. OnlyLate'
    BY <2>5 DEF OnlyLate
  <2> QED
    BY <2>1, <2>3, <2>4, <2>6 DEF TInv
<1>4. ASSUME TInv, WorkerNext PROVE TInv'
  <2>1. QueueOK' /\ QueueOK
    BY <1>4, WorkerQueue DEF TInv
  <2>2. /\ Len(tasks) \in Nat /\ Len(taskBuf) \in Nat /\ cur \in Nat
        /\ Len(<<>>) = 0
        /\ taskBuf = <<>> <=> Len(taskBuf) = 0
        /\ tasks = <<>> <=> Len(tasks) = 0
    BY <2>1, Lengths
  <2>3. CASE Test \/ Check
    BY <1>4, <2>1, <2>3 DEF TInv, Test, Check, Scheduled, Position, Traversed, OnlyLate, queueVars
  <2>4. CASE Move \/ Batch
    BY <1>4, <2>1, <2>2, <2>4
       DEF TInv, Move, Batch, Scheduled, Position, Traversed, OnlyLate, queueVars
  <2>5. CASE RunTask \/ DrainTask
    BY <1>4, <2>1, <2>2, <2>5
       DEF TInv, RunTask, DrainTask, Scheduled, Position, Traversed, OnlyLate, threadVars
  <2>6. CASE EndBatch
    BY <1>4, <2>1, <2>2, <2>6 DEF TInv, EndBatch, Scheduled, Position, Traversed, OnlyLate
  <2>7. CASE EndDrain
    BY <1>4, <2>1, <2>2, <2>7 DEF TInv, EndDrain, Scheduled, Position, Traversed, OnlyLate, queueVars
  <2>8. CASE ClearBuf
    BY <1>4, <2>1, <2>2, <2>8 DEF TInv, ClearBuf, Scheduled, Position, Traversed, OnlyLate
  <2>9. CASE Finish
    <3>1. closer = "closing" /\ cur = 0
      BY <1>4, <2>9 DEF TInv, Scheduled, Position, Finish
    <3> QED
      BY <1>4, <2>1, <2>9, <3>1 DEF TInv, Finish, Scheduled, Position, Traversed, OnlyLate, queueVars
  <2> QED
    BY <1>4, <2>3, <2>4, <2>5, <2>6, <2>7, <2>8, <2>9 DEF WorkerNext
<1> QED
  BY <1>1, <1>2, <1>3, <1>4 DEF Next

LEMMA TaskInv == SafeSpec => []TInv
BY InitTInv, NextTInv, PTL DEF SafeSpec

-------------------------------------------------------------------------------
(* The first-in first-out queue. What remains to be run, element by element, of   *)
(* the lists ts and tb when the traversal has passed k elements.                  *)
Left(ts, tb, k) == SubSeq(ts \o tb, k + 1, Len(ts) + Len(tb))

Nth(ts, tb, j) == IF j <= Len(ts) THEN ts[j] ELSE tb[j - Len(ts)]

LEMMA RemainingIsLeft ==
  /\ Remaining = Left(tasks, taskBuf, cur)
  /\ Remaining' = Left(tasks', taskBuf', cur')
BY DEF Remaining, Left

LEMMA LeftIs ==
  ASSUME NEW S, NEW ts \in Seq(S), NEW tb \in Seq(S), NEW k \in Nat, k <= Len(ts) + Len(tb)
  PROVE  /\ Left(ts, tb, k) \in Seq(S) /\ Len(Left(ts, tb, k)) = Len(ts) + Len(tb) - k
         /\ \A i \in 1..(Len(ts) + Len(tb) - k) : Left(ts, tb, k)[i] = Nth(ts, tb, k + i)
<1> DEFINE m == Len(ts)
           n == Len(tb)
           s == ts \o tb
           lo == k + 1
           hi == m + n
           r == Left(ts, tb, k)
<1>1. m \in Nat /\ n \in Nat /\ lo \in Int /\ hi \in Int /\ k <= m + n
  BY LenProperties
<1>2. /\ s \in Seq(S) /\ Len(s) = m + n
      /\ \A i \in 1..m + n : s[i] = Nth(ts, tb, i)
  BY ConcatProperties DEF Nth
<1>3. r = SubSeq(s, lo, hi)
  BY DEF Left
<1> HIDE DEF s, r
<1>4. \A i \in lo..hi : s[i] \in S
  <2>1. \A i \in lo..hi : i \in 1..Len(s)
    BY <1>1, <1>2
  <2> QED
    BY <1>2, <2>1, ElementOfSeq
<1> HIDE DEF lo, hi
<1>5. /\ r \in Seq(S) /\ Len(r) = IF lo <= hi THEN hi - lo + 1 ELSE 0
      /\ \A i \in 1..hi - lo + 1 : r[i] = s[lo + i - 1]
  BY <1>1, <1>3, <1>4, SubSeqProperties
<1> USE DEF lo, hi
<1> HIDE DEF m, n
<1>6. Len(r) = m + n - k
  <2>1. lo <= hi => hi - lo + 1 = m + n - k
    BY <1>1
  <2>2. ~(lo <= hi) => m + n - k = 0
    BY <1>1
  <2> QED
    BY <1>5, <2>1, <2>2
<1>7. ASSUME NEW i \in 1..(m + n - k) PROVE r[i] = Nth(ts, tb, k + i)
  <2>1. i \in 1..hi - lo + 1 /\ lo + i - 1 = k + i /\ k + i \in 1..m + n
    BY <1>1
  <2> QED
    BY <1>2, <1>5, <2>1
<1> QED
  BY <1>5, <1>6, <1>7 DEF m, n, r

(* A loop that goes one element further takes the first of what remains. *)
LEMMA TakesFirst ==
  ASSUME NEW S, NEW ts \in Seq(S), NEW tb \in Seq(S), NEW k \in Nat, k < Len(ts) + Len(tb)
  PROVE  /\ Left(ts, tb, k) # <<>> /\ Head(Left(ts, tb, k)) = Nth(ts, tb, k + 1)
         /\ Left(ts, tb, k + 1) = Tail(Left(ts, tb, k))
<1> DEFINE m == Len(ts)
           n == Len(tb)
           r == Left(ts, tb, k)
           q == Left(ts, tb, k + 1)
<1>1. m \in Nat /\ n \in Nat /\ k + 1 \in Nat /\ k <= m + n /\ k + 1 <= m + n
  BY LenProperties
<1>2. /\ r \in Seq(S) /\ Len(r) = m + n - k
      /\ \A i \in 1..(m + n - k) : r[i] = Nth(ts, tb, k + i)
  BY <1>1, LeftIs
<1>3. /\ q \in Seq(S) /\ Len(q) = m + n - (k + 1)
      /\ \A i \in 1..(m + n - (k + 1)) : q[i] = Nth(ts, tb, k + 1 + i)
  BY <1>1, LeftIs
<1> HIDE DEF m, n, r, q
<1>4. r # <<>> /\ 1 \in 1..(m + n - k)
  BY <1>1, <1>2, EmptySeq
<1>5. /\ Head(r) = r[1] /\ Tail(r) \in Seq(S) /\ Len(Tail(r)) = Len(r) - 1
      /\ \A i \in 1..Len(Tail(r)) : Tail(r)[i] = r[i + 1]
  <2>1. r \in Seq(S) /\ r # <<>>
    BY <1>2, <1>4
  <2> QED
    BY <2>1, HeadTailProperties
<1>6. Len(Tail(r)) = m + n - (k + 1) /\ Len(Tail(r)) = Len(q)
  BY <1>1, <1>2, <1>3, <1>5
<1>7. ASSUME NEW i \in 1..Len(Tail(r)) PROVE Tail(r)[i] = q[i]
  <2>1. i \in 1..(m + n - (k + 1)) /\ i + 1 \in 1..(m + n - k) /\ k + 1 + i = k + (i + 1)
    BY <1>1, <1>6
  <2> QED
    BY <1>2, <1>3, <1>5, <2>1
<1>8. q = Tail(r)
  BY <1>3, <1>5, <1>6, <1>7, SeqEqual
<1> QED
  BY <1>2, <1>4, <1>5, <1>8 DEF r, q

(* Adding at the end of the second list adds at the end of what remains. *)
LEMMA AddsLast ==
  ASSUME NEW S, NEW ts \in Seq(S), NEW tb \in Seq(S), NEW k \in Nat, k <= Len(ts) + Len(tb),
         NEW e \in S
  PROVE  Left(ts, Append(tb, e), k) = Append(Left(ts, tb, k), e)
<1> DEFINE m == Len(ts)
           n == Len(tb)
           u == Append(tb, e)
           r == Left(ts, tb, k)
           q == Left(ts, u, k)
           a == Append(r, e)
<1>1. m \in Nat /\ n \in Nat
  BY LenProperties
<1>2. u \in Seq(S) /\ Len(u) = n + 1 /\ u[n + 1] = e /\ \A i \in 1..n : u[i] = tb[i]
  BY AppendProperties
<1> HIDE DEF u
<1>3. /\ r \in Seq(S) /\ Len(r) = m + n - k
      /\ \A i \in 1..(m + n - k) : r[i] = Nth(ts, tb, k + i)
  BY LeftIs
<1>4. k <= Len(ts) + Len(u) /\ u \in Seq(S)
  BY <1>1, <1>2
<1>5. /\ q \in Seq(S) /\ Len(q) = m + Len(u) - k
      /\ \A i \in 1..(m + Len(u) - k) : q[i] = Nth(ts, u, k + i)
  BY <1>4, LeftIs
<1> HIDE DEF r, q
<1>6. a \in Seq(S) /\ Len(a) = Len(r) + 1 /\ a[Len(r) + 1] = e /\ \A i \in 1..Len(r) : a[i] = r[i]
  <2>1. r \in Seq(S)
    BY <1>3
  <2> QED
    BY <2>1, AppendProperties
<1> HIDE DEF a, m, n
<1>7. Len(q) = m + n + 1 - k /\ Len(a) = m + n + 1 - k
  BY <1>1, <1>2, <1>3, <1>5, <1>6
<1>8. ASSUME NEW i \in 1..Len(q) PROVE q[i] = a[i]
  <2>1. i \in 1..(m + n - k) \/ (i = m + n - k + 1 /\ k + i - m = n + 1)
    BY <1>1, <1>7
  <2>2. q[i] = Nth(ts, u, k + i)
    BY <1>5
  <2>3. CASE i \in 1..(m + n - k)
    <3>1. a[i] = r[i]
      BY <1>3, <1>6, <2>3
    <3>2. ~(k + i <= m) => k + i - m \in 1..n
      BY <1>1, <2>3
    <3>3. Nth(ts, u, k + i) = Nth(ts, tb, k + i)
      BY <1>2, <3>2 DEF Nth, m
    <3> QED
      BY <1>3, <2>2, <2>3, <3>1, <3>3
  <2>4. CASE i = m + n - k + 1 /\ k + i - m = n + 1
    <3>1. ~(k + i <= m)
      BY <1>1, <2>4
    <3>2. Nth(ts, u, k + i) = e
      BY <1>2, <2>4, <3>1 DEF Nth, m
    <3> QED
      BY <1>3, <1>6, <2>2, <2>4, <3>2
  <2> QED
    BY <2>1, <2>3, <2>4
<1>9. q = a
  BY <1>5, <1>6, <1>7, <1>8, SeqEqual
<1> QED
  BY <1>9 DEF q, a, r, u

(* The end of the first list, and of both; the move from one to the other. *)
LEMMA LeftSecond ==
  ASSUME NEW S, NEW ts \in Seq(S), NEW tb \in Seq(S)
  PROVE  Left(ts, tb, Len(ts)) = tb
<1> DEFINE m == Len(ts)
           n == Len(tb)
           l == Left(ts, tb, m)
<1>1. m \in Nat /\ n \in Nat /\ m <= m + n
  BY LenProperties
<1>2. /\ l \in Seq(S) /\ Len(l) = m + n - m
      /\ \A i \in 1..(m + n - m) : l[i] = Nth(ts, tb, m + i)
  BY <1>1, LeftIs
<1> HIDE DEF l, m, n
<1>3. Len(l) = n
  BY <1>1, <1>2
<1>4. ASSUME NEW i \in 1..n PROVE l[i] = tb[i]
  <2>1. i \in 1..(m + n - m) /\ ~(m + i <= m) /\ m + i - m = i
    BY <1>1
  <2>2. Nth(ts, tb, m + i) = tb[i]
    BY <2>1 DEF Nth, m
  <2> QED
    BY <1>2, <2>1, <2>2
<1>5. l = tb
  BY <1>2, <1>3, <1>4, SeqEqual DEF n
<1> QED
  BY <1>5 DEF l, m

LEMMA LeftWhole ==
  ASSUME NEW S, NEW ts \in Seq(S), NEW tb \in Seq(S)
  PROVE  Left(ts, tb, 0) = ts \o tb
<1> DEFINE m == Len(ts)
           n == Len(tb)
           c == ts \o tb
           l == Left(ts, tb, 0)
<1>1. m \in Nat /\ n \in Nat /\ 0 <= m + n
  BY LenProperties
<1>2. /\ l \in Seq(S) /\ Len(l) = m + n - 0
      /\ \A i \in 1..(m + n - 0) : l[i] = Nth(ts, tb, 0 + i)
  BY <1>1, LeftIs
<1>3. c \in Seq(S) /\ Len(c) = m + n /\ \A i \in 1..m + n : c[i] = Nth(ts, tb, i)
  BY ConcatProperties DEF Nth
<1> HIDE DEF l, c, m, n
<1>4. ASSUME NEW i \in 1..m + n PROVE l[i] = c[i]
  <2>1. i \in 1..(m + n - 0) /\ 0 + i = i
    BY <1>1
  <2> QED
    BY <1>2, <1>3, <2>1
<1>5. Len(l) = Len(c)
  BY <1>1, <1>2, <1>3
<1>6. l = c
  BY <1>2, <1>3, <1>4, <1>5, SeqEqual
<1> QED
  BY <1>6 DEF l, c

LEMMA Emptied ==
  ASSUME NEW S, NEW ts \in Seq(S), NEW tb \in Seq(S)
  PROVE  Left(<<>>, tb, 0) = tb /\ Left(ts \o tb, <<>>, 0) = Left(ts, tb, 0)
<1>1. <<>> \in Seq(S) /\ Len(<<>>) = 0 /\ ts \o tb \in Seq(S)
  BY EmptySeq, ConcatProperties
<1>2. Left(<<>>, tb, 0) = <<>> \o tb /\ Left(ts, tb, 0) = ts \o tb
  BY <1>1, LeftWhole
<1>3. Left(ts \o tb, <<>>, 0) = (ts \o tb) \o <<>>
  <2> DEFINE c == ts \o tb
             e == <<>>
  <2>1. c \in Seq(S) /\ e \in Seq(S)
    BY <1>1
  <2> HIDE DEF c, e
  <2>2. Left(c, e, 0) = c \o e
    BY <2>1, LeftWhole
  <2> QED
    BY <2>2 DEF c, e
<1>4. <<>> \o tb = tb /\ (ts \o tb) \o <<>> = ts \o tb
  BY <1>1, ConcatEmptySeq
<1> QED
  BY <1>2, <1>3, <1>4

-------------------------------------------------------------------------------
(* Each step of the task server is a step of the queue, or none. *)
LEMMA QueueKept ==
  ASSUME UNCHANGED queueVars, UNCHANGED closer
  PROVE  UNCHANGED Queue!vars
<1>1. UNCHANGED <<added, done, late>> /\ (closer = "closing")' = (closer = "closing")
  BY DEF queueVars
<1>2. Remaining' = Remaining
  BY RemainingIsLeft DEF queueVars
<1> QED
  BY <1>1, <1>2 DEF Queue!vars

LEMMA QueueStep == TInv /\ [Next]_vars => [Queue!Next]_(Queue!vars)
<1>1. ASSUME UNCHANGED vars PROVE UNCHANGED Queue!vars
  BY <1>1, QueueKept DEF vars, threadVars
<1> SUFFICES ASSUME TInv, Next PROVE [Queue!Next]_(Queue!vars)
  BY <1>1
<1>2. /\ QueueOK /\ Scheduled /\ Position /\ OnlyLate
      /\ Remaining = Left(tasks, taskBuf, cur)
      /\ Remaining' = Left(tasks', taskBuf', cur')
  BY RemainingIsLeft DEF TInv
<1>3. /\ tasks \in Seq(Tasks) /\ taskBuf \in Seq(Tasks) /\ cur \in Nat
      /\ Len(tasks) \in Nat /\ Len(taskBuf) \in Nat /\ Len(<<>>) = 0
      /\ taskBuf = <<>> <=> Len(taskBuf) = 0
      /\ tasks = <<>> <=> Len(tasks) = 0
  BY <1>2, Lengths DEF QueueOK
<1>4. cur <= Len(tasks) + Len(taskBuf)
  BY <1>2, <1>3 DEF Position
<1>5. CASE OwnerNext
  <2>1. UNCHANGED queueVars /\ Remaining' = Remaining /\ UNCHANGED <<added, done, late>>
    BY <1>2, <1>5 DEF OwnerNext, Start, CloseStop, CloseReturn, CloseNop, queueVars
  <2>2. CASE Start \/ CloseNop
    <3>1. closer # "closing" /\ closer' # "closing"
      BY <2>2 DEF Start, CloseNop
    <3> QED
      BY <2>1, <3>1 DEF Queue!vars
  <2>3. CASE CloseStop
    <3>1. closer # "closing" /\ closer' = "closing"
      BY <2>3 DEF CloseStop
    <3> QED
      BY <2>1, <3>1 DEF Queue!Next, Queue!Close
  <2>4. CASE CloseReturn
    <3>1. closer = "closing" /\ closer' # "closing" /\ pc = "none"
      BY <2>4 DEF CloseReturn
    <3>2. Remaining = taskBuf /\ cur = 0
      BY <1>2, <1>3, <3>1, Emptied DEF Position
    <3>3. Queue!AllLate
      BY <1>2, <3>1, <3>2 DEF OnlyLate, Traversed, Queue!AllLate
    <3> QED
      BY <2>1, <3>1, <3>3 DEF Queue!Next, Queue!Closed
  <2> QED
    BY <1>5, <2>2, <2>3, <2>4 DEF OwnerNext
<1>6. CASE AddTask
  <2>1. /\ added' = added + 1 /\ taskBuf' = Append(taskBuf, added')
        /\ UNCHANGED <<tasks, cur, done, closer>>
        /\ late' = IF closer = "closing" THEN late \cup {added'} ELSE late
    BY <1>6 DEF AddTask, threadVars
  <2>2. added' \in Tasks' /\ tasks \in Seq(Tasks') /\ taskBuf \in Seq(Tasks')
    <3>1. added' \in Tasks' /\ Tasks \subseteq Tasks'
      BY <1>2, <2>1 DEF QueueOK, Tasks
    <3> QED
      BY <1>3, <3>1, SeqMonotonic
  <2>3. Remaining' = Append(Remaining, added')
    <3>1. Left(tasks, Append(taskBuf, added'), cur) = Append(Left(tasks, taskBuf, cur), added')
      BY <1>3, <1>4, <2>2, AddsLast
    <3> QED
      BY <1>2, <2>1, <3>1
  <2> QED
    BY <2>1, <2>3 DEF Queue!Next, Queue!Add
<1>7. CASE Test \/ Check \/ Batch \/ EndDrain \/ Finish
  <2>1. UNCHANGED queueVars /\ UNCHANGED closer
    BY <1>7 DEF Test, Check, Batch, EndDrain, Finish
  <2> QED
    BY <2>1, QueueKept
<1>8. CASE Move
  <2>1. /\ tasks' = tasks \o taskBuf /\ taskBuf' = <<>>
        /\ UNCHANGED <<added, cur, done, late, closer>> /\ cur = 0
    BY <1>2, <1>8 DEF Move, Position
  <2>2. Remaining' = Remaining
    BY <1>2, <1>3, <2>1, Emptied
  <2> QED
    BY <2>1, <2>2 DEF Queue!vars
<1>9. CASE RunTask \/ DrainTask
  <2>1. /\ UNCHANGED <<added, tasks, taskBuf, late, closer>> /\ cur' = cur + 1
        /\ cur < Len(tasks) + Len(taskBuf)
    BY <1>2, <1>3, <1>9 DEF RunTask, DrainTask, Position, threadVars
  <2>2. done' = Append(done, Nth(tasks, taskBuf, cur + 1))
    <3>1. CASE RunTask
      <4>1. cur + 1 <= Len(tasks) /\ done' = Append(done, tasks[cur + 1])
        BY <1>3, <3>1 DEF RunTask
      <4> QED
        BY <4>1 DEF Nth
    <3>2. CASE DrainTask
      <4>1. Len(tasks) = 0 /\ done' = Append(done, taskBuf[cur + 1])
        BY <1>2, <1>3, <3>2 DEF DrainTask, Position
      <4>2. ~(cur + 1 <= Len(tasks)) /\ (cur + 1) - Len(tasks) = cur + 1
        BY <1>3, <4>1
      <4>3. Nth(tasks, taskBuf, cur + 1) = taskBuf[cur + 1]
        BY <4>2 DEF Nth
      <4> QED
        BY <4>1, <4>3
    <3> QED
      BY <1>9, <3>1, <3>2
  <2>3. /\ Remaining # <<>> /\ Remaining' = Tail(Remaining)
        /\ Head(Remaining) = Nth(tasks, taskBuf, cur + 1)
    BY <1>2, <1>3, <2>1, TakesFirst
  <2> QED
    BY <2>1, <2>2, <2>3 DEF Queue!Next, Queue!Run
<1>10. CASE EndBatch
  <2>1. /\ cur = Len(tasks) /\ tasks' = <<>> /\ cur' = 0
        /\ UNCHANGED <<added, taskBuf, done, late, closer>>
    BY <1>10 DEF EndBatch
  <2>2. Remaining' = taskBuf
    BY <1>2, <1>3, <2>1, Emptied
  <2>3. Remaining = taskBuf
    BY <1>2, <1>3, <2>1, LeftSecond
  <2> QED
    BY <2>1, <2>2, <2>3 DEF Queue!vars
<1>11. CASE ClearBuf
  <2>1. /\ pc = "clear" /\ taskBuf' = <<>> /\ cur' = 0 /\ tasks = <<>>
        /\ UNCHANGED <<added, tasks, done, late, closer>> /\ closer = "closing"
    BY <1>2, <1>11 DEF ClearBuf, Position, Scheduled
  <2>2. Remaining' = <<>>
    <3>1. <<>> \in Seq(Tasks)
      OBVIOUS
    <3> QED
      BY <1>2, <2>1, <3>1, Emptied
  <2>3. Queue!AllLate
    <3>1. /\ Len(Remaining) = Len(taskBuf) - cur /\ cur <= Len(taskBuf)
          /\ \A i \in 1..(Len(taskBuf) - cur) : Remaining[i] = taskBuf[cur + i]
      <4>1. /\ Len(tasks) = 0
            /\ Len(Remaining) = Len(tasks) + Len(taskBuf) - cur
            /\ \A i \in 1..(Len(tasks) + Len(taskBuf) - cur) : Remaining[i] = Nth(tasks, taskBuf, cur + i)
        <5>1. /\ Len(Left(tasks, taskBuf, cur)) = Len(tasks) + Len(taskBuf) - cur
              /\ \A i \in 1..(Len(tasks) + Len(taskBuf) - cur) :
                   Left(tasks, taskBuf, cur)[i] = Nth(tasks, taskBuf, cur + i)
          BY <1>3, <1>4, LeftIs
        <5> QED
          BY <1>2, <1>3, <2>1, <5>1
      <4> QED
        BY <1>3, <1>4, <4>1 DEF Nth
    <3>2. \A i \in cur + 1..Len(taskBuf) : taskBuf[i] \in late
      BY <1>2, <2>1 DEF OnlyLate, Traversed
    <3>3. ASSUME NEW i \in 1..Len(Remaining) PROVE Remaining[i] \in late
      <4>1. cur + i \in cur + 1..Len(taskBuf) /\ i \in 1..(Len(taskBuf) - cur)
        BY <1>3, <3>1
      <4> QED
        BY <3>1, <3>2, <4>1
    <3> QED
      BY <3>3 DEF Queue!AllLate
  <2> QED
    BY <2>1, <2>2, <2>3 DEF Queue!Next, Queue!Drop
<1> QED
  BY <1>5, <1>6, <1>7, <1>8, <1>9, <1>10, <1>11 DEF Next, WorkerNext

LEMMA QueueInit == Init => Queue!Init
<1> SUFFICES ASSUME Init PROVE Queue!Init
  OBVIOUS
<1>1. <<>> \in Seq({}) /\ Remaining = Left(<<>>, <<>>, 0)
  BY RemainingIsLeft DEF Init
<1>2. Remaining = <<>>
  BY <1>1, Emptied
<1> QED
  BY <1>2 DEF Init, Queue!Init

(* The two lists of a task server, moved under the lock and walked without it,    *)
(* are a first-in first-out queue: each task runs once, in the order in which     *)
(* addTask() was called, and only a task added during a Close() may be thrown     *)
(* away; for every number of tasks.                                              *)
THEOREM ServerImplementsQueue == SafeSpec => QueueSpec
BY TaskInv, QueueInit, QueueStep, PTL DEF SafeSpec, QueueSpec, Queue!Spec

-------------------------------------------------------------------------------
(* The thread under the task server. *)
(* Where Cell_Thread sees a worker whose control point is p. *)
Place(p) == CASE p = "none" -> "unborn"
              [] p = "test" -> "test"
              [] p \in {"drain", "clear", "finish"} -> "destroy"
              [] OTHER -> "body"

LEMMA WorkerGoes ==
  ASSUME NEW a, NEW b, Place(pc) = a, Place(pc') = b
  PROVE  Thread!Goes("worker", a, b)
<1>1. Thread!Goes("worker", a, b) <=>
        /\ [w \in {"worker"} |-> Place(pc)]["worker"] = a
        /\ [w \in {"worker"} |-> Place(pc')] =
             [[w \in {"worker"} |-> Place(pc)] EXCEPT !["worker"] = b]
  BY DEF Thread!Goes, Place
<1> HIDE DEF Place
<1> QED
  BY <1>1

LEMMA ThreadInit == Init => Thread!Init
BY DEF Init, Thread!Init, Thread!Sem!Init, Thread!Nobody

LEMMA ThreadKept ==
  ASSUME UNCHANGED threadVars
  PROVE  UNCHANGED Thread!vars
BY DEF threadVars, Thread!vars

(* The owner's calls, seen by Cell_Thread. *)
LEMMA OwnerGoes ==
  ASSUME NEW b, closer' = b
  PROVE  [c \in {"owner"} |-> closer'] = [[c \in {"owner"} |-> closer] EXCEPT !["owner"] = b]
OBVIOUS

LEMMA NoWorkers == Thread!Cardinality({}) = 0
<1>1. Thread!Cardinality({}) = Cardinality({})
  BY DEF Thread!Cardinality, Cardinality
<1> QED
  BY <1>1, FS_EmptySet

LEMMA ThreadOwner == TInv /\ OwnerNext => Thread!CallerNext("owner")
<1> SUFFICES ASSUME Scheduled, OwnerNext PROVE Thread!CallerNext("owner")
  BY DEF TInv
<1> USE OwnerGoes DEF Scheduled
<1>1. CASE Start
  <2>1. pc = "none" /\ pc' = "test" /\ closer # "closing" /\ closer' = "idle"
    BY <1>1 DEF Start
  <2>2. Thread!Goes("worker", "unborn", "test")
    BY <2>1, WorkerGoes DEF Place
  <2>3. Thread!Live = {}
    BY <2>1 DEF Thread!Live
  <2>4. Thread!Cardinality(Thread!Live) = 0
    BY <2>3, NoWorkers
  <2>5. Thread!Start("owner")
    BY <1>1, <2>1, <2>2, <2>4 DEF Start, Thread!Start, Thread!Nobody
  <2> QED
    BY <2>5 DEF Thread!CallerNext
<1>2. CASE CloseStop
  <2>1. Thread!CloseStop("owner")
    BY <1>2 DEF CloseStop, Thread!CloseStop, Thread!Nobody
  <2> QED
    BY <2>1 DEF Thread!CallerNext
<1>3. CASE CloseReturn
  <2>1. Thread!CloseReturn("owner")
    BY <1>3 DEF CloseReturn, Thread!CloseReturn, Thread!Nobody, Thread!Sem!Acquire
  <2> QED
    BY <2>1 DEF Thread!CallerNext
<1>4. CASE CloseNop
  <2>1. Thread!CloseNop("owner")
    BY <1>4 DEF CloseNop, Thread!CloseNop, Thread!Nobody
  <2> QED
    BY <2>1 DEF Thread!CallerNext
<1> QED
  BY <1>1, <1>2, <1>3, <1>4 DEF OwnerNext

LEMMA ThreadWorker == TInv /\ WorkerNext => Thread!WorkerNext("worker") \/ UNCHANGED Thread!vars
<1> SUFFICES ASSUME Scheduled, WorkerNext
             PROVE  Thread!WorkerNext("worker") \/ UNCHANGED Thread!vars
  BY DEF TInv
<1> USE DEF Scheduled
<1>1. CASE Test
  <2>1. UNCHANGED <<isRun, closer>> /\ pc = "test" /\ pc' = IF isRun THEN "check" ELSE "drain"
    BY <1>1 DEF Test
  <2>2. Thread!Goes("worker", "test", IF isRun THEN "body" ELSE "destroy")
    BY <2>1, WorkerGoes DEF Place
  <2>3. Thread!RunTest("worker")
    BY <2>1, <2>2 DEF Thread!RunTest
  <2> QED
    BY <2>3 DEF Thread!WorkerNext
<1>2. CASE \/ (Batch /\ pc' = "test")
           \/ EndBatch
  <2>1. UNCHANGED <<isRun, closer>> /\ pc \in {"batch", "exec"} /\ pc' = "test"
    BY <1>2 DEF Batch, EndBatch
  <2>2. Thread!Goes("worker", "body", "test")
    BY <2>1, WorkerGoes DEF Place
  <2>3. Thread!RunBody("worker")
    BY <2>1, <2>2 DEF Thread!RunBody
  <2> QED
    BY <2>3 DEF Thread!WorkerNext
<1>3. CASE Finish
  <2>1. UNCHANGED <<isRun, closer>> /\ pc = "finish" /\ pc' = "none" /\ closer = "closing"
    BY <1>3 DEF Finish
  <2>2. Thread!Goes("worker", "destroy", "unborn")
    BY <2>1, WorkerGoes DEF Place
  <2>3. Thread!FinishWork("worker")
    BY <2>1, <2>2 DEF Thread!FinishWork, Thread!Sem!Release
  <2> QED
    BY <2>3 DEF Thread!WorkerNext
<1>4. CASE \/ Check \/ Move \/ RunTask \/ DrainTask \/ EndDrain \/ ClearBuf
           \/ (Batch /\ pc' # "test")
  <2>1. UNCHANGED <<isRun, closer>>
    BY <1>4 DEF Check, Move, RunTask, DrainTask, EndDrain, ClearBuf, Batch, threadVars
  <2>2. \/ pc' = pc
        \/ pc \in {"check", "move", "batch"} /\ pc' \in {"move", "batch", "exec"}
        \/ pc \in {"drain", "clear"} /\ pc' \in {"clear", "finish"}
    BY <1>4 DEF Check, Move, RunTask, DrainTask, EndDrain, ClearBuf, Batch, threadVars
  <2>3. UNCHANGED Thread!vars
    BY <2>1, <2>2 DEF Thread!vars
  <2> QED
    BY <2>3
<1> QED
  BY <1>1, <1>2, <1>3, <1>4 DEF WorkerNext

LEMMA ThreadStep == TInv /\ [Next]_vars => [Thread!Next]_(Thread!vars)
<1>1. UNCHANGED vars => UNCHANGED Thread!vars
  BY ThreadKept DEF vars
<1>2. AddTask => UNCHANGED Thread!vars
  BY ThreadKept DEF AddTask
<1> QED
  BY <1>1, <1>2, ThreadOwner, ThreadWorker DEF Next, Thread!Next

(* A task server starts and closes its thread only in the way Cell_Thread         *)
(* describes, at the points where its worker tests the flag.                     *)
THEOREM ServerUsesThread == SafeSpec => ThreadSpec
BY TaskInv, ThreadInit, ThreadStep, PTL DEF SafeSpec, ThreadSpec, Thread!SafeSpec

-------------------------------------------------------------------------------
(* The log makes no step its task server could not make, so that the two hold of  *)
(* the log's queue and thread as well.                                           *)
LEMMA LogSteps == [LogNext]_logAll => [Next]_vars
<1>1. UNCHANGED logAll => UNCHANGED vars
  BY DEF logAll
<1>2. Owner => OwnerNext \/ AddTask \/ UNCHANGED vars
  BY DEF Owner, OwnerNext, Construct, SetPath, OwnError, QueueTask, PathClose, PathNull, PathOpen,
         PathReport, Destroy, DestroyJoined, DestroyFiles
<1>3. ASSUME NEW u \in User, InfoTask(u) \/ \E l \in Level : Info(u, l)
      PROVE  AddTask \/ UNCHANGED vars
  BY <1>3 DEF Info, InfoTask, QueueTask
<1>4. LogWorker => WorkerNext \/ UNCHANGED vars
  BY DEF LogWorker, WorkerNext, WriteHead, WriteText
<1> QED
  BY <1>1, <1>2, <1>3, <1>4 DEF LogNext, Next

(* The task server of the log is a task server: queue and thread behave as those  *)
(* of a Cell_Server, in whatever order set...Path() and the destructor come.      *)
THEOREM LogImplementsTaskServer == LogSpec => QueueSpec /\ ThreadSpec
<1>1. LogInit => Init
  BY DEF LogInit
<1>2. LogSpec => SafeSpec
  BY <1>1, LogSteps, PTL DEF LogSpec, SafeSpec
<1> QED
  BY <1>2, ServerImplementsQueue, ServerUsesThread
=================================================================================
