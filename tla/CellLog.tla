-------------------------------- MODULE CellLog --------------------------------
(* Server/Cell_Log.h on its task server. Info(Warning_Msg, ...) and               *)
(* Info(Error_Msg, ...) look at the pointer of the file on the caller's thread,   *)
(* then queue a task, which reads the pointer again when it runs. setLogPath(),   *)
(* setErrorLogPath() and the destructor close the file and change the pointer     *)
(* meanwhile; they are called by one thread, the owner of the CellTask module.    *)
(*                                                                               *)
(* A CellTaskServer belongs to a Cell_Server, which uses it as CellTask says, or  *)
(* to the Cell_Log. The initial state chooses.                                    *)
EXTENDS CellTask

CONSTANTS User,     \* the other threads that call Info()
          MaxOpen   \* bound of the model: number of files opened

ASSUME MaxOpenAssumption == MaxOpen \in Nat

Level == {"warning", "error"}
Null == 0
NoCall == [level |-> "warning", target |-> Null]

VARIABLES logPc,    \* "none" for the task server of a Cell_Server; else the owner:
                    \* "new", "idle", inside set...Path() before "close", "null",
                    \* "open" or "report", "destroy", "gone" or "crashed"
          level,    \* which of the two set...Path() runs, "warning" between calls
          file,     \* _logFile and _logErrorFile: the number of a file, or Null
          opened,   \* number of files opened so far
          open,     \* those not closed yet
          seen,     \* the level and file of the Info() that a thread is in, or NoCall
          logged,   \* history: level of each task, and its file when it was queued
          headed,   \* whether the task that runs has written date and time
          replaced, \* history: the files that a set...Path() closed
          astray,   \* history: the tasks that used a closed file or a null pointer
          apart     \* history: those that wrote elsewhere though their file was open

fileVars == <<logPc, level, file, opened, open, replaced>>
taskVars == <<seen, logged, headed, astray, apart>>
logVars == <<fileVars, taskVars>>
logAll == <<vars, logVars>>

LogInit == /\ Init
           /\ logPc \in {"none", "new"}
           /\ level = "warning"
           /\ file = [l \in Level |-> Null]
           /\ opened = 0 /\ open = {}
           /\ seen = [u \in User |-> NoCall]
           /\ logged = <<>> /\ headed = FALSE
           /\ replaced = {} /\ astray = {} /\ apart = {}

InLog == logPc # "none"
Moves(from, to) == logPc = from /\ logPc' = to

-------------------------------------------------------------------------------
(* Faulty variants used as mutants. *)

PathKeepsOldFile ==
  /\ Moves("close", "null")
  /\ UNCHANGED <<level, file, opened, open, replaced, taskVars, vars>>

DestroyFilesFirst ==
  /\ logPc = "idle"
  /\ CloseStop
  /\ logPc' = "destroy"
  /\ open' = {}
  /\ UNCHANGED <<level, file, opened, replaced, taskVars>>

-------------------------------------------------------------------------------
(* Info() of a warning or an error finds that its file is there. Without a file,  *)
(* and for the other two levels, it prints and changes nothing ...               *)
Info(u, l) ==
  /\ logPc \notin {"none", "new", "gone", "crashed"}
  /\ seen[u] = NoCall
  /\ file[l] # Null
  /\ seen' = [seen EXCEPT ![u] = [level |-> l, target |-> file[l]]]
  /\ UNCHANGED <<fileVars, logged, headed, astray, apart, vars>>

(* ... and queues its task, whatever has become of the file. *)
QueueTask(m) ==
  /\ AddTask
  /\ logged' = Append(logged, m)

InfoTask(u) ==
  /\ logPc \notin {"gone", "crashed"}
  /\ seen[u] # NoCall
  /\ QueueTask(seen[u])
  /\ seen' = [seen EXCEPT ![u] = NoCall]
  /\ UNCHANGED <<fileVars, headed, astray, apart>>

(* The error messages of the owner itself, inside set...Path(), while nobody else *)
(* can change the file.                                                          *)
OwnError ==
  /\ \/ file["error"] # Null /\ QueueTask([level |-> "error", target |-> file["error"]])
     \/ file["error"] = Null /\ UNCHANGED <<vars, logged>>
  /\ UNCHANGED <<seen, headed, astray, apart>>

(* Instance() constructs the log at its first use and starts the task server. *)
Construct ==
  /\ Moves("new", "idle")
  /\ Start
  /\ UNCHANGED <<level, file, opened, open, replaced, taskVars>>

(* setLogPath(), setErrorLogPath(): a file that is open is reported ...          *)
SetPath(l) ==
  /\ logPc = "idle"
  /\ level' = l
  /\ \/ file[l] # Null /\ logPc' = "close" /\ OwnError
     \/ file[l] = Null /\ logPc' = "open" /\ UNCHANGED <<vars, taskVars>>
  /\ UNCHANGED <<file, opened, open, replaced>>

(* ... closed ... *)
PathClose ==
  /\ Moves("close", "null")
  /\ open' = open \ {file[level]}
  /\ replaced' = replaced \cup {file[level]}
  /\ UNCHANGED <<level, file, opened, taskVars, vars>>

(* ... and forgotten. *)
PathNull ==
  /\ Moves("null", "open")
  /\ file' = [file EXCEPT ![level] = Null]
  /\ UNCHANGED <<level, opened, open, replaced, taskVars, vars>>

(* fopen() of the new one, which may fail. *)
PathOpen ==
  /\ Moves("open", "report")
  /\ \/ /\ opened < MaxOpen
        /\ opened' = opened + 1
        /\ open' = open \cup {opened'}
        /\ file' = [file EXCEPT ![level] = opened']
     \/ /\ file' = [file EXCEPT ![level] = Null]
        /\ UNCHANGED <<opened, open>>
  /\ UNCHANGED <<level, replaced, taskVars, vars>>

(* Both functions take the failure from _logFile, also the one that has opened   *)
(* _logErrorFile.                                                                *)
PathReport ==
  /\ Moves("report", "idle")
  /\ \/ file["warning"] = Null /\ OwnError
     \/ file["warning"] # Null /\ UNCHANGED <<vars, taskVars>>
  /\ level' = "warning"
  /\ UNCHANGED <<file, opened, open, replaced>>

(* The destructor: _TaskServer.Close() ... *)
Destroy ==
  /\ logPc = "idle"
  /\ CloseStop
  /\ logPc' = "destroy"
  /\ UNCHANGED <<level, file, opened, open, replaced, taskVars>>

DestroyJoined ==
  /\ logPc = "destroy"
  /\ CloseReturn
  /\ UNCHANGED logVars

(* ... then both files if there is a _logFile; fclose() of a null pointer ends   *)
(* the process the hard way.                                                     *)
DestroyFiles ==
  /\ logPc = "destroy" /\ closer = "closed"
  /\ \/ /\ file["warning"] = Null
        /\ logPc' = "gone"
        /\ UNCHANGED <<file, open>>
     \/ /\ file["warning"] # Null
        /\ logPc' = IF file["error"] = Null THEN "crashed" ELSE "gone"
        /\ open' = open \ {file["warning"], file["error"]}
        /\ file' = [l \in Level |-> Null]
  /\ UNCHANGED <<level, opened, replaced, taskVars, vars>>

-------------------------------------------------------------------------------
(* A log task: fprintf() of date and time, fprintf() and fflush() of the text,   *)
(* each with the pointer of that moment.                                         *)
Running == \/ pc = "exec" /\ cur < Len(tasks)
           \/ pc = "drain" /\ cur < Len(taskBuf)

Current == IF pc = "exec" THEN tasks[cur + 1] ELSE taskBuf[cur + 1]

Write ==
  LET t == logged[Current]
      f == file[t.level]
  IN /\ astray' = IF f \in open THEN astray ELSE astray \cup {Current}
     /\ apart' = IF t.target \in open /\ f # t.target THEN apart \cup {Current} ELSE apart

WriteHead ==
  /\ InLog /\ Running /\ ~headed
  /\ Write
  /\ headed' = TRUE
  /\ UNCHANGED <<fileVars, seen, logged, vars>>

WriteText ==
  /\ InLog /\ headed
  /\ RunTask \/ DrainTask
  /\ Write
  /\ headed' = FALSE
  /\ UNCHANGED <<fileVars, seen, logged>>

(* The rest of the worker, and everything a Cell_Server does with its task server. *)
LogWorker == \/ WriteHead \/ WriteText
             \/ /\ \/ Test \/ Check \/ Move \/ Batch \/ EndBatch
                   \/ EndDrain \/ ClearBuf \/ Finish
                   \/ ~InLog /\ (RunTask \/ DrainTask)
                /\ UNCHANGED logVars

Owner == \/ ~InLog /\ OwnerNext /\ UNCHANGED logVars
         \/ Construct
         \/ (\E l \in Level : SetPath(l)) \/ PathClose \/ PathNull \/ PathOpen \/ PathReport
         \/ Destroy \/ DestroyJoined \/ DestroyFiles

LogNext == \/ Owner
           \/ ~InLog /\ AddTask /\ UNCHANGED logVars
           \/ \E u \in User : InfoTask(u) \/ \E l \in Level : Info(u, l)
           \/ LogWorker

(* As in CellTask: the worker is scheduled, and the owner resumes when joined. *)
LogSpec == /\ LogInit /\ [][LogNext]_logAll
           /\ WF_logAll(LogWorker)
           /\ WF_logAll(CloseReturn /\ UNCHANGED logVars)

-------------------------------------------------------------------------------
(* A message reaches the file that was current when Info() was called, head and   *)
(* text, for as long as that file is open: no set...Path() sends it elsewhere     *)
(* while the file it belongs to could still take it.                             *)
MessageToItsFile == apart = {}

(* A task uses a closed file or a null pointer only if a set...Path() closed the  *)
(* file after Info() had seen it. The destructor never does that to a task: it   *)
(* stops the task server, which runs what is queued, before it closes the files.  *)
OnlyReplacedFilesMissed ==
  \A n \in astray : logged[n].target \in replaced
=================================================================================
