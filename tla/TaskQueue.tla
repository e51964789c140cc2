-------------------------------- MODULE TaskQueue --------------------------------
(* What CellTaskServer promises to those who add tasks. Tasks are numbered in the *)
(* order in which they are added; they run in that order, each at most once, and  *)
(* only a task added while the server is being closed may be thrown away.         *)
EXTENDS Naturals, Sequences

VARIABLES added,    \* number of tasks added so far
          queue,    \* those that neither ran nor were thrown away, oldest first
          done,     \* those that ran, oldest first
          closing,  \* whether a close is in progress
          late      \* the tasks added while a close was in progress

vars == <<added, queue, done, closing, late>>

Init == /\ added = 0
        /\ queue = <<>>
        /\ done = <<>>
        /\ closing = FALSE
        /\ late = {}

Add == /\ added' = added + 1
       /\ queue' = Append(queue, added')
       /\ late' = IF closing THEN late \cup {added'} ELSE late
       /\ UNCHANGED <<done, closing>>

Run == /\ queue # <<>>
       /\ done' = Append(done, Head(queue))
       /\ queue' = Tail(queue)
       /\ UNCHANGED <<added, closing, late>>

AllLate == \A i \in 1..Len(queue) : queue[i] \in late

(* The server, while closing, throws away what is still queued. *)
Drop == /\ closing
        /\ AllLate
        /\ queue' = <<>>
        /\ UNCHANGED <<added, done, closing, late>>

Close == /\ ~closing
         /\ closing' = TRUE
         /\ UNCHANGED <<added, queue, done, late>>

(* The close returns when nothing else than late tasks is left. *)
Closed == /\ closing
          /\ AllLate
          /\ closing' = FALSE
          /\ UNCHANGED <<added, queue, done, late>>

Next == Add \/ Run \/ Drop \/ Close \/ Closed

Spec == Init /\ [][Next]_vars
=================================================================================
