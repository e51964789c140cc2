------------------------------- MODULE Semaphore -------------------------------
(* What Cell_Semaphore promises to its callers: a counting semaphore that starts *)
(* without a permit. wait() takes a permit, blocking while there is none, and    *)
(* wakeup() adds one. A newcomer may overtake a blocked thread, but a permit is  *)
(* not left lying while a thread is blocked.                                     *)
EXTENDS Naturals

CONSTANT Thread     \* the threads that may call wait()

VARIABLES permits,  \* wakeup() calls not yet matched by a wait()
          waiting   \* the threads blocked inside wait()

vars == <<permits, waiting>>

Init == /\ permits = 0
        /\ waiting = {}

(* wait() finds no permit and blocks. *)
Block(t) == /\ t \notin waiting
            /\ permits = 0
            /\ waiting' = waiting \cup {t}
            /\ UNCHANGED permits

(* wait() returns, at once or after having blocked. *)
Acquire(t) == /\ permits > 0
              /\ permits' = permits - 1
              /\ waiting' = waiting \ {t}

(* wakeup(). *)
Release == /\ permits' = permits + 1
           /\ UNCHANGED waiting

Next == \/ \E t \in Thread : Block(t) \/ Acquire(t)
        \/ Release

(* The safety part, which the proofs refer to. *)
SafeSpec == Init /\ [][Next]_vars

(* A permit that stays available while threads are blocked is given to one. *)
Spec == SafeSpec /\ WF_vars(\E t \in waiting : Acquire(t))
=================================================================================
