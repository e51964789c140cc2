------------------------------ MODULE ClientProgram ------------------------------
(* Client/Client.cpp: the stress client. main() starts tCount detached threads;   *)
(* each constructs and connects its share of the clients, waits at a barrier made *)
(* of the counter readyCount, then sends and receives in turn on each client. A   *)
(* further thread waits for the command "exit" and lowers flag, on which main()   *)
(* returns and with it the process ends.                                          *)
EXTENDS Naturals

CONSTANTS TCount,     \* tCount
          CCount      \* cCount

ASSUME TCountAssumption == TCount \in Nat \ {0}
ASSUME CCountAssumption == CCount \in Nat

Thread == 1..TCount
Client == 0..CCount - 1

(* The share of thread id: cnumber, begin, end. *)
Number == CCount \div TCount
Begin(id) == (id - 1) * Number
End(id) == id * Number
Share(id) == Begin(id)..End(id) - 1

VARIABLES sock,        \* _sock of each client: "none" before its constructor,
                       \* "invalid", "open" or "connected"
          threadPc,    \* each thread: "unborn", "new", "connect", "ready", "wait",
                       \* "send" or "poll"
          at,          \* n, the client a thread has come to
          readyCount,  \* readyCount
          flag,        \* flag
          clientMain   \* main(): "start", "wait", "loop" or "returned"

threadVars == <<sock, threadPc, at, readyCount>>
clientVars == <<threadVars, flag, clientMain>>

ClientInit ==
  /\ sock = [c \in Client |-> "none"]
  /\ threadPc = [t \in Thread |-> "unborn"]
  /\ at = [t \in Thread |-> Begin(t)]
  /\ readyCount = 0
  /\ flag = TRUE
  /\ clientMain = "start"

ProcessRuns == clientMain # "returned"
At(t, point) == ProcessRuns /\ threadPc[t] = point
ThreadGoes(t, point) == threadPc' = [threadPc EXCEPT ![t] = point]
More(t) == at[t] < End(t)

(* The loop over the share goes on, and at its end begins again at "begin". *)
Step(t) == at' = [at EXCEPT ![t] = @ + 1]
Rewind(t) == at' = [at EXCEPT ![t] = Begin(t)]

-------------------------------------------------------------------------------
(* Faulty variants used as mutants. *)

PassBarrierEarly(t) ==
  /\ At(t, "wait")
  /\ readyCount >= TCount - 1
  /\ ThreadGoes(t, "send")
  /\ UNCHANGED <<sock, at, readyCount, flag, clientMain>>

PassBarrierLate(t) ==
  /\ At(t, "wait")
  /\ readyCount > TCount
  /\ ThreadGoes(t, "send")
  /\ UNCHANGED <<sock, at, readyCount, flag, clientMain>>

MainTestsPointer ==
  /\ clientMain = "loop"
  /\ UNCHANGED clientVars

-------------------------------------------------------------------------------
(* main() starts the threads ... *)
StartThread(t) ==
  /\ clientMain = "start"
  /\ threadPc[t] = "unborn"
  /\ \A s \in 1..t - 1 : threadPc[s] # "unborn"
  /\ ThreadGoes(t, "new")
  /\ UNCHANGED <<sock, at, readyCount, flag, clientMain>>

Started ==
  /\ clientMain = "start"
  /\ \A t \in Thread : threadPc[t] # "unborn"
  /\ clientMain' = "wait"
  /\ UNCHANGED <<threadVars, flag>>

(* ... waits at the same barrier, then loops until flag is lowered. *)
MainPassesBarrier ==
  /\ clientMain = "wait"
  /\ readyCount >= TCount
  /\ clientMain' = "loop"
  /\ UNCHANGED <<threadVars, flag>>

MainReturns ==
  /\ clientMain = "loop"
  /\ ~flag
  /\ clientMain' = "returned"
  /\ UNCHANGED <<threadVars, flag>>

(* cmd_flag() reads "exit". *)
Command ==
  /\ clientMain \in {"wait", "loop"}
  /\ flag' = FALSE
  /\ UNCHANGED <<threadVars, clientMain>>

(* A thread constructs its clients; the constructor opens the socket, or fails to. *)
New(t) ==
  /\ At(t, "new") /\ More(t)
  /\ \E s \in {"open", "invalid"} : sock' = [sock EXCEPT ![at[t]] = s]
  /\ Step(t)
  /\ UNCHANGED <<threadPc, readyCount, flag, clientMain>>

(* Connect() opens a socket where there is none; no result is looked at. *)
Connect(t) ==
  /\ At(t, "connect") /\ More(t)
  /\ \E s \in {"connected", "open", "invalid"} :
       /\ s = "invalid" => sock[at[t]] = "invalid"
       /\ sock' = [sock EXCEPT ![at[t]] = s]
  /\ Step(t)
  /\ UNCHANGED <<threadPc, readyCount, flag, clientMain>>

NextLoop(t) ==
  /\ ProcessRuns /\ ~More(t)
  /\ \/ threadPc[t] = "new" /\ ThreadGoes(t, "connect")
     \/ threadPc[t] = "connect" /\ ThreadGoes(t, "ready")
  /\ Rewind(t)
  /\ UNCHANGED <<sock, readyCount, flag, clientMain>>

(* readyCount++ and the barrier. *)
Ready(t) ==
  /\ At(t, "ready")
  /\ readyCount' = readyCount + 1
  /\ ThreadGoes(t, "wait")
  /\ UNCHANGED <<sock, at, flag, clientMain>>

PassBarrier(t) ==
  /\ At(t, "wait")
  /\ readyCount >= TCount
  /\ ThreadGoes(t, "send")
  /\ UNCHANGED <<sock, at, readyCount, flag, clientMain>>

(* SendData() does nothing on a client without a socket, and its failure is not  *)
(* looked at.                                                                    *)
SendData(t) ==
  /\ At(t, "send") /\ More(t)
  /\ ThreadGoes(t, "poll")
  /\ UNCHANGED <<sock, at, readyCount, flag, clientMain>>

(* onRun() polls the socket and receives; a failure closes the socket for good. *)
OnRun(t) ==
  /\ At(t, "poll")
  /\ \/ UNCHANGED sock
     \/ sock[at[t]] # "invalid" /\ sock' = [sock EXCEPT ![at[t]] = "invalid"]
  /\ ThreadGoes(t, "send")
  /\ Step(t)
  /\ UNCHANGED <<readyCount, flag, clientMain>>

(* The end of a round is the test of "while (flag)", which tests the pointer and *)
(* not what it points to. It never fails, so what follows the loop, closing and  *)
(* deleting the clients, is never reached.                                       *)
NextRound(t) ==
  /\ At(t, "send") /\ ~More(t)
  /\ Rewind(t)
  /\ UNCHANGED <<sock, threadPc, readyCount, flag, clientMain>>

SendThread(t) ==
  \/ New(t) \/ Connect(t) \/ NextLoop(t) \/ Ready(t) \/ PassBarrier(t)
  \/ SendData(t) \/ OnRun(t) \/ NextRound(t)

Main == (\E t \in Thread : StartThread(t)) \/ Started \/ MainPassesBarrier \/ MainReturns

ClientNext == Main \/ Command \/ \E t \in Thread : SendThread(t)

ClientSafeSpec == ClientInit /\ [][ClientNext]_clientVars

(* The operating system schedules main() and the threads, connect() returns, and *)
(* a send() finds room in the end. Nobody is obliged to type "exit".             *)
ClientSpec == /\ ClientSafeSpec
              /\ WF_clientVars(Main)
              /\ \A t \in Thread : WF_clientVars(SendThread(t))

-------------------------------------------------------------------------------
(* No thread sends, and main() reports no rate, before every thread has           *)
(* constructed and tried to connect all of its clients.                          *)
Past(t) == threadPc[t] \in {"send", "poll"}

BarrierHolds ==
  (clientMain \in {"loop", "returned"} \/ \E t \in Thread : Past(t)) =>
    \A t \in Thread : /\ threadPc[t] \in {"wait", "send", "poll"}
                      /\ \A c \in Share(t) : sock[c] # "none"

(* The barrier opens for all: a thread or a main() that waits there goes on. *)
BarrierOpens ==
  /\ clientMain = "wait" ~> clientMain = "loop"
  /\ \A t \in Thread : threadPc[t] = "wait" ~> Past(t) \/ ~ProcessRuns

(* The command "exit" ends the program, even if it comes while threads still      *)
(* connect: main() gets past the barrier and sees the flag down. Nothing else     *)
(* does, as the threads test a pointer and go on for ever.                       *)
ExitEndsProgram == ~flag ~> clientMain = "returned"
=================================================================================
