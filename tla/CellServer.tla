------------------------------- MODULE CellServer -------------------------------
(* Server/Cell_Server.h: one sub-server. Its worker thread joins the clients that *)
(* the main thread accepted, polls their sockets, reads, writes, drops the dead   *)
(* ones; a second thread runs the send tasks that message handlers queue; Close() *)
(* stops first the tasks, then the worker, whose last act is ClearClients().      *)
(*                                                                               *)
(* Clients live in blocks of an object pool and hold a socket number; blocks and  *)
(* numbers are used again after a client is deleted. The two threads are those of *)
(* CellThread and CellTask, seen through what those modules establish.            *)
EXTENDS Naturals, Sequences, FiniteSets

CONSTANTS Block,          \* the blocks of the object pool of Cell_Client
          Sock,           \* the socket numbers
          WinSetSize,     \* FD_SETSIZE with _WIN32: the descriptors that fit an fd_set
          PosixSetSize,   \* FD_SETSIZE without it, where the define has no effect: the
                          \* first descriptor that has no bit in an fd_set
          MaxConn,        \* bound of the model: number of connections accepted
          MaxTasks        \* bound of the model: number of send tasks queued at a time

ASSUME SetsAssumption == IsFiniteSet(Block) /\ IsFiniteSet(Sock) /\ Sock \subseteq Nat \ {0}
ASSUME SetSizeAssumption == WinSetSize \in Nat /\ PosixSetSize \in Nat
ASSUME BoundsAssumption == MaxConn \in Nat /\ MaxTasks \in Nat

Conn == 1..MaxConn
NoConn == 0
NoSock == 0

VARIABLES accepted,      \* number of connections accepted so far
          owner,         \* the connection whose client object is in a block, or NoConn
          sockOf,        \* its _sockfd, or NoSock
          clients,       \* _clients: socket number -> block
          clientsBuff,   \* _clientsBuff
          fdBak,         \* _fd_Read_bak
          clientChange,  \* _client_change
          present,       \* OnNetJoin() calls minus OnNetLeave() calls
          todo,          \* the sockets that the current pass has not reached
          leaving,       \* the key whose client is deleted and not yet erased, or NoSock
          pc,            \* control point of the worker
          isRun,         \* _isRun of _thread
          pending,       \* the send tasks of _taskServer, oldest first
          mainPc,        \* the main thread: "serving", or how far Close() has come
          win32,         \* which side of the #ifdef _WIN32 is compiled; it never changes
          failed         \* history: whether select() has returned an error

clientVars == <<owner, sockOf, clients, clientsBuff, present>>
pollVars == <<fdBak, clientChange, todo, leaving>>
ownerVars == <<accepted, mainPc, win32, failed>>
vars == <<accepted, owner, sockOf, clients, clientsBuff, fdBak, clientChange, present,
          todo, leaving, pc, isRun, pending, mainPc, win32, failed>>

Live == {b \in Block : owner[b] # NoConn}
Keys == DOMAIN clients
Passes == {"read", "write", "exc", "time"}

(* The element of todo that the current pass comes to; the map and the arrays of *)
(* descriptors are in ascending order.                                           *)
Lowest(S) == {s \in S : \A r \in S : s <= r}

Init == /\ accepted = 0
        /\ owner = [b \in Block |-> NoConn]
        /\ sockOf = [b \in Block |-> NoSock]
        /\ clients = << >>
        /\ clientsBuff = {}
        /\ fdBak = {}
        /\ clientChange = TRUE
        /\ present = 0
        /\ todo = {}
        /\ leaving = NoSock
        /\ pc = "test"
        /\ isRun = TRUE
        /\ pending = <<>>
        /\ mainPc = "serving"
        /\ win32 \in BOOLEAN
        /\ failed = FALSE

-------------------------------------------------------------------------------
(* Faulty variants used as mutants. *)

LeaveWithoutChange(s) ==
  /\ pc \in Passes /\ leaving = NoSock /\ s \in Lowest(todo)
  /\ leaving' = s
  /\ present' = present - 1
  /\ owner' = [owner EXCEPT ![clients[s]] = NoConn]
  /\ sockOf' = [sockOf EXCEPT ![clients[s]] = NoSock]
  /\ UNCHANGED <<ownerVars, clients, clientsBuff, fdBak, clientChange, todo, pc,
                 isRun, pending>>

LeaveSilently(s) ==
  /\ pc \in Passes /\ leaving = NoSock /\ s \in Lowest(todo)
  /\ leaving' = s
  /\ clientChange' = TRUE
  /\ owner' = [owner EXCEPT ![clients[s]] = NoConn]
  /\ sockOf' = [sockOf EXCEPT ![clients[s]] = NoSock]
  /\ UNCHANGED <<ownerVars, clients, clientsBuff, present, fdBak, todo, pc,
                 isRun, pending>>

JoinWithoutClear ==
  /\ pc = "join"
  /\ clients' = [s \in Keys \cup {sockOf[b] : b \in clientsBuff} |->
                   IF \E b \in clientsBuff : sockOf[b] = s
                   THEN CHOOSE b \in clientsBuff : sockOf[b] = s
                   ELSE clients[s]]
  /\ present' = present + Cardinality(clientsBuff)
  /\ clientChange' = TRUE
  /\ pc' = "poll"
  /\ UNCHANGED <<ownerVars, owner, sockOf, clientsBuff, fdBak, todo, leaving, isRun, pending>>

CloseFlagFirst ==
  /\ mainPc = "serving"
  /\ mainPc' = "closeTask"
  /\ isRun' = FALSE
  /\ UNCHANGED <<accepted, clientVars, pollVars, pc, pending, win32, failed>>

ClearBuffWithoutDelete ==
  /\ pc = "clearBuff"
  /\ pc' = "clearEnd"
  /\ UNCHANGED <<ownerVars, clientVars, pollVars, isRun, pending>>

CheckInverted ==
  /\ pc = "check"
  /\ pc' = IF clientsBuff = {} THEN "join" ELSE "poll"
  /\ UNCHANGED <<ownerVars, clientVars, pollVars, isRun, pending>>

TestIgnoresFlag ==
  /\ pc = "test"
  /\ pc' = "check"
  /\ UNCHANGED <<ownerVars, clientVars, pollVars, isRun, pending>>

-------------------------------------------------------------------------------
(* The main thread. A connection is accepted, its client object constructed and  *)
(* passed to addClient().                                                        *)
Accept ==
  /\ mainPc = "serving"
  /\ accepted < MaxConn
  /\ accepted' = accepted + 1
  /\ \E b \in Block \ Live, s \in Sock \ {sockOf[a] : a \in Live} :
       /\ owner' = [owner EXCEPT ![b] = accepted']
       /\ sockOf' = [sockOf EXCEPT ![b] = s]
       /\ clientsBuff' = clientsBuff \cup {b}
  /\ UNCHANGED <<clients, present, pollVars, pc, isRun, pending, mainPc, win32, failed>>

(* Close() stops the task server, which runs what was queued before the call; of  *)
(* what the worker still adds, it may run some and leave the rest aside ...      *)
CloseTasks ==
  /\ mainPc = "serving"
  /\ mainPc' = "closeTask"
  /\ UNCHANGED <<accepted, clientVars, pollVars, pc, isRun, pending, win32, failed>>

CloseTasksReturn ==
  /\ mainPc = "closeTask"
  /\ \A i \in 1..Len(pending) : pending[i].late
  /\ mainPc' = "taskClosed"
  /\ UNCHANGED <<accepted, clientVars, pollVars, pc, isRun, pending, win32, failed>>

(* ... and then the worker, holding the mutex of _thread while it waits, unless  *)
(* the worker has already lowered the flag by Exit().                            *)
CloseThread ==
  /\ mainPc = "taskClosed"
  /\ isRun' = FALSE
  /\ mainPc' = IF isRun THEN "closeThread" ELSE "closed"
  /\ UNCHANGED <<accepted, clientVars, pollVars, pc, pending, win32, failed>>

CloseReturn ==
  /\ mainPc = "closeThread"
  /\ pc = "done"
  /\ mainPc' = "closed"
  /\ UNCHANGED <<accepted, clientVars, pollVars, pc, isRun, pending, win32, failed>>

-------------------------------------------------------------------------------
(* The task thread runs the oldest send task: it pushes the reply into the send  *)
(* buffer of the object that the task points to, whatever lies there by now.     *)
RunSendTask ==
  /\ mainPc \in {"serving", "closeTask"}
  /\ pending # <<>>
  /\ pending' = Tail(pending)
  /\ UNCHANGED <<ownerVars, clientVars, pollVars, pc, isRun>>

-------------------------------------------------------------------------------
(* The worker: onRun(). *)
Test ==
  /\ pc = "test"
  /\ pc' = IF isRun THEN "check" ELSE "clearMap"
  /\ UNCHANGED <<ownerVars, clientVars, pollVars, isRun, pending>>

(* The unlocked test of _clientsBuff.empty(). *)
Check ==
  /\ pc = "check"
  /\ pc' = IF clientsBuff # {} THEN "join" ELSE "poll"
  /\ UNCHANGED <<ownerVars, clientVars, pollVars, isRun, pending>>

(* The locked move of the new clients, with their OnNetJoin(). *)
Joined == [s \in Keys \cup {sockOf[b] : b \in clientsBuff} |->
             IF \E b \in clientsBuff : sockOf[b] = s
             THEN CHOOSE b \in clientsBuff : sockOf[b] = s
             ELSE clients[s]]

Join ==
  /\ pc = "join"
  /\ clients' = Joined
  /\ present' = present + Cardinality(clientsBuff)
  /\ clientsBuff' = {}
  /\ clientChange' = TRUE
  /\ pc' = "poll"
  /\ UNCHANGED <<ownerVars, owner, sockOf, fdBak, todo, leaving, isRun, pending>>

(* Without clients: sleep and start again. *)
NoClients ==
  /\ pc = "poll"
  /\ Keys = {}
  /\ pc' = "test"
  /\ UNCHANGED <<ownerVars, clientVars, pollVars, isRun, pending>>

(* What FD_SET(), given the clients one after the other, leaves in the set: with   *)
(* _WIN32 it is a list, and who comes when it is full is dropped without a word;  *)
(* elsewhere it is one bit for each number, and a number without a bit is written *)
(* behind the set, which _fd_Read_bak does not copy.                             *)
Before(s) == {r \in Keys : r < s}
Fitting == IF win32 THEN {s \in Keys : Cardinality(Before(s)) < WinSetSize}
                    ELSE {s \in Keys : s < PosixSetSize}
Overrun == ~win32 /\ \E s \in Keys : s >= PosixSetSize

(* The clients that a pass looks at: with _WIN32 those in the result of select(), *)
(* elsewhere all of them, by their bit. A number without a bit is ready or not    *)
(* according to what lies behind the set.                                        *)
Polled == IF win32 THEN fdBak \cap Keys ELSE Keys

(* The descriptor set is built anew when a client came or went, then select().    *)
(* What is written behind the set is undefined, and the model does not follow a   *)
(* worker that it leads astray.                                                  *)
Select ==
  /\ pc = "poll"
  /\ Keys # {}
  /\ fdBak' = IF clientChange THEN Fitting ELSE fdBak
  /\ clientChange' = FALSE
  /\ UNCHANGED <<accepted, mainPc, win32, clientVars, leaving, isRun, pending>>
  /\ \/ pc' = "read" /\ todo' = Polled' /\ UNCHANGED failed
     \/ pc' = "exit" /\ failed' = TRUE /\ UNCHANGED todo
     \/ Overrun /\ pc' = "astray" /\ todo' = {} /\ UNCHANGED failed

(* readData(), writeData() twice and CheckTime() go through the clients. One that *)
(* is not ready, or that is served without consequence here, is passed by, and so *)
(* is one whose messages have been handled ...                                   *)
PassBy(s) ==
  /\ pc \in Passes \cup {"handle"} /\ leaving = NoSock /\ s \in Lowest(todo)
  /\ todo' = todo \ {s}
  /\ pc' = IF pc = "handle" THEN "read" ELSE pc
  /\ UNCHANGED <<ownerVars, clientVars, fdBak, clientChange, leaving, isRun, pending>>

(* ... each message that recvData() takes from the buffer may make the handler    *)
(* queue a reply: addSendTask() ...                                              *)
Reply(s) ==
  /\ pc \in {"read", "handle"} /\ leaving = NoSock /\ s \in Lowest(todo)
  /\ Len(pending) < MaxTasks
  /\ pending' = Append(pending, [block |-> clients[s], conn |-> owner[clients[s]],
                                 late |-> mainPc # "serving"])
  /\ pc' = "handle"
  /\ UNCHANGED <<ownerVars, clientVars, pollVars, isRun>>

(* ... and an error of recv() or send(), or the heartbeat limit, ends in         *)
(* OnClientLeave(), which deletes the client and closes its socket ...           *)
Leave(s) ==
  /\ pc \in Passes /\ leaving = NoSock /\ s \in Lowest(todo)
  /\ leaving' = s
  /\ present' = present - 1
  /\ clientChange' = TRUE
  /\ owner' = [owner EXCEPT ![clients[s]] = NoConn]
  /\ sockOf' = [sockOf EXCEPT ![clients[s]] = NoSock]
  /\ UNCHANGED <<ownerVars, clients, clientsBuff, fdBak, todo, pc, isRun, pending>>

(* ... after which the entry is erased. Outside CheckTime() the code compiled     *)
(* without _WIN32 has by then advanced its iterator and advances it once more:   *)
(* it skips the client that follows.                                             *)
After == {s \in Keys : s > leaving}
AdvancesTwice == ~win32 /\ pc # "time"

Erase ==
  /\ leaving # NoSock
  /\ AdvancesTwice => After # {}
  /\ clients' = [s \in Keys \ {leaving} |-> clients[s]]
  /\ todo' = todo \ ({leaving} \cup IF AdvancesTwice THEN Lowest(After) ELSE {})
  /\ leaving' = NoSock
  /\ UNCHANGED <<ownerVars, owner, sockOf, clientsBuff, present, fdBak, clientChange,
                 pc, isRun, pending>>

(* Where none follows, the iterator leaves the end of the map, which is undefined: *)
(* it comes back to one of the last clients, or runs for ever, and this is all it  *)
(* can do in an empty map.                                                        *)
EraseLast ==
  /\ leaving # NoSock
  /\ AdvancesTwice /\ After = {}
  /\ clients' = [s \in Keys \ {leaving} |-> clients[s]]
  /\ leaving' = NoSock
  /\ \/ pc' = "astray" /\ todo' = {}
     \/ \E r \in Keys \ {leaving} : todo' = {s \in Keys \ {leaving} : s >= r} /\ pc' = pc
  /\ UNCHANGED <<ownerVars, owner, sockOf, clientsBuff, present, fdBak, clientChange,
                 isRun, pending>>

NextPass ==
  /\ pc \in Passes /\ leaving = NoSock /\ todo = {}
  /\ pc' = CASE pc = "read" -> "write" [] pc = "write" -> "exc"
             [] pc = "exc" -> "time" [] pc = "time" -> "test"
  /\ todo' = CASE pc \in {"read", "write"} -> Polled
               [] pc = "exc" -> Keys [] pc = "time" -> {}
  /\ UNCHANGED <<ownerVars, clientVars, fdBak, clientChange, leaving, isRun, pending>>

(* select() failed: Exit() needs the mutex that Close() keeps while it waits. *)
Exit ==
  /\ pc = "exit"
  /\ mainPc # "closeThread"
  /\ isRun' = FALSE
  /\ pc' = "clearMap"
  /\ UNCHANGED <<ownerVars, clientVars, pollVars, pending>>

(* ClearClients(): the joined clients, then, without the lock, the waiting ones. *)
Deleted(S) ==
  /\ owner' = [b \in Block |-> IF b \in S THEN NoConn ELSE owner[b]]
  /\ sockOf' = [b \in Block |-> IF b \in S THEN NoSock ELSE sockOf[b]]

ClearMap ==
  /\ pc = "clearMap"
  /\ Deleted({clients[s] : s \in Keys})
  /\ clients' = << >>
  /\ pc' = "clearBuff"
  /\ UNCHANGED <<ownerVars, clientsBuff, present, pollVars, isRun, pending>>

ClearBuff ==
  /\ pc = "clearBuff"
  /\ Deleted(clientsBuff)
  /\ pc' = "clearEnd"
  /\ UNCHANGED <<ownerVars, clients, clientsBuff, present, pollVars, isRun, pending>>

ClearEnd ==
  /\ pc = "clearEnd"
  /\ clientsBuff' = {}
  /\ pc' = "done"
  /\ UNCHANGED <<ownerVars, owner, sockOf, clients, present, pollVars, isRun, pending>>

-------------------------------------------------------------------------------
CloseNext == CloseTasks \/ CloseTasksReturn \/ CloseThread \/ CloseReturn

WorkerNext == \/ Test \/ Check \/ Join \/ NoClients \/ Select
              \/ \E s \in Sock : PassBy(s) \/ Reply(s) \/ Leave(s)
              \/ Erase \/ EraseLast \/ NextPass
              \/ Exit \/ ClearMap \/ ClearBuff \/ ClearEnd

Next == Accept \/ CloseNext \/ RunSendTask \/ WorkerNext

SafeSpec == Init /\ [][Next]_vars

(* The operating system schedules the three threads; a main thread that has begun *)
(* to close goes on, but is only sure to leave the task server when that has run  *)
(* everything: its last traversal may go on for as long as the worker adds tasks. *)
(* The buffer from which recvData() takes the messages of a client is finite.      *)
(* Nothing obliges anybody to accept or to close, nor a client to send or leave.  *)
Spec == /\ SafeSpec
        /\ WF_vars(WorkerNext)
        /\ WF_vars(pc = "handle" /\ \E s \in Sock : PassBy(s))
        /\ WF_vars(RunSendTask)
        /\ WF_vars((CloseTasksReturn /\ pending = <<>>) \/ CloseThread \/ CloseReturn)

-------------------------------------------------------------------------------
(* Types and ranges. *)
TypeOK ==
  /\ accepted \in 0..MaxConn
  /\ owner \in [Block -> Conn \cup {NoConn}]
  /\ sockOf \in [Block -> Sock \cup {NoSock}]
  /\ Keys \subseteq Sock
  /\ \A s \in Keys : clients[s] \in Block
  /\ clientsBuff \subseteq Block
  /\ fdBak \subseteq Sock /\ todo \subseteq Sock
  /\ clientChange \in BOOLEAN /\ isRun \in BOOLEAN
  /\ present \in Nat
  /\ leaving \in Sock \cup {NoSock}
  /\ pc \in Passes \cup {"handle", "test", "check", "join", "poll", "exit", "clearMap",
                         "clearBuff", "clearEnd", "done", "astray"}
  /\ pending \in Seq([block : Block, conn : Conn, late : BOOLEAN])
  /\ mainPc \in {"serving", "closeTask", "taskClosed", "closeThread", "closed"}
  /\ win32 \in BOOLEAN /\ failed \in BOOLEAN

(* Whenever the saved descriptor set is used without being rebuilt, select() is    *)
(* given no closed descriptor, which would make it fail, and not more than the set *)
(* can take, however clients came and went; and no joined client is missing that   *)
(* could be in it: with _WIN32 only those are missing that come after as many as   *)
(* make it full, elsewhere only those whose number has no bit.                     *)
InLoop == pc \notin {"clearMap", "clearBuff", "clearEnd", "done"}

FdSetFresh ==
  InLoop /\ ~clientChange =>
    /\ fdBak \subseteq Keys
    /\ win32 => /\ Cardinality(fdBak) <= WinSetSize
                /\ \A s \in Keys \ fdBak : /\ Cardinality(fdBak) = WinSetSize
                                            /\ \A r \in fdBak : r < s
    /\ ~win32 => fdBak = Keys \cap 0..PosixSetSize - 1

(* Every client object belongs to exactly one of the two containers, under its   *)
(* own socket number, from addClient() to its deletion, although blocks and      *)
(* socket numbers of a client that leaves are given to new ones before its entry *)
(* is erased. So no client is forgotten, deleted twice or overwritten.           *)
Held(b) == b \in clientsBuff \/ \E s \in Keys \ {leaving} : clients[s] = b

Ownership ==
  pc \notin {"clearEnd", "done"} =>
    /\ \A b \in Block : b \in Live <=> Held(b)
    /\ \A s \in Keys \ {leaving} : sockOf[clients[s]] = s /\ clients[s] \notin clientsBuff
    /\ \A a, b \in Live : sockOf[a] = sockOf[b] => a = b

(* The events told to the application add up: joins minus leaves is the number of *)
(* joined clients, until ClearClients(), which tells nothing.                    *)
EventsAddUp ==
  InLoop => present = Cardinality(Keys \ {leaving})

(* ClearClients() runs only when no send task can touch a client any more: Close() *)
(* has already stopped the task server. Only a failed select() breaks that order. *)
NoTaskDuringClear ==
  ~failed /\ ~InLoop => mainPc \in {"closeThread", "closed"}

(* When Close() returns, the worker is gone and every client object and socket   *)
(* has been released, unless select() has failed.                                *)
AllReleased ==
  ~failed /\ mainPc = "closed" => pc = "done" /\ Live = {} /\ clientsBuff = {}

(* A client that was accepted is taken over by the worker ("用于消费从Server生产    *)
(* 出的客户端", it consumes the clients the server produces), or the server closes; *)
(* only a failed select(), an iterator past the end of its map and descriptors    *)
(* beyond the end of the set prevent it.                                         *)
ClientsConsumed ==
  \A b \in Block : b \in clientsBuff ~>
    b \notin clientsBuff \/ mainPc # "serving" \/ failed \/ pc = "astray"

(* Close() returns, unless the worker is led astray, or is in Exit(), where it    *)
(* may wait for the mutex that Close() keeps, or never stops adding the replies   *)
(* that the task server goes on running.                                         *)
CloseReturns ==
  \/ mainPc = "closeTask" ~> mainPc = "closed" \/ pc \in {"exit", "astray"}
  \/ []<>(mainPc = "closeTask" /\ pending # <<>>)

(* A reply goes into the send buffer of the client it is for: each client has one *)
(* of its own ("为每个客户端创建专属的缓冲区").                                       *)
RepliesReachTheirClient ==
  [][pending # <<>> /\ pending' = Tail(pending)
       => owner[Head(pending).block] = Head(pending).conn]_vars
=================================================================================
