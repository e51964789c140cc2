------------------------------ MODULE LegacyServer ------------------------------
(* Server/Server.h with the main loop of Server.cpp: the first generation of the  *)
(* server. The main thread accepts connections, gives each to the Cell_Server     *)
(* with the fewest clients and counts it; each Cell_Server has a worker that      *)
(* joins the new clients, waits in select() without a time limit, reads, and      *)
(* drops the clients whose recv() fails. It is the code compiled with _WIN32: the *)
(* other branch of onRun() does not compile.                                      *)
(*                                                                               *)
(* Nothing here closes the socket of a client that leaves, so a socket number is  *)
(* never used again and names its connection.                                     *)
EXTENDS Integers, Sequences, FiniteSets

CONSTANTS CellServers,    \* Cellserver_thread_number
          SetSize,        \* FD_SETSIZE: how many sockets fit an fd_set
          MaxConn         \* bound of the model: number of connections accepted

ASSUME SizesAssumption ==
  CellServers \in Nat \ {0} /\ SetSize \in Nat \ {0} /\ MaxConn \in Nat

Cell == 1..CellServers
Conn == 1..MaxConn

VARIABLES accepted,     \* number of connections accepted so far
          mainPc,       \* the main thread: "loop"; "scan", "place" and "announce",
                        \* in addClinetToCellserver(); "exited"
          best,         \* pMinServer
          scan,         \* pCellserver
          sizes,        \* what the current comparison has read so far
          listening,    \* whether the shared _sock is open
          clientCount,  \* _clientCount
          clientsBuff,  \* _clientsBuff of each Cell_Server
          clients,      \* _clients of each
          fdBak,        \* _fd_Read_bak of each
          clientChange, \* _client_change of each
          todo,         \* what the read loop of each has still to read
          pc,           \* control point of each worker
          ready,        \* the sockets that a recv() would not block on
          gone          \* those whose recv() would fail

mainVars == <<accepted, mainPc, best, scan, sizes>>
listVars == <<clientsBuff, clients>>
pollVars == <<fdBak, clientChange, todo>>
peerVars == <<ready, gone>>
vars == <<mainVars, listening, clientCount, listVars, pollVars, pc, peerVars>>

Held(c) == clients[c] \cup clientsBuff[c]

Init == /\ accepted = 0
        /\ mainPc = "loop"
        /\ best = 1 /\ scan = 1 /\ sizes = <<>>
        /\ listening = TRUE
        /\ clientCount = 0
        /\ clientsBuff = [c \in Cell |-> {}]
        /\ clients = [c \in Cell |-> {}]
        /\ fdBak = [c \in Cell |-> {}]
        /\ clientChange = [c \in Cell |-> TRUE]
        /\ todo = [c \in Cell |-> {}]
        /\ pc = [c \in Cell |-> "check"]
        /\ ready = {} /\ gone = {}

Running == mainPc # "exited"
Goes(c, from, to) == Running /\ pc[c] = from /\ pc' = [pc EXCEPT ![c] = to]

-------------------------------------------------------------------------------
(* Faulty variants used as mutants. *)

AddClientUnlocked ==
  /\ mainPc = "place"
  /\ clientsBuff' = [clientsBuff EXCEPT ![best] = @ \cup {accepted}]
  /\ mainPc' = "announce"
  /\ UNCHANGED <<accepted, best, scan, sizes, listening, clientCount, clients,
                 pollVars, pc, peerVars>>

LeaveSilently(c, s) ==
  /\ Running /\ pc[c] = "read" /\ s \in todo[c] \cap gone
  /\ clientChange' = [clientChange EXCEPT ![c] = TRUE]
  /\ clients' = [clients EXCEPT ![c] = @ \ {s}]
  /\ todo' = [todo EXCEPT ![c] = @ \ {s}]
  /\ ready' = ready \ {s}
  /\ UNCHANGED <<mainVars, listening, clientCount, clientsBuff, fdBak, pc, gone>>

CheckInverted(c) ==
  /\ Goes(c, "check", IF clientsBuff[c] = {} THEN "join" ELSE "poll")
  /\ UNCHANGED <<mainVars, listening, clientCount, listVars, pollVars, peerVars>>

-------------------------------------------------------------------------------
(* The main thread: onRun() finds a connection, Accept_clenit() accepts it ...   *)
Accept ==
  /\ mainPc = "loop" /\ listening
  /\ accepted < MaxConn
  /\ accepted' = accepted + 1
  /\ best' = 1 /\ scan' = 1 /\ sizes' = <<>>
  /\ mainPc' = "scan"
  /\ UNCHANGED <<listening, clientCount, listVars, pollVars, pc, peerVars>>

(* ... addClinetToCellserver() compares getClinetCount() of the two servers: four *)
(* sizes read one after the other, without the locks ...                         *)
ReadSize ==
  /\ mainPc = "scan" /\ Len(sizes) < 4
  /\ sizes' = Append(sizes, LET c == IF Len(sizes) < 2 THEN best ELSE scan
                            IN Cardinality(IF Len(sizes) \in {0, 2} THEN clients[c]
                                                                    ELSE clientsBuff[c]))
  /\ UNCHANGED <<accepted, mainPc, best, scan, listening, clientCount, listVars,
                 pollVars, pc, peerVars>>

Compare ==
  /\ mainPc = "scan" /\ Len(sizes) = 4
  /\ best' = IF sizes[1] + sizes[2] > sizes[3] + sizes[4] THEN scan ELSE best
  /\ \/ scan < CellServers /\ scan' = scan + 1 /\ UNCHANGED mainPc
     \/ scan = CellServers /\ mainPc' = "place" /\ UNCHANGED scan
  /\ sizes' = <<>>
  /\ UNCHANGED <<accepted, listening, clientCount, listVars, pollVars, pc, peerVars>>

(* ... addClient(), under the lock that the worker keeps while it joins ...      *)
AddClient ==
  /\ mainPc = "place"
  /\ pc[best] # "clear"
  /\ clientsBuff' = [clientsBuff EXCEPT ![best] = @ \cup {accepted}]
  /\ mainPc' = "announce"
  /\ UNCHANGED <<accepted, best, scan, sizes, listening, clientCount, clients,
                 pollVars, pc, peerVars>>

(* ... and OnNetJoin(), when the worker may already serve the client. *)
OnNetJoin ==
  /\ mainPc = "announce"
  /\ clientCount' = clientCount + 1
  /\ mainPc' = "loop"
  /\ UNCHANGED <<accepted, best, scan, sizes, listening, listVars, pollVars, pc, peerVars>>

(* The command "exit": Close_sock(), the end of main() and of the process. *)
Exit ==
  /\ mainPc = "loop"
  /\ listening' = FALSE
  /\ mainPc' = "exited"
  /\ UNCHANGED <<accepted, best, scan, sizes, clientCount, listVars, pollVars, pc, peerVars>>

-------------------------------------------------------------------------------
(* The worker of a Cell_Server: the unlocked test, then the join in two steps     *)
(* under the lock, which getClinetCount() does not respect.                      *)
Check(c) ==
  /\ Goes(c, "check", IF clientsBuff[c] # {} THEN "join" ELSE "poll")
  /\ UNCHANGED <<mainVars, listening, clientCount, listVars, pollVars, peerVars>>

JoinInsert(c) ==
  /\ Goes(c, "join", "clear")
  /\ clients' = [clients EXCEPT ![c] = @ \cup clientsBuff[c]]
  /\ UNCHANGED <<mainVars, listening, clientCount, clientsBuff, pollVars, peerVars>>

JoinClear(c) ==
  /\ Goes(c, "clear", "poll")
  /\ clientsBuff' = [clientsBuff EXCEPT ![c] = {}]
  /\ clientChange' = [clientChange EXCEPT ![c] = TRUE]
  /\ UNCHANGED <<mainVars, listening, clientCount, clients, fdBak, todo, peerVars>>

NoClients(c) ==
  /\ clients[c] = {}
  /\ Goes(c, "poll", "check")
  /\ UNCHANGED <<mainVars, listening, clientCount, listVars, pollVars, peerVars>>

(* The sockets that FD_SET() can leave in the set, which takes them in the order  *)
(* of their numbers, not that of their arrival: all of them, or as many as fit;   *)
(* the others are dropped without a word.                                         *)
Filled(c) == {S \in SUBSET clients[c] : /\ Cardinality(S) <= SetSize
                                        /\ S # clients[c] => Cardinality(S) = SetSize}

BuildSet(c) ==
  /\ clients[c] # {}
  /\ Goes(c, "poll", "select")
  /\ IF clientChange[c] THEN \E S \in Filled(c) : fdBak' = [fdBak EXCEPT ![c] = S]
                        ELSE UNCHANGED fdBak
  /\ clientChange' = [clientChange EXCEPT ![c] = FALSE]
  /\ UNCHANGED <<mainVars, listening, clientCount, listVars, todo, peerVars>>

(* select() without a time limit returns when a socket of its set is ready. *)
Select(c) ==
  /\ fdBak[c] \cap ready # {}
  /\ Goes(c, "select", "read")
  /\ todo' = [todo EXCEPT ![c] = fdBak[c] \cap ready]
  /\ UNCHANGED <<mainVars, listening, clientCount, listVars, fdBak, clientChange, peerVars>>

(* Its error makes the worker run Close_sock(), which closes the joined clients   *)
(* and the socket on which the main thread listens, and end.                     *)
SelectFails(c) ==
  /\ Goes(c, "select", "off")
  /\ clients' = [clients EXCEPT ![c] = {}]
  /\ listening' = FALSE
  /\ UNCHANGED <<mainVars, clientCount, clientsBuff, pollVars, peerVars>>

(* recvData() of a socket in the result, with the messages it completes; or its   *)
(* failure, with OnNetLeave().                                                   *)
Read(c, s) ==
  /\ Running /\ pc[c] = "read" /\ s \in todo[c] \ gone
  /\ todo' = [todo EXCEPT ![c] = @ \ {s}]
  /\ ready' = ready \ {s}
  /\ UNCHANGED <<mainVars, listening, clientCount, listVars, fdBak, clientChange, pc, gone>>

Leave(c, s) ==
  /\ Running /\ pc[c] = "read" /\ s \in todo[c] \cap gone
  /\ clientChange' = [clientChange EXCEPT ![c] = TRUE]
  /\ clientCount' = clientCount - 1
  /\ clients' = [clients EXCEPT ![c] = @ \ {s}]
  /\ todo' = [todo EXCEPT ![c] = @ \ {s}]
  /\ ready' = ready \ {s}
  /\ UNCHANGED <<mainVars, listening, clientsBuff, fdBak, pc, gone>>

EndRead(c) ==
  /\ todo[c] = {}
  /\ Goes(c, "read", "check")
  /\ UNCHANGED <<mainVars, listening, clientCount, listVars, pollVars, peerVars>>

-------------------------------------------------------------------------------
(* The clients: one sends something, one goes. *)
Talk(s) ==
  /\ Running
  /\ s <= accepted /\ s \notin gone
  /\ ready' = ready \cup {s}
  /\ UNCHANGED <<mainVars, listening, clientCount, listVars, pollVars, pc, gone>>

HangUp(s) ==
  /\ Running
  /\ s <= accepted /\ s \notin gone
  /\ ready' = ready \cup {s}
  /\ gone' = gone \cup {s}
  /\ UNCHANGED <<mainVars, listening, clientCount, listVars, pollVars, pc>>

Assign == ReadSize \/ Compare \/ AddClient \/ OnNetJoin

Worker(c) == \/ Check(c) \/ JoinInsert(c) \/ JoinClear(c) \/ NoClients(c)
             \/ BuildSet(c) \/ Select(c)
             \/ \E s \in Conn : Read(c, s) \/ Leave(c, s)
             \/ EndRead(c)

Next == \/ Accept \/ Assign \/ Exit
        \/ \E c \in Cell : Worker(c) \/ SelectFails(c)
        \/ \E s \in Conn : Talk(s) \/ HangUp(s)

SafeSpec == Init /\ [][Next]_vars

(* The operating system schedules the threads. Nobody is obliged to connect, to  *)
(* send, to go, or to type "exit", and select() is not obliged to fail: while no  *)
(* socket of its set is ready, the worker may stay in it for ever.                *)
Spec == SafeSpec /\ WF_vars(Assign) /\ \A c \in Cell : WF_vars(Worker(c))

-------------------------------------------------------------------------------
(* A client that has not gone is with exactly one Cell_Server, from addClient()   *)
(* on, in exactly one of its lists but for the moment of the join: the unlocked   *)
(* test of _clientsBuff and the join lose none and double none.                  *)
Assigned == IF mainPc \in {"scan", "place"} THEN 1..accepted - 1 ELSE 1..accepted

Ownership ==
  /\ (\A c \in Cell : pc[c] # "off") =>
       Assigned \ gone \subseteq UNION {Held(c) : c \in Cell}
  /\ \A c \in Cell : /\ Held(c) \subseteq Assigned
                     /\ pc[c] # "clear" => clients[c] \cap clientsBuff[c] = {}
                     /\ \A d \in Cell \ {c} : Held(c) \cap Held(d) = {}

(* _clientCount, which the main thread raises after the worker may have lowered   *)
(* it for the same client, is right as soon as the main thread has caught up, in  *)
(* a server where no select() has failed.                                        *)
CountAddsUp ==
  (\A c \in Cell : pc[c] # "off") =>
    clientCount + (IF mainPc = "announce" THEN 1 ELSE 0) =
      Cardinality(UNION {Held(c) : c \in Cell})

(* The time limit of select() that its caller counts on ("超时就跳过当前循环") does  *)
(* not exist: the new clients of a server are joined as long as there is always    *)
(* somebody to send among the clients in the descriptor set, or the server has     *)
(* none. Where these fall silent, a new client waits for ever, and so do those     *)
(* that did not fit the set.                                                       *)
JoinsIfOthersTalk ==
  \A c \in Cell :
    []<>(clients[c] = {} \/ fdBak[c] \cap ready # {})
      => (clientsBuff[c] # {} ~> clientsBuff[c] = {} \/ pc[c] = "off" \/ ~Running)
=================================================================================
