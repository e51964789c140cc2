--------------------------- MODULE LegacyServer_proofs ---------------------------
(* Proofs about LegacyServer, for every number of Cell_Servers and connections,   *)
(* and, at the end, about the ClientProgram that connects to it, for every number *)
(* of threads and clients. They use only the possible steps, not the fairness.    *)
EXTENDS LegacyServer, ClientProgram, FiniteSetTheorems, TLAPS

All == UNION {Held(c) : c \in Cell}
NoneOff == \A c \in Cell : pc[c] # "off"

WorkerPc == {"check", "join", "clear", "poll", "select", "read", "off"}

Types ==
  /\ accepted \in Nat /\ clientCount \in Int
  /\ mainPc \in {"loop", "scan", "place", "announce", "exited"}
  /\ best \in Cell /\ scan \in Cell
  /\ mainPc \in {"scan", "place"} => accepted > 0
  /\ clientsBuff \in [Cell -> SUBSET Nat] /\ clients \in [Cell -> SUBSET Nat]
  /\ fdBak \in [Cell -> SUBSET Nat] /\ todo \in [Cell -> SUBSET Nat]
  /\ clientChange \in [Cell -> BOOLEAN] /\ pc \in [Cell -> WorkerPc]

(* What a worker knows: in the middle of the join the new clients are in both     *)
(* lists; an unchanged _fd_Read_bak holds joined clients only, and so do the      *)
(* sockets still to be read.                                                     *)
Poll(c) ==
  /\ pc[c] = "clear" => clientsBuff[c] \subseteq clients[c]
  /\ pc[c] \notin {"clear", "off"} /\ ~clientChange[c] => fdBak[c] \subseteq clients[c]
  /\ pc[c] = "select" => ~clientChange[c]
  /\ pc[c] = "read" => todo[c] \subseteq clients[c]

Apart(c) ==
  /\ Held(c) \subseteq Assigned
  /\ pc[c] # "clear" => clients[c] \cap clientsBuff[c] = {}
  /\ \A d \in Cell \ {c} : Held(c) \cap Held(d) = {}

LInv ==
  /\ Types
  /\ \A c \in Cell : Poll(c) /\ Apart(c)
  /\ NoneOff => Assigned \ gone \subseteq All

LEMMA CellNotEmpty == Cell # {} /\ 1 \in Cell
BY SizesAssumption DEF Cell

LEMMA InAll == \A x : x \in All <=> \E c \in Cell : x \in Held(c)
BY DEF All

LEMMA InitLInv == Init => LInv
<1> SUFFICES ASSUME Init PROVE LInv
  OBVIOUS
<1>1. Types
  BY CellNotEmpty DEF Init, Types, WorkerPc
<1>2. \A c \in Cell : Poll(c) /\ Apart(c)
  BY DEF Init, Poll, Apart, Held
<1>3. Assigned = {}
  BY DEF Init, Assigned
<1> QED
  BY <1>1, <1>2, <1>3 DEF LInv

(* The steps that leave the lists and the workers alone. *)
LEMMA MainStep ==
  ASSUME LInv, Accept \/ ReadSize \/ Compare \/ OnNetJoin \/ Exit
  PROVE  LInv'
<1>1. UNCHANGED <<listVars, pollVars, pc, peerVars>>
  BY DEF Accept, ReadSize, Compare, OnNetJoin, Exit
<1>2. Types'
  <2>1. CASE Accept
    BY <1>1, <2>1, CellNotEmpty DEF LInv, Types, listVars, pollVars, Accept
  <2>2. CASE Compare
    BY <1>1, <2>2, SizesAssumption DEF LInv, Types, listVars, pollVars, Compare, Cell
  <2>3. CASE ReadSize \/ OnNetJoin \/ Exit
    BY <1>1, <2>3 DEF LInv, Types, listVars, pollVars, ReadSize, OnNetJoin, Exit
  <2> QED
    BY <2>1, <2>2, <2>3
<1>3. Assigned' = Assigned
  BY DEF LInv, Types, Accept, ReadSize, Compare, OnNetJoin, Exit, Assigned
<1>4. \A c \in Cell : Held(c)' = Held(c)
  BY <1>1 DEF Held, listVars
<1>5. All' = All
  BY <1>4 DEF All
<1> QED
  BY <1>1, <1>2, <1>3, <1>4, <1>5 DEF LInv, Poll, Apart, NoneOff, listVars, pollVars, peerVars

LEMMA AddClientStep ==
  ASSUME LInv, AddClient
  PROVE  LInv'
<1>0. /\ accepted \in Nat /\ accepted > 0 /\ best \in Cell /\ Types
      /\ mainPc = "place" /\ pc[best] # "clear" /\ mainPc' = "announce"
      /\ clientsBuff' = [clientsBuff EXCEPT ![best] = @ \cup {accepted}]
      /\ UNCHANGED <<accepted, best, scan, clientCount, clients, pollVars, pc, peerVars>>
  BY DEF LInv, Types, AddClient
<1>1. Types'
  BY <1>0 DEF Types, pollVars
<1>2. Assigned = 1..accepted - 1 /\ Assigned' = 1..accepted
  BY <1>0 DEF Assigned
<1>3. /\ clientsBuff'[best] = clientsBuff[best] \cup {accepted}
      /\ \A c \in Cell : c # best => clientsBuff'[c] = clientsBuff[c]
  BY <1>0 DEF Types
<1>4. /\ Held(best)' = Held(best) \cup {accepted}
      /\ \A c \in Cell : c # best => Held(c)' = Held(c)
  BY <1>0, <1>3 DEF Held
<1>5. \A c \in Cell : accepted \notin Held(c)
  BY <1>0, <1>2 DEF LInv, Apart
<1>6. \A c \in Cell : Poll(c)'
  BY <1>0, <1>3 DEF LInv, Poll, pollVars
<1>7. ASSUME NEW c \in Cell PROVE Apart(c)'
  <2>1. Held(c)' \subseteq Assigned'
    BY <1>0, <1>2, <1>4 DEF LInv, Apart
  <2>2. pc[c] # "clear" => clients[c] \cap clientsBuff'[c] = {}
    BY <1>0, <1>3, <1>5 DEF LInv, Apart, Held
  <2>3. \A d \in Cell \ {c} : Held(c)' \cap Held(d)' = {}
    BY <1>0, <1>4, <1>5 DEF LInv, Apart
  <2> QED
    BY <1>0, <2>1, <2>2, <2>3 DEF Apart
<1>8. All' = All \cup {accepted}
  <2>1. \A x : x \in All' <=> \E c \in Cell : x \in Held(c)'
    BY DEF All
  <2> QED
    BY <1>0, <1>4, <2>1, InAll
<1>9. NoneOff' => Assigned' \ gone' \subseteq All'
  BY <1>0, <1>2, <1>8 DEF LInv, NoneOff, peerVars
<1> QED
  BY <1>1, <1>6, <1>7, <1>9 DEF LInv

(* The steps of the clients. *)
LEMMA PeerStep ==
  ASSUME LInv, NEW s, Talk(s) \/ HangUp(s)
  PROVE  LInv'
<1>1. UNCHANGED <<mainVars, clientCount, listVars, pollVars, pc>> /\ gone \subseteq gone'
  BY DEF Talk, HangUp
<1>2. Types' /\ Assigned' = Assigned
  BY <1>1 DEF LInv, Types, mainVars, listVars, pollVars, Assigned
<1>3. \A c \in Cell : Held(c)' = Held(c)
  BY <1>1 DEF Held, listVars
<1>4. All' = All
  BY <1>3 DEF All
<1> QED
  BY <1>1, <1>2, <1>3, <1>4 DEF LInv, Poll, Apart, NoneOff, listVars, pollVars

(* A step of one worker that only takes clients from its lists: what it leaves to *)
(* prove is what the worker knows and which clients it has dropped.               *)
LEMMA WorkerStep ==
  ASSUME LInv, NEW c \in Cell,
         Types', UNCHANGED <<mainVars, gone>>,
         \A d \in Cell \ {c} : /\ pc'[d] = pc[d] /\ clients'[d] = clients[d]
                               /\ clientsBuff'[d] = clientsBuff[d] /\ fdBak'[d] = fdBak[d]
                               /\ todo'[d] = todo[d] /\ clientChange'[d] = clientChange[d],
         Held(c)' \subseteq Held(c), Poll(c)',
         pc'[c] # "clear" => clients'[c] \cap clientsBuff'[c] = {},
         pc'[c] = "off" \/ (pc[c] # "off" /\ Held(c) \ gone \subseteq Held(c)')
  PROVE  LInv'
<1>1. Assigned' = Assigned
  BY DEF Assigned, mainVars
<1>2. \A d \in Cell \ {c} : Held(d)' = Held(d)
  BY DEF Held
<1>3. \A d \in Cell : Poll(d)'
  BY DEF LInv, Poll
<1>4. \A d \in Cell : Apart(d)'
  BY <1>1, <1>2 DEF LInv, Apart
<1>5. ASSUME NoneOff' PROVE Assigned' \ gone' \subseteq All'
  <2>1. NoneOff
    BY <1>5 DEF NoneOff
  <2>2. \A x : x \in All' <=> \E d \in Cell : x \in Held(d)'
    BY DEF All
  <2>3. Assigned \ gone \subseteq All
    BY <2>1 DEF LInv
  <2>4. All \ gone \subseteq All'
    BY <1>2, <1>5, <2>2, InAll DEF NoneOff
  <2> QED
    BY <1>1, <2>3, <2>4
<1> QED
  BY <1>3, <1>4, <1>5 DEF LInv


LEMMA WorkerKeeps ==
  ASSUME LInv, NEW c \in Cell, Worker(c) \/ SelectFails(c)
  PROVE  LInv'
<1> USE DEF WorkerPc
<1>0. Types /\ Poll(c) /\ Apart(c)
  BY DEF LInv
<1>1. CASE Check(c) \/ NoClients(c) \/ EndRead(c)
  <2>1. /\ UNCHANGED <<mainVars, clientCount, listVars, pollVars, peerVars>>
        /\ pc[c] \in {"check", "poll", "read"}
        /\ \E to \in {"join", "poll", "check"} : pc' = [pc EXCEPT ![c] = to]
    BY <1>1 DEF Check, NoClients, EndRead, Goes
  <2> QED
    BY <1>0, <2>1, WorkerStep DEF Types, Poll, Apart, Held, mainVars, listVars, pollVars, peerVars
<1>2. CASE JoinInsert(c)
  <2>1. /\ UNCHANGED <<mainVars, clientCount, clientsBuff, pollVars, peerVars>>
        /\ pc[c] = "join" /\ pc' = [pc EXCEPT ![c] = "clear"]
        /\ clients' = [clients EXCEPT ![c] = @ \cup clientsBuff[c]]
    BY <1>2 DEF JoinInsert, Goes
  <2> QED
    BY <1>0, <2>1, WorkerStep DEF Types, Poll, Apart, Held, mainVars, pollVars, peerVars
<1>3. CASE JoinClear(c)
  <2>1. /\ UNCHANGED <<mainVars, clientCount, clients, fdBak, todo, peerVars>>
        /\ pc[c] = "clear" /\ pc' = [pc EXCEPT ![c] = "poll"]
        /\ clientsBuff' = [clientsBuff EXCEPT ![c] = {}]
        /\ clientChange' = [clientChange EXCEPT ![c] = TRUE]
    BY <1>3 DEF JoinClear, Goes
  <2>2. Types' /\ clientsBuff'[c] = {} /\ clientChange'[c] = TRUE /\ pc'[c] = "poll"
    BY <1>0, <2>1 DEF Types, mainVars
  <2>3. Held(c)' = Held(c)
    BY <1>0, <2>1, <2>2 DEF Poll, Held
  <2>4. Poll(c)'
    BY <2>2 DEF Poll
  <2>5. \A d \in Cell \ {c} : /\ pc'[d] = pc[d] /\ clientsBuff'[d] = clientsBuff[d]
                               /\ clientChange'[d] = clientChange[d]
    BY <1>0, <2>1 DEF Types
  <2> QED
    BY <2>1, <2>2, <2>3, <2>4, <2>5, WorkerStep DEF peerVars
<1>4. CASE BuildSet(c)
  <2>1. /\ UNCHANGED <<mainVars, clientCount, listVars, todo, peerVars>>
        /\ pc[c] = "poll" /\ pc' = [pc EXCEPT ![c] = "select"]
        /\ \E S \in SUBSET clients[c] :
             fdBak' = IF clientChange[c] THEN [fdBak EXCEPT ![c] = S] ELSE fdBak
        /\ clientChange' = [clientChange EXCEPT ![c] = FALSE]
    BY <1>4 DEF BuildSet, Goes, Filled
  <2>2. PICK S \in SUBSET clients[c] :
          fdBak' = IF clientChange[c] THEN [fdBak EXCEPT ![c] = S] ELSE fdBak
    BY <2>1
  <2>3. Types' /\ pc'[c] = "select" /\ clientChange'[c] = FALSE /\ clients' = clients
    BY <1>0, <2>1, <2>2 DEF Types, mainVars, listVars
  <2>4. fdBak'[c] \subseteq clients'[c]
    BY <1>0, <2>1, <2>2 DEF Types, Poll, listVars
  <2>5. Poll(c)' /\ Held(c)' = Held(c)
    BY <2>1, <2>3, <2>4 DEF Poll, Held, listVars
  <2>6. \A d \in Cell \ {c} : /\ pc'[d] = pc[d] /\ fdBak'[d] = fdBak[d]
                               /\ clientChange'[d] = clientChange[d]
    BY <1>0, <2>1, <2>2 DEF Types
  <2>7. clients'[c] \cap clientsBuff'[c] = {}
    BY <1>0, <2>1 DEF Apart, listVars
  <2> QED
    BY <2>1, <2>3, <2>5, <2>6, <2>7, WorkerStep DEF listVars, peerVars
<1>5. CASE Select(c)
  <2>1. /\ UNCHANGED <<mainVars, clientCount, listVars, fdBak, clientChange, peerVars>>
        /\ pc[c] = "select" /\ pc' = [pc EXCEPT ![c] = "read"]
        /\ todo' = [todo EXCEPT ![c] = fdBak[c] \cap ready]
    BY <1>5 DEF Select, Goes
  <2> QED
    BY <1>0, <2>1, WorkerStep DEF Types, Poll, Apart, Held, mainVars, listVars, peerVars
<1>6. CASE SelectFails(c)
  <2>1. /\ UNCHANGED <<mainVars, clientCount, clientsBuff, pollVars, peerVars>>
        /\ pc[c] = "select" /\ pc' = [pc EXCEPT ![c] = "off"]
        /\ clients' = [clients EXCEPT ![c] = {}]
    BY <1>6 DEF SelectFails, Goes
  <2> QED
    BY <1>0, <2>1, WorkerStep DEF Types, Poll, Apart, Held, mainVars, pollVars, peerVars
<1>7. ASSUME NEW s, Read(c, s) PROVE LInv'
  <2>1. /\ UNCHANGED <<mainVars, clientCount, listVars, fdBak, clientChange, pc, gone>>
        /\ pc[c] = "read" /\ todo' = [todo EXCEPT ![c] = @ \ {s}]
    BY <1>7 DEF Read
  <2> QED
    BY <1>0, <2>1, WorkerStep DEF Types, Poll, Apart, Held, mainVars, listVars
<1>8. ASSUME NEW s, Leave(c, s) PROVE LInv'
  <2>1. /\ UNCHANGED <<mainVars, clientsBuff, fdBak, pc, gone>> /\ clientCount' = clientCount - 1
        /\ pc[c] = "read" /\ s \in todo[c] \cap gone
        /\ todo' = [todo EXCEPT ![c] = @ \ {s}] /\ clients' = [clients EXCEPT ![c] = @ \ {s}]
        /\ clientChange' = [clientChange EXCEPT ![c] = TRUE]
    BY <1>8 DEF Leave
  <2>2. clientCount' \in Int
    BY <1>0, <2>1 DEF Types
  <2>3. Types'
    BY <1>0, <2>1, <2>2 DEF Types, mainVars
  <2>4. /\ clients'[c] = clients[c] \ {s} /\ todo'[c] = todo[c] \ {s} /\ clientChange'[c] = TRUE
        /\ \A d \in Cell \ {c} : /\ clients'[d] = clients[d] /\ todo'[d] = todo[d]
                                 /\ clientChange'[d] = clientChange[d]
    BY <1>0, <2>1 DEF Types
  <2>5. Held(c)' \subseteq Held(c) /\ Held(c) \ gone \subseteq Held(c)'
    BY <2>1, <2>4 DEF Held
  <2>6. Poll(c)' /\ clients'[c] \cap clientsBuff'[c] = {}
    BY <1>0, <2>1, <2>4 DEF Poll, Apart
  <2> QED
    BY <2>1, <2>3, <2>4, <2>5, <2>6, WorkerStep
<1> QED
  BY <1>1, <1>2, <1>3, <1>4, <1>5, <1>6, <1>7, <1>8 DEF Worker

LEMMA NextLInv == LInv /\ [Next]_vars => LInv'
<1>1. LInv /\ UNCHANGED vars => LInv'
  <2> SUFFICES ASSUME LInv, UNCHANGED vars PROVE LInv'
    OBVIOUS
  <2>1. Types' /\ Assigned' = Assigned /\ \A c \in Cell : Held(c)' = Held(c)
    BY DEF LInv, Types, Assigned, Held, vars, mainVars, listVars, pollVars, peerVars
  <2>2. All' = All
    BY <2>1 DEF All
  <2> QED
    BY <2>1, <2>2 DEF LInv, Poll, Apart, NoneOff, vars, mainVars, listVars, pollVars, peerVars
<1> QED
  BY <1>1, MainStep, AddClientStep, PeerStep, WorkerKeeps DEF Next, Assign

(* A client that is still there is with exactly one Cell_Server, and the join of  *)
(* new clients loses none and doubles none.                                      *)
THEOREM ClientsHaveOneServer == Spec => []Ownership
<1>1. LInv => Ownership
  BY DEF LInv, Ownership, Apart, NoneOff, All
<1> QED
  BY InitLInv, NextLInv, <1>1, PTL DEF Spec, SafeSpec
-------------------------------------------------------------------------------
(* _clientCount: what joins and leaves, one client at a time. *)
Announced == IF mainPc = "announce" THEN 1 ELSE 0

LEMMA AllFinite == LInv => IsFiniteSet(All)
<1> SUFFICES ASSUME LInv PROVE IsFiniteSet(All)
  OBVIOUS
<1>1. accepted \in Nat
  BY DEF LInv, Types
<1>2. All \subseteq 1..accepted
  <2>1. Assigned \subseteq 1..accepted
    BY <1>1 DEF Assigned
  <2> QED
    BY <2>1, InAll DEF LInv, Apart
<1>3. IsFiniteSet(1..accepted)
  BY <1>1, FS_Interval
<1> QED
  BY <1>2, <1>3, FS_Subset

(* A step that leaves the clients of all servers together as they are. *)
LEMMA SameClients ==
  ASSUME CountAddsUp, NEW c, \A d \in Cell \ {c} : pc'[d] = pc[d], pc[c] # "off",
         \A d \in Cell : Held(d)' = Held(d), UNCHANGED <<clientCount, mainPc>>
  PROVE  CountAddsUp'
<1>1. All' = All
  BY DEF All
<1>2. NoneOff' => NoneOff
  BY DEF NoneOff
<1> QED
  BY <1>1, <1>2 DEF CountAddsUp, NoneOff, All

LEMMA InitCount == Init => CountAddsUp
<1> SUFFICES ASSUME Init PROVE CountAddsUp
  OBVIOUS
<1>1. All = {} /\ clientCount = 0 /\ mainPc = "loop"
  BY InAll DEF Init, Held
<1> QED
  BY <1>1, FS_EmptySet DEF CountAddsUp, All

LEMMA MainCount ==
  ASSUME LInv, CountAddsUp, Accept \/ Assign \/ Exit
  PROVE  CountAddsUp'
<1>0. clientCount \in Int /\ accepted \in Nat
  BY DEF LInv, Types
<1>1. NoneOff' = NoneOff /\ (NoneOff => clientCount + Announced = Cardinality(All))
  BY DEF CountAddsUp, NoneOff, All, Announced, Accept, Assign, ReadSize, Compare, AddClient,
         OnNetJoin, Exit
<1>2. SUFFICES clientCount + Announced = Cardinality(All)
                 => clientCount' + Announced' = Cardinality(All')
  BY <1>1, <1>2 DEF CountAddsUp, NoneOff, All, Announced
<1>3. CASE AddClient
  <2>1. /\ mainPc = "place" /\ mainPc' = "announce" /\ clientCount' = clientCount /\ best \in Cell
        /\ best' = best
        /\ clients' = clients /\ clientsBuff' = [clientsBuff EXCEPT ![best] = @ \cup {accepted}]
        /\ clientsBuff \in [Cell -> SUBSET Nat]
    BY <1>3 DEF AddClient, LInv, Types
  <2>2. /\ Held(best)' = Held(best) \cup {accepted}
        /\ \A c \in Cell : c # best => Held(c)' = Held(c)
    <3>1. /\ clientsBuff'[best] = clientsBuff[best] \cup {accepted}
          /\ \A c \in Cell : c # best => clientsBuff'[c] = clientsBuff[c]
      BY <2>1
    <3> QED
      BY <2>1, <3>1 DEF Held
  <2>3. \A x : x \in All' <=> \E c \in Cell : x \in Held(c)'
    BY DEF All
  <2>4. All' = All \cup {accepted}
    <3>1. ASSUME NEW x \in All' PROVE x \in All \cup {accepted}
      <4>1. PICK c \in Cell : x \in Held(c)'
        BY <2>3, <3>1
      <4>2. x \in Held(c) \/ x = accepted
        BY <2>1, <2>2, <4>1
      <4> QED
        BY <4>2, InAll
    <3>2. ASSUME NEW x \in All \cup {accepted} PROVE x \in All'
      BY <2>1, <2>2, <2>3, <3>2, InAll
    <3> QED
      BY <3>1, <3>2
  <2>5. accepted \notin All
    <3>1. Assigned = 1..accepted - 1
      BY <2>1 DEF Assigned
    <3> QED
      BY <1>0, <3>1, InAll DEF LInv, Apart
  <2>6. Cardinality(All') = Cardinality(All) + 1
    BY <2>4, <2>5, AllFinite, FS_AddElement
  <2> QED
    BY <1>0, <2>1, <2>6 DEF Announced
<1>4. CASE OnNetJoin
  <2>1. All' = All
    BY <1>4 DEF OnNetJoin, All, Held, listVars
  <2> QED
    BY <1>0, <1>4, <2>1 DEF OnNetJoin, Announced
<1>5. CASE Accept \/ ReadSize \/ Compare \/ Exit
  <2>1. All' = All
    BY <1>5 DEF Accept, ReadSize, Compare, Exit, All, Held, listVars
  <2>2. clientCount' = clientCount /\ Announced' = Announced
    BY <1>5 DEF Accept, ReadSize, Compare, Exit, Announced
  <2> QED
    BY <2>1, <2>2
<1> QED
  BY <1>3, <1>4, <1>5 DEF Assign

LEMMA WorkerCount ==
  ASSUME LInv, CountAddsUp, NEW c \in Cell, Worker(c) \/ SelectFails(c)
  PROVE  CountAddsUp'
<1>0. Types /\ Poll(c) /\ Apart(c)
  BY DEF LInv
<1>1. CASE Check(c) \/ NoClients(c) \/ EndRead(c) \/ BuildSet(c) \/ Select(c) \/ \E s \in Conn : Read(c, s)
  <2>1. /\ UNCHANGED <<mainVars, clientCount, listVars>> /\ pc[c] # "off"
        /\ \A d \in Cell \ {c} : pc'[d] = pc[d]
    BY <1>0, <1>1 DEF Check, NoClients, EndRead, BuildSet, Select, Read, Goes, Types
  <2> QED
    BY <2>1, SameClients DEF Held, listVars, mainVars
<1>2. CASE JoinInsert(c) \/ JoinClear(c)
  <2>1. /\ UNCHANGED <<mainVars, clientCount>> /\ pc[c] # "off"
        /\ \A d \in Cell \ {c} : pc'[d] = pc[d]
    BY <1>0, <1>2 DEF JoinInsert, JoinClear, Goes, Types
  <2>2. \A d \in Cell : Held(d)' = Held(d)
    BY <1>0, <1>2 DEF JoinInsert, JoinClear, Goes, Types, Poll, Held
  <2> QED
    BY <2>1, <2>2, SameClients DEF mainVars
<1>3. CASE SelectFails(c)
  <2>1. pc'[c] = "off"
    BY <1>0, <1>3 DEF SelectFails, Goes, Types
  <2> QED
    BY <2>1 DEF CountAddsUp
<1>4. ASSUME NEW s, Leave(c, s), NoneOff PROVE clientCount' + Announced' = Cardinality(All')
  <2>1. /\ UNCHANGED <<mainVars, clientsBuff, pc>> /\ clientCount' = clientCount - 1
        /\ pc[c] = "read" /\ s \in todo[c]
        /\ clients' = [clients EXCEPT ![c] = @ \ {s}]
    BY <1>4 DEF Leave
  <2>2. s \in clients[c] /\ s \notin clientsBuff[c]
    BY <1>0, <2>1 DEF Poll, Apart
  <2>3. s \in Held(c) /\ \A d \in Cell : Held(d)' = Held(d) \ {s}
    BY <1>0, <2>1, <2>2 DEF Types, Apart, Held
  <2>4. \A x : x \in All' <=> \E d \in Cell : x \in Held(d)'
    BY DEF All
  <2>5. All' = All \ {s} /\ s \in All
    BY <2>3, <2>4, InAll
  <2>6. Cardinality(All') = Cardinality(All) - 1
    BY <2>5, AllFinite, FS_RemoveElement
  <2>7. clientCount + Announced = Cardinality(All) /\ Announced' = Announced
    BY <1>4, <2>1 DEF CountAddsUp, NoneOff, All, Announced, mainVars
  <2>8. clientCount \in Int /\ Announced \in Int
    BY <1>0 DEF Types, Announced
  <2> QED
    BY <2>1, <2>6, <2>7, <2>8
<1>5. ASSUME NEW s, Leave(c, s) PROVE CountAddsUp'
  <2>1. NoneOff' = NoneOff
    BY <1>5 DEF Leave, NoneOff
  <2> QED
    BY <1>4, <1>5, <2>1 DEF CountAddsUp, NoneOff, All, Announced
<1> QED
  BY <1>1, <1>2, <1>3, <1>5 DEF Worker

(* _clientCount is the number of clients with a server, but for the one that is   *)
(* being announced, although workers lower it while the main thread raises it.    *)
THEOREM CountIsRight == Spec => []CountAddsUp
<1>1. LInv /\ CountAddsUp /\ [Next]_vars => CountAddsUp'
  <2>1. CountAddsUp /\ (UNCHANGED <<mainVars, clientCount, listVars, pc>>) => CountAddsUp'
    <3> SUFFICES ASSUME CountAddsUp, UNCHANGED <<mainVars, clientCount, listVars, pc>>
                 PROVE  CountAddsUp'
      OBVIOUS
    <3>1. All' = All /\ NoneOff' = NoneOff
      BY DEF All, Held, listVars, NoneOff
    <3> QED
      BY <3>1 DEF CountAddsUp, All, NoneOff, mainVars
  <2>2. ASSUME NEW s, Talk(s) \/ HangUp(s) PROVE UNCHANGED <<mainVars, clientCount, listVars, pc>>
    BY <2>2 DEF Talk, HangUp
  <2> QED
    BY <2>1, <2>2, MainCount, WorkerCount DEF Next, vars
<1> QED
  BY InitLInv, NextLInv, InitCount, <1>1, PTL DEF Spec, SafeSpec

-------------------------------------------------------------------------------
(* The program at the other end of the connections, ClientProgram, which has no   *)
(* variable and no action in common with the server. What the barrier counts is   *)
(* the threads that have come to it, and a thread that has come to it has dealt   *)
(* with each client of its share; the loops go through the share one by one.      *)
Arrived == {t \in Thread : threadPc[t] \in {"wait", "send", "poll"}}

ProgramTypes ==
  /\ sock \in [Client -> {"none", "invalid", "open", "connected"}]
  /\ threadPc \in [Thread ->
                     {"unborn", "new", "connect", "ready", "wait", "send", "poll"}]
  /\ at \in [Thread -> Int]
  /\ clientMain \in {"start", "wait", "loop", "returned"}

Built ==
  \A t \in Thread : \A c \in Share(t) :
    \/ threadPc[t] \in {"unborn", "new"} /\ c >= at[t]
    \/ sock[c] # "none"

Counted == readyCount = Cardinality(Arrived)

Passed ==
  (clientMain \in {"loop", "returned"} \/ \E t \in Thread : Past(t))
    => readyCount >= TCount

CInv == ProgramTypes /\ Built /\ Counted /\ Passed

(* The shares of the threads are clients. *)
LEMMA SharesAreClients ==
  ASSUME NEW t \in Thread
  PROVE  /\ Begin(t) \in Int /\ End(t) \in Int
         /\ Share(t) \subseteq Client
<1> DEFINE n == Number
<1>1. t \in Nat /\ 1 <= t /\ t <= TCount /\ TCount \in Nat /\ CCount \in Nat /\ TCount > 0
  BY TCountAssumption, CCountAssumption DEF Thread
<1>2. n \in Nat /\ TCount * n <= CCount
  BY <1>1 DEF Number
<1> HIDE DEF n
<1>3. t * n <= TCount * n /\ (t - 1) * n \in Nat /\ t * n \in Nat
  BY <1>1, <1>2
<1>4. Begin(t) = (t - 1) * n /\ End(t) = t * n
  BY DEF Begin, End, n
<1> QED
  BY <1>1, <1>2, <1>3, <1>4 DEF Share, Client

(* The number of the threads that have come to the barrier. *)
LEMMA ArrivedFinite ==
  /\ IsFiniteSet(Thread) /\ Cardinality(Thread) = TCount
  /\ IsFiniteSet(Arrived) /\ Cardinality(Arrived) \in Nat
  /\ Cardinality(Arrived) >= TCount => Arrived = Thread
<1>1. IsFiniteSet(Thread) /\ Cardinality(Thread) = TCount
  BY FS_Interval, TCountAssumption DEF Thread
<1>2. Arrived \subseteq Thread
  BY DEF Arrived
<1>3. IsFiniteSet(Arrived) /\ Cardinality(Arrived) \in Nat
  BY <1>1, <1>2, FS_Subset, FS_CardinalityType
<1>4. Cardinality(Arrived) <= TCount /\ (Cardinality(Arrived) = TCount => Arrived = Thread)
  BY <1>1, <1>2, FS_Subset
<1> QED
  BY <1>1, <1>3, <1>4, TCountAssumption

LEMMA InitCInv == ASSUME ClientInit PROVE CInv
<1> USE DEF ClientInit
<1>1. \A t \in Thread : Begin(t) \in Int
  BY SharesAreClients
<1>2. ProgramTypes
  BY <1>1 DEF ProgramTypes
<1>3. Built
  BY SharesAreClients DEF Built, Share
<1>4. Arrived = {}
  BY DEF Arrived
<1>5. Counted /\ Passed
  BY <1>4, FS_EmptySet DEF Counted, Passed, Past
<1> QED
  BY <1>2, <1>3, <1>5 DEF CInv

(* Steps of main() and of cmd_flag(). *)
LEMMA MainKeepsCInv ==
  ASSUME CInv, Main \/ Command
  PROVE  CInv'
<1> USE DEF CInv
<1>1. CASE \E t \in Thread : StartThread(t)
  <2>1. PICK t \in Thread : StartThread(t)
    BY <1>1
  <2>2. /\ threadPc[t] = "unborn" /\ threadPc' = [threadPc EXCEPT ![t] = "new"]
        /\ UNCHANGED <<sock, at, readyCount, clientMain>>
    BY <2>1 DEF StartThread, ThreadGoes
  <2>3. ProgramTypes'
    BY <2>2 DEF ProgramTypes
  <2>4. Built'
    BY <2>2 DEF ProgramTypes, Built
  <2>5. Arrived' = Arrived
    BY <2>2 DEF ProgramTypes, Arrived
  <2>6. Counted' /\ Passed'
    BY <2>2, <2>5 DEF ProgramTypes, Counted, Passed, Past
  <2> QED
    BY <2>3, <2>4, <2>6
<1>2. CASE Started \/ MainPassesBarrier \/ MainReturns \/ Command
  <2>1. UNCHANGED <<sock, threadPc, at, readyCount>>
    BY <1>2 DEF Started, MainPassesBarrier, MainReturns, Command,
                threadVars
  <2>2. /\ clientMain' \in {"start", "wait", "loop", "returned"}
        /\ clientMain' \in {"loop", "returned"} =>
             clientMain \in {"loop", "returned"} \/ readyCount >= TCount
    BY <1>2 DEF Started, MainPassesBarrier, MainReturns, Command,
                ProgramTypes
  <2>3. Built' /\ Counted' /\ ProgramTypes'
    BY <2>1, <2>2 DEF Built, Counted, Arrived, ProgramTypes
  <2>4. Passed'
    BY <2>1, <2>2 DEF Passed, Past
  <2> QED
    BY <2>3, <2>4
<1> QED
  BY <1>1, <1>2 DEF Main

(* Steps of a thread that is and stays on its way to the barrier, or past it. *)
LEMMA SameArrived ==
  ASSUME CInv, NEW t \in Thread, NEW p, threadPc' = [threadPc EXCEPT ![t] = p],
         p \in {"wait", "send", "poll"} <=> threadPc[t] \in {"wait", "send", "poll"},
         p \in {"send", "poll"} => threadPc[t] \in {"send", "poll"} \/ readyCount >= TCount,
         UNCHANGED <<readyCount, clientMain>>
  PROVE  Counted' /\ Passed'
<1>1. Arrived' = Arrived
  BY DEF CInv, ProgramTypes, Arrived
<1>2. Counted'
  BY <1>1 DEF CInv, Counted
<1>3. Passed'
  BY DEF CInv, ProgramTypes, Passed, Past
<1> QED
  BY <1>2, <1>3

LEMMA ThreadKeepsCInv ==
  ASSUME CInv, NEW t \in Thread, SendThread(t)
  PROVE  CInv'
<1> USE DEF CInv
<1>0. /\ Begin(t) \in Int /\ End(t) \in Int
      /\ Share(t) \subseteq Client
      /\ \A u \in Thread : Share(u) \subseteq Client
  BY SharesAreClients
<1>1. CASE New(t) \/ Connect(t)
  <2>1. /\ UNCHANGED <<threadPc, readyCount, clientMain>>
        /\ at[t] < End(t) /\ at' = [at EXCEPT ![t] = @ + 1]
        /\ \E s \in {"connected", "open", "invalid"} : sock' = [sock EXCEPT ![at[t]] = s]
    BY <1>1 DEF New, Connect, Step, More
  <2>2. at[t] \in Int /\ at' \in [Thread -> Int] /\ at'[t] = at[t] + 1
        /\ \A u \in Thread : u # t => at'[u] = at[u]
    BY <2>1 DEF ProgramTypes
  <2>3. ProgramTypes'
    BY <2>1, <2>2 DEF ProgramTypes
  <2>4. /\ \A c \in Client : sock[c] # "none" => sock'[c] # "none"
        /\ at[t] \in Client => sock'[at[t]] # "none"
    BY <2>1 DEF ProgramTypes
  <2>5. ASSUME NEW u \in Thread, NEW c \in Share(u)
        PROVE  \/ threadPc'[u] \in {"unborn", "new"} /\ c >= at'[u]
               \/ sock'[c] # "none"
    <3>1. c \in Client /\ c \in Int
      BY <1>0, CCountAssumption DEF Client
    <3>2. CASE sock[c] # "none"
      BY <2>4, <3>1, <3>2
    <3>3. CASE threadPc[u] \in {"unborn", "new"} /\ c >= at[u]
      BY <2>1, <2>2, <2>4, <3>1, <3>3
    <3> QED
      BY <3>2, <3>3 DEF Built
  <2>6. Built'
    BY <2>5 DEF Built
  <2>7. Counted' /\ Passed'
    BY <2>1 DEF Counted, Passed, Arrived, Past
  <2> QED
    BY <2>3, <2>6, <2>7
<1>2. CASE NextLoop(t)
  <2>1. PICK p \in {"connect", "ready"} :
          /\ threadPc[t] \in {"new", "connect"} /\ threadPc' = [threadPc EXCEPT ![t] = p]
          /\ ~(at[t] < End(t)) /\ at' = [at EXCEPT ![t] = Begin(t)]
          /\ UNCHANGED <<sock, readyCount, clientMain>>
    BY <1>2 DEF NextLoop, ThreadGoes, Rewind, More
  <2>2. ProgramTypes'
    BY <1>0, <2>1 DEF ProgramTypes
  <2>3. \A c \in Share(t) : sock[c] # "none"
    <3>1. \A c \in Share(t) : c < End(t) /\ c \in Int
      BY <1>0 DEF Share
    <3>2. at[t] \in Int
      BY DEF ProgramTypes
    <3> QED
      BY <1>0, <2>1, <3>1, <3>2 DEF Built
  <2>4. Built'
    BY <2>1, <2>3 DEF ProgramTypes, Built
  <2>5. Counted' /\ Passed'
    BY <2>1, SameArrived
  <2> QED
    BY <2>2, <2>4, <2>5
<1>3. CASE Ready(t)
  <2>1. /\ threadPc[t] = "ready" /\ threadPc' = [threadPc EXCEPT ![t] = "wait"]
        /\ readyCount' = readyCount + 1 /\ UNCHANGED <<sock, at, clientMain>>
    BY <1>3 DEF Ready, At, ThreadGoes
  <2>2. ProgramTypes' /\ Built'
    BY <2>1 DEF ProgramTypes, Built
  <2>3. Arrived' = Arrived \cup {t} /\ t \notin Arrived
    BY <2>1 DEF ProgramTypes, Arrived
  <2>4. Counted' /\ readyCount' > readyCount /\ readyCount \in Nat
    <3>1. IsFiniteSet(Arrived) /\ Cardinality(Arrived) \in Nat
      BY ArrivedFinite
    <3>2. Cardinality(Arrived') = Cardinality(Arrived) + 1
      BY <2>3, <3>1, FS_AddElement
    <3>3. readyCount = Cardinality(Arrived)
      BY DEF Counted
    <3> QED
      BY <2>1, <3>1, <3>2, <3>3 DEF Counted
  <2>5. Passed'
    <3>1. Passed /\ TCount \in Nat
      BY TCountAssumption
    <3>2. \A u \in Thread : threadPc'[u] \in {"send", "poll"} => threadPc[u] \in {"send", "poll"}
      BY <2>1 DEF ProgramTypes
    <3> QED
      BY <2>1, <2>4, <3>1, <3>2 DEF Passed, Past
  <2> QED
    BY <2>2, <2>4, <2>5
<1>4. CASE PassBarrier(t) \/ SendData(t)
  <2>1. PICK p \in {"send", "poll"} :
          /\ threadPc[t] \in {"wait", "send"} /\ threadPc' = [threadPc EXCEPT ![t] = p]
          /\ threadPc[t] = "wait" => readyCount >= TCount
          /\ UNCHANGED <<sock, at, readyCount, clientMain>>
    BY <1>4 DEF PassBarrier, SendData, At, ThreadGoes
  <2>2. ProgramTypes' /\ Built'
    BY <2>1 DEF ProgramTypes, Built
  <2>3. Counted' /\ Passed'
    BY <2>1, SameArrived
  <2> QED
    BY <2>2, <2>3
<1>5. CASE OnRun(t)
  <2>1. /\ threadPc[t] = "poll" /\ threadPc' = [threadPc EXCEPT ![t] = "send"]
        /\ at' = [at EXCEPT ![t] = @ + 1] /\ UNCHANGED <<readyCount, clientMain>>
        /\ sock' = sock \/ sock' = [sock EXCEPT ![at[t]] = "invalid"]
    BY <1>5 DEF OnRun, At, ThreadGoes, Step
  <2>2. ProgramTypes'
    BY <2>1 DEF ProgramTypes
  <2>3. \A c \in Client : sock[c] # "none" => sock'[c] # "none"
    BY <2>1 DEF ProgramTypes
  <2>4. Built'
    BY <1>0, <2>1, <2>3 DEF ProgramTypes, Built
  <2>5. Counted' /\ Passed'
    BY <2>1, SameArrived
  <2> QED
    BY <2>2, <2>4, <2>5
<1>6. CASE NextRound(t)
  <2>1. /\ threadPc[t] = "send" /\ at' = [at EXCEPT ![t] = Begin(t)]
        /\ UNCHANGED <<sock, threadPc, readyCount, clientMain>>
    BY <1>6 DEF NextRound, At, Rewind
  <2>2. ProgramTypes'
    BY <1>0, <2>1 DEF ProgramTypes
  <2>3. Built' /\ Counted' /\ Passed'
    BY <2>1 DEF ProgramTypes, Built, Counted, Passed, Arrived, Past
  <2> QED
    BY <2>2, <2>3
<1> QED
  BY <1>1, <1>2, <1>3, <1>4, <1>5, <1>6 DEF SendThread

LEMMA BarrierFromCInv == ASSUME CInv PROVE BarrierHolds
<1> SUFFICES ASSUME readyCount >= TCount, NEW t \in Thread
             PROVE  /\ threadPc[t] \in {"wait", "send", "poll"}
                    /\ \A c \in Share(t) : sock[c] # "none"
  BY DEF CInv, Passed, BarrierHolds
<1>1. threadPc[t] \in {"wait", "send", "poll"}
  BY ArrivedFinite DEF CInv, Counted, Arrived
<1> QED
  BY <1>1 DEF CInv, Built

(* Nobody sends, and no rate is reported, before every thread has constructed and *)
(* tried to connect its clients, for every number of threads and of clients.      *)
THEOREM BarrierIsHeld == ClientSafeSpec => []BarrierHolds
<1>1. CInv /\ [ClientNext]_clientVars => CInv'
  <2>1. CInv /\ UNCHANGED clientVars => CInv'
    BY DEF CInv, ProgramTypes, Built, Counted, Passed, Arrived, Past, clientVars, threadVars
  <2> QED
    BY <2>1, MainKeepsCInv, ThreadKeepsCInv DEF ClientNext
<1>2. CInv => BarrierHolds
  BY BarrierFromCInv
<1>3. ClientInit => CInv
  BY InitCInv
<1> QED
  BY <1>1, <1>2, <1>3, PTL DEF ClientSafeSpec
=================================================================================
