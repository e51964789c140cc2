---------------------------- MODULE CellServer_proofs ----------------------------
(* Proofs about CellServer. The strengthening of the invariants is Control: where *)
(* the worker may be with a client deleted and not yet erased, and that a pass    *)
(* only goes over joined clients, which all have a socket.                        *)
EXTENDS CellServer, FiniteSetTheorems, WellFoundedInduction, TLAPS

Control ==
  /\ pc \in Passes \cup {"handle"} => todo \subseteq Keys
  /\ leaving # NoSock => pc \in Passes /\ leaving \in todo /\ clientChange
  /\ pc \in {"clearBuff", "clearEnd", "done"} => Keys = {}
  /\ \A b \in Live : sockOf[b] \in Sock

IInv == TypeOK /\ Control /\ FdSetFresh /\ Ownership /\ EventsAddUp

LEMMA InitIInv == Init => IInv
<1> SUFFICES ASSUME Init PROVE IInv
  OBVIOUS
<1> USE SetsAssumption, BoundsAssumption DEF Init
<1>1. Keys = {}
  BY DEF Keys
<1>2. TypeOK
  <2>1. pending \in Seq([block : Block, conn : Conn, late : BOOLEAN])
    OBVIOUS
  <2>2. /\ owner \in [Block -> Conn \cup {NoConn}]
        /\ sockOf \in [Block -> Sock \cup {NoSock}]
    OBVIOUS
  <2>3. \A s \in Keys : clients[s] \in Block
    BY <1>1
  <2>4. /\ Keys \subseteq Sock /\ clientsBuff \subseteq Block
        /\ fdBak \subseteq Sock /\ todo \subseteq Sock
        /\ accepted \in 0..MaxConn /\ present \in Nat
        /\ leaving \in Sock \cup {NoSock}
    BY <1>1
  <2>5. /\ clientChange \in BOOLEAN /\ isRun \in BOOLEAN
        /\ win32 \in BOOLEAN /\ failed \in BOOLEAN
    BY Zenon
  <2>6. pc = "test" /\ mainPc = "serving"
    OBVIOUS
  <2> HIDE DEF Init
  <2> QED
    BY <1>1, <2>1, <2>2, <2>3, <2>4, <2>5, <2>6 DEF TypeOK
<1>3. Control /\ FdSetFresh
  BY <1>1 DEF Control, FdSetFresh, Passes, Live
<1>4. Ownership
  BY <1>1 DEF Ownership, Live, Held
<1>5. EventsAddUp
  BY <1>1, FS_EmptySet DEF EventsAddUp
<1> QED
  BY <1>2, <1>3, <1>4, <1>5 DEF IInv

--------------------------------------------------------------------------------
(* Counting the joined clients. *)

LEMMA KeysFinite == TypeOK => IsFiniteSet(Keys) /\ Cardinality(Keys) \in Nat
BY SetsAssumption, FS_Subset, FS_CardinalityType DEF TypeOK

(* The sockets of the waiting clients are distinct, and none is a key already. *)
LEMMA JoinDisjoint ==
  ASSUME TypeOK, Ownership, pc = "join", leaving = NoSock
  PROVE  /\ \A a, b \in clientsBuff : sockOf[a] = sockOf[b] => a = b
         /\ \A b \in clientsBuff : sockOf[b] \notin Keys
<1>1. \A a, b \in clientsBuff : sockOf[a] = sockOf[b] => a = b
  BY DEF TypeOK, Ownership, Held, Live
<1>2. ASSUME NEW b \in clientsBuff, sockOf[b] \in Keys PROVE FALSE
  <2>1. Keys \ {leaving} = Keys
    BY SetsAssumption DEF TypeOK, NoSock
  <2>2. sockOf[clients[sockOf[b]]] = sockOf[b] /\ clients[sockOf[b]] \notin clientsBuff
    BY <1>2, <2>1 DEF Ownership
  <2>3. clients[sockOf[b]] \in Live /\ b \in Live
    BY <1>2, <2>1 DEF TypeOK, Ownership, Held
  <2> QED
    BY <2>2, <2>3 DEF Ownership
<1> QED
  BY <1>1, <1>2

(* Join adds as many keys as there are waiting clients. *)
LEMMA JoinCounts ==
  ASSUME TypeOK, Ownership, pc = "join", leaving = NoSock
  PROVE  Cardinality(Keys \cup {sockOf[b] : b \in clientsBuff})
           = Cardinality(Keys) + Cardinality(clientsBuff)
<1> DEFINE new == {sockOf[b] : b \in clientsBuff}
           f == [b \in clientsBuff |-> sockOf[b]]
<1>1. IsFiniteSet(clientsBuff)
  BY SetsAssumption, FS_Subset DEF TypeOK
<1>3. f \in Bijection(clientsBuff, new)
  BY JoinDisjoint DEF Bijection, Injection, Surjection, IsInjective
<1>4. IsFiniteSet(new) /\ Cardinality(new) = Cardinality(clientsBuff)
  <2> HIDE DEF new, f
  <2> QED
    BY <1>1, <1>3, FS_Bijection DEF ExistsBijection
<1>5. Keys \cap new = {}
  BY JoinDisjoint
<1>6. Cardinality(Keys \cap new) = 0
  BY <1>5, FS_EmptySet
<1>7. Cardinality(new) \in Nat /\ Cardinality(Keys) \in Nat
  BY <1>4, KeysFinite, FS_CardinalityType
<1>8. Cardinality(Keys \cup new)
        = Cardinality(Keys) + Cardinality(new) - Cardinality(Keys \cap new)
  BY <1>4, KeysFinite, FS_Union
<1> QED
  BY <1>4, <1>6, <1>7, <1>8

--------------------------------------------------------------------------------
(* The elements of a finite set of numbers that have less than n smaller ones are *)
(* at most n, and if any element is left over, they are n and all of them smaller. *)
Rank(K, s) == Cardinality({r \in K : r < s})
FirstOf(K, n) == {s \in K : Rank(K, s) < n}

LEMMA RankGrows ==
  ASSUME NEW K \in SUBSET Nat, IsFiniteSet(K), NEW s \in K, NEW t \in K, s < t
  PROVE  Rank(K, s) \in Nat /\ Rank(K, t) \in Nat /\ Rank(K, s) < Rank(K, t)
<1> DEFINE S == {r \in K : r < s}
           T == {r \in K : r < t}
<1>1. s \notin S /\ S \cup {s} \subseteq T
  <2>1. s \in Nat /\ t \in Nat /\ \A r \in K : r \in Nat
    OBVIOUS
  <2>2. ~(s < s)
    BY <2>1
  <2>3. \A r \in Nat : r < s => r < t
    BY <2>1
  <2> QED
    BY <2>1, <2>2, <2>3
<1>2. IsFiniteSet(S) /\ IsFiniteSet(T)
  BY FS_Subset
<1>3. Rank(K, s) = Cardinality(S) /\ Rank(K, t) = Cardinality(T)
  BY DEF Rank
<1> HIDE DEF S, T
<1>4. IsFiniteSet(S \cup {s}) /\ Cardinality(S \cup {s}) = Cardinality(S) + 1
  BY <1>1, <1>2, FS_AddElement
<1>5. Cardinality(S \cup {s}) <= Cardinality(T)
  BY <1>1, <1>2, FS_Subset
<1>6. Cardinality(S) \in Nat /\ Cardinality(T) \in Nat
  BY <1>2, FS_CardinalityType
<1> QED
  BY <1>3, <1>4, <1>5, <1>6

LEMMA FirstAreFew ==
  ASSUME NEW K \in SUBSET Nat, IsFiniteSet(K), NEW n \in Nat
  PROVE  IsFiniteSet(FirstOf(K, n)) /\ Cardinality(FirstOf(K, n)) <= n
<1> DEFINE F == FirstOf(K, n)
           f == [s \in F |-> Rank(K, s)]
<1>1. F \subseteq K /\ IsFiniteSet(F)
  BY FS_Subset DEF FirstOf
<1>2. ASSUME NEW s \in F PROVE Rank(K, s) \in 0..n - 1
  <2>1. IsFiniteSet({r \in K : r < s})
    BY FS_Subset
  <2>2. Rank(K, s) \in Nat
    BY <2>1, FS_CardinalityType DEF Rank
  <2> QED
    BY <2>2 DEF FirstOf
<1>3. ASSUME NEW s \in F, NEW t \in F, Rank(K, s) = Rank(K, t) PROVE s = t
  <2>1. s \in K /\ t \in K /\ s \in Nat /\ t \in Nat
    BY <1>1
  <2>2. CASE s < t
    BY <1>3, <2>1, <2>2, RankGrows
  <2>3. CASE t < s
    BY <1>3, <2>1, <2>3, RankGrows
  <2> QED
    BY <2>1, <2>2, <2>3
<1>4. f \in Injection(F, 0..n - 1)
  BY <1>2, <1>3 DEF Injection, IsInjective
<1>5. IsFiniteSet(0..n - 1) /\ Cardinality(0..n - 1) = n
  BY FS_Interval
<1>6. Cardinality(F) <= Cardinality(0..n - 1)
  BY <1>1, <1>4, <1>5, FS_Injection
<1> QED
  BY <1>1, <1>5, <1>6

LEMMA FirstAreFirst ==
  ASSUME NEW K \in SUBSET Nat, IsFiniteSet(K), NEW n \in Nat,
         NEW s \in K \ FirstOf(K, n)
  PROVE  Cardinality(FirstOf(K, n)) = n /\ \A r \in FirstOf(K, n) : r < s
<1> DEFINE F == FirstOf(K, n)
<1>1. \A x \in K : Rank(K, x) \in Nat
  <2> TAKE x \in K
  <2>1. IsFiniteSet({r \in K : r < x})
    BY FS_Subset
  <2> QED
    BY <2>1, FS_CardinalityType DEF Rank
<1>2. ASSUME NEW t \in K \ F, NEW r \in F PROVE r < t
  <2>1. r \in K /\ t \in K /\ Rank(K, r) < n /\ ~(Rank(K, t) < n)
    BY DEF FirstOf
  <2>2. ~(t < r)
    BY <1>1, <2>1, RankGrows
  <2> QED
    BY <2>1, <2>2
<1>3. PICK t \in K \ F : \A x \in K \ F : ~(x < t)
  <2> DEFINE B(x) == {r \in K : r < x}
             Bs == {B(x) : x \in K \ F}
             R == StrictSubsetOrdering(K)
  <2>1. Bs \subseteq FiniteSubsetsOf(K) /\ Bs # {}
    <3>1. \A x \in K \ F : B(x) \in SUBSET K /\ IsFiniteSet(B(x))
      BY FS_Subset
    <3> QED
      BY <3>1 DEF FiniteSubsetsOf
  <2>2. IsWellFoundedOn(R, FiniteSubsetsOf(K))
    BY FS_StrictSubsetOrderingWellFounded
  <2>3. PICK X \in Bs : \A Y \in Bs : <<Y, X>> \notin R
    <3> HIDE DEF Bs, R
    <3> QED
      BY <2>1, <2>2, WFMin
  <2>4. PICK u \in K \ F : X = B(u)
    OBVIOUS
  <2>5. ASSUME NEW x \in K \ F, x < u PROVE FALSE
    <3>1. B(x) \subseteq B(u) /\ x \in B(u) /\ x \notin B(x)
      <4>1. x \in Nat /\ u \in Nat /\ ~(x < x) /\ \A r \in Nat : r < x => r < u
        BY <2>5
      <4> QED
        BY <2>5, <4>1
    <3>2. <<B(x), B(u)>> \in R
      <4>1. B(x) \in SUBSET K /\ B(u) \in SUBSET K /\ B(x) # B(u)
        BY <3>1
      <4> HIDE DEF B
      <4> QED
        BY <3>1, <4>1 DEF StrictSubsetOrdering
    <3>3. B(x) \in Bs
      OBVIOUS
    <3> QED
      BY <2>3, <2>4, <3>2, <3>3
  <2> QED
    BY <2>5
<1>4. F = {r \in K : r < t}
  <2>1. F \subseteq K
    BY DEF FirstOf
  <2> QED
    BY <1>2, <1>3, <2>1
<1>5. Cardinality(F) = Rank(K, t) /\ ~(Rank(K, t) < n)
  BY <1>4 DEF Rank, FirstOf
<1>6. Cardinality(F) <= n
  BY FirstAreFew
<1> QED
  BY <1>1, <1>2, <1>5, <1>6

(* What FD_SET() leaves in the set is as FdSetFresh wants it. *)
LEMMA FittingIsFresh ==
  ASSUME TypeOK
  PROVE  /\ Fitting \subseteq Keys
         /\ win32 => /\ Cardinality(Fitting) <= WinSetSize
                     /\ \A s \in Keys \ Fitting : /\ Cardinality(Fitting) = WinSetSize
                                                  /\ \A r \in Fitting : r < s
         /\ ~win32 => Fitting = Keys \cap 0..PosixSetSize - 1
<1>1. Keys \in SUBSET Nat /\ IsFiniteSet(Keys)
  BY SetsAssumption, KeysFinite DEF TypeOK
<1>2. win32 => Fitting = FirstOf(Keys, WinSetSize)
  BY DEF Fitting, Before, FirstOf, Rank
<1>3. ~win32 => Fitting = Keys \cap 0..PosixSetSize - 1
  <2> DEFINE K == Keys
  <2>1. K \in SUBSET Nat /\ PosixSetSize \in Nat
    BY <1>1, SetSizeAssumption
  <2>2. ~win32 => Fitting = {s \in K : s < PosixSetSize}
    BY DEF Fitting
  <2> HIDE DEF K
  <2>3. \A s \in K : s \in Nat /\ (s < PosixSetSize <=> s \in 0..PosixSetSize - 1)
    BY <2>1
  <2>4. {s \in K : s < PosixSetSize} = K \cap 0..PosixSetSize - 1
    BY <2>3
  <2> QED
    BY <2>2, <2>4 DEF K
<1>4. Fitting \subseteq Keys
  BY DEF Fitting
<1>5. Cardinality(FirstOf(Keys, WinSetSize)) <= WinSetSize
  BY <1>1, SetSizeAssumption, FirstAreFew
<1>6. \A s \in Keys \ FirstOf(Keys, WinSetSize) :
        /\ Cardinality(FirstOf(Keys, WinSetSize)) = WinSetSize
        /\ \A r \in FirstOf(Keys, WinSetSize) : r < s
  BY <1>1, SetSizeAssumption, FirstAreFirst
<1> QED
  BY <1>2, <1>3, <1>4, <1>5, <1>6

--------------------------------------------------------------------------------
LEMMA NextTypeOK == IInv /\ [Next]_vars => (TypeOK /\ Control)'
<1> SUFFICES ASSUME IInv, [Next]_vars PROVE (TypeOK /\ Control)'
  OBVIOUS
<1> USE SetsAssumption, BoundsAssumption
    DEF IInv, TypeOK, Control, Conn, Passes, NoSock, NoConn, Live
<1>1. CASE UNCHANGED vars
  BY <1>1 DEF vars, Keys
<1>2. CASE Accept
  BY <1>2 DEF Accept, pollVars, Live, Keys
<1>3. CASE CloseNext
  <2>1. CASE CloseTasks
    BY <2>1 DEF CloseTasks, clientVars, pollVars, Keys
  <2>2. CASE CloseTasksReturn
    BY <2>2 DEF CloseTasksReturn, clientVars, pollVars, Keys
  <2>3. CASE CloseThread
    BY <2>3 DEF CloseThread, clientVars, pollVars, Keys
  <2>4. CASE CloseReturn
    BY <2>4 DEF CloseReturn, clientVars, pollVars, Keys
  <2> QED
    BY <1>3, <2>1, <2>2, <2>3, <2>4 DEF CloseNext
<1>4. CASE RunSendTask
  BY <1>4 DEF RunSendTask, ownerVars, clientVars, pollVars, Keys
<1>5. CASE Test
  BY <1>5 DEF Test, ownerVars, clientVars, pollVars, Keys
<1>6. CASE Check
  BY <1>6 DEF Check, ownerVars, clientVars, pollVars, Keys
<1>7. CASE Join
  <2>1. Cardinality(clientsBuff) \in Nat
    BY FS_Subset, FS_CardinalityType
  <2>2. Keys' = Keys \cup {sockOf[b] : b \in clientsBuff} /\ clients' = Joined
    BY <1>7 DEF Join, Joined, Keys
  <2>3. \A s \in Keys' : clients'[s] \in Block
    BY <2>2 DEF Joined
  <2>4. \A b \in clientsBuff : sockOf[b] \in Sock
    BY <1>7 DEF Join, Ownership, Held
  <2>5. Keys' \subseteq Sock
    BY <2>2, <2>4
  <2> QED
    BY <1>7, <2>1, <2>3, <2>5 DEF Join, ownerVars
<1>8. CASE NoClients
  BY <1>8 DEF NoClients, ownerVars, clientVars, pollVars, Keys
<1>9. CASE Select
  <2>1. Keys' = Keys /\ win32' = win32 /\ UNCHANGED <<clients, owner, sockOf, clientsBuff, present>>
    BY <1>9 DEF Select, clientVars, Keys
  <2>2. fdBak' \subseteq Sock /\ Polled' \subseteq Keys
    BY <1>9, <2>1, FittingIsFresh DEF Select, Polled
  <2> QED
    BY <1>9, <2>1, <2>2 DEF Select
<1>10. ASSUME NEW s \in Sock, PassBy(s) PROVE (TypeOK /\ Control)'
  BY <1>10 DEF PassBy, ownerVars, clientVars, Keys, Lowest
<1>11. ASSUME NEW s \in Sock, Reply(s) PROVE (TypeOK /\ Control)'
  <2>1. s \in todo /\ pc \in {"read", "handle"} /\ leaving = NoSock
    BY <1>11 DEF Reply, Lowest
  <2>2. clients[s] \in Block /\ s \in Keys \ {leaving}
    BY <2>1
  <2>3. owner[clients[s]] \in Conn
    BY <2>1, <2>2 DEF Ownership, Held, Live
  <2>4. pending' \in Seq([block : Block, conn : Conn, late : BOOLEAN])
    BY <1>11, <2>2, <2>3 DEF Reply
  <2> QED
    BY <1>11, <2>4 DEF Reply, ownerVars, clientVars, pollVars, Keys
<1>12. ASSUME NEW s \in Sock, Leave(s) PROVE (TypeOK /\ Control)'
  <2>1. s \in todo /\ pc \in Passes /\ leaving = NoSock
    BY <1>12 DEF Leave, Lowest
  <2>2. s \in Keys /\ Keys \ {leaving} = Keys
    BY <2>1
  <2>3. present = Cardinality(Keys)
    BY <2>1, <2>2 DEF EventsAddUp, InLoop
  <2>4. Cardinality(Keys) # 0 /\ Cardinality(Keys) \in Nat
    BY <2>2, KeysFinite, FS_EmptySet
  <2>5. present' \in Nat
    BY <1>12, <2>3, <2>4 DEF Leave
  <2> QED
    BY <1>12, <2>1, <2>2, <2>5 DEF Leave, ownerVars, Keys
<1>13. CASE Erase
  BY <1>13 DEF Erase, ownerVars, Keys, After, Lowest
<1>14. CASE EraseLast
  BY <1>14 DEF EraseLast, ownerVars, Keys
<1>15. CASE NextPass
  BY <1>15 DEF NextPass, ownerVars, clientVars, Keys, Polled
<1>16. CASE Exit
  BY <1>16 DEF Exit, ownerVars, clientVars, pollVars, Keys
<1>17. CASE ClearMap
  BY <1>17 DEF ClearMap, Deleted, ownerVars, pollVars, Keys
<1>18. CASE ClearBuff
  BY <1>18 DEF ClearBuff, Deleted, ownerVars, pollVars, Keys
<1>19. CASE ClearEnd
  BY <1>19 DEF ClearEnd, ownerVars, pollVars, Keys
<1> QED
  BY <1>1, <1>2, <1>3, <1>4, <1>5, <1>6, <1>7, <1>8, <1>9, <1>10, <1>11, <1>12, <1>13,
     <1>14, <1>15, <1>16, <1>17, <1>18, <1>19 DEF Next, WorkerNext

LEMMA NextFdSetFresh == IInv /\ [Next]_vars => FdSetFresh'
<1> SUFFICES ASSUME IInv, [Next]_vars PROVE FdSetFresh'
  OBVIOUS
<1> USE DEF IInv, FdSetFresh, InLoop, Control, Passes
<1>1. CASE UNCHANGED vars
  BY <1>1 DEF vars, Keys
<1>2. CASE Accept \/ CloseNext \/ RunSendTask
  BY <1>2 DEF Accept, CloseNext, CloseTasks, CloseTasksReturn, CloseThread, CloseReturn,
              RunSendTask, ownerVars, clientVars, pollVars, Keys
<1>3. CASE Test \/ Check \/ NoClients \/ Exit
  BY <1>3 DEF Test, Check, NoClients, Exit, ownerVars, clientVars, pollVars, Keys
<1>4. CASE Join \/ \E s \in Sock : Leave(s)
  BY <1>4 DEF Join, Leave
<1>5. CASE Select
  <2>1. /\ pc = "poll" /\ Keys' = Keys /\ win32' = win32
        /\ fdBak' = IF clientChange THEN Fitting ELSE fdBak
    BY <1>5 DEF Select, clientVars, Keys
  <2>2. CASE clientChange
    BY <2>1, <2>2, FittingIsFresh
  <2>3. CASE ~clientChange
    BY <2>1, <2>3
  <2> QED
    BY <2>2, <2>3
<1>6. CASE NextPass \/ \E s \in Sock : PassBy(s) \/ Reply(s)
  BY <1>6 DEF NextPass, PassBy, Reply, ownerVars, clientVars, pollVars, Keys
<1>7. CASE Erase \/ EraseLast
  BY <1>7 DEF Erase, EraseLast
<1>8. CASE ClearMap \/ ClearBuff \/ ClearEnd
  BY <1>8 DEF ClearMap, ClearBuff, ClearEnd
<1> QED
  BY <1>1, <1>2, <1>3, <1>4, <1>5, <1>6, <1>7, <1>8 DEF Next, WorkerNext

LEMMA NextEventsAddUp == IInv /\ [Next]_vars => EventsAddUp'
<1> SUFFICES ASSUME IInv, [Next]_vars, InLoop' PROVE (present = Cardinality(Keys \ {leaving}))'
  BY DEF EventsAddUp
<1> USE DEF IInv, EventsAddUp, InLoop, Passes
<1>1. CASE UNCHANGED vars
  BY <1>1 DEF vars, Keys
<1>2. CASE Accept \/ CloseNext \/ RunSendTask
  BY <1>2 DEF Accept, CloseNext, CloseTasks, CloseTasksReturn, CloseThread, CloseReturn,
              RunSendTask, ownerVars, clientVars, pollVars, Keys
<1>3. CASE Test \/ Check \/ NoClients \/ Exit
  BY <1>3 DEF Test, Check, NoClients, Exit, clientVars, pollVars, Keys
<1>4. CASE Join
  <2>1. leaving = NoSock /\ leaving' = NoSock
    BY <1>4 DEF Join, Control
  <2>2. Keys \ {NoSock} = Keys
    BY SetsAssumption DEF TypeOK, NoSock
  <2>3. present = Cardinality(Keys)
    BY <1>4, <2>1, <2>2 DEF Join
  <2>4. Keys' = Keys \cup {sockOf[b] : b \in clientsBuff}
    BY <1>4 DEF Join, Joined, Keys
  <2>5. Cardinality(Keys') = Cardinality(Keys) + Cardinality(clientsBuff)
    BY <1>4, <2>1, <2>4, JoinCounts DEF Join
  <2>6. Keys' \ {NoSock} = Keys'
    <3>1. TypeOK'
      BY NextTypeOK
    <3> QED
      BY <3>1, SetsAssumption DEF TypeOK, NoSock
  <2> QED
    BY <1>4, <2>1, <2>3, <2>5, <2>6 DEF Join
<1>5. CASE Select
  BY <1>5 DEF Select, clientVars, Keys
<1>6. CASE NextPass \/ \E s \in Sock : PassBy(s) \/ Reply(s)
  BY <1>6 DEF NextPass, PassBy, Reply, clientVars, pollVars, Keys
<1>7. ASSUME NEW s \in Sock, Leave(s)
      PROVE  (present = Cardinality(Keys \ {leaving}))'
  <2>1. s \in Keys /\ leaving = NoSock /\ Keys \ {leaving} = Keys
    BY <1>7, SetsAssumption DEF Leave, Lowest, Control, TypeOK, NoSock
  <2>2. present = Cardinality(Keys) /\ Keys' = Keys /\ leaving' = s
    BY <1>7, <2>1 DEF Leave, Keys
  <2>3. Cardinality(Keys \ {s}) = Cardinality(Keys) - 1
    BY <2>1, KeysFinite, FS_RemoveElement
  <2> QED
    BY <1>7, <2>2, <2>3 DEF Leave
<1>8. CASE Erase \/ EraseLast
  <2>1. Keys' = Keys \ {leaving} /\ leaving' = NoSock /\ present' = present
    BY <1>8 DEF Erase, EraseLast, Keys
  <2>2. Keys' \ {NoSock} = Keys'
    BY <2>1, SetsAssumption DEF TypeOK, NoSock
  <2>3. InLoop
    BY <1>8 DEF Erase, EraseLast, Control
  <2> QED
    BY <2>1, <2>2, <2>3
<1>9. CASE ClearMap \/ ClearBuff \/ ClearEnd
  BY <1>9 DEF ClearMap, ClearBuff, ClearEnd
<1> QED
  BY <1>1, <1>2, <1>3, <1>4, <1>5, <1>6, <1>7, <1>8, <1>9 DEF Next, WorkerNext

LEMMA NextOwnership == IInv /\ [Next]_vars => Ownership'
<1> SUFFICES ASSUME IInv, [Next]_vars PROVE Ownership'
  OBVIOUS
<1> USE SetsAssumption DEF IInv, Ownership, Held, Live, Passes, NoSock, NoConn
<1>1. CASE UNCHANGED vars
  BY <1>1 DEF vars, Keys
<1>2. CASE Accept
  BY <1>2 DEF Accept, pollVars, Keys, TypeOK
<1>3. CASE CloseNext \/ RunSendTask
  BY <1>3 DEF CloseNext, CloseTasks, CloseTasksReturn, CloseThread, CloseReturn,
              RunSendTask, ownerVars, clientVars, pollVars, Keys
<1>4. CASE Test \/ Check \/ NoClients \/ Exit
  BY <1>4 DEF Test, Check, NoClients, Exit, clientVars, pollVars, Keys
<1>5. CASE Join
  <2>1. leaving = NoSock /\ leaving' = NoSock /\ pc = "join"
    BY <1>5 DEF Join, Control
  <2>2. /\ Keys' = Keys \cup {sockOf[b] : b \in clientsBuff}
        /\ clients' = Joined /\ clientsBuff' = {}
        /\ UNCHANGED <<owner, sockOf>>
    BY <1>5 DEF Join, Joined, Keys
  <2>3. ASSUME NEW b \in clientsBuff PROVE clients'[sockOf[b]] = b
    BY <2>1, <2>2, JoinDisjoint DEF Joined
  <2>4. ASSUME NEW s \in Keys PROVE clients'[s] = clients[s]
    BY <2>1, <2>2, JoinDisjoint DEF Joined
  <2>5. Keys \ {leaving} = Keys /\ Keys' \ {leaving'} = Keys'
    <3>1. TypeOK'
      BY NextTypeOK
    <3> QED
      BY <2>1, <3>1 DEF TypeOK
  <2>6. \A b \in Block : b \in Live' <=> Held(b)'
    BY <2>1, <2>2, <2>3, <2>4, <2>5
  <2>7. \A s \in Keys' : sockOf'[clients'[s]] = s
    BY <2>1, <2>2, <2>3, <2>4, <2>5
  <2> QED
    BY <2>1, <2>2, <2>5, <2>6, <2>7
<1>6. CASE Select
  BY <1>6 DEF Select, clientVars, Keys
<1>7. CASE NextPass \/ \E s \in Sock : PassBy(s) \/ Reply(s)
  BY <1>7 DEF NextPass, PassBy, Reply, clientVars, pollVars, Keys
<1>8. ASSUME NEW s \in Sock, Leave(s) PROVE Ownership'
  BY <1>8 DEF Leave, Lowest, Control, Keys, TypeOK
<1>9. CASE Erase
  BY <1>9 DEF Erase, Keys, Control, TypeOK
<1>10. CASE EraseLast
  BY <1>10 DEF EraseLast, Keys, Control, TypeOK
<1>11. CASE ClearMap
  BY <1>11 DEF ClearMap, Deleted, Keys, Control, TypeOK, pollVars
<1>12. CASE ClearBuff \/ ClearEnd
  BY <1>12 DEF ClearBuff, ClearEnd
<1> QED
  BY <1>1, <1>2, <1>3, <1>4, <1>5, <1>6, <1>7, <1>8, <1>9, <1>10, <1>11, <1>12
     DEF Next, WorkerNext

LEMMA NextIInv == IInv /\ [Next]_vars => IInv'
BY NextTypeOK, NextFdSetFresh, NextOwnership, NextEventsAddUp DEF IInv

--------------------------------------------------------------------------------
(* All variables keep to their ranges; in particular there are never more leaves *)
(* than joins.                                                                   *)
THEOREM TypesCorrect == SafeSpec => []TypeOK
<1>1. IInv => TypeOK
  BY DEF IInv
<1> QED
  BY InitIInv, NextIInv, <1>1, PTL DEF SafeSpec

(* Whatever joins and leaves, select() is given only descriptors of joined clients, *)
(* and none of them is missing but for want of room in the set: for every size of  *)
(* the set and every number of clients, on both platforms.                        *)
THEOREM DescriptorsFresh == SafeSpec => []FdSetFresh
<1>1. IInv => FdSetFresh
  BY DEF IInv
<1> QED
  BY InitIInv, NextIInv, <1>1, PTL DEF SafeSpec

(* Every live client object is in exactly one container, under its own socket    *)
(* number, for any number of clients, blocks and sockets, on both platforms.     *)
THEOREM ClientsOwned == SafeSpec => []Ownership
<1>1. IInv => Ownership
  BY DEF IInv
<1> QED
  BY InitIInv, NextIInv, <1>1, PTL DEF SafeSpec

(* The join and leave events given to the application count the joined clients. *)
THEOREM EventsCount == SafeSpec => []EventsAddUp
<1>1. IInv => EventsAddUp
  BY DEF IInv
<1> QED
  BY InitIInv, NextIInv, <1>1, PTL DEF SafeSpec

--------------------------------------------------------------------------------
(* Close(), until select() fails: the flag is up until the task server is *)
(* closed, the worker leaves its loop after that, and nothing is accepted then.  *)
Closing ==
  /\ isRun <=> mainPc \in {"serving", "closeTask", "taskClosed"}
  /\ pc # "exit"
  /\ ~InLoop => ~isRun
  /\ pc = "clearEnd" => Live = {}
  /\ pc = "done" => Live = {} /\ clientsBuff = {}
  /\ mainPc = "closed" => pc = "done"

JInv == IInv /\ (failed \/ Closing)

LEMMA NextJInv == JInv /\ [Next]_vars => JInv'
<1> SUFFICES ASSUME JInv, [Next]_vars, ~failed' PROVE Closing'
  BY NextIInv DEF JInv
<1>0. ~failed /\ Closing
  <2>1. failed => failed'
    BY DEF Next, Accept, CloseNext, CloseTasks, CloseTasksReturn, CloseThread, CloseReturn,
           RunSendTask, WorkerNext, Test, Check, Join, NoClients, Select, PassBy, Reply, Leave,
           Erase, EraseLast, NextPass, Exit, ClearMap, ClearBuff, ClearEnd, ownerVars, vars
  <2> QED
    BY <2>1 DEF JInv
<1> USE <1>0 DEF JInv, Closing, InLoop, Passes
<1>1. CASE UNCHANGED vars
  BY <1>1 DEF vars, Live
<1>2. CASE Accept
  BY <1>2 DEF Accept, pollVars
<1>3. CASE CloseNext \/ RunSendTask
  BY <1>3 DEF CloseNext, CloseTasks, CloseTasksReturn, CloseThread, CloseReturn,
              RunSendTask, ownerVars, clientVars, pollVars, Live, IInv, TypeOK
<1>4. CASE Test \/ Check \/ NoClients \/ Exit
  BY <1>4 DEF Test, Check, NoClients, Exit, ownerVars, clientVars, pollVars, Live
<1>5. CASE Join \/ Select
  BY <1>5 DEF Join, Select, ownerVars, clientVars
<1>6. CASE NextPass \/ \E s \in Sock : PassBy(s) \/ Reply(s) \/ Leave(s)
  <2>1. pc \in Passes \cup {"handle"} /\ mainPc' = mainPc /\ isRun' = isRun
    BY <1>6 DEF NextPass, PassBy, Reply, Leave, ownerVars
  <2>2. pc' \in Passes \cup {"handle", "test"}
    BY <1>6, <2>1 DEF NextPass, PassBy, Reply, Leave
  <2> QED
    BY <2>1, <2>2
<1>7. CASE Erase \/ EraseLast
  BY <1>7 DEF Erase, EraseLast, ownerVars, IInv, Control
<1>8. CASE ClearMap
  BY <1>8 DEF ClearMap, Deleted, ownerVars, pollVars
<1>9. CASE ClearBuff
  <2>1. Live = clientsBuff
    BY <1>9 DEF ClearBuff, IInv, Ownership, Held, Control, Live, TypeOK
  <2> QED
    BY <1>9, <2>1 DEF ClearBuff, Deleted, ownerVars, pollVars, Live
<1>10. CASE ClearEnd
  BY <1>10 DEF ClearEnd, ownerVars, pollVars, Live
<1> QED
  BY <1>1, <1>2, <1>3, <1>4, <1>5, <1>6, <1>7, <1>8, <1>9, <1>10 DEF Next, WorkerNext

LEMMA InitJInv == Init => JInv
BY InitIInv DEF JInv, Closing, Init, InLoop, Passes

(* As long as select() works, ClearClients() begins after the task server has    *)
(* stopped: no send task finds its client deleted by it.                         *)
THEOREM TasksStopBeforeClear == SafeSpec => []NoTaskDuringClear
<1>1. JInv => NoTaskDuringClear
  BY DEF JInv, IInv, TypeOK, Closing, NoTaskDuringClear
<1>2. JInv /\ [Next]_vars => JInv'
  BY NextJInv
<1> QED
  BY InitJInv, <1>1, <1>2, PTL DEF SafeSpec

(* As long as select() works, Close() returns with the worker gone and with all  *)
(* client objects and sockets released.                                          *)
THEOREM CloseReleasesAll == SafeSpec => []AllReleased
<1>1. JInv => AllReleased
  BY DEF JInv, Closing, AllReleased
<1>2. JInv /\ [Next]_vars => JInv'
  BY NextJInv
<1> QED
  BY InitJInv, <1>1, <1>2, PTL DEF SafeSpec
=================================================================================
