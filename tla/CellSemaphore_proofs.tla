-------------------------- MODULE CellSemaphore_proofs --------------------------
(* Proofs about Cell_Semaphore, for any finite set of threads and any MaxWait. *)
EXTENDS CellSemaphore, FiniteSetTheorems, TLAPS

(* TypeOK alone is not inductive for the counts and the counts need the types:  *)
(* the three invariants are proved together.                                    *)
IInv == TypeOK /\ BlockedCount /\ NoLostWakeup

(* The sets of blocked and of awake threads are finite, so that they have a *)
(* number of elements, and no thread is in both states at once.             *)
LEMMA BlockedFinite ==
  /\ IsFiniteSet(Awake) /\ Cardinality(Awake) \in Nat
  /\ IsFiniteSet(Asleep) /\ Cardinality(Asleep) \in Nat
  /\ IsFiniteSet(Blocked) /\ Cardinality(Blocked) \in Nat
<1>1. Awake \subseteq Thread /\ Asleep \subseteq Thread /\ Blocked \subseteq Thread
  BY DEF Awake, Asleep, Blocked
<1>2. IsFiniteSet(Awake) /\ IsFiniteSet(Asleep) /\ IsFiniteSet(Blocked)
  BY <1>1, ThreadAssumption, FS_Subset
<1>. QED
  BY <1>2, FS_CardinalityType

(* Waking a sleeping thread moves it within Blocked and adds it to Awake. *)
LEMMA WakeOne ==
  ASSUME TypeOK, NEW t \in Thread, pc[t] = "asleep",
         pc' = [pc EXCEPT ![t] = "awake"]
  PROVE  /\ Blocked' = Blocked
         /\ Cardinality(Awake') = Cardinality(Awake) + 1
<1>1. Awake' = Awake \cup {t} /\ t \notin Awake /\ Blocked' = Blocked
  BY DEF TypeOK, Awake, Asleep, Blocked
<1>. QED
  BY <1>1, BlockedFinite, FS_AddElement

(* A thread that leaves wait() is removed from Awake and from Blocked. *)
LEMMA LeaveWait ==
  ASSUME TypeOK, NEW t \in Thread, pc[t] = "awake",
         pc' = [pc EXCEPT ![t] = "idle"]
  PROVE  /\ Cardinality(Blocked') = Cardinality(Blocked) - 1
         /\ Cardinality(Awake') = Cardinality(Awake) - 1
         /\ Blocked' = Blocked \ {t}
<1>1. /\ Awake' = Awake \ {t} /\ t \in Awake
      /\ Blocked' = Blocked \ {t} /\ t \in Blocked
  BY DEF TypeOK, Awake, Asleep, Blocked
<1>. QED
  BY <1>1, BlockedFinite, FS_RemoveElement

(* A thread that goes to sleep in wait() is added to Blocked. *)
LEMMA FallAsleep ==
  ASSUME TypeOK, NEW t \in Thread, pc[t] = "idle",
         pc' = [pc EXCEPT ![t] = "asleep"]
  PROVE  /\ Cardinality(Blocked') = Cardinality(Blocked) + 1
         /\ Awake' = Awake
         /\ t \notin Blocked /\ Blocked' = Blocked \cup {t}
<1>1. Awake' = Awake /\ Blocked' = Blocked \cup {t} /\ t \notin Blocked
  BY DEF TypeOK, Awake, Asleep, Blocked
<1>. QED
  BY <1>1, BlockedFinite, FS_AddElement

(* An awake thread that finds no token goes back to sleep: it stays blocked. *)
LEMMA SleepAgain ==
  ASSUME TypeOK, NEW t \in Thread, pc[t] = "awake",
         pc' = [pc EXCEPT ![t] = "asleep"]
  PROVE  /\ Blocked' = Blocked
         /\ Cardinality(Awake') = Cardinality(Awake) - 1
<1>1. Awake' = Awake \ {t} /\ t \in Awake /\ Blocked' = Blocked
  BY DEF TypeOK, Awake, Asleep, Blocked
<1>. QED
  BY <1>1, BlockedFinite, FS_RemoveElement

(* When nobody sleeps, the awake threads are all the blocked ones. *)
LEMMA NobodyAsleep ==
  ASSUME Asleep = {}
  PROVE  Awake = Blocked
BY DEF Blocked

(* Without a change of pc the sets stay what they are. *)
LEMMA SameThreads ==
  ASSUME UNCHANGED pc
  PROVE  Blocked' = Blocked /\ Awake' = Awake
BY DEF Blocked, Awake, Asleep

LEMMA InitIInv == Init => IInv
<1>. SUFFICES ASSUME Init PROVE IInv
  OBVIOUS
<1>1. Blocked = {} /\ Awake = {}
  BY DEF Init, Blocked, Awake, Asleep
<1>2. Cardinality(Blocked) = 0 /\ Cardinality(Awake) = 0
  BY <1>1, FS_EmptySet
<1>. QED
  BY <1>2 DEF Init, IInv, TypeOK, BlockedCount, NoLostWakeup, Positive

LEMMA NextTypeOK == TypeOK /\ [Next]_vars => TypeOK'
BY DEF TypeOK, Next, vars, Wait, Resume, SpuriousWake, Wakeup, NotifyOne, Asleep

(* Every step keeps both counts right. *)
LEMMA NextIInv == IInv /\ [Next]_vars => IInv'
<1>. SUFFICES ASSUME IInv, [Next]_vars
              PROVE  BlockedCount' /\ NoLostWakeup'
  BY NextTypeOK DEF IInv
<1>. USE DEF IInv, BlockedCount, NoLostWakeup, Positive
<1>0. /\ wait \in Int /\ wakeup \in Nat
      /\ Cardinality(Awake) \in Nat /\ Cardinality(Blocked) \in Nat
  BY BlockedFinite DEF TypeOK
<1>1. ASSUME NEW t \in Thread, Wait(t)
      PROVE  BlockedCount' /\ NoLostWakeup'
  <2>1. CASE wait' >= 0 /\ UNCHANGED <<wakeup, pc>>
    BY <1>0, <1>1, <2>1, SameThreads DEF Wait
  <2>2. CASE wait' < 0 /\ wakeup > 0 /\ wakeup' = wakeup - 1 /\ UNCHANGED pc
    BY <1>0, <1>1, <2>2, SameThreads DEF Wait
  <2>3. CASE /\ wait' < 0 /\ wakeup = 0
             /\ pc' = [pc EXCEPT ![t] = "asleep"]
             /\ UNCHANGED wakeup
    <3>1. /\ Cardinality(Blocked') = Cardinality(Blocked) + 1
          /\ Awake' = Awake
      BY <1>1, <2>3, FallAsleep DEF Wait
    <3>. QED
      BY <1>0, <1>1, <2>3, <3>1 DEF Wait
  <2>. QED
    BY <1>1, <2>1, <2>2, <2>3 DEF Wait
<1>2. ASSUME NEW t \in Thread, Resume(t)
      PROVE  BlockedCount' /\ NoLostWakeup'
  <2>1. CASE wakeup > 0 /\ wakeup' = wakeup - 1 /\ pc' = [pc EXCEPT ![t] = "idle"]
    <3>1. /\ Cardinality(Blocked') = Cardinality(Blocked) - 1
          /\ Cardinality(Awake') = Cardinality(Awake) - 1
      BY <1>2, <2>1, LeaveWait DEF Resume
    <3>. QED
      BY <1>0, <1>2, <2>1, <3>1 DEF Resume
  <2>2. CASE wakeup = 0 /\ pc' = [pc EXCEPT ![t] = "asleep"] /\ UNCHANGED wakeup
    <3>1. t \in Awake
      BY <1>2 DEF Resume, Awake
    <3>2. Cardinality(Awake) # 0
      BY <3>1, BlockedFinite, FS_EmptySet
    <3>3. /\ Blocked' = Blocked
          /\ Cardinality(Awake') = Cardinality(Awake) - 1
      BY <1>2, <2>2, SleepAgain DEF Resume
    <3>. QED
      BY <1>0, <1>2, <2>2, <3>2, <3>3 DEF Resume
  <2>. QED
    BY <1>2, <2>1, <2>2 DEF Resume
<1>3. ASSUME NEW t \in Thread, SpuriousWake(t)
      PROVE  BlockedCount' /\ NoLostWakeup'
  <2>1. /\ Blocked' = Blocked
        /\ Cardinality(Awake') = Cardinality(Awake) + 1
    BY <1>3, WakeOne DEF SpuriousWake
  <2>. QED
    BY <1>0, <1>3, <2>1 DEF SpuriousWake
<1>4. ASSUME NEW t \in Thread, Wakeup(t)
      PROVE  BlockedCount' /\ NoLostWakeup'
  <2>1. CASE wait' > 0 /\ UNCHANGED <<wakeup, pc>>
    BY <1>0, <1>4, <2>1, SameThreads DEF Wakeup
  <2>2. CASE wait' <= 0 /\ wakeup' = wakeup + 1 /\ Asleep = {} /\ UNCHANGED pc
    BY <1>0, <1>4, <2>2, SameThreads, NobodyAsleep DEF Wakeup
  <2>3. CASE /\ wait' <= 0 /\ wakeup' = wakeup + 1
             /\ \E u \in Asleep : pc' = [pc EXCEPT ![u] = "awake"]
    <3>. PICK u \in Asleep : pc' = [pc EXCEPT ![u] = "awake"]
      BY <2>3
    <3>1. u \in Thread /\ pc[u] = "asleep"
      BY DEF Asleep
    <3>2. /\ Blocked' = Blocked
          /\ Cardinality(Awake') = Cardinality(Awake) + 1
      BY <3>1, WakeOne
    <3>. QED
      BY <1>0, <1>4, <2>3, <3>2 DEF Wakeup
  <2>. QED
    BY <1>4, <2>1, <2>2, <2>3 DEF Wakeup, NotifyOne
<1>5. CASE UNCHANGED vars
  BY <1>0, <1>5, SameThreads DEF vars
<1>. QED
  BY <1>1, <1>2, <1>3, <1>4, <1>5 DEF Next

(* The counters of Cell_Semaphore always agree with the blocked threads. *)
THEOREM CountsCorrect == SafeSpec => []BlockedCount
BY InitIInv, NextIInv, PTL DEF SafeSpec, IInv

(* No thread sleeps while a token nobody is fetching is available. *)
THEOREM WakeupsNotLost == SafeSpec => []NoLostWakeup
BY InitIInv, NextIInv, PTL DEF SafeSpec, IInv

-------------------------------------------------------------------------------
(* Refinement: the step of the abstract semaphore that each step simulates. *)

LEMMA InitRefines == Init => Sem!Init
<1>. SUFFICES ASSUME Init PROVE Sem!Init
  OBVIOUS
<1>1. Blocked = {}
  BY DEF Init, Blocked, Awake, Asleep
<1>. QED
  BY <1>1 DEF Init, Sem!Init, Positive

LEMMA NextRefines == IInv /\ [Next]_vars => [Sem!Next]_(Sem!vars)
<1>. SUFFICES ASSUME IInv, [Next]_vars
              PROVE  Sem!Next \/ UNCHANGED Sem!vars
  OBVIOUS
<1>. DEFINE permits == wakeup + Positive(wait)
<1>0. wait \in Int /\ wakeup \in Nat
  BY DEF IInv, TypeOK
<1>1. ASSUME NEW t \in Thread, Wait(t)
      PROVE  Sem!Acquire(t) \/ Sem!Block(t)
  <2>0. t \notin Blocked
    BY <1>1 DEF Wait, Blocked, Awake, Asleep
  <2>1. CASE wait' >= 0 /\ UNCHANGED <<wakeup, pc>>
    <3>1. permits > 0 /\ permits' = permits - 1
      BY <1>0, <1>1, <2>1 DEF Wait, Positive
    <3>2. Blocked' = Blocked \ {t}
      BY <2>0, <2>1, SameThreads
    <3>. QED
      BY <3>1, <3>2 DEF Sem!Acquire
  <2>2. CASE wait' < 0 /\ wakeup > 0 /\ wakeup' = wakeup - 1 /\ UNCHANGED pc
    <3>1. permits > 0 /\ permits' = permits - 1
      BY <1>0, <1>1, <2>2 DEF Wait, Positive
    <3>2. Blocked' = Blocked \ {t}
      BY <2>0, <2>2, SameThreads
    <3>. QED
      BY <3>1, <3>2 DEF Sem!Acquire
  <2>3. CASE /\ wait' < 0 /\ wakeup = 0
             /\ pc' = [pc EXCEPT ![t] = "asleep"]
             /\ UNCHANGED wakeup
    <3>1. permits = 0 /\ permits' = permits
      BY <1>0, <1>1, <2>3 DEF Wait, Positive
    <3>2. Blocked' = Blocked \cup {t}
      BY <1>1, <2>3, FallAsleep DEF Wait, IInv
    <3>. QED
      BY <2>0, <3>1, <3>2 DEF Sem!Block
  <2>. QED
    BY <1>1, <2>1, <2>2, <2>3 DEF Wait
<1>2. ASSUME NEW t \in Thread, Resume(t)
      PROVE  Sem!Acquire(t) \/ UNCHANGED Sem!vars
  <2>1. CASE wakeup > 0 /\ wakeup' = wakeup - 1 /\ pc' = [pc EXCEPT ![t] = "idle"]
    <3>1. permits > 0 /\ permits' = permits - 1
      BY <1>0, <1>2, <2>1 DEF Resume, Positive
    <3>2. Blocked' = Blocked \ {t}
      BY <1>2, <2>1, LeaveWait DEF Resume, IInv
    <3>. QED
      BY <3>1, <3>2 DEF Sem!Acquire
  <2>2. CASE wakeup = 0 /\ pc' = [pc EXCEPT ![t] = "asleep"] /\ UNCHANGED wakeup
    <3>1. permits' = permits
      BY <1>2, <2>2 DEF Resume
    <3>2. Blocked' = Blocked
      BY <1>2, <2>2, SleepAgain DEF Resume, IInv
    <3>. QED
      BY <3>1, <3>2 DEF Sem!vars
  <2>. QED
    BY <1>2, <2>1, <2>2 DEF Resume
<1>3. ASSUME NEW t \in Thread, SpuriousWake(t)
      PROVE  UNCHANGED Sem!vars
  <2>1. Blocked' = Blocked
    BY <1>3, WakeOne DEF SpuriousWake, IInv
  <2>. QED
    BY <1>3, <2>1 DEF SpuriousWake, Sem!vars
<1>4. ASSUME NEW t \in Thread, Wakeup(t)
      PROVE  Sem!Release
  <2>1. permits' = permits + 1
    BY <1>0, <1>4 DEF Wakeup, Positive
  <2>2. Blocked' = Blocked
    <3>1. CASE UNCHANGED pc
      BY <3>1, SameThreads
    <3>2. CASE \E u \in Asleep : pc' = [pc EXCEPT ![u] = "awake"]
      <4>. PICK u \in Asleep : pc' = [pc EXCEPT ![u] = "awake"]
        BY <3>2
      <4>1. u \in Thread /\ pc[u] = "asleep"
        BY DEF Asleep
      <4>. QED
        BY <4>1, WakeOne DEF IInv
    <3>. QED
      BY <1>4, <3>1, <3>2 DEF Wakeup, NotifyOne
  <2>. QED
    BY <2>1, <2>2 DEF Sem!Release
<1>5. CASE UNCHANGED vars
  BY <1>5, SameThreads DEF vars, Sem!vars
<1>. QED
  BY <1>1, <1>2, <1>3, <1>4, <1>5 DEF Next, Sem!Next

(* Every behaviour of Cell_Semaphore is one of the counting semaphore. *)
THEOREM RefinesSemaphore == SafeSpec => SemSafeSpec
<1>1. Init => Sem!Init
  BY InitRefines
<1>2. IInv /\ [Next]_vars => [Sem!Next]_(Sem!vars)
  BY NextRefines
<1>. QED
  BY <1>1, <1>2, InitIInv, NextIInv, PTL DEF SafeSpec, SemSafeSpec, Sem!SafeSpec
=================================================================================
