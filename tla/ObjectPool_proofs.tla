---------------------------- MODULE ObjectPool_proofs ----------------------------
(* Proofs about MemoryPool and the ObjectPool on top of it, for every number of   *)
(* threads, blocks and slots. PoolInv holds whatever is deleted, Single until     *)
(* something is deleted twice, and Slots whatever happens to the memory pool.     *)
EXTENDS ObjectPool, SequenceTheorems, FiniteSetTheorems, TLAPS

Els(s) == {s[i] : i \in 1..Len(s)}
Distinct(s) == \A i, j \in 1..Len(s) : s[i] = s[j] => i = j

(* Lists that lose or win a head. *)
LEMMA PopHead ==
  ASSUME NEW S, NEW s \in Seq(S), s # <<>>, Distinct(s)
  PROVE  /\ Tail(s) \in Seq(S) /\ Distinct(Tail(s))
         /\ Head(s) \in S /\ Els(Tail(s)) = Els(s) \ {Head(s)} /\ Head(s) \in Els(s)
<1>1. /\ Tail(s) \in Seq(S) /\ Len(Tail(s)) = Len(s) - 1 /\ Len(s) \in Nat \ {0}
      /\ \A i \in 1..Len(Tail(s)) : Tail(s)[i] = s[i + 1]
      /\ Head(s) = s[1] /\ Head(s) \in S
  BY HeadTailProperties, EmptySeq
<1>2. Distinct(Tail(s))
  BY <1>1 DEF Distinct
<1>3. ASSUME NEW x \in Els(Tail(s)) PROVE x \in Els(s) \ {Head(s)}
  <2>1. PICK i \in 1..Len(Tail(s)) : x = s[i + 1]
    BY <1>1, <1>3 DEF Els
  <2>2. i + 1 \in 1..Len(s) /\ i + 1 # 1 /\ 1 \in 1..Len(s)
    BY <1>1
  <2> QED
    BY <1>1, <2>1, <2>2 DEF Els, Distinct
<1>4. ASSUME NEW x \in Els(s), x # Head(s) PROVE x \in Els(Tail(s))
  <2>1. PICK i \in 1..Len(s) : x = s[i]
    BY <1>4 DEF Els
  <2>2. i - 1 \in 1..Len(Tail(s)) /\ Tail(s)[i - 1] = s[i]
    BY <1>1, <1>4, <2>1
  <2> QED
    BY <2>1, <2>2 DEF Els
<1>5. Head(s) \in Els(s)
  BY <1>1 DEF Els
<1> QED
  BY <1>1, <1>2, <1>3, <1>4, <1>5

LEMMA PushHead ==
  ASSUME NEW S, NEW s \in Seq(S), NEW x \in S, x \notin Els(s), Distinct(s)
  PROVE  /\ <<x>> \o s \in Seq(S) /\ Distinct(<<x>> \o s)
         /\ Els(<<x>> \o s) = Els(s) \cup {x}
<1> DEFINE r == <<x>> \o s
<1>1. /\ r \in Seq(S) /\ Len(r) = Len(s) + 1 /\ Len(s) \in Nat
      /\ r[1] = x /\ \A i \in 2..Len(s) + 1 : r[i] = s[i - 1]
  BY ConcatProperties
<1> HIDE DEF r
<1>2. Distinct(r)
  <2>1. ASSUME NEW i \in 1..Len(r), NEW j \in 1..Len(r), i < j PROVE r[i] # r[j]
    <3>1. j - 1 \in 1..Len(s) /\ r[j] = s[j - 1]
      BY <1>1, <2>1
    <3>2. CASE i = 1
      BY <1>1, <3>1, <3>2 DEF Els
    <3>3. CASE i # 1
      <4>1. i - 1 \in 1..Len(s) /\ r[i] = s[i - 1] /\ i - 1 # j - 1
        BY <1>1, <2>1, <3>3
      <4> QED
        BY <3>1, <4>1 DEF Distinct
    <3> QED
      BY <3>2, <3>3
  <2>2. ASSUME NEW i \in 1..Len(r), NEW j \in 1..Len(r), r[i] = r[j] PROVE i = j
    <3>1. i \in Int /\ j \in Int /\ ~(i < j) /\ ~(j < i)
      BY <2>1, <2>2
    <3> QED
      BY <3>1
  <2> QED
    BY <2>2 DEF Distinct
<1>3. ASSUME NEW y \in Els(r) PROVE y \in Els(s) \cup {x}
  <2>1. PICK i \in 1..Len(r) : y = r[i]
    BY <1>3 DEF Els
  <2>2. CASE i = 1
    BY <1>1, <2>1, <2>2
  <2>3. CASE i # 1
    <3>1. i \in 2..Len(s) + 1 /\ i - 1 \in 1..Len(s)
      BY <1>1, <2>3
    <3>2. y = s[i - 1]
      BY <1>1, <2>1, <3>1
    <3> QED
      BY <3>1, <3>2 DEF Els
  <2> QED
    BY <2>2, <2>3
<1>4. ASSUME NEW y \in Els(s) \cup {x} PROVE y \in Els(r)
  <2>1. CASE y = x
    BY <1>1, <2>1 DEF Els
  <2>2. CASE y \in Els(s)
    <3>1. PICK i \in 1..Len(s) : y = s[i]
      BY <2>2 DEF Els
    <3>2. i + 1 \in 1..Len(r) /\ r[i + 1] = s[i]
      BY <1>1
    <3> QED
      BY <3>1, <3>2 DEF Els
  <2> QED
    BY <2>1, <2>2
<1>5. Els(r) = Els(s) \cup {x}
  BY <1>3, <1>4
<1> QED
  BY <1>1, <1>2, <1>5 DEF r
-------------------------------------------------------------------------------
(* The memory pool. Until initMemory() has run nobody can have a pooled block; a  *)
(* listed block has no positive count, whoever deleted it how often; a block that *)
(* stands for an exhausted pool never gets one either.                           *)
PoolInv ==
  /\ PoolTypeOK
  /\ Distinct(FreeList)
  /\ \A b \in Els(FreeList) : nRef[b] <= 0
  /\ \A b \in overflow : nRef[b] <= 0
  /\ \A t \in Thread : pc[t] # "out" => inited /\ ptr[t] \in Pooled
  /\ ~inited => \A b \in Pooled : users[b] = {}

(* Until a second deletion, a pooled block is listed or has one user or deleter.  *)
Holders(b) == users[b] \cup Deleting(b)

Single ==
  ~misused =>
    /\ \A t \in Thread : pc[t] # "second"
    /\ \A b \in Els(FreeList) : nRef[b] = 0 /\ Holders(b) = {}
    /\ \A b \in Pooled \ Els(FreeList) : nRef[b] = 1 /\ Holders(b) # {}
    /\ \A b \in Pooled : /\ \A t, u \in Holders(b) : t = u
                         /\ users[b] \cap Deleting(b) = {}

(* The slots of the object pool. *)
HoldersOf(p) == owner[p] \cup {t \in Thread : deleting[t] = p}

Slots ==
  /\ slots \in Seq(Slot) /\ Distinct(slots)
  /\ count \in [Place -> Int] /\ owner \in [Place -> SUBSET Thread]
  /\ deleting \in [Thread -> Place \cup {NoBlock}]
  /\ alive \subseteq Place
  /\ \A p \in Els(slots) : count[p] = 0 /\ HoldersOf(p) = {}
  /\ \A p \in Slot \ Els(slots) :
       /\ count[p] = 1 /\ HoldersOf(p) # {}
       /\ \A t, u \in HoldersOf(p) : t = u
       /\ \A t \in owner[p] : deleting[t] # p

LEMMA FreeListType ==
  PoolTypeOK => FreeList \in Seq(Pooled) /\ Els(FreeList) \subseteq Pooled
<1> SUFFICES ASSUME PoolTypeOK PROVE FreeList \in Seq(Pooled)
  BY ElementOfSeq DEF Els
<1>1. [i \in Pooled |-> i] \in Seq(Pooled)
  <2>1. [i \in 1..PoolLen |-> i] \in [1..PoolLen -> 1..PoolLen] /\ PoolLen \in Nat
    BY LenAssumption
  <2> QED
    BY <2>1, SeqDef DEF Pooled
<1> QED
  BY <1>1 DEF FreeList, PoolTypeOK

LEMMA FirstList ==
  Distinct([i \in Pooled |-> i]) /\ Els([i \in Pooled |-> i]) = Pooled
<1> DEFINE s == [i \in 1..PoolLen |-> i]
<1>1. s \in Seq(1..PoolLen) /\ Len(s) = PoolLen /\ \A i \in 1..PoolLen : s[i] = i
  <2>1. s \in [1..PoolLen -> 1..PoolLen] /\ PoolLen \in Nat
    BY LenAssumption
  <2> QED
    BY <2>1, SeqDef
<1> HIDE DEF s
<1>2. Distinct(s) /\ Els(s) = 1..PoolLen
  BY <1>1 DEF Distinct, Els
<1> QED
  BY <1>2 DEF s, Pooled
-------------------------------------------------------------------------------
(* The operations of the memory pool, one by one. *)
PInv == PoolInv /\ Single

LEMMA Apart == Pooled \cap Heap = {} /\ Block = Pooled \cup Heap /\ Pooled # {} /\ NoBlock \notin Block
BY LenAssumption DEF Pooled, Heap, Block, NoBlock

LEMMA PopKeeps ==
  ASSUME PInv, NEW t \in Thread, Pop(t)
  PROVE  PInv'
<1>1. /\ FreeList \in Seq(Pooled) /\ Distinct(FreeList) /\ Els(FreeList) \subseteq Pooled
      /\ FreeList # <<>>
  BY FreeListType DEF PInv, PoolInv, Pop
<1>0. PICK h \in Pooled : h = Head(FreeList)
  BY <1>1, PopHead
<1>2. /\ Tail(FreeList) \in Seq(Pooled) /\ Distinct(Tail(FreeList))
      /\ h \in Els(FreeList) /\ Els(Tail(FreeList)) = Els(FreeList) \ {h}
  BY <1>1, <1>0, PopHead
<1>3. FreeList' = Tail(FreeList)
  BY DEF Pop, FreeList
<1>4. /\ inited' = TRUE /\ free' = Tail(FreeList)
      /\ nRef' = [nRef EXCEPT ![h] = 1] /\ users' = [users EXCEPT ![h] = @ \cup {t}]
      /\ UNCHANGED <<mapped, pc, ptr, overflow, misused>>
  BY <1>0 DEF Pop
<1>5. PoolTypeOK'
  BY <1>2, <1>4, Apart DEF PInv, PoolInv, PoolTypeOK
<1>6. nRef'[h] = 1 /\ \A b \in Block : b # h => nRef'[b] = nRef[b]
  BY <1>2, <1>4, Apart DEF PInv, PoolInv, PoolTypeOK
<1>7. PoolInv'
  <2>1. \A b \in Els(FreeList') : nRef'[b] <= 0
    BY <1>1, <1>2, <1>3, <1>6, Apart DEF PInv, PoolInv
  <2>2. \A b \in overflow' : nRef'[b] <= 0
    BY <1>2, <1>4, <1>6, Apart DEF PInv, PoolInv, PoolTypeOK
  <2> QED
    BY <1>2, <1>3, <1>4, <1>5, <2>1, <2>2 DEF PInv, PoolInv
<1>8. Single'
  <2> SUFFICES ASSUME ~misused PROVE Single'
    BY <1>4 DEF Single
  <2>1. \A b \in Pooled : Deleting(b)' = Deleting(b)
    BY <1>4 DEF Deleting
  <2>2. users[h] = {} /\ Deleting(h) = {}
    BY <1>2 DEF PInv, Single, Holders
  <2>3. users'[h] = {t} /\ \A b \in Pooled : b # h => users'[b] = users[b]
    BY <1>2, <1>4, <2>2, Apart DEF PInv, PoolInv, PoolTypeOK
  <2>4. Holders(h)' = {t} /\ \A b \in Pooled : b # h => Holders(b)' = Holders(b)
    BY <1>2, <2>1, <2>2, <2>3 DEF Holders
  <2>5. \A b \in Els(FreeList') : nRef'[b] = 0 /\ Holders(b)' = {}
    BY <1>1, <1>2, <1>3, <1>6, <2>4, Apart DEF PInv, Single
  <2>6. \A b \in Pooled \ Els(FreeList') : nRef'[b] = 1 /\ Holders(b)' # {}
    BY <1>1, <1>2, <1>3, <1>6, <2>4, Apart DEF PInv, Single
  <2>7. \A b \in Pooled : /\ \A u, v \in Holders(b)' : u = v
                         /\ users'[b] \cap Deleting(b)' = {}
    BY <2>1, <2>2, <2>3, <2>4 DEF PInv, Single
  <2>8. \A u \in Thread : pc'[u] # "second"
    BY <1>4 DEF PInv, Single
  <2> QED
    BY <2>5, <2>6, <2>7, <2>8 DEF Single
<1> QED
  BY <1>7, <1>8 DEF PInv

LEMMA FromSystemKeeps ==
  ASSUME PInv, NEW t \in Thread, NEW ref \in {0, 1}, FromSystem(t, ref)
  PROVE  PInv'
<1>1. PICK b \in Heap \ mapped :
        /\ mapped' = mapped \cup {b}
        /\ nRef' = [nRef EXCEPT ![b] = ref]
        /\ users' = [users EXCEPT ![b] = {t}]
        /\ overflow' = IF ref = 0 THEN overflow \cup {b} ELSE overflow
  BY DEF FromSystem
<1>2. UNCHANGED <<inited, free, pc, ptr, misused>> /\ FreeList' = FreeList
  BY DEF FromSystem, FreeList
<1>3. PoolTypeOK'
  BY <1>1, <1>2, Apart DEF PInv, PoolInv, PoolTypeOK
<1>4. /\ \A p \in Pooled : nRef'[p] = nRef[p] /\ users'[p] = users[p]
      /\ \A c \in Block : c # b => nRef'[c] = nRef[c]
      /\ nRef'[b] = ref /\ b \notin overflow
  BY <1>1, Apart DEF PInv, PoolInv, PoolTypeOK
<1>5. Els(FreeList) \subseteq Pooled
  BY FreeListType DEF PInv, PoolInv
<1>6. PoolInv'
  <2>1. \A c \in overflow' : nRef'[c] <= 0
    <3>1. \A c \in overflow : c \in Block /\ nRef[c] <= 0
      BY Apart DEF PInv, PoolInv, PoolTypeOK
    <3> QED
      BY <1>1, <1>4, <3>1
  <2>2. \A c \in Els(FreeList') : nRef'[c] <= 0
    BY <1>2, <1>4, <1>5 DEF PInv, PoolInv
  <2> QED
    BY <1>2, <1>3, <1>4, <2>1, <2>2 DEF PInv, PoolInv
<1>7. Single'
  BY <1>2, <1>4, <1>5 DEF PInv, Single, Holders, Deleting
<1> QED
  BY <1>6, <1>7 DEF PInv

LEMMA StartFreeKeeps ==
  ASSUME PInv, NEW t \in Thread, NEW b \in Pooled, NEW how \in {"freeing", "first"},
         StartFree(t, b, how)
  PROVE  PInv'
<1>1. /\ pc[t] = "out" /\ t \in users[b]
      /\ users' = [users EXCEPT ![b] = @ \ {t}]
      /\ ptr' = [ptr EXCEPT ![t] = b] /\ pc' = [pc EXCEPT ![t] = how]
      /\ UNCHANGED <<inited, free, nRef, mapped, overflow, misused>> /\ FreeList' = FreeList
  BY DEF StartFree, FreeList
<1>2. PoolTypeOK'
  BY <1>1, Apart DEF PInv, PoolInv, PoolTypeOK
<1>3. inited
  BY <1>1 DEF PInv, PoolInv
<1>4. PoolInv'
  BY <1>1, <1>2, <1>3 DEF PInv, PoolInv, PoolTypeOK
<1>5. Single'
  <2> SUFFICES ASSUME ~misused PROVE Single'
    BY <1>1 DEF Single
  <2>1. users[b] = {t} /\ Deleting(b) = {}
    BY <1>1 DEF PInv, Single, Holders
  <2>2. users'[b] = {} /\ Deleting(b)' = {t}
    BY <1>1, <2>1, Apart DEF PInv, PoolInv, PoolTypeOK, Deleting
  <2>3. \A c \in Pooled : c # b => users'[c] = users[c] /\ Deleting(c)' = Deleting(c)
    BY <1>1, Apart DEF PInv, PoolInv, PoolTypeOK, Deleting
  <2>4. Els(FreeList) \subseteq Pooled /\ b \notin Els(FreeList)
    BY <1>1, FreeListType DEF PInv, PoolInv, Single, Holders
  <2>5. \A u \in Thread : pc'[u] # "second"
    BY <1>1 DEF PInv, PoolInv, PoolTypeOK, Single
  <2>6. Holders(b)' = {t} /\ \A c \in Pooled : c # b => Holders(c)' = Holders(c)
    BY <2>2, <2>3 DEF Holders
  <2> QED
    BY <1>1, <2>2, <2>3, <2>4, <2>5, <2>6 DEF PInv, Single
<1> QED
  BY <1>4, <1>5 DEF PInv

LEMMA StartAgainKeeps ==
  ASSUME PInv, NEW t \in Thread, StartAgain(t)
  PROVE  PInv'
<1>1. /\ pc[t] = "again" /\ pc' = [pc EXCEPT ![t] = "second"] /\ misused' = TRUE
      /\ UNCHANGED <<inited, free, nRef, mapped, users, ptr, overflow>> /\ FreeList' = FreeList
  BY DEF StartAgain, FreeList
<1>2. PoolTypeOK'
  BY <1>1 DEF PInv, PoolInv, PoolTypeOK
<1>3. PoolInv'
  BY <1>1, <1>2 DEF PInv, PoolInv, PoolTypeOK
<1> QED
  BY <1>1, <1>3 DEF PInv, Single

LEMMA PushKeeps ==
  ASSUME PInv, NEW t \in Thread, Push(t)
  PROVE  PInv'
<1>1. PICK b \in Pooled : b = ptr[t]
  BY DEF Push, Freeing, PInv, PoolInv
<1>2. /\ Freeing(t)
      /\ nRef' = [nRef EXCEPT ![b] = @ - 1]
      /\ free' = IF nRef'[b] = 0 THEN <<b>> \o free ELSE free
      /\ pc' = [pc EXCEPT ![t] = IF @ = "first" THEN "again" ELSE "out"]
      /\ ptr' = [ptr EXCEPT ![t] = IF pc[t] = "first" THEN @ ELSE NoBlock]
      /\ UNCHANGED <<inited, mapped, users, overflow, misused>>
  BY <1>1 DEF Push
<1>3. inited /\ FreeList = free /\ FreeList' = free'
  BY <1>2 DEF PInv, PoolInv, Freeing, FreeList
<1>4. /\ free \in Seq(Pooled) /\ Distinct(free) /\ Els(free) \subseteq Pooled
      /\ nRef[b] \in Int /\ nRef'[b] = nRef[b] - 1
      /\ \A c \in Block : c # b => nRef'[c] = nRef[c]
  BY <1>2, <1>3, FreeListType, Apart DEF PInv, PoolInv, PoolTypeOK
<1>5. /\ free' \in Seq(Pooled) /\ Distinct(free')
      /\ nRef[b] = 1 => Els(free') = Els(free) \cup {b} /\ b \notin Els(free)
      /\ nRef[b] # 1 => free' = free
  <2>1. CASE nRef[b] = 1
    <3>1. b \notin Els(free)
      BY <1>3, <2>1 DEF PInv, PoolInv
    <3>2. free' = <<b>> \o free
      BY <1>2, <1>4, <2>1
    <3> QED
      BY <1>4, <2>1, <3>1, <3>2, PushHead
  <2>2. CASE nRef[b] # 1
    BY <1>2, <1>4, <2>2
  <2> QED
    BY <2>1, <2>2
<1>6. PoolTypeOK'
  BY <1>2, <1>5, Apart DEF PInv, PoolInv, PoolTypeOK
<1>7. PoolInv'
  <2>1. \A c \in Els(free') : nRef'[c] <= 0
    BY <1>3, <1>4, <1>5, Apart DEF PInv, PoolInv
  <2>2. \A c \in overflow' : nRef'[c] <= 0
    BY <1>2, <1>4, Apart DEF PInv, PoolInv, PoolTypeOK
  <2>3. \A u \in Thread : pc'[u] # "out" => inited' /\ ptr'[u] \in Pooled
    BY <1>2, <1>3 DEF PInv, PoolInv, PoolTypeOK, Freeing
  <2> QED
    BY <1>2, <1>3, <1>5, <1>6, <2>1, <2>2, <2>3 DEF PInv, PoolInv
<1>8. Single'
  <2> SUFFICES ASSUME ~misused PROVE Single'
    BY <1>2 DEF Single
  <2>1. t \in Deleting(b)
    BY <1>1, <1>2 DEF PInv, Single, Freeing, Deleting
  <2>2. nRef[b] = 1 /\ Deleting(b) = {t} /\ users[b] = {}
    BY <1>3, <2>1 DEF PInv, Single, Holders
  <2>3. Deleting(b)' = {}
    BY <1>2, <2>2 DEF PInv, PoolInv, PoolTypeOK, Deleting
  <2>4. \A c \in Pooled : c # b => Deleting(c)' = Deleting(c)
    BY <1>1, <1>2 DEF PInv, PoolInv, PoolTypeOK, Deleting, Freeing
  <2>5. Holders(b)' = {} /\ \A c \in Pooled : c # b => Holders(c)' = Holders(c)
    BY <1>2, <2>2, <2>3, <2>4 DEF Holders
  <2>6. Els(free') = Els(free) \cup {b} /\ nRef'[b] = 0
    BY <1>4, <1>5, <2>2
  <2>7. \A u \in Thread : pc'[u] # "second"
    BY <1>2 DEF PInv, PoolInv, PoolTypeOK, Single
  <2>8. \A c \in Els(free') : nRef'[c] = 0 /\ Holders(c)' = {}
    BY <1>3, <1>4, <2>5, <2>6, Apart DEF PInv, Single
  <2>9. \A c \in Pooled \ Els(free') : nRef'[c] = 1 /\ Holders(c)' # {}
    BY <1>3, <1>4, <2>5, <2>6, Apart DEF PInv, Single
  <2>10. \A c \in Pooled : /\ \A u, v \in Holders(c)' : u = v
                          /\ users'[c] \cap Deleting(c)' = {}
    BY <1>2, <2>3, <2>4, <2>5 DEF PInv, Single
  <2> QED
    BY <1>3, <2>7, <2>8, <2>9, <2>10 DEF Single
<1> QED
  BY <1>7, <1>8 DEF PInv

LEMMA ReleaseHeapKeeps ==
  ASSUME PInv, NEW t \in Thread, NEW b \in Heap, ReleaseHeap(t, b)
  PROVE  PInv'
<1>1. /\ users' = [users EXCEPT ![b] = @ \ {t}]
      /\ nRef' = [nRef EXCEPT ![b] = @ - 1]
      /\ mapped' = IF nRef'[b] = 0 THEN mapped \ {b} ELSE mapped
      /\ UNCHANGED <<inited, free, pc, ptr, overflow, misused>> /\ FreeList' = FreeList
  BY DEF ReleaseHeap, FreeList
<1>2. /\ nRef[b] \in Int /\ nRef'[b] = nRef[b] - 1
      /\ \A p \in Block : p # b => nRef'[p] = nRef[p] /\ users'[p] = users[p]
      /\ \A p \in Pooled : p # b
  BY <1>1, Apart DEF PInv, PoolInv, PoolTypeOK
<1>3. Els(FreeList) \subseteq Pooled
  BY FreeListType DEF PInv, PoolInv
<1>4. PoolInv'
  <2>1. overflow \subseteq mapped'
    BY <1>1, <1>2 DEF PInv, PoolInv, PoolTypeOK
  <2>2. PoolTypeOK'
    BY <1>1, <2>1, Apart DEF PInv, PoolInv, PoolTypeOK
  <2>3. \A c \in overflow' : nRef'[c] <= 0
    <3>1. \A c \in overflow : c \in Block /\ nRef[c] <= 0
      BY Apart DEF PInv, PoolInv, PoolTypeOK
    <3> QED
      BY <1>1, <1>2, <3>1
  <2>4. \A c \in Els(FreeList') : nRef'[c] <= 0
    BY <1>1, <1>2, <1>3, Apart DEF PInv, PoolInv
  <2> QED
    BY <1>1, <1>2, <2>2, <2>3, <2>4, Apart DEF PInv, PoolInv
<1>5. Single'
  <2>1. \A p \in Pooled : nRef'[p] = nRef[p] /\ users'[p] = users[p] /\ Deleting(p)' = Deleting(p)
    BY <1>1, <1>2, Apart DEF Deleting
  <2> QED
    BY <1>1, <1>3, <2>1 DEF PInv, Single, Holders
<1> QED
  BY <1>4, <1>5 DEF PInv

LEMMA PoolUnchanged == PInv /\ UNCHANGED poolVars => PInv'
<1> SUFFICES ASSUME PInv, UNCHANGED poolVars PROVE PInv'
  OBVIOUS
<1>1. FreeList' = FreeList
  BY DEF FreeList, poolVars
<1>2. PoolTypeOK'
  BY DEF PInv, PoolInv, PoolTypeOK, poolVars
<1>3. PoolInv'
  BY <1>1, <1>2 DEF PInv, PoolInv, poolVars
<1>4. \A b \in Pooled : Deleting(b)' = Deleting(b) /\ Holders(b)' = Holders(b)
  BY DEF Deleting, Holders, poolVars
<1>5. Els(FreeList) \subseteq Pooled
  BY FreeListType DEF PInv, PoolInv
<1>6. Single'
  BY <1>1, <1>4, <1>5 DEF PInv, Single, poolVars
<1> QED
  BY <1>3, <1>6 DEF PInv

LEMMA InitPInv == ObjectInit => PInv
<1> SUFFICES ASSUME Init PROVE PInv
  BY DEF ObjectInit
<1> USE DEF Init, NoBlock
<1>1. FreeList = [i \in Pooled |-> i]
  BY DEF FreeList
<1>2. Distinct(FreeList) /\ Els(FreeList) = Pooled
  BY <1>1, FirstList
<1>3. PoolTypeOK
  <2>1. free \in Seq(Pooled)
    BY EmptySeq
  <2>2. /\ nRef \in [Block -> Int] /\ users \in [Block -> SUBSET Thread]
        /\ ptr \in [Thread -> Pooled \cup {NoBlock}]
    OBVIOUS
  <2>3. pc \in [Thread -> {"out", "freeing", "first", "again", "second"}]
    OBVIOUS
  <2> QED
    BY <2>1, <2>2, <2>3 DEF PoolTypeOK
<1>4. PoolInv
  BY <1>2, <1>3, Apart DEF PoolInv
<1>5. Single
  BY <1>2, Apart DEF Single, Holders, Deleting
<1> QED
  BY <1>4, <1>5 DEF PInv

LEMMA NextPInv == PInv /\ [Next]_vars => PInv'
<1> SUFFICES ASSUME PInv, Next PROVE PInv'
  BY PoolUnchanged DEF vars
<1>1. ASSUME NEW t \in Thread, Objects(t) PROVE PInv'
  <2>1. CASE TakeSlot(t) \/ Construct(t) \/ ReturnSlot(t) \/ \E p \in Place : Destruct(t, p)
    BY <2>1, PoolUnchanged DEF TakeSlot, Construct, ReturnSlot, Destruct
  <2>2. CASE TakeBlock(t)
    BY <2>2, PopKeeps, FromSystemKeeps DEF TakeBlock, Overflow, AllocLarge
  <2>3. CASE ReturnBlock(t)
    <3>1. \/ UNCHANGED poolVars
          \/ deleting[t] \in Pooled /\ StartFree(t, deleting[t], "freeing")
          \/ deleting[t] \in Heap /\ ReleaseHeap(t, deleting[t])
      BY <2>3, Apart DEF ReturnBlock
    <3> QED
      BY <3>1, PoolUnchanged, StartFreeKeeps, ReleaseHeapKeeps
  <2> QED
    BY <1>1, <2>1, <2>2, <2>3 DEF Objects
<1>2. ASSUME NEW t \in Thread, Direct(t) PROVE PInv'
  <2>1. CASE Pop(t) \/ Overflow(t) \/ AllocLarge(t)
    BY <2>1, PopKeeps, FromSystemKeeps DEF Overflow, AllocLarge
  <2>2. ASSUME NEW b \in Block, b \in Pooled /\ \E how \in {"freeing", "first"} : StartFree(t, b, how)
        PROVE  PInv'
    BY <2>2, StartFreeKeeps
  <2>3. ASSUME NEW b \in Block, b \in Heap /\ ReleaseHeap(t, b) PROVE PInv'
    BY <2>3, ReleaseHeapKeeps
  <2>4. CASE StartAgain(t) \/ Push(t)
    BY <2>4, StartAgainKeeps, PushKeeps
  <2> QED
    BY <1>2, <2>1, <2>2, <2>3, <2>4 DEF Direct
<1> QED
  BY <1>1, <1>2 DEF Next

(* The free list never holds a block twice, however often blocks are deleted, for *)
(* every number of threads and blocks.                                           *)
THEOREM NoRing == Spec => []ListedOnce
<1>1. PInv => ListedOnce
  BY DEF PInv, PoolInv, Distinct, ListedOnce
<1> QED
  BY InitPInv, NextPInv, <1>1, PTL DEF Spec

(* As long as nothing is deleted twice, the free list is exactly what nobody has, *)
(* and the assertions of allocMemory() and freeMemory() hold.                     *)
THEOREM FreeListIsExact == Spec => []FreeListExact
<1>1. PInv => FreeListExact
  <2> SUFFICES ASSUME PInv, ~misused
               PROVE  /\ \A b \in Pooled : b \in Listed <=> users[b] = {} /\ Deleting(b) = {}
                      /\ \A b \in Listed : nRef[b] = 0
                      /\ AssertOneRef
    BY DEF FreeListExact
  <2>1. Listed = Els(FreeList)
    BY DEF Listed, Els
  <2>2. AssertOneRef
    <3> SUFFICES ASSUME NEW t \in Thread, Freeing(t) PROVE nRef[ptr[t]] = 1
      BY DEF AssertOneRef
    <3>1. ptr[t] \in Pooled /\ t \in Deleting(ptr[t])
      BY DEF PInv, PoolInv, Single, Freeing, Deleting
    <3> QED
      BY <3>1 DEF PInv, Single, Holders
  <2> QED
    BY <2>1, <2>2 DEF PInv, Single, Holders
<1> QED
  BY InitPInv, NextPInv, <1>1, PTL DEF Spec
-------------------------------------------------------------------------------
LEMMA SlotApart == Slot \cap Block = {} /\ NoBlock \notin Slot /\ Slot \cup Block = Place
BY LenAssumption, ObjectLenAssumption DEF Slot, Block, Pooled, Heap, Place, NoBlock

LEMMA InitSlots == ObjectInit => Slots
<1> SUFFICES ASSUME ObjectInit PROVE Slots
  OBVIOUS
<1>1. slots = [i \in 1..ObjectLen |-> -i] /\ ObjectLen \in Nat
  BY ObjectLenAssumption DEF ObjectInit
<1>2. slots \in Seq(Slot) /\ Len(slots) = ObjectLen /\ \A i \in 1..ObjectLen : slots[i] = -i
  <2>1. slots \in [1..ObjectLen -> Slot]
    BY <1>1 DEF Slot
  <2> QED
    BY <1>1, <2>1, SeqDef
<1>3. Distinct(slots)
  <2> SUFFICES ASSUME NEW i \in 1..ObjectLen, NEW j \in 1..ObjectLen, -i = -j PROVE i = j
    BY <1>2 DEF Distinct
  <2> QED
    BY <1>1
<1>4. Els(slots) = Slot
  BY <1>1, <1>2 DEF Els, Slot
<1>5. /\ count = [p \in Place |-> 0] /\ owner = [p \in Place |-> {}] /\ alive = {}
      /\ deleting = [t \in Thread |-> NoBlock]
  BY DEF ObjectInit
<1>6. /\ count \in [Place -> Int] /\ owner \in [Place -> SUBSET Thread]
      /\ deleting \in [Thread -> Place \cup {NoBlock}]
  BY <1>5
<1>7. \A p \in Slot : count[p] = 0 /\ HoldersOf(p) = {}
  BY <1>5, SlotApart DEF HoldersOf
<1> QED
  BY <1>2, <1>3, <1>4, <1>5, <1>6, <1>7 DEF Slots

LEMMA SlotsUnchanged == Slots /\ UNCHANGED objectVars => Slots'
<1> SUFFICES ASSUME Slots, UNCHANGED objectVars PROVE Slots'
  OBVIOUS
<1>1. UNCHANGED <<slots, count, owner, alive, deleting>> /\ Els(slots') = Els(slots)
  BY DEF objectVars
<1>2. \A p \in Place : HoldersOf(p)' = HoldersOf(p)
  BY <1>1 DEF HoldersOf
<1>3. Els(slots) \subseteq Slot /\ Slot \subseteq Place
  BY ElementOfSeq, SlotApart DEF Slots, Els
<1> QED
  BY <1>1, <1>2, <1>3 DEF Slots

LEMMA NextSlots == Slots /\ [Next]_vars => Slots'
<1> SUFFICES ASSUME Slots, Next PROVE Slots'
  BY SlotsUnchanged DEF vars
<1>1. Els(slots) \subseteq Slot
  BY ElementOfSeq DEF Slots, Els
<1>2. UNCHANGED objectVars => Slots'
  BY SlotsUnchanged
<1>3. ASSUME NEW t \in Thread, TakeSlot(t) PROVE Slots'
  <2>1. PICK h \in Slot : h = Head(slots)
    BY <1>3, PopHead DEF TakeSlot, Slots
  <2>2. /\ slots' \in Seq(Slot) /\ Distinct(slots') /\ h \in Els(slots)
        /\ Els(slots') = Els(slots) \ {h}
    BY <1>3, <2>1, PopHead DEF TakeSlot, Slots
  <2>3. /\ count' = [count EXCEPT ![h] = 1] /\ owner' = [owner EXCEPT ![h] = @ \cup {t}]
        /\ UNCHANGED <<alive, deleting>>
    BY <1>3, <2>1 DEF TakeSlot
  <2>4. HoldersOf(h)' = {t} /\ \A p \in Slot : p # h => HoldersOf(p)' = HoldersOf(p)
    BY <2>2, <2>3, SlotApart DEF Slots, HoldersOf
  <2>5. count'[h] = 1 /\ \A p \in Slot : p # h => count'[p] = count[p] /\ owner'[p] = owner[p]
    BY <2>3, SlotApart DEF Slots
  <2>6. /\ count' \in [Place -> Int] /\ owner' \in [Place -> SUBSET Thread]
        /\ \A u \in Thread : deleting'[u] # h
    BY <2>2, <2>3, SlotApart DEF Slots, HoldersOf
  <2>7. \A p \in Els(slots') : count'[p] = 0 /\ HoldersOf(p)' = {}
    BY <1>1, <2>2, <2>4, <2>5 DEF Slots
  <2>8. \A p \in Slot \ Els(slots') :
          /\ count'[p] = 1 /\ HoldersOf(p)' # {}
          /\ \A u, v \in HoldersOf(p)' : u = v
          /\ \A u \in owner'[p] : deleting'[u] # p
    <3> SUFFICES ASSUME NEW p \in Slot \ Els(slots')
                 PROVE  /\ count'[p] = 1 /\ HoldersOf(p)' # {}
                        /\ \A u, v \in HoldersOf(p)' : u = v
                        /\ \A u \in owner'[p] : deleting'[u] # p
      OBVIOUS
    <3>1. CASE p = h
      <4>1. owner'[p] \subseteq Thread
        BY <2>6, SlotApart
      <4> QED
        BY <2>4, <2>5, <2>6, <3>1, <4>1
    <3>2. CASE p # h
      <4>1. p \in Slot \ Els(slots) /\ HoldersOf(p)' = HoldersOf(p)
            /\ count'[p] = count[p] /\ owner'[p] = owner[p]
        BY <2>2, <2>4, <2>5, <3>2
      <4> QED
        BY <2>3, <4>1 DEF Slots
    <3> QED
      BY <3>1, <3>2
  <2> QED
    BY <2>2, <2>3, <2>6, <2>7, <2>8 DEF Slots
<1>4. ASSUME NEW t \in Thread, TakeBlock(t) PROVE Slots'
  BY <1>1, <1>4, SlotApart DEF TakeBlock, Slots, HoldersOf
<1>5. ASSUME NEW t \in Thread, Construct(t) PROVE Slots'
  BY <1>5 DEF Construct, Slots, HoldersOf
<1>6. ASSUME NEW t \in Thread, NEW p \in Place, Destruct(t, p) PROVE Slots'
  <2>1. /\ deleting[t] = NoBlock /\ t \in owner[p] /\ alive' \subseteq alive
        /\ owner' = [owner EXCEPT ![p] = @ \ {t}] /\ deleting' = [deleting EXCEPT ![t] = p]
        /\ UNCHANGED <<slots, count>>
    BY <1>6 DEF Destruct, Outside
  <2>2. \A q \in Slot : HoldersOf(q)' = HoldersOf(q)
    BY <2>1, SlotApart DEF Slots, HoldersOf
  <2>3. \A q \in Slot \ Els(slots) : \A u \in owner'[q] : deleting'[u] # q
    BY <2>1, SlotApart DEF Slots, HoldersOf
  <2> QED
    BY <1>1, <2>1, <2>2, <2>3, SlotApart DEF Slots
<1>7. ASSUME NEW t \in Thread, ReturnSlot(t) PROVE Slots'
  <2>1. PICK p \in Slot : p = deleting[t]
    BY <1>7 DEF ReturnSlot
  <2>2. /\ count' = [count EXCEPT ![p] = @ - 1]
        /\ slots' = IF count'[p] = 0 THEN <<p>> \o slots ELSE slots
        /\ deleting' = [deleting EXCEPT ![t] = NoBlock] /\ UNCHANGED <<owner, alive>>
    BY <1>7, <2>1 DEF ReturnSlot
  <2>3. p \notin Els(slots) /\ count[p] = 1 /\ HoldersOf(p) = {t} /\ owner[p] = {}
    BY <2>1 DEF Slots, HoldersOf
  <2>4. count'[p] = 0 /\ \A q \in Slot : q # p => count'[q] = count[q]
    BY <2>2, <2>3, SlotApart DEF Slots
  <2>5. /\ slots' \in Seq(Slot) /\ Distinct(slots') /\ Els(slots') = Els(slots) \cup {p}
    BY <2>2, <2>3, <2>4, PushHead DEF Slots
  <2>6. HoldersOf(p)' = {} /\ \A q \in Slot : q # p => HoldersOf(q)' = HoldersOf(q)
    BY <2>1, <2>2, <2>3, SlotApart DEF Slots, HoldersOf
  <2>7. count' \in [Place -> Int] /\ deleting' \in [Thread -> Place \cup {NoBlock}]
    <3>1. count[p] - 1 \in Int
      BY <2>3
    <3> QED
      BY <2>2, <3>1 DEF Slots
  <2>8. \A q \in Els(slots') : count'[q] = 0 /\ HoldersOf(q)' = {}
    BY <1>1, <2>4, <2>5, <2>6 DEF Slots
  <2>9. \A q \in Slot \ Els(slots') :
          /\ count'[q] = 1 /\ HoldersOf(q)' # {}
          /\ \A u, v \in HoldersOf(q)' : u = v
          /\ \A u \in owner'[q] : deleting'[u] # q
    <3> SUFFICES ASSUME NEW q \in Slot \ Els(slots')
                 PROVE  /\ count'[q] = 1 /\ HoldersOf(q)' # {}
                        /\ \A u, v \in HoldersOf(q)' : u = v
                        /\ \A u \in owner'[q] : deleting'[u] # q
      OBVIOUS
    <3>1. /\ q \in Slot \ Els(slots) /\ q # p /\ q # NoBlock
          /\ count'[q] = count[q] /\ HoldersOf(q)' = HoldersOf(q) /\ owner' = owner
      BY <2>2, <2>4, <2>5, <2>6, SlotApart
    <3>2. \A u \in owner[q] : u \in Thread /\ deleting[u] # q
      BY <3>1, SlotApart DEF Slots
    <3>3. \A u \in owner[q] : deleting'[u] # q
      BY <2>2, <3>1, <3>2 DEF Slots
    <3> QED
      BY <3>1, <3>3 DEF Slots
  <2> QED
    BY <2>2, <2>5, <2>7, <2>8, <2>9 DEF Slots
<1>8. ASSUME NEW t \in Thread, ReturnBlock(t) PROVE Slots'
  BY <1>1, <1>8, SlotApart DEF ReturnBlock, Slots, HoldersOf
<1> QED
  BY <1>2, <1>3, <1>4, <1>5, <1>6, <1>7, <1>8 DEF Next, Objects, Direct

(* Types and ranges of both pools. *)
THEOREM TypesCorrect == Spec => []TypeOK
<1>1. PInv /\ Slots => TypeOK
  BY DEF PInv, PoolInv, Slots, TypeOK
<1> QED
  BY InitPInv, NextPInv, InitSlots, NextSlots, <1>1, PTL DEF Spec

(* The list of slots is exactly what nobody has, without repetition, whatever the *)
(* threads do to the memory pool, for every number of threads and slots.          *)
THEOREM SlotsAreSound == Spec => []SlotsSound
<1>1. Slots => SlotsSound
  <2> SUFFICES ASSUME Slots PROVE SlotsSound
    OBVIOUS
  <2>1. ListedSlots = Els(slots)
    BY DEF ListedSlots, Els
  <2> QED
    BY <2>1 DEF Slots, Distinct, HoldersOf, SlotsSound
<1> QED
  BY InitSlots, NextSlots, <1>1, PTL DEF Spec
-------------------------------------------------------------------------------
(* The blocks of the system, whatever is deleted: one that is mapped without      *)
(* standing for an exhausted pool has exactly one user and a count of one.        *)
HeapInv ==
  /\ \A b \in Heap : \A t, u \in users[b] : t = u
  /\ \A b \in Heap \ mapped : users[b] = {}
  /\ \A b \in mapped \ overflow : users[b] # {} /\ nRef[b] = 1

(* What a step of either pool does to the variables of the memory pool. *)
PoolStep(t) ==
  \/ Pop(t) \/ FromSystem(t, 0) \/ FromSystem(t, 1) \/ StartAgain(t) \/ Push(t)
  \/ \E b \in Pooled : \E how \in {"freeing", "first"} : StartFree(t, b, how)
  \/ \E b \in Heap : ReleaseHeap(t, b)

LEMMA StepOfPool == [Next]_vars => UNCHANGED poolVars \/ \E t \in Thread : PoolStep(t)
<1> SUFFICES ASSUME NEW t \in Thread, Objects(t) \/ Direct(t)
             PROVE  UNCHANGED poolVars \/ PoolStep(t)
  BY DEF Next, vars
<1>1. CASE Objects(t)
  <2>1. CASE TakeBlock(t)
    BY <2>1 DEF TakeBlock, Overflow, AllocLarge, PoolStep
  <2>2. CASE ReturnBlock(t)
    <3>1. \/ UNCHANGED poolVars
          \/ deleting[t] \in Pooled /\ StartFree(t, deleting[t], "freeing")
          \/ deleting[t] \in Heap /\ ReleaseHeap(t, deleting[t])
      BY <2>2, Apart DEF ReturnBlock
    <3> QED
      BY <3>1 DEF PoolStep
  <2>3. CASE TakeSlot(t) \/ Construct(t) \/ ReturnSlot(t) \/ \E p \in Place : Destruct(t, p)
    BY <2>3 DEF TakeSlot, Construct, ReturnSlot, Destruct
  <2> QED
    BY <1>1, <2>1, <2>2, <2>3 DEF Objects
<1>2. CASE Direct(t)
  BY <1>2 DEF Direct, Overflow, AllocLarge, PoolStep
<1> QED
  BY <1>1, <1>2

LEMMA InitHeapInv == ObjectInit => HeapInv
BY Apart DEF ObjectInit, Init, HeapInv

LEMMA NextHeapInv == PInv /\ HeapInv /\ [Next]_vars => HeapInv'
<1> SUFFICES ASSUME PInv, HeapInv, NEW t \in Thread, PoolStep(t) PROVE HeapInv'
  BY StepOfPool DEF HeapInv, poolVars
<1>0. PoolTypeOK
  BY DEF PInv, PoolInv
<1>1. CASE Pop(t)
  <2>1. Head(FreeList) \in Pooled
    BY <1>0, <1>1, FreeListType, HeadTailProperties DEF Pop
  <2>2. \A b \in Heap : users'[b] = users[b] /\ nRef'[b] = nRef[b]
    BY <1>0, <1>1, <2>1, Apart DEF Pop, PoolTypeOK
  <2> QED
    BY <1>0, <1>1, <2>2 DEF Pop, HeapInv, PoolTypeOK
<1>2. ASSUME NEW ref \in {0, 1}, FromSystem(t, ref) PROVE HeapInv'
  <2>1. PICK b \in Heap \ mapped :
          /\ mapped' = mapped \cup {b}
          /\ nRef' = [nRef EXCEPT ![b] = ref]
          /\ users' = [users EXCEPT ![b] = {t}]
          /\ overflow' = IF ref = 0 THEN overflow \cup {b} ELSE overflow
    BY <1>2 DEF FromSystem
  <2>2. /\ users'[b] = {t} /\ nRef'[b] = ref
        /\ \A c \in Heap : c # b => users'[c] = users[c] /\ nRef'[c] = nRef[c]
    BY <1>0, <2>1, Apart DEF PoolTypeOK
  <2>3. \A c \in mapped' \ overflow' : users'[c] # {} /\ nRef'[c] = 1
    <3> SUFFICES ASSUME NEW c \in mapped' \ overflow' PROVE users'[c] # {} /\ nRef'[c] = 1
      OBVIOUS
    <3>1. CASE c = b
      BY <2>1, <2>2, <3>1
    <3>2. CASE c # b
      BY <1>0, <2>1, <2>2, <3>2 DEF HeapInv, PoolTypeOK
    <3> QED
      BY <3>1, <3>2
  <2> QED
    BY <2>1, <2>2, <2>3 DEF HeapInv
<1>3. ASSUME NEW b \in Pooled, NEW how \in {"freeing", "first"}, StartFree(t, b, how) PROVE HeapInv'
  <2>1. \A c \in Heap : users'[c] = users[c]
    BY <1>0, <1>3, Apart DEF StartFree, PoolTypeOK
  <2> QED
    BY <1>0, <1>3, <2>1 DEF StartFree, HeapInv, PoolTypeOK
<1>4. CASE StartAgain(t)
  BY <1>4 DEF StartAgain, HeapInv
<1>5. CASE Push(t)
  <2>1. ptr[t] \in Pooled
    BY <1>5 DEF PInv, PoolInv, Push, Freeing
  <2>2. \A c \in Heap : nRef'[c] = nRef[c]
    BY <1>0, <1>5, <2>1, Apart DEF Push, PoolTypeOK
  <2> QED
    BY <1>0, <1>5, <2>2 DEF Push, HeapInv, PoolTypeOK
<1>6. ASSUME NEW b \in Heap, ReleaseHeap(t, b) PROVE HeapInv'
  <2>1. /\ users' = [users EXCEPT ![b] = @ \ {t}] /\ nRef' = [nRef EXCEPT ![b] = @ - 1]
        /\ mapped' = IF nRef'[b] = 0 THEN mapped \ {b} ELSE mapped
        /\ overflow' = overflow /\ t \in users[b]
    BY <1>6 DEF ReleaseHeap
  <2>2. /\ users'[b] = {} /\ nRef'[b] = nRef[b] - 1 /\ nRef[b] \in Int /\ b \in mapped
        /\ \A c \in Heap : c # b => users'[c] = users[c] /\ nRef'[c] = nRef[c]
    BY <1>0, <2>1, Apart DEF PoolTypeOK, HeapInv
  <2>3. b \notin overflow => b \notin mapped'
    BY <2>1, <2>2 DEF HeapInv
  <2>4. \A c \in mapped' \ overflow' : c \in mapped \ overflow /\ c # b /\ c \in Heap
    BY <1>0, <2>1, <2>3 DEF PoolTypeOK
  <2>5. \A c \in Heap \ mapped' : c = b \/ c \in Heap \ mapped
    BY <2>1
  <2> QED
    BY <2>2, <2>4, <2>5 DEF HeapInv
<1> QED
  BY <1>1, <1>2, <1>3, <1>4, <1>5, <1>6 DEF PoolStep

(* As long as nothing is deleted twice, what the system gave goes back with its   *)
(* last user, and nRef is the number of users, but for the blocks that stand for  *)
(* an exhausted pool; for every number of threads and blocks.                     *)
THEOREM LeaksAreOverflows == Spec => []OnlyOverflowLeaks
<1>1. PInv /\ HeapInv => OnlyOverflowLeaks
  <2> SUFFICES ASSUME PInv, HeapInv, ~misused, NEW b \in Block \ overflow, users[b] # {}
               PROVE  nRef[b] = Cardinality(users[b])
    BY DEF HeapInv, OnlyOverflowLeaks
  <2>1. nRef[b] = 1 /\ \A t, u \in users[b] : t = u
    BY Apart DEF PInv, Single, Holders, HeapInv
  <2>2. PICK t : users[b] = {t}
    BY <2>1
  <2> QED
    BY <2>1, <2>2, FS_Singleton
<1> QED
  BY InitPInv, NextPInv, InitHeapInv, NextHeapInv, <1>1, PTL DEF Spec

-------------------------------------------------------------------------------
(* A pooled block in use has one user; nobody uses a block in the list.           *)
LEMMA OneUser ==
  ASSUME PInv, HeapInv, ~misused, NEW b \in Block, NEW t \in users[b]
  PROVE  users[b] = {t} /\ b \notin Els(FreeList)
<1>1. \A u \in users[b] : u = t
  BY Apart DEF PInv, Single, Holders, HeapInv
<1>2. Els(FreeList) \subseteq Pooled /\ \A c \in Els(FreeList) : users[c] = {}
  BY FreeListType DEF PInv, PoolInv, Single, Holders
<1> QED
  BY <1>1, <1>2

LEMMA StepAllocates ==
  PInv /\ HeapInv /\ [Next]_vars => [misused' \/ Alloc!Next]_users
<1> SUFFICES ASSUME PInv, HeapInv, NEW t \in Thread, PoolStep(t), ~misused'
             PROVE  Alloc!Next \/ users' = users
  BY StepOfPool DEF poolVars
<1> USE DEF Alloc!Next, Alloc!Alloc, Alloc!Free
<1>0. PoolTypeOK
  BY DEF PInv, PoolInv
<1>1. CASE Pop(t)
  <2>1. FreeList # <<>> /\ users' = [users EXCEPT ![Head(FreeList)] = @ \cup {t}] /\ ~misused
    BY <1>1 DEF Pop
  <2>2. Head(FreeList) \in Els(FreeList) /\ Head(FreeList) \in Block
    BY <1>0, <2>1, FreeListType, PopHead, Apart DEF PInv, PoolInv
  <2>3. users[Head(FreeList)] = {}
    BY <2>1, <2>2 DEF PInv, Single, Holders
  <2>4. users' = [users EXCEPT ![Head(FreeList)] = {t}]
    BY <2>1, <2>3
  <2> QED
    BY <2>2, <2>3, <2>4
<1>2. ASSUME NEW ref, FromSystem(t, ref) PROVE Alloc!Next
  <2>1. PICK b \in Heap \ mapped : users' = [users EXCEPT ![b] = {t}]
    BY <1>2 DEF FromSystem
  <2>2. b \in Block /\ users[b] = {}
    BY <2>1, Apart DEF HeapInv
  <2> QED
    BY <2>1, <2>2
<1>3. ASSUME NEW b \in Block, t \in users[b], users' = [users EXCEPT ![b] = @ \ {t}], ~misused
      PROVE  Alloc!Next
  <2>1. users[b] = {t}
    BY <1>3, OneUser
  <2>2. users' = [users EXCEPT ![b] = {}]
    BY <1>3, <2>1
  <2> QED
    BY <2>1, <2>2
<1>4. ASSUME NEW b \in Pooled, NEW how \in {"freeing", "first"}, StartFree(t, b, how)
      PROVE  Alloc!Next
  BY <1>3, <1>4, Apart DEF StartFree
<1>5. ASSUME NEW b \in Heap, ReleaseHeap(t, b)
      PROVE  Alloc!Next
  BY <1>3, <1>5, Apart DEF ReleaseHeap
<1>6. CASE StartAgain(t) \/ Push(t)
  BY <1>6 DEF StartAgain, Push
<1> QED
  BY <1>1, <1>2, <1>4, <1>5, <1>6 DEF PoolStep

(* As long as nothing is deleted twice, the memory pool implements the allocator: *)
(* new gives a block that nobody uses, and a block stays with its user until the  *)
(* user deletes it.                                                              *)
THEOREM PoolImplementsAllocator == Spec => PoolIsAllocator
<1>1. ObjectInit => Alloc!Init
  BY DEF ObjectInit, Init, Alloc!Init
<1> QED
  BY InitPInv, NextPInv, InitHeapInv, NextHeapInv, StepAllocates, <1>1, PTL
  DEF Spec, PoolIsAllocator
-------------------------------------------------------------------------------
(* Blocks used as objects. Their owner and their deleter use them; until a second *)
(* deletion their count is one.                                                  *)
Owned ==
  /\ \A p \in alive : owner[p] # {}
  /\ \A b \in Block : owner[b] \subseteq users[b]
  /\ \A t \in Thread : deleting[t] \in Block =>
       t \in users[deleting[t]] /\ t \notin owner[deleting[t]]
  /\ \A t \in Thread : deleting[t] # NoBlock => pc[t] = "out"
  /\ ~misused => \A b \in Block :
       (owner[b] # {} \/ \E t \in Thread : deleting[t] = b) => count[b] = 1

LEMMA InitOwned == ObjectInit => Owned
<1> SUFFICES ASSUME ObjectInit PROVE Owned
  OBVIOUS
<1>1. /\ alive = {} /\ owner = [p \in Place |-> {}] /\ deleting = [t \in Thread |-> NoBlock]
      /\ \A b \in Block : b \in Place /\ b # NoBlock
  BY SlotApart, Apart DEF ObjectInit, Place
<1> QED
  BY <1>1, Apart DEF Owned

(* What takes a block adds its thread to the users of one block. *)
LEMMA TakesOne ==
  ASSUME PInv, HeapInv, NEW t \in Thread,
         Pop(t) \/ FromSystem(t, 0) \/ FromSystem(t, 1)
  PROVE  /\ \E b \in Block : users' = [users EXCEPT ![b] = @ \cup {t}]
         /\ UNCHANGED <<pc, misused>>
<1>1. CASE Pop(t)
  <2>1. Head(FreeList) \in Block
    BY <1>1, FreeListType, PopHead, Apart DEF Pop, PInv, PoolInv
  <2> QED
    BY <1>1, <2>1 DEF Pop
<1>2. CASE FromSystem(t, 0) \/ FromSystem(t, 1)
  <2>1. PICK b \in Heap \ mapped : users' = [users EXCEPT ![b] = {t}]
    BY <1>2 DEF FromSystem
  <2>2. b \in Block /\ users[b] = {}
    BY <2>1, Apart DEF HeapInv
  <2>3. users' = [users EXCEPT ![b] = @ \cup {t}]
    BY <2>1, <2>2
  <2> QED
    BY <1>2, <2>2, <2>3 DEF FromSystem
<1> QED
  BY <1>1, <1>2

(* Steps that leave the objects alone take a block from nobody who owns it or is  *)
(* deleting it.                                                                  *)
LEMMA DirectKeepsOwned ==
  ASSUME Slots, PInv, HeapInv, Owned, NEW t \in Thread, Direct(t)
  PROVE  Owned'
<1>0. users \in [Block -> SUBSET Thread] /\ pc \in [Thread -> {"out", "freeing", "first", "again", "second"}]
  BY DEF PInv, PoolInv, PoolTypeOK
<1>1. UNCHANGED <<count, owner, alive, deleting>>
  BY DEF Direct, objectVars
<1>2. ASSUME ~misused' => ~misused,
             \A b \in Block : users[b] \ {t} \subseteq users'[b],
             \A b \in Block : t \in owner[b] => t \in users'[b],
             deleting[t] # NoBlock => users' = users,
             \A u \in Thread : deleting[u] # NoBlock => pc'[u] = "out"
      PROVE  Owned'
  <2>1. ASSUME NEW b \in Block PROVE owner'[b] \subseteq users'[b]
    BY <1>1, <1>2 DEF Owned
  <2>2. ASSUME NEW u \in Thread, deleting'[u] \in Block
        PROVE  u \in users'[deleting'[u]] /\ u \notin owner'[deleting'[u]]
    BY <1>1, <1>2, <2>2, Apart DEF Owned
  <2> QED
    BY <1>1, <1>2, <2>1, <2>2 DEF Owned
<1>3. CASE Pop(t) \/ Overflow(t) \/ AllocLarge(t)
  <2>1. PICK b \in Block : users' = [users EXCEPT ![b] = @ \cup {t}] /\ UNCHANGED <<pc, misused>>
    BY <1>3, TakesOne DEF Overflow, AllocLarge
  <2>2. \A c \in Block : users[c] \subseteq users'[c]
    BY <1>0, <2>1
  <2>3. deleting[t] = NoBlock
    BY <1>3 DEF Direct, Outside, Pop, Overflow, AllocLarge, FromSystem, StartAgain, Push, Freeing, Owned
  <2> QED
    BY <1>2, <2>1, <2>2, <2>3 DEF Owned
<1>4. ASSUME NEW b \in Block, Outside(t), t \notin owner[b],
             \/ b \in Pooled /\ \E how \in {"freeing", "first"} : StartFree(t, b, how)
             \/ b \in Heap /\ ReleaseHeap(t, b)
      PROVE  Owned'
  <2>1. /\ users' = [users EXCEPT ![b] = @ \ {t}] /\ misused' = misused
        /\ \A u \in Thread : u # t => pc'[u] = pc[u]
    BY <1>0, <1>4 DEF StartFree, ReleaseHeap
  <2>2. deleting[t] = NoBlock /\ \A c \in Block : c # b => users'[c] = users[c]
    BY <1>0, <1>4, <2>1 DEF Outside
  <2> QED
    BY <1>0, <1>2, <1>4, <2>1, <2>2 DEF Owned
<1>5. CASE StartAgain(t) \/ Push(t)
  <2>1. deleting[t] = NoBlock /\ users' = users /\ (~misused' => ~misused)
    BY <1>5 DEF StartAgain, Push, Freeing, Owned
  <2>2. \A u \in Thread : u # t => pc'[u] = pc[u]
    BY <1>0, <1>5 DEF StartAgain, Push
  <2> QED
    BY <1>2, <2>1, <2>2 DEF Owned
<1> QED
  BY <1>3, <1>4, <1>5 DEF Direct

LEMMA NextOwned == Slots /\ PInv /\ HeapInv /\ Owned /\ [Next]_vars => Owned'
<1> SUFFICES ASSUME Slots, PInv, HeapInv, Owned, NEW t \in Thread, Objects(t) PROVE Owned'
  BY DirectKeepsOwned DEF Next, vars, Owned, poolVars, objectVars
<1>0. /\ users \in [Block -> SUBSET Thread] /\ Block \subseteq Place
      /\ pc \in [Thread -> {"out", "freeing", "first", "again", "second"}]
      /\ owner \in [Place -> SUBSET Thread] /\ count \in [Place -> Int]
      /\ deleting \in [Thread -> Place \cup {NoBlock}]
  BY SlotApart DEF PInv, PoolInv, PoolTypeOK, Slots
<1>1. CASE TakeSlot(t)
  <2>1. PICK h \in Slot : /\ count' = [count EXCEPT ![h] = 1]
                          /\ owner' = [owner EXCEPT ![h] = @ \cup {t}]
                          /\ UNCHANGED <<poolVars, alive, deleting>>
    <3>1. Head(slots) \in Slot
      BY <1>1, PopHead DEF TakeSlot, Slots
    <3> QED
      BY <1>1, <3>1 DEF TakeSlot
  <2>2. \A b \in Block : owner'[b] = owner[b] /\ count'[b] = count[b]
    BY <1>0, <2>1, SlotApart
  <2>3. \A p \in alive : owner'[p] # {}
    BY <1>0, <2>1, SlotApart DEF Owned, Slots
  <2> QED
    BY <2>1, <2>2, <2>3, SlotApart DEF Owned, poolVars
<1>2. CASE TakeBlock(t)
  <2>1. PICK b \in Block : users' = [users EXCEPT ![b] = @ \cup {t}] /\ UNCHANGED <<pc, misused>>
    BY <1>2, TakesOne DEF TakeBlock, Overflow, AllocLarge
  <2>2. PICK c \in Block : /\ users'[c] # users[c]
                           /\ owner' = [owner EXCEPT ![c] = {t}] /\ count' = [count EXCEPT ![c] = 1]
    BY <1>2 DEF TakeBlock
  <2>3. b = c
    BY <1>0, <2>1, <2>2
  <2>4. UNCHANGED <<alive, deleting>> /\ deleting[t] = NoBlock
    BY <1>2 DEF TakeBlock, Outside
  <2>5. /\ owner'[b] = {t} /\ count'[b] = 1 /\ users'[b] = users[b] \cup {t}
        /\ \A p \in Place : p # b => owner'[p] = owner[p] /\ count'[p] = count[p]
        /\ \A d \in Block : d # b => users'[d] = users[d]
    BY <1>0, <2>1, <2>2, <2>3
  <2>6. ASSUME NEW u \in Thread, deleting'[u] \in Block
        PROVE  u \in users'[deleting'[u]] /\ u \notin owner'[deleting'[u]]
    <3>1. u # t /\ u \in users[deleting[u]] /\ u \notin owner[deleting[u]]
      BY <2>4, <2>6, Apart DEF Owned
    <3> QED
      BY <1>0, <2>4, <2>5, <2>6, <3>1
  <2>7. \A p \in alive' : owner'[p] # {}
    BY <1>0, <2>4, <2>5 DEF Owned, Slots
  <2>8. \A d \in Block : owner'[d] \subseteq users'[d]
    BY <1>0, <2>5 DEF Owned
  <2>9. ~misused' => \A d \in Block :
          (owner'[d] # {} \/ \E u \in Thread : deleting'[u] = d) => count'[d] = 1
    BY <1>0, <2>1, <2>4, <2>5 DEF Owned
  <2> QED
    BY <2>1, <2>4, <2>6, <2>7, <2>8, <2>9 DEF Owned
<1>3. CASE Construct(t)
  BY <1>3 DEF Construct, Owned, poolVars
<1>4. ASSUME NEW p \in Place, Destruct(t, p) PROVE Owned'
  <2>1. /\ alive' = alive \ {p} /\ owner' = [owner EXCEPT ![p] = @ \ {t}]
        /\ deleting' = [deleting EXCEPT ![t] = p] /\ UNCHANGED <<poolVars, count>>
        /\ t \in owner[p] /\ pc[t] = "out" /\ deleting[t] = NoBlock
    BY <1>4 DEF Destruct, Outside
  <2>2. /\ owner'[p] = owner[p] \ {t} /\ \A q \in Place : q # p => owner'[q] = owner[q]
        /\ deleting'[t] = p /\ \A u \in Thread : u # t => deleting'[u] = deleting[u]
    BY <1>0, <2>1
  <2>3. ASSUME NEW u \in Thread, deleting'[u] \in Block
        PROVE  u \in users[deleting'[u]] /\ u \notin owner'[deleting'[u]]
    BY <1>0, <2>1, <2>2, <2>3 DEF Owned
  <2>4. \A q \in alive' : owner'[q] # {}
    BY <1>0, <2>1, <2>2 DEF Owned, Slots
  <2>5. \A b \in Block : owner'[b] \subseteq owner[b]
    BY <1>0, <2>2
  <2>6. \A b \in Block : (owner'[b] # {} \/ \E u \in Thread : deleting'[u] = b)
                         => (owner[b] # {} \/ \E u \in Thread : deleting[u] = b)
    BY <1>0, <2>1, <2>2
  <2> QED
    BY <2>1, <2>2, <2>3, <2>4, <2>5, <2>6 DEF Owned, poolVars
<1>5. CASE ReturnSlot(t)
  <2>1. /\ deleting[t] \in Slot /\ count' = [count EXCEPT ![deleting[t]] = @ - 1]
        /\ deleting' = [deleting EXCEPT ![t] = NoBlock] /\ UNCHANGED <<poolVars, owner, alive>>
    BY <1>5 DEF ReturnSlot
  <2>2. \A b \in Block : count'[b] = count[b]
    BY <1>0, <2>1, SlotApart
  <2>3. \A u \in Thread : deleting'[u] = NoBlock \/ deleting'[u] = deleting[u]
    BY <1>0, <2>1
  <2> QED
    BY <2>1, <2>2, <2>3, Apart DEF Owned, poolVars
<1>6. CASE ReturnBlock(t)
  <2>1. PICK d \in Block : d = deleting[t]
    BY <1>6 DEF ReturnBlock
  <2>2. /\ count' = [count EXCEPT ![d] = @ - 1] /\ deleting' = [deleting EXCEPT ![t] = NoBlock]
        /\ UNCHANGED <<owner, alive>>
        /\ \/ UNCHANGED poolVars
           \/ d \in Pooled /\ StartFree(t, d, "freeing")
           \/ d \in Heap /\ ReleaseHeap(t, d)
    BY <1>6, <2>1, Apart DEF ReturnBlock
  <2>3. /\ misused' = misused
        /\ users' = users \/ users' = [users EXCEPT ![d] = @ \ {t}]
        /\ \A u \in Thread : u # t => pc'[u] = pc[u]
    BY <1>0, <2>2 DEF StartFree, ReleaseHeap, poolVars
  <2>4. /\ t \in users[d] /\ t \notin owner[d] /\ owner[d] \subseteq users[d]
        /\ deleting'[t] = NoBlock /\ \A u \in Thread : u # t => deleting'[u] = deleting[u]
        /\ \A b \in Block : b # d => count'[b] = count[b]
    BY <1>0, <2>1, <2>2 DEF Owned
  <2>5. \A b \in Block : owner'[b] \subseteq users'[b]
    BY <1>0, <2>2, <2>3, <2>4 DEF Owned
  <2>6. ASSUME NEW u \in Thread, deleting'[u] \in Block
        PROVE  u \in users'[deleting'[u]] /\ u \notin owner'[deleting'[u]]
    BY <1>0, <2>2, <2>3, <2>4, <2>6, Apart DEF Owned
  <2>7. ASSUME ~misused, NEW b \in Block,
               owner'[b] # {} \/ \E u \in Thread : deleting'[u] = b
        PROVE  count'[b] = 1
    <3>1. CASE b = d
      <4>1. users[d] = {t}
        BY <2>4, <2>7, OneUser
      <4>2. owner[d] = {} /\ \A u \in Thread : deleting[u] = d => u = t
        BY <2>4, <4>1 DEF Owned
      <4> QED
        BY <2>2, <2>4, <2>7, <3>1, <4>2, Apart
    <3>2. CASE b # d
      <4>1. owner[b] # {} \/ \E u \in Thread : deleting[u] = b
        BY <2>2, <2>4, <2>7, Apart
      <4> QED
        BY <2>4, <2>7, <3>2, <4>1 DEF Owned
    <3> QED
      BY <3>1, <3>2
  <2>8. \A u \in Thread : deleting'[u] # NoBlock => pc'[u] = "out"
    BY <2>3, <2>4 DEF Owned
  <2> QED
    BY <2>2, <2>3, <2>5, <2>6, <2>7, <2>8 DEF Owned
<1> QED
  BY <1>1, <1>2, <1>3, <1>4, <1>5, <1>6 DEF Objects

(* As long as nothing is deleted twice, a live object has one owner, the only     *)
(* user of its place, which is in no free list, and its count is the one that     *)
(* freeObjectMemory() asserts; for every number of threads, slots and blocks.     *)
THEOREM ObjectsHaveOneOwner == Spec => []ObjectsOwned
<1>1. ASSUME Slots, PInv, HeapInv, Owned, ~misused, NEW p \in alive
      PROVE  /\ \E t \in Thread : owner[p] = {t}
             /\ count[p] = 1 /\ p \notin ListedSlots \cup Listed
             /\ p \in Block => users[p] = owner[p]
             /\ \A t \in Thread : deleting[t] # p
  <2>0. /\ ListedSlots = Els(slots) /\ Listed = Els(FreeList) /\ owner[p] \subseteq Thread
        /\ Els(FreeList) \subseteq Pooled /\ Els(slots) \subseteq Slot
    BY <1>1, FreeListType, ElementOfSeq DEF Els, ListedSlots, Listed, Slots, PInv, PoolInv
  <2>1. PICK t \in Thread : t \in owner[p]
    BY <1>1, <2>0 DEF Owned
  <2>2. CASE p \in Slot
    <3>1. p \in Slot \ Els(slots)
      BY <1>1, <2>1, <2>2 DEF Slots, HoldersOf
    <3>2. \A u \in HoldersOf(p) : u = t
      BY <1>1, <2>1, <3>1 DEF Slots, HoldersOf
    <3>3. \A u \in Thread : deleting[u] # p
      BY <1>1, <2>1, <3>1, <3>2 DEF Slots, HoldersOf
    <3>4. owner[p] = {t}
      BY <2>1, <3>2 DEF HoldersOf
    <3>5. count[p] = 1 /\ p \notin Block /\ p \notin Pooled
      BY <1>1, <3>1, SlotApart, Apart DEF Slots
    <3> QED
      BY <2>0, <3>1, <3>3, <3>4, <3>5
  <2>3. CASE p \in Block
    <3>1. users[p] = {t} /\ p \notin Els(FreeList) /\ owner[p] = {t}
      BY <1>1, <2>1, <2>3, OneUser DEF Owned
    <3>2. \A u \in Thread : deleting[u] # p
      BY <1>1, <2>3, <3>1 DEF Owned
    <3>3. count[p] = 1 /\ p \notin Slot
      BY <1>1, <2>1, <2>3, SlotApart DEF Owned
    <3> QED
      BY <2>0, <3>1, <3>2, <3>3
  <2> QED
    BY <1>1, <2>2, <2>3, SlotApart DEF Slots
<1>2. ASSUME Slots, PInv, HeapInv, Owned, ~misused, NEW t \in Thread, deleting[t] # NoBlock
      PROVE  count[deleting[t]] = 1
  <2>1. CASE deleting[t] \in Slot
    <3>1. t \in HoldersOf(deleting[t])
      BY DEF HoldersOf
    <3> QED
      BY <1>2, <2>1, <3>1 DEF Slots
  <2>2. CASE deleting[t] \in Block
    BY <1>2, <2>2 DEF Owned
  <2> QED
    BY <1>2, <2>1, <2>2, SlotApart DEF Slots
<1>3. Slots /\ PInv /\ HeapInv /\ Owned => ObjectsOwned
  <2>1. \A t \in Thread : Cardinality({t}) = 1
    BY FS_Singleton
  <2> QED
    BY <1>1, <1>2, <2>1 DEF ObjectsOwned
<1> QED
  BY InitPInv, NextPInv, InitSlots, NextSlots, InitHeapInv, NextHeapInv, InitOwned, NextOwned,
     <1>3, PTL DEF Spec

=================================================================================
