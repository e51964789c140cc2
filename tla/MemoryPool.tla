------------------------------- MODULE MemoryPool -------------------------------
(* Server/Memory_pool.h: blocks cut from one buffer and linked into a free list,  *)
(* blocks taken from the system when the list is empty (an overflow) or the size  *)
(* is beyond the pools, a reference count in each block, and the global operators *)
(* new and delete on top. One MemoryAlloc and the big sizes are modelled; the two *)
(* MemoryAlloc objects of MemoryMgr share nothing.                                *)
(*                                                                               *)
(* The list is touched under _mutex; freeMemory() looks at the block before that. *)
EXTENDS Integers, Sequences, FiniteSets

CONSTANTS Thread,        \* the threads that use new and delete
          PoolLen,       \* _nBlockLen
          HeapLen        \* bound of the model: blocks the system can give

ASSUME LenAssumption == PoolLen \in Nat \ {0} /\ HeapLen \in Nat

Pooled == 1..PoolLen
Heap == (PoolLen + 1)..(PoolLen + HeapLen)
Block == Pooled \cup Heap
NoBlock == 0

VARIABLES inited,   \* whether initMemory() has run
          free,     \* the list of _pHeader and pNext
          nRef,     \* nRef of each block
          mapped,   \* the blocks of the heap that the system has given
          users,    \* the threads that use each block
          pc,       \* "out"; in freeMemory() before the lock: "freeing", or "first" and
                    \* "second" of two deletes of one block; "again", between those
          ptr,      \* the block a thread is deleting
          overflow, \* history: the mapped blocks that stand for an exhausted pool
          misused   \* history: whether a block has been deleted twice

poolVars == <<inited, free, nRef, mapped, users, pc, ptr, overflow, misused>>

Init == /\ inited = FALSE
        /\ free = <<>>
        /\ nRef = [b \in Block |-> 0]
        /\ mapped = {}
        /\ users = [b \in Block |-> {}]
        /\ pc = [t \in Thread |-> "out"]
        /\ ptr = [t \in Thread |-> NoBlock]
        /\ overflow = {}
        /\ misused = FALSE

Freeing(t) == pc[t] \in {"freeing", "first", "second"}

-------------------------------------------------------------------------------
(* Faulty variants used as mutants. *)

PopKeepsHead(t) ==
  /\ pc[t] = "out"
  /\ (IF inited THEN free ELSE [i \in Pooled |-> i]) # <<>>
  /\ inited' = TRUE
  /\ free' = IF inited THEN free ELSE [i \in Pooled |-> i]
  /\ nRef' = [nRef EXCEPT ![Head(free')] = 1]
  /\ users' = [users EXCEPT ![Head(free')] = @ \cup {t}]
  /\ UNCHANGED <<mapped, pc, ptr, overflow, misused>>

PushWithoutCount(t) ==
  /\ Freeing(t)
  /\ free' = <<ptr[t]>> \o free
  /\ pc' = [pc EXCEPT ![t] = IF @ = "first" THEN "again" ELSE "out"]
  /\ ptr' = [ptr EXCEPT ![t] = IF pc[t] = "first" THEN @ ELSE NoBlock]
  /\ UNCHANGED <<inited, nRef, mapped, users, overflow, misused>>

FromSystemUncounted(t, ref) ==
  /\ pc[t] = "out"
  /\ \E b \in Heap \ mapped :
       /\ mapped' = mapped \cup {b}
       /\ nRef' = [nRef EXCEPT ![b] = 0]
       /\ users' = [users EXCEPT ![b] = {t}]
       /\ overflow' = IF ref = 0 THEN overflow \cup {b} ELSE overflow
  /\ UNCHANGED <<inited, free, pc, ptr, misused>>

-------------------------------------------------------------------------------
(* initMemory() links the blocks in the order of their addresses; it runs under  *)
(* the lock on the first call of allocMemory().                                  *)
FreeList == IF inited THEN free ELSE [i \in Pooled |-> i]

(* allocMemory() takes the head of the list ... *)
Pop(t) ==
  /\ pc[t] = "out"
  /\ FreeList # <<>>
  /\ inited' = TRUE
  /\ free' = Tail(FreeList)
  /\ nRef' = [nRef EXCEPT ![Head(FreeList)] = 1]
  /\ users' = [users EXCEPT ![Head(FreeList)] = @ \cup {t}]
  /\ UNCHANGED <<mapped, pc, ptr, overflow, misused>>

(* ... or, when the list is empty, a block of the system, with a count of zero;  *)
(* allocMem() of a size beyond the pools gives such a block a count of one. The   *)
(* list is empty, too, when initMemory() gets no buffer; the next call of         *)
(* allocMemory() tries again.                                                    *)
FromSystem(t, ref) ==
  /\ pc[t] = "out"
  /\ \E b \in Heap \ mapped :
       /\ mapped' = mapped \cup {b}
       /\ nRef' = [nRef EXCEPT ![b] = ref]
       /\ users' = [users EXCEPT ![b] = {t}]
       /\ overflow' = IF ref = 0 THEN overflow \cup {b} ELSE overflow
  /\ UNCHANGED <<inited, free, pc, ptr, misused>>

Overflow(t) == (~inited \/ free = <<>>) /\ FromSystem(t, 0)

AllocLarge(t) == FromSystem(t, 1)

(* delete of a pooled block: freeMem() and the first lines of freeMemory(). It is *)
(* one delete, or the first of two: a reply is deleted by push() and again by the *)
(* send task.                                                                    *)
StartFree(t, b, how) ==
  /\ pc[t] = "out"
  /\ t \in users[b]
  /\ users' = [users EXCEPT ![b] = @ \ {t}]
  /\ ptr' = [ptr EXCEPT ![t] = b]
  /\ pc' = [pc EXCEPT ![t] = how]
  /\ UNCHANGED <<inited, free, nRef, mapped, overflow, misused>>

StartAgain(t) ==
  /\ pc[t] = "again"
  /\ pc' = [pc EXCEPT ![t] = "second"]
  /\ misused' = TRUE
  /\ UNCHANGED <<inited, free, nRef, mapped, users, ptr, overflow>>

(* The locked part of freeMemory(): the block goes to the head of the list when  *)
(* its count falls to zero.                                                      *)
Push(t) ==
  /\ Freeing(t)
  /\ nRef' = [nRef EXCEPT ![ptr[t]] = @ - 1]
  /\ free' = IF nRef'[ptr[t]] = 0 THEN <<ptr[t]>> \o free ELSE free
  /\ pc' = [pc EXCEPT ![t] = IF @ = "first" THEN "again" ELSE "out"]
  /\ ptr' = [ptr EXCEPT ![t] = IF pc[t] = "first" THEN @ ELSE NoBlock]
  /\ UNCHANGED <<inited, mapped, users, overflow, misused>>

(* delete of a block that came from the system: freeMem() alone. *)
ReleaseHeap(t, b) ==
  /\ pc[t] = "out"
  /\ t \in users[b]
  /\ users' = [users EXCEPT ![b] = @ \ {t}]
  /\ nRef' = [nRef EXCEPT ![b] = @ - 1]
  /\ mapped' = IF nRef'[b] = 0 THEN mapped \ {b} ELSE mapped
  /\ UNCHANGED <<inited, free, pc, ptr, overflow, misused>>

-------------------------------------------------------------------------------
Deleting(b) == {t \in Thread : pc[t] \in {"freeing", "first"} /\ ptr[t] = b}
Listed == {FreeList[i] : i \in 1..Len(FreeList)}

(* Types and ranges. *)
PoolTypeOK ==
  /\ inited \in BOOLEAN
  /\ free \in Seq(Pooled)
  /\ nRef \in [Block -> Int]
  /\ mapped \subseteq Heap /\ overflow \subseteq mapped
  /\ users \in [Block -> SUBSET Thread]
  /\ pc \in [Thread -> {"out", "freeing", "first", "again", "second"}]
  /\ ptr \in [Thread -> Pooled \cup {NoBlock}]
  /\ misused \in BOOLEAN

(* The free list holds no block twice, so it cannot turn into a ring, even when  *)
(* blocks are deleted twice: a block is pushed when its count falls from one to  *)
(* zero, and gets the one only when it is popped.                                *)
ListedOnce == \A i, j \in 1..Len(FreeList) : FreeList[i] = FreeList[j] => i = j

(* freeMemory() finds a count of one, assert(1 == pBlock->nRef), although it     *)
(* looks before it takes the lock.                                               *)
AssertOneRef == \A t \in Thread : Freeing(t) => nRef[ptr[t]] = 1

(* As long as nothing is deleted twice, the free list holds the pooled blocks that *)
(* nobody uses or is deleting, all of them and no others, and the assertions on  *)
(* the count hold: it is zero in the list (allocMemory()) and one in freeMemory(). *)
FreeListExact ==
  ~misused => /\ \A b \in Pooled : b \in Listed <=> users[b] = {} /\ Deleting(b) = {}
              /\ \A b \in Listed : nRef[b] = 0
              /\ AssertOneRef

(* What was got from the system goes back when it is deleted, and nRef is the    *)
(* number of users of a block ("引用次数(目前有多少对象在使用这个块内存)"), but for   *)
(* the blocks that stand for an exhausted pool: their count starts one too low.  *)
OnlyOverflowLeaks ==
  ~misused => /\ \A b \in mapped \ overflow : users[b] # {}
              /\ \A b \in Block \ overflow : users[b] # {} => nRef[b] = Cardinality(users[b])

(* As long as nothing is deleted twice, new never returns a block in use. *)
Alloc == INSTANCE Allocator
           WITH Thread <- {{t} : t \in Thread}, user <- users, Nobody <- {}
PoolIsAllocator == Alloc!Init /\ [][misused' \/ Alloc!Next]_users
=================================================================================
