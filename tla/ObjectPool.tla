------------------------------- MODULE ObjectPool -------------------------------
(* Server/Object_Pool.h on top of Memory_pool.h: the pool of the objects of one   *)
(* class, Cell_Client in this program. Its slots are linked into a list of their  *)
(* own, built by the constructor of the pool; when they are used up, an object is *)
(* put into a block got and given back by the global new and delete. Meanwhile    *)
(* the threads use the memory pool directly for buffers and replies.              *)
(*                                                                               *)
(* An object is constructed after its place is got and destructed before it is    *)
(* given back. allocObject() calls the memory pool with its own lock held.        *)
EXTENDS MemoryPool

CONSTANT ObjectLen   \* nPoolLen

ASSUME ObjectLenAssumption == ObjectLen \in Nat \ {0}

Slot == {-i : i \in 1..ObjectLen}
Place == Slot \cup Block

VARIABLES slots,    \* the list of _pHeader and pNext
          count,    \* nRef of the NodeHeader of each place
          owner,    \* the threads that got each place as an object of the class
          alive,    \* the places whose object is constructed and not yet destructed
          deleting  \* the place of the object a thread is deleting, or NoBlock

objectVars == <<slots, count, owner, alive, deleting>>
vars == <<poolVars, objectVars>>

ObjectInit == /\ Init
              /\ slots = [i \in 1..ObjectLen |-> -i]
              /\ count = [p \in Place |-> 0]
              /\ owner = [p \in Place |-> {}]
              /\ alive = {}
              /\ deleting = [t \in Thread |-> NoBlock]

Outside(t) == pc[t] = "out" /\ deleting[t] = NoBlock

-------------------------------------------------------------------------------
(* Faulty variants used as mutants. *)

TakeBlockUncounted(t) ==
  /\ Outside(t) /\ slots = <<>>
  /\ Pop(t) \/ Overflow(t) \/ AllocLarge(t)
  /\ \E b \in Block :
       /\ users'[b] # users[b]
       /\ owner' = [owner EXCEPT ![b] = {t}]
  /\ UNCHANGED <<slots, count, alive, deleting>>

ReturnSlotForgotten(t) ==
  /\ deleting[t] \in Slot
  /\ count' = [count EXCEPT ![deleting[t]] = @ - 1]
  /\ deleting' = [deleting EXCEPT ![t] = NoBlock]
  /\ UNCHANGED <<poolVars, slots, owner, alive>>

-------------------------------------------------------------------------------
(* allocObject(): a slot ... *)
TakeSlot(t) ==
  /\ Outside(t) /\ slots # <<>>
  /\ slots' = Tail(slots)
  /\ count' = [count EXCEPT ![Head(slots)] = 1]
  /\ owner' = [owner EXCEPT ![Head(slots)] = @ \cup {t}]
  /\ UNCHANGED <<poolVars, alive, deleting>>

(* ... or "new char[]", which goes to the memory pool, or past it when the objects *)
(* are larger than MAX_MEMORY_SIZE.                                              *)
TakeBlock(t) ==
  /\ Outside(t) /\ slots = <<>>
  /\ Pop(t) \/ Overflow(t) \/ AllocLarge(t)
  /\ \E b \in Block :
       /\ users'[b] # users[b]
       /\ owner' = [owner EXCEPT ![b] = {t}]
       /\ count' = [count EXCEPT ![b] = 1]
  /\ UNCHANGED <<slots, alive, deleting>>

(* The constructor, in the place that operator new returned. *)
Construct(t) ==
  /\ Outside(t)
  /\ \E p \in Place \ alive : t \in owner[p] /\ alive' = alive \cup {p}
  /\ UNCHANGED <<poolVars, slots, count, owner, deleting>>

(* delete: the destructor, then freeObjectMemory() up to its lock ... *)
Destruct(t, p) ==
  /\ Outside(t)
  /\ p \in alive /\ t \in owner[p]
  /\ alive' = alive \ {p}
  /\ owner' = [owner EXCEPT ![p] = @ \ {t}]
  /\ deleting' = [deleting EXCEPT ![t] = p]
  /\ UNCHANGED <<poolVars, slots, count>>

(* ... which puts a slot at the head of the list ... *)
ReturnSlot(t) ==
  /\ deleting[t] \in Slot
  /\ count' = [count EXCEPT ![deleting[t]] = @ - 1]
  /\ slots' = IF count'[deleting[t]] = 0 THEN <<deleting[t]>> \o slots ELSE slots
  /\ deleting' = [deleting EXCEPT ![t] = NoBlock]
  /\ UNCHANGED <<poolVars, owner, alive>>

(* ... and gives anything else back by the global delete. *)
ReturnBlock(t) ==
  /\ deleting[t] \in Block
  /\ count' = [count EXCEPT ![deleting[t]] = @ - 1]
  /\ IF count'[deleting[t]] # 0 THEN UNCHANGED poolVars
     ELSE IF deleting[t] \in Pooled THEN StartFree(t, deleting[t], "freeing")
     ELSE ReleaseHeap(t, deleting[t])
  /\ deleting' = [deleting EXCEPT ![t] = NoBlock]
  /\ UNCHANGED <<slots, owner, alive>>

Objects(t) == \/ TakeSlot(t) \/ TakeBlock(t) \/ Construct(t) \/ ReturnSlot(t) \/ ReturnBlock(t)
              \/ \E p \in Place : Destruct(t, p)

(* new and delete of what is not an object of the class. *)
Direct(t) ==
  /\ \/ Outside(t) /\ (Pop(t) \/ Overflow(t) \/ AllocLarge(t))
     \/ \E b \in Block : /\ Outside(t) /\ t \notin owner[b]
                         /\ \/ b \in Pooled /\ \E how \in {"freeing", "first"} : StartFree(t, b, how)
                            \/ b \in Heap /\ ReleaseHeap(t, b)
     \/ StartAgain(t)
     \/ Push(t)
  /\ UNCHANGED objectVars

Next == \E t \in Thread : Objects(t) \/ Direct(t)

Spec == ObjectInit /\ [][Next]_vars

-------------------------------------------------------------------------------
ListedSlots == {slots[i] : i \in 1..Len(slots)}

(* Types and ranges of both pools. *)
TypeOK ==
  /\ PoolTypeOK
  /\ slots \in Seq(Slot)
  /\ count \in [Place -> Int]
  /\ owner \in [Place -> SUBSET Thread]
  /\ alive \subseteq Place
  /\ deleting \in [Thread -> Place \cup {NoBlock}]

(* The slots: none is in the list twice, none is lost, and one in the list is     *)
(* in nobody's use, with the count of zero that allocObject() asserts, whatever   *)
(* the threads do to the memory pool.                                            *)
SlotsSound ==
  /\ \A i, j \in 1..Len(slots) : slots[i] = slots[j] => i = j
  /\ \A p \in Slot : (p \in ListedSlots) <=> owner[p] = {} /\ \A t \in Thread : deleting[t] # p
  /\ \A p \in ListedSlots : count[p] = 0

(* A live object has exactly one owner, its place is not for the taking in either *)
(* pool, and its count is one, as freeObjectMemory() asserts when it is deleted.  *)
ObjectsOwned ==
  ~misused => /\ \A p \in alive : /\ Cardinality(owner[p]) = 1 /\ count[p] = 1
                                  /\ p \notin ListedSlots \cup Listed
                                  /\ p \in Block => users[p] = owner[p]
              /\ \A t \in Thread : deleting[t] # NoBlock =>
                   deleting[t] \notin alive /\ count[deleting[t]] = 1
=================================================================================
