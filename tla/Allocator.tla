-------------------------------- MODULE Allocator --------------------------------
(* What the memory pool and the object pool promise: a block that is handed out   *)
(* is in nobody's use, and stays with its user until that user gives it back.     *)
CONSTANTS Thread, Block, Nobody

VARIABLE user    \* who uses each block

Init == user = [b \in Block |-> Nobody]

Alloc(t) == \E b \in Block : /\ user[b] = Nobody
                             /\ user' = [user EXCEPT ![b] = t]

Free(t) == \E b \in Block : /\ user[b] = t
                            /\ user' = [user EXCEPT ![b] = Nobody]

Next == \E t \in Thread : Alloc(t) \/ Free(t)

Spec == Init /\ [][Next]_user
=================================================================================
