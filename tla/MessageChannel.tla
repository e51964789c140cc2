------------------------------ MODULE MessageChannel ------------------------------
(* What the receiving side of a connection promises, in the server and in the    *)
(* client: the messages that the peer sends are handled one by one, in order and *)
(* whole, and none is left behind.                                               *)
EXTENDS Sequences

CONSTANT Message     \* the messages that can be sent

VARIABLES queue,     \* sent and not handled yet, oldest first
          handled    \* handled, oldest first

Init == queue = <<>> /\ handled = <<>>

Send == \E m \in Message : queue' = Append(queue, m) /\ UNCHANGED handled

Handle == /\ queue # <<>>
          /\ handled' = Append(handled, Head(queue))
          /\ queue' = Tail(queue)

Next == Send \/ Handle

Spec == Init /\ [][Next]_<<queue, handled>> /\ WF_<<queue, handled>>(Handle)
=================================================================================
