------------------------------- MODULE Reassembly -------------------------------
(* The receiving side of a connection: bytes of a TCP stream are appended to a    *)
(* buffer, and while the buffer holds a whole message the message is handled and  *)
(* the rest moved to the front. The program has this loop three times: recvData() *)
(* of Cell_Server.h with Read_for_Socket(), hasMsg() and pop() of Cell_Buffer.h,  *)
(* recvData() of Server.h, and RecvData() of Client.cpp.                          *)
(*                                                                               *)
(* The peer is one that speaks the protocol: the dataLength of a message is its   *)
(* length, a header at least and a buffer at most.                                *)
EXTENDS Naturals, Sequences

CONSTANTS Size,        \* _nSize, RECV_BUFF_SIZE * 5
          Header,      \* sizeof(DataHeader)
          Length,      \* the lengths of the messages
          MaxMessages  \* bound of the model: number of messages sent

ASSUME SizeAssumption == Size \in Nat \ {0} /\ Header \in Nat \ {0}
ASSUME LengthAssumption == Length \subseteq Header..Size
ASSUME MaxMessagesAssumption == MaxMessages \in Nat

VARIABLES lengths,   \* dataLength of each message sent so far
          wire,      \* the bytes on their way, oldest first
          buf,       \* the first _nLast bytes of _pBuff
          handled,   \* what onNetMsg() was given, oldest first
          pc         \* "idle", or "loop" in the loop that follows recv()

vars == <<lengths, wire, buf, handled, pc>>

(* A byte is known by its message and its place in it. *)
Bytes(m, n) == [k \in 1..n |-> <<m, k>>]
Whole(m) == Bytes(m, lengths[m])

Init == /\ lengths = <<>>
        /\ wire = <<>>
        /\ buf = <<>>
        /\ handled = <<>>
        /\ pc = "idle"

-------------------------------------------------------------------------------
(* Faulty variants used as mutants. *)

HasMsgStrict ==
  /\ Len(buf) >= Header
  /\ Len(buf) > lengths[buf[1][1]]

HandleOnce ==
  /\ pc = "loop"
  /\ Len(buf) >= Header /\ Len(buf) >= lengths[buf[1][1]]
  /\ LET n == lengths[buf[1][1]]
     IN /\ handled' = Append(handled, SubSeq(buf, 1, n))
        /\ buf' = SubSeq(buf, n + 1, Len(buf))
  /\ pc' = "idle"
  /\ UNCHANGED <<lengths, wire>>

-------------------------------------------------------------------------------
(* The peer sends a message. *)
Send ==
  /\ Len(lengths) < MaxMessages
  /\ \E n \in Length : /\ lengths' = Append(lengths, n)
                       /\ wire' = wire \o Bytes(Len(lengths'), n)
  /\ UNCHANGED <<buf, handled, pc>>

(* recv() into the free part of the buffer: as many bytes as TCP delivers. *)
Recv ==
  /\ pc = "idle"
  /\ \E n \in 1..Len(wire) :
       /\ n <= Size - Len(buf)
       /\ buf' = buf \o SubSeq(wire, 1, n)
       /\ wire' = SubSeq(wire, n + 1, Len(wire))
  /\ pc' = "loop"
  /\ UNCHANGED <<lengths, handled>>

(* hasMsg(): the header is complete, and so is the message it begins. *)
DataLength == lengths[buf[1][1]]
HasMsg == Len(buf) >= Header /\ Len(buf) >= DataLength

(* One round of the loop: onNetMsg(), then the rest is moved to the front. The   *)
(* code moves it with memcpy() over its own source, which the libraries it is    *)
(* built with carry out as memmove().                                            *)
Handle ==
  /\ pc = "loop"
  /\ HasMsg
  /\ handled' = Append(handled, SubSeq(buf, 1, DataLength))
  /\ buf' = SubSeq(buf, DataLength + 1, Len(buf))
  /\ UNCHANGED <<lengths, wire, pc>>

EndLoop ==
  /\ pc = "loop"
  /\ ~HasMsg
  /\ pc' = "idle"
  /\ UNCHANGED <<lengths, wire, buf, handled>>

Next == Send \/ Recv \/ Handle \/ EndLoop

SafeSpec == Init /\ [][Next]_vars

(* select() reports a socket with data, so the thread that polls it reads it, and *)
(* its loop goes on. The peer need not send.                                     *)
Spec == SafeSpec /\ WF_vars(Recv) /\ WF_vars(Handle \/ EndLoop)

-------------------------------------------------------------------------------
(* Whenever the program is about to call recv() there is room in the buffer. With *)
(* none, Read_for_Socket() would return 0 for ever, and the recv() of the other  *)
(* two loops, given no room, would return 0 and have the connection dropped.     *)
RoomToRead == pc = "idle" => Len(buf) < Size

(* The messages are handled in order, whole, each once, and all of them. *)
Messages == {Bytes(m, n) : m \in 1..MaxMessages, n \in Length}
Pending == [i \in 1..Len(lengths) - Len(handled) |-> Whole(Len(handled) + i)]

Channel == INSTANCE MessageChannel WITH Message <- Messages, queue <- Pending

ChannelSpec == Channel!Spec
=================================================================================
