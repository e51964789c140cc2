---------------------------- MODULE LegacyConnection ----------------------------
(* One connection of the first generation from request to reply: Server.h and     *)
(* Server.cpp. The worker reassembles messages (Reassembly) and queues a send     *)
(* task for each that it can answer; the task thread gathers the replies in a     *)
(* buffer that it sends when it is full.                                         *)
(*                                                                               *)
(* A task keeps the client alive (shared_ptr) and nothing closes the socket, so   *)
(* tasks go on when the worker has dropped the client. The counters of messages   *)
(* and replies, which only a report on the console reads, are left out.          *)
EXTENDS Reassembly

CONSTANTS SendSize,     \* SEND_BUFF_SIZE
          ReplyLength,  \* dataLength of the replies
          PartialSend   \* whether send() may take less than it is given

ASSUME SendSizeAssumption == SendSize \in Nat \ {0}
ASSUME ReplyLengthAssumption == ReplyLength \subseteq 1..SendSize
ASSUME PartialSendAssumption == PartialSend \in BOOLEAN

VARIABLES peer,      \* the other end: "open", or "closed" after its last message
          here,      \* whether the worker still has the client
          queue,     \* _tasks of the task server: message answered, length of the reply
          given,     \* history: the bytes given to sendData()
          sendBuf,   \* the first _lastSendPos bytes of _szSendBuf
          sent,      \* history: the bytes that send() took
          cut,       \* history: whether the end of the buffer cut a reply
          short      \* history: whether send() took less than it was given

replyVars == <<queue, given, sendBuf, sent, cut, short>>
connVars == <<peer, here, replyVars>>
connAll == <<vars, connVars>>

ConnInit ==
  /\ Init
  /\ peer = "open" /\ here = TRUE
  /\ queue = <<>> /\ given = <<>>
  /\ sendBuf = <<>> /\ sent = <<>>
  /\ cut = FALSE /\ short = FALSE

-------------------------------------------------------------------------------
(* Faulty variants used as mutants. *)

SendGatheredOnly(b) ==
  /\ Len(sendBuf) + Len(b) >= SendSize
  /\ sent' = sent \o sendBuf
  /\ sendBuf' = <<>>
  /\ cut' = (cut \/ Len(sendBuf) + Len(b) > SendSize)
  /\ UNCHANGED short

SendKeepsBuffer(b) ==
  /\ Len(sendBuf) + Len(b) >= SendSize
  /\ sent' = sent \o sendBuf \o SubSeq(b, 1, SendSize - Len(sendBuf))
  /\ cut' = (cut \/ Len(sendBuf) + Len(b) > SendSize)
  /\ UNCHANGED <<sendBuf, short>>

-------------------------------------------------------------------------------
(* The peer sends, and in the end closes its side. *)
PeerSend ==
  /\ peer = "open"
  /\ Send
  /\ UNCHANGED connVars

PeerClose ==
  /\ peer = "open"
  /\ peer' = "closed"
  /\ UNCHANGED <<vars, here, replyVars>>

(* recvData(): bytes, or the end of the stream, on which the worker drops the    *)
(* client, whatever is left in its buffer.                                       *)
RecvSome ==
  /\ here
  /\ Recv
  /\ UNCHANGED connVars

RecvEnd ==
  /\ here /\ pc = "idle"
  /\ peer = "closed" /\ wire = <<>>
  /\ here' = FALSE
  /\ UNCHANGED <<vars, peer, replyVars>>

(* onNetMsg(): a login or a logout is answered by a task. *)
Answer ==
  /\ Handle
  /\ \E n \in ReplyLength : queue' = Append(queue, <<Len(handled'), n>>)
  /\ UNCHANGED <<peer, here, given, sendBuf, sent, cut, short>>

UnknownCommand ==
  /\ Handle
  /\ UNCHANGED <<peer, here, replyVars>>

LoopEnds == EndLoop /\ UNCHANGED connVars

-------------------------------------------------------------------------------
(* sendData(): a reply that does not reach the end of the buffer is gathered.    *)
Gather(b) ==
  /\ Len(sendBuf) + Len(b) < SendSize
  /\ sendBuf' = sendBuf \o b
  /\ UNCHANGED <<sent, cut, short>>

(* One that does fills the buffer up, which is sent. "nSendLen -= nSendLen" makes *)
(* the remaining length zero, so the second round of the loop copies nothing and *)
(* the rest of the reply is gone; and so is what send() did not take.            *)
SendFull(b) ==
  /\ Len(sendBuf) + Len(b) >= SendSize
  /\ LET full == sendBuf \o SubSeq(b, 1, SendSize - Len(sendBuf))
     IN \E k \in IF PartialSend THEN 0..SendSize ELSE {SendSize} :
          /\ sent' = sent \o SubSeq(full, 1, k)
          /\ short' = (short \/ k < SendSize)
  /\ sendBuf' = <<>>
  /\ cut' = (cut \/ Len(sendBuf) + Len(b) > SendSize)

(* The task thread runs the oldest task. *)
DoTask ==
  /\ queue # <<>>
  /\ LET b == Bytes(queue[1][1], queue[1][2])
     IN /\ given' = given \o b
        /\ Gather(b) \/ SendFull(b)
  /\ queue' = Tail(queue)
  /\ UNCHANGED <<vars, peer, here>>

Worker == RecvSome \/ RecvEnd \/ Answer \/ UnknownCommand \/ LoopEnds

ConnNext == \/ PeerSend \/ PeerClose
            \/ Worker \/ DoTask

(* The worker and the task thread are scheduled, select() reports a socket that   *)
(* can be read, and send() returns. The peer need not send.                      *)
ConnSpec == /\ ConnInit /\ [][ConnNext]_connAll
            /\ WF_connAll(Worker) /\ WF_connAll(DoTask)

-------------------------------------------------------------------------------
(* What is on its way to the peer or gathered for it. *)
Outgoing == sent \o sendBuf

(* Reply bytes leave in the order of the requests they answer, and none twice,   *)
(* whatever the end of the buffer cuts and send() leaves.                        *)
RepliesInOrder ==
  \A i, j \in 1..Len(Outgoing) :
    i < j => \/ Outgoing[i][1] < Outgoing[j][1]
             \/ Outgoing[i][1] = Outgoing[j][1] /\ Outgoing[i][2] < Outgoing[j][2]

(* No byte of a reply is lost unless the end of the buffer has cut one, or send() *)
(* has taken less than it was given: those are the only two causes.              *)
LossNeedsCut == ~cut /\ ~short => Outgoing = given

=================================================================================
