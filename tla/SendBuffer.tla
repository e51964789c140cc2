------------------------------- MODULE SendBuffer -------------------------------
(* Server/Cell_Buffer.h as the send buffer of a Cell_Client: the task thread puts *)
(* replies into it (sendData(), push()), the worker of Cell_Server.h empties it   *)
(* into the socket (sendDataReal(), Write_to_Socket()). Both go by _nLast and no  *)
(* lock keeps them apart, so each method is split where the other can come in     *)
(* between: push() reads _nLast for its test, for the address of its copy and for *)
(* "_nLast += nLen", which then stores; Write_to_Socket() reads it and stores 0.  *)
(*                                                                               *)
(* Bytes are numbered in the order in which push() accepts them, so that the peer *)
(* receives what it should when the wire carries 1, 2, 3 and so on.               *)
EXTENDS Naturals, Sequences

CONSTANTS Size,         \* _nSize
          Length,       \* the values of dataLength
          PartialSend,  \* whether send() may take less than it is given
          MaxBytes      \* bound of the model: number of bytes accepted

ASSUME SizeAssumption == Size \in Nat
ASSUME LengthAssumption == Length \subseteq Nat \ {0}
ASSUME PartialSendAssumption == PartialSend \in BOOLEAN
ASSUME MaxBytesAssumption == MaxBytes \in Nat

Garbage == 0            \* what the new buffer holds

VARIABLES nLast,      \* _nLast
          buf,        \* _pBuff
          wire,       \* history: the bytes that send() took
          accepted,   \* history: number of bytes that push() accepted
          pushPc,     \* the task thread: "idle", or the next thing push() does
          len,        \* nLen of that push()
          seen,       \* what "_nLast += nLen" has read
          writePc,    \* the worker: "idle", or "reset" after send()
          taken,      \* what that send() returned
          disturbed   \* history: whether the reset of _nLast ever forgot a byte

pushVars == <<accepted, pushPc, len, seen>>
writeVars == <<wire, writePc, taken, disturbed>>
vars == <<nLast, buf, pushVars, writeVars>>

Init == /\ nLast = 0
        /\ buf = [i \in 1..Size |-> Garbage]
        /\ wire = <<>>
        /\ accepted = 0
        /\ pushPc = "idle" /\ len = 0 /\ seen = 0
        /\ writePc = "idle" /\ taken = 0
        /\ disturbed = FALSE

-------------------------------------------------------------------------------
(* Faulty variants used as mutants. *)

PushTestOffByOne ==
  /\ pushPc = "idle"
  /\ \E n \in Length : /\ accepted + n <= MaxBytes
                       /\ nLast + n <= Size + 1
                       /\ len' = n
  /\ pushPc' = "copy"
  /\ UNCHANGED <<nLast, buf, accepted, seen, writeVars>>

SendWholeBuffer ==
  /\ writePc = "idle"
  /\ nLast > 0
  /\ taken' = Size
  /\ wire' = wire \o buf
  /\ writePc' = "reset"
  /\ UNCHANGED <<nLast, buf, pushVars, disturbed>>

ResetNothing ==
  /\ writePc = "reset"
  /\ disturbed' = (disturbed \/ nLast # taken \/ pushPc \in {"load", "store"})
  /\ writePc' = "idle"
  /\ UNCHANGED <<nLast, buf, pushVars, wire, taken>>

-------------------------------------------------------------------------------
(* push(), called for the next reply: it fits, and will be copied ... *)
PushTest ==
  /\ pushPc = "idle"
  /\ \E n \in Length : /\ accepted + n <= MaxBytes
                       /\ nLast + n <= Size
                       /\ len' = n
  /\ pushPc' = "copy"
  /\ UNCHANGED <<nLast, buf, accepted, seen, writeVars>>

(* ... or not, and is thrown away; the caller learns it and does not care. *)
PushRefuse ==
  /\ pushPc = "idle"
  /\ \E n \in Length : nLast + n > Size
  /\ UNCHANGED vars

(* memcpy() *)
PushCopy ==
  /\ pushPc = "copy"
  /\ buf' = [i \in 1..Size |-> IF i \in nLast + 1..nLast + len
                               THEN accepted + i - nLast ELSE buf[i]]
  /\ pushPc' = "load"
  /\ UNCHANGED <<nLast, accepted, len, seen, writeVars>>

(* _nLast += nLen; and return true. *)
PushLoad ==
  /\ pushPc = "load"
  /\ seen' = nLast
  /\ pushPc' = "store"
  /\ UNCHANGED <<nLast, buf, accepted, len, writeVars>>

PushStore ==
  /\ pushPc = "store"
  /\ nLast' = seen + len
  /\ accepted' = accepted + len
  /\ pushPc' = "idle"
  /\ UNCHANGED <<buf, len, seen, writeVars>>

(* Write_to_Socket() of a buffer that is not empty. send() takes all, or less    *)
(* where it may, or nothing if it fails, in which case the client goes.          *)
WriteSend ==
  /\ writePc = "idle"
  /\ nLast > 0
  /\ taken' \in IF PartialSend THEN 0..nLast ELSE {nLast}
  /\ wire' = wire \o SubSeq(buf, 1, taken')
  /\ writePc' = "reset"
  /\ UNCHANGED <<nLast, buf, pushVars, disturbed>>

(* _nLast = 0; whatever send() returned and push() did meanwhile. *)
WriteReset ==
  /\ writePc = "reset"
  /\ disturbed' = (disturbed \/ nLast # taken \/ pushPc \in {"load", "store"})
  /\ nLast' = 0
  /\ writePc' = "idle"
  /\ UNCHANGED <<buf, pushVars, wire, taken>>

Next == \/ PushTest \/ PushRefuse \/ PushCopy \/ PushLoad \/ PushStore
        \/ WriteSend \/ WriteReset

Spec == Init /\ [][Next]_vars

-------------------------------------------------------------------------------
(* Although the test, the address of the copy and the new _nLast come from three *)
(* readings of _nLast, no copy passes the end of the buffer and _nLast stays     *)
(* within it: the worker can only make _nLast smaller.                           *)
NoOverrun ==
  /\ nLast <= Size
  /\ pushPc = "copy" => nLast + len <= Size
  /\ pushPc = "store" => seen + len <= Size

(* Every byte that can be sent was put there by some push(): overlapping calls   *)
(* may repeat or forget replies, they never send what the new buffer held.       *)
NoGarbage == /\ \A i \in 1..Len(wire) : wire[i] # Garbage
             /\ nLast <= Size => \A i \in 1..nLast : buf[i] # Garbage

(* What was accepted, in order, is on the wire and in the buffer, once, as long  *)
(* as no reset came between a copy and the count of it, or between a send() and  *)
(* the bytes that arrived or stayed behind after it. So those two overlaps and a *)
(* short send() are the only causes of loss and repetition.                      *)
Accounted == wire \o (IF writePc = "idle" THEN SubSeq(buf, 1, nLast) ELSE <<>>)

LossNeedsOverlap ==
  ~disturbed /\ (writePc = "idle" \/ nLast = taken)
    => Accounted = [i \in 1..accepted |-> i]
=================================================================================
