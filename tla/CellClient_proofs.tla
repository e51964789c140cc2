---------------------------- MODULE CellClient_proofs ----------------------------
(* Proofs about CellClient, for every size of the buffer, every set of lengths,   *)
(* every limit of the heartbeat. Three invariants: Buffer, where the two threads  *)
(* may read and write in the send buffer; InOrder, which rests on it, what the    *)
(* bytes there are; and Timer, of the heartbeat, which needs neither.             *)
EXTENDS CellClient, SequenceTheorems, TLAPS

BufferTypeOK ==
  /\ nLast \in Nat /\ accepted \in Nat /\ len \in Nat /\ seen \in Nat /\ taken \in Nat
  /\ buf \in [1..Size -> Nat]
  /\ wire \in Seq(Nat)
  /\ pushPc \in {"idle", "copy", "load", "store"}
  /\ writePc \in {"idle", "reset"}

(* How far the buffer is known to be written: while push() has copied and not yet *)
(* counted, beyond what _nLast or its copy of it says.                           *)
Filled == CASE pushPc = "load" -> nLast + len
            [] pushPc = "store" -> seen + len
            [] OTHER -> 0

Room ==
  /\ nLast <= Size
  /\ pushPc \in {"copy", "load"} => nLast + len <= Size
  /\ pushPc = "store" => seen + len <= Size

Written ==
  /\ \A i \in 1..nLast : buf[i] # Garbage
  /\ \A i \in 1..Filled : buf[i] # Garbage
  /\ \A i \in 1..Len(wire) : wire[i] # Garbage

Buffer == BufferTypeOK /\ Room /\ Written

LEMMA InitBuffer == ClientInit => Buffer
BY SizeAssumption DEF ClientInit, Init, Buffer, BufferTypeOK, Room, Written, Filled, Garbage

(* What send() takes of the buffer. *)
LEMMA Prefix ==
  ASSUME NEW S, NEW k \in Nat, NEW f \in [1..k -> S], NEW n \in 0..k
  PROVE  /\ SubSeq(f, 1, n) \in Seq(S)
         /\ Len(SubSeq(f, 1, n)) = n
         /\ \A i \in 1..n : SubSeq(f, 1, n)[i] = f[i]
<1>1. f \in Seq(S) /\ Len(f) = k
  BY SeqDef
<1> QED
  BY <1>1

LEMMA BufferPrefix ==
  Buffer => \A n \in 0..nLast : /\ SubSeq(buf, 1, n) \in Seq(Nat)
                                /\ Len(SubSeq(buf, 1, n)) = n
                                /\ \A i \in 1..n : SubSeq(buf, 1, n)[i] = buf[i]
<1> SUFFICES ASSUME Buffer, NEW n \in 0..nLast
             PROVE  /\ SubSeq(buf, 1, n) \in Seq(Nat)
                    /\ Len(SubSeq(buf, 1, n)) = n
                    /\ \A i \in 1..n : SubSeq(buf, 1, n)[i] = buf[i]
  OBVIOUS
<1>1. buf \in [1..Size -> Nat] /\ n \in 0..Size
  BY SizeAssumption DEF Buffer, BufferTypeOK, Room
<1> QED
  BY <1>1, SizeAssumption, Prefix

(* Every step of the two threads keeps the invariant of the buffer. *)
LEMMA NextBuffer == Buffer /\ [Next]_vars => Buffer'
<1> SUFFICES ASSUME Buffer, [Next]_vars PROVE Buffer'
  OBVIOUS
<1> USE SizeAssumption, LengthAssumption DEF Buffer, BufferTypeOK, Room, Written, Filled, Garbage
<1>1. CASE UNCHANGED vars
  BY <1>1 DEF vars, pushVars, writeVars
<1>2. CASE PushTest
  BY <1>2 DEF PushTest, writeVars
<1>3. CASE PushRefuse
  BY <1>3 DEF PushRefuse, vars, pushVars, writeVars
<1>4. CASE PushCopy
  BY <1>4 DEF PushCopy, writeVars
<1>5. CASE PushLoad
  BY <1>5 DEF PushLoad, writeVars
<1>6. CASE PushStore
  BY <1>6 DEF PushStore, writeVars
<1>7. CASE WriteSend
  <2>1. taken' \in 0..nLast /\ taken' \in 0..Size
    BY <1>7 DEF WriteSend
  <2> DEFINE s == SubSeq(buf, 1, taken')
  <2>2. s \in Seq(Nat) /\ Len(s) = taken' /\ \A i \in 1..taken' : s[i] = buf[i]
    BY <2>1, Prefix
  <2>3. wire' = wire \o s
    BY <1>7 DEF WriteSend
  <2> HIDE DEF s
  <2>4. wire' \in Seq(Nat) /\ \A i \in 1..Len(wire') : wire'[i] # Garbage
    BY <2>1, <2>2, <2>3, ConcatProperties
  <2>5. UNCHANGED <<nLast, buf, accepted, pushPc, len, seen>> /\ writePc' = "reset"
    BY <1>7 DEF WriteSend, pushVars
  <2>6. BufferTypeOK' /\ Room'
    BY <2>1, <2>4, <2>5
  <2>7. Written'
    BY <2>4, <2>5
  <2> QED
    BY <2>6, <2>7
<1>8. CASE WriteReset
  BY <1>8 DEF WriteReset, pushVars
<1> QED
  BY <1>1, <1>2, <1>3, <1>4, <1>5, <1>6, <1>7, <1>8 DEF Next

(* A step of the client is a step of the buffer's two threads or leaves it alone. *)
LEMMA ClientStep == [ClientNext]_clientAll => [Next]_vars
BY DEF ClientNext, clientAll, vars, Worker, Accept, Join, NoJoin, Idle, Select, Read, ReadFails,
       Send, Sent, PassBy, CheckTime, Push, PeerEnds, Tick, Next

(* No copy of push() passes the end of the send buffer and _nLast stays in it,    *)
(* with no lock between push() and Write_to_Socket(), for every size of it.       *)
THEOREM BufferNotOverrun == ClientSpec => []NoOverrun
<1>1. Buffer => NoOverrun
  BY DEF Buffer, Room, NoOverrun
<1> QED
  BY InitBuffer, NextBuffer, ClientStep, <1>1, PTL DEF ClientSpec

(* Neither thread ever sends memory of the buffer that no push() has written.     *)
THEOREM OnlyWrittenSent == ClientSpec => []NoGarbage
<1>1. Buffer => NoGarbage
  BY DEF Buffer, Written, NoGarbage
<1> QED
  BY InitBuffer, NextBuffer, ClientStep, <1>1, PTL DEF ClientSpec
-------------------------------------------------------------------------------
(* Order: until a reset of _nLast forgets a byte, the wire carries 1, 2, 3 and so *)
(* on, the buffer goes on from there, and what push() has copied follows.        *)
SentOf == IF writePc = "reset" THEN taken ELSE 0

Order ==
  /\ pushPc # "idle" => len > 0
  /\ pushPc = "store" => seen = nLast
  /\ SentOf <= nLast
  /\ Len(wire) + nLast = accepted + SentOf
  /\ \A i \in 1..Len(wire) : wire[i] = i
  /\ \A i \in 1..nLast : buf[i] = accepted + i - nLast
  /\ pushPc \in {"load", "store"} =>
       \A i \in nLast + 1..nLast + len : buf[i] = accepted + i - nLast

InOrder == /\ disturbed \in BOOLEAN
           /\ ~disturbed => Order

LEMMA InitInOrder == ClientInit => InOrder
<1> SUFFICES ASSUME ClientInit PROVE InOrder
  OBVIOUS
<1>1. disturbed \in BOOLEAN
  BY Zenon DEF ClientInit, Init
<1>2. Order
  BY DEF ClientInit, Init, Order, SentOf
<1> QED
  BY <1>1, <1>2 DEF InOrder

LEMMA NextInOrder == Buffer /\ InOrder /\ [Next]_vars => InOrder'
<1> SUFFICES ASSUME Buffer, InOrder, [Next]_vars PROVE InOrder'
  OBVIOUS
<1>0. BufferTypeOK /\ Room /\ Len(wire) \in Nat
  BY LenProperties DEF Buffer, BufferTypeOK
<1> USE <1>0, SizeAssumption, LengthAssumption DEF BufferTypeOK, Room, InOrder, Order, SentOf
<1>1. CASE UNCHANGED vars
  BY <1>1 DEF vars, pushVars, writeVars
<1>2. CASE PushTest
  BY <1>2 DEF PushTest, writeVars
<1>3. CASE PushRefuse
  BY <1>3 DEF PushRefuse, vars, pushVars, writeVars
<1>4. CASE PushCopy
  BY <1>4 DEF PushCopy, writeVars
<1>5. CASE PushLoad
  BY <1>5 DEF PushLoad, writeVars
<1>6. CASE PushStore
  <2>1. disturbed' = disturbed
    BY <1>6 DEF PushStore, writeVars
  <2> SUFFICES ASSUME ~disturbed PROVE Order'
    BY <2>1
  <2>2. /\ nLast' = nLast + len /\ nLast' \in Nat
        /\ accepted' = accepted + len /\ accepted' \in Nat
        /\ pushPc' = "idle"
        /\ UNCHANGED <<buf, wire, writePc, taken>>
    BY <1>6 DEF PushStore, writeVars
  <2>3. \A i \in 1..nLast + len : buf[i] = accepted + i - nLast
    BY <1>6 DEF PushStore
  <2>4. \A i \in 1..nLast' : buf[i] = accepted' + i - nLast'
    BY <2>2, <2>3
  <2>5. Len(wire') + nLast' = accepted' + SentOf' /\ SentOf' <= nLast'
    BY <2>2
  <2> QED
    BY <2>2, <2>4, <2>5
<1>7. CASE WriteSend
  <2>0. disturbed' = disturbed
    BY <1>7 DEF WriteSend
  <2> SUFFICES ASSUME ~disturbed PROVE Order'
    BY <2>0
  <2>1. taken' \in 0..nLast /\ taken' \in 0..Size
    BY <1>7 DEF WriteSend
  <2> DEFINE s == SubSeq(buf, 1, taken')
  <2>2. s \in Seq(Nat) /\ Len(s) = taken' /\ \A i \in 1..taken' : s[i] = buf[i]
    BY ONLY Buffer, <2>1, BufferPrefix, Zenon DEF s
  <2>3. wire' = wire \o s
    BY <1>7 DEF WriteSend
  <2> HIDE DEF s
  <2>4. Len(wire) + nLast = accepted
    BY <1>7 DEF WriteSend
  <2>5. Len(wire') = Len(wire) + taken' /\ \A i \in 1..Len(wire') : wire'[i] = i
    <3>1. ASSUME NEW i \in 1..taken' PROVE s[i] = Len(wire) + i
      <4>1. i \in 1..nLast /\ s[i] = buf[i]
        BY <2>1, <2>2
      <4>2. i \in Nat /\ buf[i] = accepted + i - nLast
        BY <4>1
      <4> QED
        BY ONLY BufferTypeOK, Len(wire) \in Nat, <2>4, <4>1, <4>2 DEF BufferTypeOK
    <3>2. Len(wire') = Len(wire) + taken'
      BY <2>2, <2>3, ConcatProperties
    <3>3. ASSUME NEW i \in 1..Len(wire') PROVE wire'[i] = i
      <4>1. CASE i <= Len(wire)
        BY <2>2, <2>3, <4>1
      <4>2. CASE i > Len(wire)
        <5>1. i - Len(wire) \in 1..taken' /\ wire'[i] = s[i - Len(wire)]
          BY <2>2, <2>3, <3>2, <4>2
        <5> QED
          BY <3>1, <5>1
      <4> QED
        BY <4>1, <4>2
    <3> QED
      BY <3>2, <3>3
  <2>6. UNCHANGED <<nLast, buf, accepted, pushPc, len, seen>> /\ writePc' = "reset"
    BY <1>7 DEF WriteSend, pushVars
  <2> QED
    BY <2>1, <2>4, <2>5, <2>6
<1>8. CASE WriteReset
  <2>1. disturbed' \in BOOLEAN
    BY <1>8, Zenon DEF WriteReset
  <2>2. ~disturbed' => ~disturbed /\ nLast = taken /\ pushPc \notin {"load", "store"}
    BY <1>8, Zenon DEF WriteReset
  <2>3. /\ nLast' = 0 /\ writePc = "reset" /\ writePc' = "idle"
        /\ UNCHANGED <<accepted, pushPc, len, seen, buf, wire, taken>>
    BY <1>8 DEF WriteReset, pushVars
  <2>4. ~disturbed' => Order'
    BY <2>2, <2>3
  <2> QED
    BY <2>1, <2>4
<1> QED
  BY <1>1, <1>2, <1>3, <1>4, <1>5, <1>6, <1>7, <1>8 DEF Next

(* Replies are lost or repeated only by the two overlaps of the two threads and by *)
(* a short send(), for every size of the buffer and every number of replies.      *)
THEOREM LossHasACause == ClientSpec => []LossNeedsOverlap
<1>1. Buffer /\ InOrder => LossNeedsOverlap
  <2> SUFFICES ASSUME Buffer, Order, writePc = "idle" \/ nLast = taken
               PROVE  Accounted = [i \in 1..accepted |-> i]
    BY DEF LossNeedsOverlap, InOrder
  <2>0. BufferTypeOK /\ Room /\ Len(wire) \in Nat
    BY LenProperties DEF Buffer, BufferTypeOK
  <2> USE <2>0, SizeAssumption DEF BufferTypeOK, Room, Order, SentOf
  <2> DEFINE ids == [i \in 1..accepted |-> i]
  <2>1. ids \in Seq(Nat) /\ Len(ids) = accepted /\ \A i \in 1..accepted : ids[i] = i
    BY SeqDef
  <2>2. CASE writePc = "reset"
    <3>1. Accounted = wire
      BY <2>2, ConcatProperties, EmptySeq DEF Accounted
    <3>2. Len(wire) = accepted /\ \A i \in 1..accepted : wire[i] = i
      BY <2>2
    <3> HIDE DEF ids
    <3>3. wire = ids
      BY <2>1, <3>2, SeqEqual
    <3> QED
      BY <3>1, <3>3 DEF ids
  <2>3. CASE writePc = "idle"
    <3> DEFINE s == SubSeq(buf, 1, nLast)
    <3>1. s \in Seq(Nat) /\ Len(s) = nLast /\ \A i \in 1..nLast : s[i] = buf[i]
      BY Prefix
    <3>2. Accounted = wire \o s
      BY <2>3 DEF Accounted
    <3> HIDE DEF s
    <3> Len(wire) + nLast = accepted
      BY <2>3
    <3>3. Accounted \in Seq(Nat) /\ Len(Accounted) = accepted
      <4>1. wire \in Seq(Nat) /\ s \in Seq(Nat)
        BY <3>1
      <4>2. wire \o s \in Seq(Nat)
        BY ONLY <4>1
      <4>3. Len(wire \o s) = Len(wire) + Len(s)
        BY ONLY <4>1, ConcatProperties
      <4> QED
        BY <3>1, <3>2, <4>2, <4>3
    <3>4. \A i \in 1..accepted : Accounted[i] = i
      <4>1. ASSUME NEW i \in 1..nLast PROVE s[i] = Len(wire) + i
        <5>1. s[i] = buf[i] /\ buf[i] = accepted + i - nLast
          BY <3>1
        <5> QED
          BY ONLY BufferTypeOK, Len(wire) \in Nat, Len(wire) + nLast = accepted,
                  i \in 1..nLast, <5>1 DEF BufferTypeOK
      <4> QED
        BY <2>3, <3>1, <3>2, <4>1
    <3> HIDE DEF ids
    <3> QED
      BY <2>1, <3>3, <3>4, SeqEqual DEF ids
  <2> QED
    BY <2>2, <2>3
<1> QED
  BY InitBuffer, NextBuffer, InitInOrder, NextInOrder, ClientStep, <1>1, PTL DEF ClientSpec
-------------------------------------------------------------------------------
(* The heartbeat. All paths through the loop of the worker lead by a reading of   *)
(* the clock, so _oldTime is the last reading; what checkHeart() has added up and *)
(* will add is the time since the last reading before the join. A leave inside    *)
(* writeData() cannot be taken for one of CheckTime().                           *)
Sum == dtHeart + elapsed

Timer ==
  /\ dtHeart \in Nat
  /\ elapsed \in 0..HeartLimit /\ since \in 0..HeartLimit
  /\ unread = elapsed
  /\ life \in {"outside", "buffered"} => dtHeart = 0
  /\ Joined => IF Sum < HeartLimit THEN since = Sum ELSE since = HeartLimit
  /\ writePc = "reset" => stage \in {"write", "exc"}

LEMMA InitTimer == ClientInit => Timer
BY HeartLimitAssumption DEF ClientInit, Init, Timer, Joined, Sum

LEMMA NextTimer == Timer /\ [ClientNext]_clientAll => Timer'
<1> SUFFICES ASSUME Timer, [ClientNext]_clientAll PROVE Timer'
  OBVIOUS
<1> USE HeartLimitAssumption DEF Timer, Joined, Sum, Present, Stage, ReadClock, Leave, timeVars, vars, pushVars, writeVars
<1>1. CASE UNCHANGED clientAll
  BY <1>1 DEF clientAll, clientVars
<1>2. CASE Accept
  BY <1>2 DEF Accept
<1>3. CASE Join
  BY <1>3 DEF Join
<1>4. CASE NoJoin
  BY <1>4 DEF NoJoin
<1>5. CASE Idle
  BY <1>5 DEF Idle
<1>6. CASE Select
  BY <1>6 DEF Select
<1>7. CASE Read \/ ReadFails
  BY <1>7 DEF Read, ReadFails
<1>8. CASE Send
  BY <1>8 DEF Send, WriteSend, clientVars
<1>9. CASE Sent
  BY <1>9 DEF Sent, WriteReset
<1>10. CASE PassBy
  BY <1>10 DEF PassBy
<1>11. CASE CheckTime
  BY <1>11 DEF CheckTime
<1>12. CASE Push
  BY <1>12 DEF Push, PushTest, PushRefuse, PushCopy, PushLoad, PushStore, clientVars
<1>13. CASE PeerEnds
  BY <1>13 DEF PeerEnds
<1>14. CASE Tick
  BY <1>14 DEF Tick, Capped
<1> QED
  BY <1>1, <1>2, <1>3, <1>4, <1>5, <1>6, <1>7, <1>8, <1>9, <1>10, <1>11, <1>12, <1>13, <1>14
     DEF ClientNext, Worker

(* checkHeart() cuts a client in the first check that finds the limit passed and  *)
(* in none before, for every limit and every order of joins, checks and ticks.    *)
THEOREM HeartbeatIsExact == ClientSpec => HeartbeatExact
<1> DEFINE Cut == stage = "check" /\ Joined /\ (stage' = "top" \/ life' = "gone")
                    => (life' = "gone" <=> since >= HeartLimit)
<1>1. Timer /\ [ClientNext]_clientAll => [Cut]_clientAll
  <2> SUFFICES ASSUME Timer, ClientNext, stage = "check", Joined,
                      stage' = "top" \/ life' = "gone"
               PROVE life' = "gone" <=> since >= HeartLimit
    BY DEF Cut
  <2>1. CheckTime
    BY DEF ClientNext, Worker, Accept, Join, NoJoin, Idle, Select, Read, ReadFails, Send, Sent,
           WriteReset, PassBy, Push, PeerEnds, Tick, Joined, Stage, Leave, Timer, clientVars
  <2> QED
    BY <2>1, HeartLimitAssumption DEF CheckTime, Leave, Timer, Joined, Sum, Present
<1>2. QED
  BY InitTimer, NextTimer, <1>1, PTL DEF ClientSpec, HeartbeatExact
=================================================================================
