------------------------------- MODULE CellClient -------------------------------
(* One client of a Cell_Server over its whole life: Cell_Client.h with its timer  *)
(* and its send buffer, in the rounds that Cell_Server.h makes with it: onRun(),  *)
(* readData(), writeData() twice, CheckTime(). Other clients come and go freely.  *)
(* The tear-down by Close() is the subject of CellServer.                         *)
(*                                                                               *)
(* Time is a steady clock. Only differences matter, so the model keeps the time   *)
(* since an event, and counts no further than HeartLimit.                         *)
EXTENDS SendBuffer

CONSTANT HeartLimit   \* CLIENT_HREAT_DEAD_TIME

ASSUME HeartLimitAssumption == HeartLimit \in Nat \ {0}

VARIABLES life,     \* "outside", "buffered" in _clientsBuff, "joined" in _clients, "gone"
          stage,    \* the worker: "top", "poll", "read", "write", "exc" or "check"
          peer,     \* the other end: "open", "closed" (recv() returns 0) or "reset"
          dtHeart,  \* _dtHeart
          elapsed,  \* the time since _oldTime
          unread,   \* history: the time since the worker last read the clock
          since     \* history: the time since its last reading before the join

timeVars == <<elapsed, unread, since>>
bufferVars == <<nLast, buf, pushVars, writeVars>>
clientVars == <<life, stage, peer, dtHeart, timeVars>>
clientAll == <<vars, clientVars>>

ClientInit ==
  /\ Init
  /\ life = "outside"
  /\ stage = "top"
  /\ peer = "open"
  /\ dtHeart = 0
  /\ elapsed = 0 /\ unread = 0 /\ since = 0

Joined == life = "joined"
Present == life # "gone"
Stage(from, to) == Present /\ stage = from /\ stage' = to

(* Cell_Time::getNowMilliSec() into _oldTime. *)
ReadClock == elapsed' = 0 /\ unread' = 0

-------------------------------------------------------------------------------
(* Faulty variants used as mutants. *)

IdleKeepsOldTime ==
  /\ life \in {"outside", "buffered"}
  /\ Stage("poll", "top")
  /\ unread' = 0
  /\ UNCHANGED <<vars, life, peer, dtHeart, elapsed, since>>

ReadResetsHeart ==
  /\ Stage("read", "write")
  /\ Joined => peer # "reset"
  /\ dtHeart' = 0
  /\ UNCHANGED <<vars, life, peer, timeVars>>

-------------------------------------------------------------------------------
(* The main thread makes the client and adds it. *)
Accept ==
  /\ life = "outside"
  /\ life' = "buffered"
  /\ dtHeart' = 0
  /\ UNCHANGED <<vars, stage, peer, timeVars>>

(* The worker at the head of its loop takes over what is in _clientsBuff. *)
Join ==
  /\ life = "buffered"
  /\ Stage("top", "poll")
  /\ life' = "joined"
  /\ since' = unread
  /\ UNCHANGED <<vars, peer, dtHeart, elapsed, unread>>

NoJoin ==
  /\ life # "buffered"
  /\ Stage("top", "poll")
  /\ UNCHANGED <<vars, life, peer, dtHeart, timeVars>>

(* Without clients it sleeps, and time begins anew. *)
Idle ==
  /\ ~Joined
  /\ Stage("poll", "top")
  /\ ReadClock
  /\ UNCHANGED <<vars, life, peer, dtHeart, since>>

Select ==
  /\ Stage("poll", "read")
  /\ UNCHANGED <<vars, life, peer, dtHeart, timeVars>>

(* recvData(). Nothing received, be it that the peer has closed, is no error, and *)
(* what is received does not reset the heartbeat.                                *)
Read ==
  /\ Stage("read", "write")
  /\ Joined => peer # "reset"
  /\ UNCHANGED <<vars, life, peer, dtHeart, timeVars>>

(* OnClientLeave() and the erase of its entry. *)
Leave == life' = "gone" /\ UNCHANGED <<stage, peer>>

ReadFails ==
  /\ stage = "read" /\ Joined /\ peer = "reset"
  /\ Leave
  /\ UNCHANGED <<vars, dtHeart, timeVars>>

(* sendDataReal() of a socket that select() has reported: for writing, and again *)
(* in the pass for exceptions.                                                   *)
Send ==
  /\ stage \in {"write", "exc"} /\ Joined
  /\ WriteSend
  /\ UNCHANGED clientVars

Sent ==
  /\ Joined /\ WriteReset
  /\ \/ taken > 0 /\ (Stage("write", "exc") \/ Stage("exc", "check"))
        /\ UNCHANGED <<life, peer>>
     \/ taken = 0 /\ Leave
  /\ UNCHANGED <<dtHeart, timeVars>>

PassBy ==
  /\ writePc = "idle"
  /\ Stage("write", "exc") \/ Stage("exc", "check")
  /\ UNCHANGED <<vars, life, peer, dtHeart, timeVars>>

(* CheckTime() with checkHeart(); its call of checkSend() is commented out, so    *)
(* that _dtSend stays 0.                                                          *)
CheckTime ==
  /\ Present /\ stage = "check"
  /\ dtHeart' = IF Joined THEN dtHeart + elapsed ELSE dtHeart
  /\ \/ dtHeart' >= HeartLimit /\ Leave
     \/ dtHeart' < HeartLimit /\ stage' = "top" /\ UNCHANGED <<life, peer>>
  /\ ReadClock
  /\ UNCHANGED <<vars, since>>

(* The task thread pushes replies while the client is there. *)
Push ==
  /\ Joined
  /\ PushTest \/ PushRefuse \/ PushCopy \/ PushLoad \/ PushStore
  /\ UNCHANGED clientVars

(* The peer closes its end or breaks the connection. *)
PeerEnds ==
  /\ Present /\ peer # "reset"
  /\ peer' \in {"closed", "reset"}
  /\ UNCHANGED <<vars, life, stage, dtHeart, timeVars>>

Capped(t) == IF t < HeartLimit THEN t + 1 ELSE t

Tick ==
  /\ Present
  /\ elapsed' = Capped(elapsed) /\ unread' = Capped(unread)
  /\ since' = IF Joined THEN Capped(since) ELSE since
  /\ UNCHANGED <<vars, life, stage, peer, dtHeart>>

Worker == \/ Join \/ NoJoin \/ Idle \/ Select \/ Read \/ ReadFails
          \/ Send \/ Sent \/ PassBy \/ CheckTime

ClientNext == Accept \/ Worker \/ Push \/ PeerEnds \/ Tick

(* The worker is scheduled, none of its calls blocks for ever, and time passes.  *)
ClientSpec == /\ ClientInit /\ [][ClientNext]_clientAll
              /\ WF_clientAll(Worker) /\ WF_clientAll(Tick)

-------------------------------------------------------------------------------
(* checkHeart() cuts a client in the first check that finds the limit passed      *)
(* since the worker's last look at the clock before the join, and in none before: *)
(* time is counted once, over every path through the loop, and the time in which *)
(* the worker had no client is not counted.                                      *)
HeartbeatExact ==
  [][stage = "check" /\ Joined /\ (stage' = "top" \/ life' = "gone")
       => (life' = "gone" <=> since >= HeartLimit)]_clientAll

(* Every client goes in the end: one whose peer has closed, which no recv() tells, *)
(* but also one that never stops talking, as nothing resets the heartbeat.        *)
EveryClientGoes == Joined ~> life = "gone"
=================================================================================
