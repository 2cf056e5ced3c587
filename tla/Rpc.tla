-------------------------------- MODULE Rpc --------------------------------
(* Callers that take timestamps and regions from PD and send commands to     *)
(* TiKV, all through the shared oracle, lock and stream.                     *)
EXTENDS PdRetry, BatchCommands

VARIABLE seen   \* caller -> those that had their timestamp when it asked

vars == <<clientVars, tsoVars, retryVars, batchVars, seen>>

Init ==
  /\ \E j \in Jobs : job = j.job /\ mishaps = j.mishaps
  /\ TsoInit
  /\ RetryInit
  /\ BatchInit
  /\ seen = [c \in Callers |-> {}]

UsesPd(c) == job[c] \in {"full", "ts", "region"}

(* The command of a full job carries the timestamp. *)
MayDispatch(c) == job[c] = "cmd" \/ (job[c] = "full" /\ call[c].pc = "ok")

Asks(c) ==
  /\ UsesPd(c)
  /\ StartCall(c)
  /\ seen' = [seen EXCEPT ![c] = {d \in Callers : HasTimestamp(d)}]
  /\ UNCHANGED <<clientVars, batchVars>>

(* A caller's own steps at PD ... *)
PdStep(c) ==
  /\ UsesPd(c)
  /\ \/ LockForCall(c) \/ SendTimestampRequest(c) \/ TimestampArrives(c) \/ TimestampFails(c)
     \/ RpcReturns(c) \/ BeginReconnect(c) \/ LockForReconnect(c) \/ Reconnect(c)
  /\ UNCHANGED <<clientVars, batchVars, seen>>

PdTrouble(c) ==
  /\ UsesPd(c)
  /\ RpcFails(c) \/ ReconnectFails(c)
  /\ Mishap
  /\ UNCHANGED <<batchVars, seen>>

(* ... and in dispatch. *)
DispatchStep(c) ==
  /\ MayDispatch(c)
  /\ Register(c) \/ Enqueue(c) \/ DispatchReturns(c) \/ TimerFires(c) \/ RemoveExpired(c)
  /\ UNCHANGED <<clientVars, tsoVars, retryVars, seen>>

CallerDrops(c) ==
  /\ Cancel(c)
  /\ Mishap
  /\ UNCHANGED <<tsoVars, retryVars, seen>>

(* The oracle's two tasks, and PD. *)
StreamTask ==
  /\ PollContended \/ PollRegister \/ PollReturn \/ PollBody
  /\ UNCHANGED <<clientVars, retryVars, batchVars, seen>>

TsoTask ==
  /\ RespLock \/ RespAllocate \/ RespWake \/ StreamDropped
  /\ UNCHANGED <<clientVars, retryVars, batchVars, seen>>

PdAnswers ==
  /\ PdServe
  /\ UNCHANGED <<clientVars, retryVars, batchVars, seen>>

TsoTrouble ==
  /\ PdMiscounts \/ StreamEnds
  /\ Mishap
  /\ UNCHANGED <<retryVars, batchVars, seen>>

(* The send loop, the receive loops, and TiKV. *)
SendLoop ==
  /\ TakeOutbound \/ SendOnStream
  /\ UNCHANGED <<clientVars, tsoVars, retryVars, seen>>

StreamOpens ==
  /\ Connect
  /\ UNCHANGED <<clientVars, tsoVars, retryVars, seen>>

StreamStep ==
  /\ \E k \in 1..Len(streams) :
       Transmit(k) \/ Execute(k) \/ ReceiveAnswer(k)
         \/ ReceiverDropped(k) \/ ReceiveLoopEnds(k)
  /\ UNCHANGED <<clientVars, tsoVars, retryVars, seen>>

BatchTrouble ==
  /\ ConnectFails \/ \E k \in 1..Len(streams) : StreamBreaks(k)
  /\ Mishap
  /\ UNCHANGED <<tsoVars, retryVars, seen>>

TimePasses ==
  /\ IntervalPasses
  /\ UNCHANGED <<clientVars, batchVars, seen>>

CallerStep(c) == Asks(c) \/ PdStep(c) \/ DispatchStep(c)

Next ==
  \/ \E c \in Callers : CallerStep(c) \/ PdTrouble(c) \/ CallerDrops(c)
  \/ StreamTask \/ TsoTask \/ PdAnswers \/ TsoTrouble
  \/ SendLoop \/ StreamOpens \/ StreamStep \/ BatchTrouble \/ TimePasses

Spec == Init /\ [][Next]_vars

(* The runtime polls every task that can go on, and PD answers what reaches  *)
(* it: nothing else bounds the wait for a timestamp.  TiKV need not accept a *)
(* stream, take what is sent on it or answer.                                *)
FairSpec ==
  /\ Spec
  /\ \A c \in Callers : WF_vars(CallerStep(c))
  /\ WF_vars(StreamTask) /\ WF_vars(TsoTask) /\ WF_vars(PdAnswers) /\ WF_vars(SendLoop)

----------------------------------------------------------------------------
(* Properties *)

(* The oracle, the lock, the calls and the streams keep their types, and the *)
(* channels and the groups keep their bounds.                                *)
TypeOK ==
  /\ job \in [Callers -> {"full", "ts", "region", "cmd", "idle"}]
  /\ mishaps \in Nat
  /\ tso.state \in {"up", "closing", "dead"} /\ tso.side \in {"idle", "alloc", "wake"}
  /\ tso.poller \in {"scheduled", "parked", "contended", "registered"}
  /\ Len(tso.chan) <= MaxBatch
  /\ Len(tso.pending) <= MaxPending
  /\ \A g \in Members(tso.pending) : Len(g) \in 1..MaxBatch
  /\ \A c \in Callers : /\ got[c] \in Int
                        /\ call[c].tries <= LeaderChangeRetry
                        /\ call[c].left <= MaxReconnectAttempts
  /\ rw.readers \subseteq Callers /\ rw.writer \in Callers \cup {None}
  /\ rw.writer # None => rw.readers = {}
  /\ Len(outbound) <= OutboundCap
  /\ sender.conn \in 0..Len(streams)
  /\ \A k \in 1..Len(streams) : Waiting(streams[k]) \in 0..StreamCap
  /\ \A i \in DOMAIN inflight : i < nextId /\ inflight[i] \in Callers

(* No two callers get the same timestamp, and one that asks after another    *)
(* has its timestamp gets a later one, across groups, retries and reconnects. *)
TimestampsOrdered ==
  \A c, d \in Callers :
    /\ c # d /\ HasTimestamp(c) /\ HasTimestamp(d) => got[c] # got[d]
    /\ c # d /\ d \in seen[c] /\ call[c].pc = "ok" /\ IsTimestampCall(c) => got[c] > got[d]

(* The map holds exactly the commands whose callers still wait without an    *)
(* answer, those about to time out, and those whose caller was dropped.      *)
InflightMatches ==
  /\ \A c \in Callers :
       cmd[c].pc \in {"registered", "await"} /\ cmd[c].answer = None =>
         cmd[c].id \in DOMAIN inflight /\ inflight[cmd[c].id] = c
  /\ \A i \in DOMAIN inflight :
       LET c == inflight[i]
       IN /\ cmd[c].id = i
          /\ cmd[c].pc \in {"registered", "await", "expired", "cancelled"}
          /\ cmd[c].answer = None

(* A caller that is told "ok" was answered for its own command, which TiKV   *)
(* has executed, however streams were replaced and answers came late.        *)
AnswerIsOwn ==
  \A c \in Callers :
    cmd[c].answer # None /\ cmd[c].answer.ok =>
      cmd[c].answer.of = c /\ c \in Members(executed)

(* One dispatch is executed at most once: a broken stream makes the send     *)
(* loop send again only what the old stream did not take.                    *)
ExecutedAtMostOnce ==
  \A i, j \in 1..Len(executed) : executed[i] = executed[j] => i = j

Finished(c) ==
  \/ job[c] = "idle"
  \/ UsesPd(c) /\ call[c].pc = "failed"
  \/ job[c] \in {"ts", "region"} /\ call[c].pc = "ok"
  \/ cmd[c].pc \in {"done", "timeout", "cancelled"}

(* The send loop waits for TiKV to accept a stream, or for room in one.      *)
SendLoopWaits ==
  /\ sender.cur # None
  /\ sender.conn # 0 => /\ streams[sender.conn].open
                        /\ Waiting(streams[sender.conn]) = StreamCap

(* Every call to PD and every dispatch returns, by its timer at the latest.  *)
(* The one exception: a dispatch that finds the channel to the send loop     *)
(* full, while the loop waits on TiKV, has no timer yet; it returns unless   *)
(* TiKV leaves the loop waiting for ever.                                    *)
CallsReturn ==
  \A c \in Callers :
    \/ <>Finished(c)
    \/ <>[](cmd[c].pc = "registered" /\ Len(outbound) = OutboundCap /\ SendLoopWaits)
============================================================================
