----------------------------- MODULE TsoStream -----------------------------
(* TimestampOracle: requests wait in a bounded channel, the request stream   *)
(* sends them to PD in groups, and run_tso hands out the answers.  The two   *)
(* sides run on different threads; they share the queue of groups under an   *)
(* async mutex, and an AtomicWaker tells the stream to look again.           *)
EXTENDS RpcClients

CONSTANTS
  MaxBatch,     \* MAX_BATCH_SIZE: capacity of the channel, size of a group
  MaxPending    \* MAX_PENDING_COUNT: groups waiting for PD

ASSUME TsoAssumption == MaxBatch \in Nat \ {0} /\ MaxPending \in Nat \ {0}

VARIABLES
  tso,          \* the oracle in use
  clock,        \* the last timestamp PD has given out
  got           \* caller -> its timestamp, NoTimestamp or Failed

tsoVars == <<tso, clock, got>>

NoTimestamp == 0
Failed == -1
HasTimestamp(c) == got[c] > 0

(* poller: the task that polls the stream is "scheduled", "parked", or in    *)
(* the middle of a poll that found the mutex taken.                          *)
NewOracle ==
  [state |-> "up", chan |-> <<>>, pending |-> <<>>, side |-> "idle",
   poller |-> "scheduled", again |-> FALSE, waker |-> FALSE, chanWaker |-> FALSE,
   queued |-> FALSE, net |-> <<>>, resp |-> <<>>]

(* Waking the task: one that is being polled will be polled again. *)
Wakeup(t) ==
  CASE t.poller = "parked" -> [t EXCEPT !.poller = "scheduled"]
    [] t.poller \in {"contended", "registered"} -> [t EXCEPT !.again = TRUE]
    [] OTHER -> t

(* get_timestamp: send the oneshot into the channel. *)
ChanSend(c) ==
  LET t == [tso EXCEPT !.chan = Append(@, c)]
  IN /\ tso.state # "dead"
     /\ Len(tso.chan) < MaxBatch
     /\ tso' = IF t.chanWaker THEN [Wakeup(t) EXCEPT !.chanWaker = FALSE] ELSE t
     /\ got' = [got EXCEPT ![c] = NoTimestamp]
     /\ UNCHANGED clock

----------------------------------------------------------------------------
(* TsoRequestStream::poll_next *)

(* The mutex is taken: the lock future waits in its queue. *)
PollContended ==
  /\ tso.state # "dead"
  /\ tso.poller = "scheduled"
  /\ tso.side = "alloc"
  /\ tso' = [tso EXCEPT !.poller = "contended", !.queued = TRUE]
  /\ UNCHANGED <<clock, got>>

(* Mutant: nothing is registered when the mutex is taken. *)
PollForgets ==
  /\ tso.poller = "contended"
  /\ tso' = [tso EXCEPT !.poller = "registered", !.queued = FALSE]
  /\ UNCHANGED <<clock, got>>

PollRegister ==
  /\ tso.poller = "contended"
  /\ tso' = [tso EXCEPT !.poller = "registered", !.waker = TRUE]
  /\ UNCHANGED <<clock, got>>

(* Pending: the lock future is dropped and leaves the queue. *)
PollReturn ==
  /\ tso.poller = "registered"
  /\ tso' = [tso EXCEPT !.poller = IF tso.again THEN "scheduled" ELSE "parked",
                        !.again = FALSE, !.queued = FALSE]
  /\ UNCHANGED <<clock, got>>

(* Mutant: one group too many. *)
HasRoomForMore == Len(tso.pending) <= MaxPending

HasRoom == Len(tso.pending) < MaxPending

(* With the mutex: take what the channel has, up to a group, unless there    *)
(* are too many groups; an empty channel keeps the waker of the task.        *)
PollBody ==
  LET n == IF HasRoom THEN Smaller(Len(tso.chan), MaxBatch) ELSE 0
      drained == HasRoom /\ n < MaxBatch
      t == [tso EXCEPT !.chanWaker = @ \/ drained, !.chan = Drop(@, n)]
  IN /\ tso.state # "dead"
     /\ tso.poller = "scheduled"
     /\ tso.side # "alloc"
     /\ tso' = IF n > 0
               THEN [t EXCEPT !.pending = Append(@, SubSeq(tso.chan, 1, n)),
                              !.net = Append(@, n)]
               ELSE [t EXCEPT !.waker = TRUE, !.poller = "parked"]
     /\ UNCHANGED <<clock, got>>

----------------------------------------------------------------------------
(* run_tso *)

(* A response arrives; run_tso takes the mutex. *)
RespLock ==
  /\ tso.state = "up"
  /\ tso.side = "idle"
  /\ tso.resp # <<>>
  /\ tso' = [tso EXCEPT !.side = "alloc"]
  /\ UNCHANGED <<clock, got>>

Fail(S) == [c \in Callers |-> IF c \in S THEN Failed ELSE got[c]]

(* Mutant: every member of a group gets the largest. *)
AllocatedSame(group, tail) ==
  [c \in Callers |-> IF c \in Members(group) THEN tail ELSE got[c]]

(* The i-th of a group of n gets tail - (n - i). *)
Allocated(group, tail) ==
  [c \in Callers |-> IF c \in Members(group)
                     THEN tail - Len(group) + CHOOSE i \in 1..Len(group) : group[i] = c
                     ELSE got[c]]

(* allocate_timestamps.  The count must be that of the oldest group; if not, *)
(* run_tso ends.  Releasing the mutex wakes a poll that waits for it.        *)
RespAllocate ==
  LET r == Head(tso.resp)
      t == [tso EXCEPT !.resp = Tail(@), !.side = "wake",
                       !.pending = IF @ = <<>> THEN @ ELSE Tail(@)]
      ok == tso.pending # <<>> /\ Len(Head(tso.pending)) = r.count
      woken == IF t.queued THEN [Wakeup(t) EXCEPT !.queued = FALSE] ELSE t
  IN /\ tso.side = "alloc"
     /\ tso' = IF ok THEN woken ELSE [woken EXCEPT !.state = "closing", !.side = "idle"]
     /\ got' = CASE ok -> Allocated(Head(tso.pending), r.tail)
                 [] ~ok /\ tso.pending # <<>> -> Fail(Members(Head(tso.pending)))
                 [] OTHER -> got
     /\ UNCHANGED clock

(* sending_future_waker.wake() *)
RespWake ==
  /\ tso.side = "wake"
  /\ tso' = [(IF tso.waker THEN Wakeup(tso) ELSE tso) EXCEPT !.side = "idle", !.waker = FALSE]
  /\ UNCHANGED <<clock, got>>

----------------------------------------------------------------------------
(* PD and the connection *)

(* PD answers the requests of a stream in order. *)
PdServe ==
  /\ tso.state = "up"
  /\ tso.net # <<>>
  /\ clock' = clock + Head(tso.net)
  /\ tso' = [tso EXCEPT !.net = Tail(@),
                        !.resp = Append(@, [tail |-> clock', count |-> Head(tso.net)])]
  /\ UNCHANGED got

(* PD answers with a count nobody asked for. *)
PdMiscounts ==
  /\ tso.state = "up"
  /\ tso.net # <<>>
  /\ clock' = clock + Head(tso.net) + 1
  /\ tso' = [tso EXCEPT !.net = Tail(@),
                        !.resp = Append(@, [tail |-> clock', count |-> Head(tso.net) + 1])]
  /\ UNCHANGED got

(* The responses end: run_tso returns. *)
StreamEnds ==
  /\ tso.state = "up"
  /\ tso.side = "idle"
  /\ tso' = [tso EXCEPT !.state = "closing"]
  /\ UNCHANGED <<clock, got>>

(* The transport drops the request stream, and with it the channel and the   *)
(* groups: everyone who waits gets an error.                                 *)
StreamDropped ==
  /\ tso.state = "closing"
  /\ tso' = [NewOracle EXCEPT !.state = "dead", !.poller = "parked"]
  /\ got' = Fail(Members(tso.chan) \cup UNION {Members(g) : g \in Members(tso.pending)})
  /\ UNCHANGED clock

TsoInit ==
  /\ tso = NewOracle
  /\ clock = 0
  /\ got = [c \in Callers |-> NoTimestamp]
============================================================================
