------------------------------ MODULE PdRetry ------------------------------
(* RetryClient: every call to PD goes through one tokio RwLock around the    *)
(* cluster.  get_timestamp holds it for reading until its timestamp comes,   *)
(* the other calls hold it for writing, and a call that fails reconnects     *)
(* under the write lock and tries again.                                     *)
EXTENDS TsoStream

CONSTANTS
  LeaderChangeRetry,     \* leader_change_retry
  MaxReconnectAttempts   \* max_reconnect_attempts

ASSUME RetryAssumption == LeaderChangeRetry \in Nat /\ MaxReconnectAttempts \in Nat \ {0}

VARIABLES
  rw,       \* the lock: readers, writer, and a FIFO queue
  call,     \* caller -> its call to PD
  cluster   \* connections made so far; was the last within reconnect_interval?

retryVars == <<rw, call, cluster>>

NewCall == [pc |-> "idle", tries |-> 0, left |-> 0, begin |-> None, write |-> FALSE]

IsTimestampCall(c) == job[c] \in {"full", "ts"}

(* tokio's lock is fair: whoever asks waits behind those who asked before. *)
Ask(c, pc, write) ==
  /\ rw' = [rw EXCEPT !.queue = Append(@, c)]
  /\ call' = [call EXCEPT ![c].pc = pc, ![c].write = write]

Granted(c) ==
  /\ rw.queue # <<>> /\ Head(rw.queue) = c
  /\ rw.writer = None
  /\ call[c].write => rw.readers = {}

Grant(c, pc) ==
  /\ rw' = [rw EXCEPT !.queue = Tail(@),
                      !.readers = IF call[c].write THEN @ ELSE @ \cup {c},
                      !.writer = IF call[c].write THEN c ELSE @]
  /\ call' = [call EXCEPT ![c].pc = pc]

Released(c) ==
  [rw EXCEPT !.readers = @ \ {c}, !.writer = IF @ = c THEN None ELSE @]

(* retry_core: the next of leader_change_retry attempts, or none is left. *)
StartCall(c) ==
  /\ call[c].pc = "idle"
  /\ IF LeaderChangeRetry = 0
     THEN call' = [call EXCEPT ![c].pc = "failed"] /\ UNCHANGED rw
     ELSE Ask(c, "wait", ~IsTimestampCall(c))
  /\ UNCHANGED <<cluster, tsoVars>>

LockForCall(c) ==
  /\ call[c].pc = "wait"
  /\ Granted(c)
  /\ Grant(c, "call")
  /\ UNCHANGED <<cluster, tsoVars>>

SendTimestampRequest(c) ==
  /\ call[c].pc = "call"
  /\ IsTimestampCall(c)
  /\ ChanSend(c)
  /\ call' = [call EXCEPT ![c].pc = "await"]
  /\ UNCHANGED <<rw, cluster>>

CallSucceeds(c) ==
  /\ rw' = Released(c)
  /\ call' = [call EXCEPT ![c].pc = "ok"]
  /\ UNCHANGED <<cluster, tsoVars>>

(* Mutant: the guard lives on. *)
CallFailsWithGuard(c) ==
  /\ call' = [call EXCEPT ![c].pc = "reconnect", ![c].left = MaxReconnectAttempts]
  /\ UNCHANGED <<rw, cluster, tsoVars>>

(* The guard is dropped, and the call will reconnect. *)
CallFails(c) ==
  /\ rw' = Released(c)
  /\ call' = [call EXCEPT ![c].pc = "reconnect", ![c].left = MaxReconnectAttempts]
  /\ UNCHANGED <<cluster, tsoVars>>

TimestampArrives(c) == call[c].pc = "await" /\ HasTimestamp(c) /\ CallSucceeds(c)

TimestampFails(c) ==
  /\ \/ call[c].pc = "await" /\ got[c] = Failed
     \/ call[c].pc = "call" /\ IsTimestampCall(c) /\ tso.state = "dead"
  /\ CallFails(c)

(* Any other call is a unary RPC with a timeout, made under the write lock. *)
RpcReturns(c) == call[c].pc = "call" /\ ~IsTimestampCall(c) /\ CallSucceeds(c)
RpcFails(c) == call[c].pc = "call" /\ ~IsTimestampCall(c) /\ CallFails(c)

(* reconnect: note the time, then wait for the write lock. *)
BeginReconnect(c) ==
  /\ call[c].pc = "reconnect"
  /\ rw' = [rw EXCEPT !.queue = Append(@, c)]
  /\ call' = [call EXCEPT ![c].pc = "waitWrite", ![c].write = TRUE, ![c].begin = cluster]
  /\ UNCHANGED <<cluster, tsoVars>>

LockForReconnect(c) ==
  /\ call[c].pc = "waitWrite"
  /\ Granted(c)
  /\ Grant(c, "connect")
  /\ UNCHANGED <<cluster, tsoVars>>

(* reconnect_begin > last_connected + interval: nobody has reconnected since *)
(* it began, and the last time was long enough ago.                          *)
ShouldConnect(c) == call[c].begin.gen = cluster.gen /\ ~call[c].begin.recent

(* The loop goes on with another attempt, or leader_change_retry is reached. *)
NextTry(c) ==
  call' = [call EXCEPT ![c].pc = IF call[c].tries + 1 < LeaderChangeRetry
                                 THEN "idle" ELSE "failed",
                       ![c].tries = @ + 1]

(* Connected, or a concurrent reconnect has done it. *)
Reconnect(c) ==
  /\ call[c].pc = "connect"
  /\ rw' = Released(c)
  /\ NextTry(c)
  /\ IF ShouldConnect(c)
     THEN /\ tso' = NewOracle
          /\ cluster' = [gen |-> cluster.gen + 1, recent |-> TRUE]
          /\ UNCHANGED <<clock, got>>
     ELSE UNCHANGED <<cluster, tsoVars>>

(* The connection cannot be made: sleep and try again, a limited number of times. *)
ReconnectFails(c) ==
  /\ call[c].pc = "connect"
  /\ ShouldConnect(c)
  /\ rw' = Released(c)
  /\ call' = [call EXCEPT ![c].pc = IF call[c].left = 1 THEN "failed" ELSE "reconnect",
                          ![c].left = @ - 1]
  /\ UNCHANGED <<cluster, tsoVars>>

(* reconnect_interval has passed since the last connection. *)
IntervalPasses ==
  /\ cluster.recent
  /\ cluster' = [cluster EXCEPT !.recent = FALSE]
  /\ UNCHANGED <<rw, call, tsoVars>>

RetryInit ==
  /\ rw = [readers |-> {}, writer |-> None, queue |-> <<>>]
  /\ call = [c \in Callers |-> NewCall]
  /\ cluster = [gen |-> 1, recent |-> TRUE]
============================================================================
