--------------------------- MODULE BatchCommands ---------------------------
(* BatchCommandsClient: the commands of all callers go through one send loop *)
(* into one gRPC stream, and a receive loop per stream matches the answers   *)
(* to the map of commands in flight.  A stream that breaks is replaced while *)
(* its receive loop may still be at work.                                    *)
EXTENDS RpcClients

CONSTANTS
  OutboundCap,   \* mpsc::channel(1024) of new()
  StreamCap      \* mpsc::channel(1024) of connect_batch_stream

ASSUME CapAssumption == OutboundCap \in Nat \ {0} /\ StreamCap \in Nat \ {0}

VARIABLES
  nextId,     \* next_request_id
  inflight,   \* request id -> the caller that waits
  outbound,   \* outbound_tx: the channel to the send loop
  sender,     \* the send loop: command at hand, stream in use
  streams,    \* every stream made so far
  cmd,        \* caller -> its dispatch: step, request id, answer
  executed    \* commands TiKV has executed, in order

batchVars == <<nextId, inflight, outbound, sender, streams, cmd, executed>>

NewDispatch == [pc |-> "idle", id |-> 0, answer |-> None]

(* A stream: its requests, of which the transport has taken the first few    *)
(* and the others are still in the channel; whether the transport holds the  *)
(* receiver of the channel; what TiKV has answered, and whether the receive  *)
(* loop runs.  The Empty request that primes the stream is left out.         *)
NewStream ==
  [reqs |-> <<>>, taken |-> 0, open |-> TRUE, loop |-> TRUE, broken |-> FALSE, answers |-> {}]

(* The requests in the channel of a stream. *)
Waiting(s) == Len(s.reqs) - s.taken

OkFor(c) == [ok |-> TRUE, of |-> c]
Unavailable == [ok |-> FALSE, of |-> None]

ASSUME AnswerAssumption == Unavailable # None /\ \A c \in Callers : OkFor(c) # None

(* Send the outcome a to the callers in C, as far as they still listen. *)
Tell(C, a) ==
  cmd' = [c \in Callers |-> IF c \in C /\ cmd[c].pc \in {"registered", "await"}
                            THEN [cmd[c] EXCEPT !.answer = a] ELSE cmd[c]]

Remove(ids) == inflight' = [i \in DOMAIN inflight \ ids |-> inflight[i]]

----------------------------------------------------------------------------
(* dispatch *)

(* Take an id, and put the oneshot into the map. *)
Register(c) ==
  /\ cmd[c].pc = "idle"
  /\ nextId' = nextId + 1
  /\ inflight' = [i \in DOMAIN inflight \cup {nextId} |->
                    IF i = nextId THEN c ELSE inflight[i]]
  /\ cmd' = [cmd EXCEPT ![c].pc = "registered", ![c].id = nextId]
  /\ UNCHANGED <<outbound, sender, streams, executed>>

(* The channel to the send loop has room, or the dispatch waits for it; its  *)
(* timer runs only from here on.                                             *)
Enqueue(c) ==
  /\ cmd[c].pc = "registered"
  /\ Len(outbound) < OutboundCap
  /\ outbound' = Append(outbound, [id |-> cmd[c].id, of |-> c])
  /\ cmd' = [cmd EXCEPT ![c].pc = "await"]
  /\ UNCHANGED <<nextId, inflight, sender, streams, executed>>

(* The answer, or an error from the loops, ends the dispatch. *)
DispatchReturns(c) ==
  /\ cmd[c].pc = "await"
  /\ cmd[c].answer # None
  /\ cmd' = [cmd EXCEPT ![c].pc = "done"]
  /\ UNCHANGED <<nextId, inflight, outbound, sender, streams, executed>>

(* The timer fires first; then the entry is taken out of the map. *)
TimerFires(c) ==
  /\ cmd[c].pc = "await"
  /\ cmd[c].answer = None
  /\ cmd' = [cmd EXCEPT ![c].pc = "expired"]
  /\ UNCHANGED <<nextId, inflight, outbound, sender, streams, executed>>

(* Mutant: the entry of an expired command stays. *)
ExpiredStays(c) ==
  /\ cmd[c].pc = "expired"
  /\ cmd' = [cmd EXCEPT ![c].pc = "timeout"]
  /\ UNCHANGED <<nextId, inflight, outbound, sender, streams, executed>>

RemoveExpired(c) ==
  /\ cmd[c].pc = "expired"
  /\ Remove({cmd[c].id})
  /\ cmd' = [cmd EXCEPT ![c].pc = "timeout"]
  /\ UNCHANGED <<nextId, outbound, sender, streams, executed>>

(* The future is dropped by its owner; nothing is taken back. *)
Cancel(c) ==
  /\ cmd[c].pc \in {"registered", "await"}
  /\ cmd' = [cmd EXCEPT ![c].pc = "cancelled"]
  /\ UNCHANGED <<nextId, inflight, outbound, sender, streams, executed>>

----------------------------------------------------------------------------
(* run_batch_send_loop *)

TakeOutbound ==
  /\ sender.cur = None
  /\ outbound # <<>>
  /\ sender' = [sender EXCEPT !.cur = Head(outbound)]
  /\ outbound' = Tail(outbound)
  /\ UNCHANGED <<nextId, inflight, streams, cmd, executed>>

(* Mutant: a new stream starts with every command still in flight. *)
ConnectAndResend ==
  LET ids == {i \in DOMAIN inflight : i # sender.cur.id}
      again == [k \in 1..Cardinality(ids) |->
                  LET i == CHOOSE j \in ids : Cardinality({h \in ids : h < j}) = k - 1
                  IN [id |-> i, of |-> inflight[i]]]
  IN /\ sender.cur # None
     /\ sender.conn = 0
     /\ streams' = Append(streams, [NewStream EXCEPT !.reqs = again, !.taken = Len(again)])
     /\ sender' = [sender EXCEPT !.conn = Len(streams) + 1]
     /\ UNCHANGED <<nextId, inflight, outbound, cmd, executed>>

(* connect_batch_stream, which also starts a receive loop. *)
Connect ==
  /\ sender.cur # None
  /\ sender.conn = 0
  /\ streams' = Append(streams, NewStream)
  /\ sender' = [sender EXCEPT !.conn = Len(streams) + 1]
  /\ UNCHANGED <<nextId, inflight, outbound, cmd, executed>>

(* No stream: the command at hand fails, the others wait their turn. *)
ConnectFails ==
  LET id == sender.cur.id
  IN /\ sender.cur # None
     /\ sender.conn = 0
     /\ Remove({id})
     /\ Tell({inflight[i] : i \in {id} \cap DOMAIN inflight}, Unavailable)
     /\ sender' = [sender EXCEPT !.cur = None]
     /\ UNCHANGED <<nextId, outbound, streams, executed>>

(* The channel of an open stream has room, or the loop waits for it.  A      *)
(* channel without its receiver refuses the command, and the loop connects.  *)
SendOnStream ==
  /\ sender.cur # None
  /\ sender.conn # 0
  /\ IF streams[sender.conn].open
     THEN /\ Waiting(streams[sender.conn]) < StreamCap
          /\ streams' = [streams EXCEPT ![sender.conn].reqs = Append(@, sender.cur)]
          /\ sender' = [sender EXCEPT !.cur = None]
     ELSE /\ sender' = [sender EXCEPT !.conn = 0]
          /\ UNCHANGED streams
  /\ UNCHANGED <<nextId, inflight, outbound, cmd, executed>>

----------------------------------------------------------------------------
(* TiKV and the transport *)

(* The transport takes a request out of the channel when the connection has  *)
(* room for it, in its own time.                                             *)
Transmit(k) ==
  /\ streams[k].open
  /\ Waiting(streams[k]) > 0
  /\ streams' = [streams EXCEPT ![k].taken = @ + 1]
  /\ UNCHANGED <<nextId, inflight, outbound, sender, cmd, executed>>

(* TiKV executes the commands that it was sent in any order. *)
Execute(k) ==
  LET s == streams[k]
  IN \E i \in 1..s.taken :
       /\ executed' = Append(executed, s.reqs[i].of)
       /\ streams' = [streams EXCEPT ![k] =
                        [s EXCEPT !.answers = s.answers \cup {s.reqs[i]},
                                  !.reqs = SubSeq(s.reqs, 1, i - 1) \o Drop(s.reqs, i),
                                  !.taken = s.taken - 1]]
       /\ UNCHANGED <<nextId, inflight, outbound, sender, cmd>>

StreamBreaks(k) ==
  /\ ~streams[k].broken
  /\ streams' = [streams EXCEPT ![k].broken = TRUE]
  /\ UNCHANGED <<nextId, inflight, outbound, sender, cmd, executed>>

(* The transport drops the receiver, with what is in the channel; what it   *)
(* has taken may still be executed.                                         *)
ReceiverDropped(k) ==
  LET s == streams[k]
  IN /\ s.broken
     /\ s.open
     /\ streams' = [streams EXCEPT ![k] = [s EXCEPT !.open = FALSE,
                                                   !.reqs = SubSeq(s.reqs, 1, s.taken)]]
     /\ UNCHANGED <<nextId, inflight, outbound, sender, cmd, executed>>

----------------------------------------------------------------------------
(* run_batch_recv_loop *)

(* Mutant: answers are taken to come in the order of the commands. *)
ReceiveInOrder(k) ==
  \E r \in streams[k].answers, i \in DOMAIN inflight :
    /\ streams[k].loop
    /\ \A j \in DOMAIN inflight : i <= j
    /\ streams' = [streams EXCEPT ![k].answers = @ \ {r}]
    /\ Remove({i})
    /\ Tell({inflight[i]}, OkFor(r.of))
    /\ UNCHANGED <<nextId, outbound, sender, executed>>

(* An answer whose command is no longer in flight is ignored. *)
ReceiveAnswer(k) ==
  \E r \in streams[k].answers :
    /\ streams[k].loop
    /\ streams' = [streams EXCEPT ![k].answers = @ \ {r}]
    /\ Remove({r.id})
    /\ Tell({inflight[i] : i \in {r.id} \cap DOMAIN inflight}, OkFor(r.of))
    /\ UNCHANGED <<nextId, outbound, sender, executed>>

(* fail_all_inflight: whatever is in the map, whichever stream it went to. *)
ReceiveLoopEnds(k) ==
  /\ streams[k].broken
  /\ streams[k].loop
  /\ streams' = [streams EXCEPT ![k].loop = FALSE, ![k].answers = {}]
  /\ Remove(DOMAIN inflight)
  /\ Tell({inflight[i] : i \in DOMAIN inflight}, Unavailable)
  /\ UNCHANGED <<nextId, outbound, sender, executed>>

BatchInit ==
  /\ nextId = 1
  /\ inflight = [i \in {} |-> None]
  /\ outbound = <<>>
  /\ sender = [cur |-> None, conn |-> 0]
  /\ streams = <<>>
  /\ cmd = [c \in Callers |-> NewDispatch]
  /\ executed = <<>>
============================================================================
