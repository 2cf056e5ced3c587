----------------------------- MODULE RpcProofs -----------------------------
(***************************************************************************)
(* The theorems on the callers that share PD and the stream to TiKV.       *)
(*                                                                         *)
(* A command is at one place: in the channel, in the hand of the send      *)
(* loop, in one stream, or executed; and its id names its caller, so an    *)
(* answer that is still waited for finds the one it is for.                *)
(*                                                                         *)
(* A caller that waits for a timestamp holds the lock for reading, so no   *)
(* reconnect replaces the oracle under it; and what has been handed out    *)
(* lies below every response that is still to be shared out.               *)
(***************************************************************************)
EXTENDS Rpc, TLAPS

\* Zenon proves a leaf, and the SMT solver one that cites SMTT: arithmetic and
\* sequences.
USE ZenonT(30)

Request == [id : Nat, of : Callers]
Requests == SUBSET Request
Answer == [ok : BOOLEAN, of : Callers \cup {None}]
Dispatch ==
  [pc : {"idle", "registered", "await", "done", "expired", "timeout", "cancelled"},
   id : Nat, answer : Answer \cup {None}]

\* The transport has taken n of the requests q, and the channel holds the others.
Fill(q, n) == n <= Len(q) /\ Len(q) - n <= StreamCap

StreamFields ==
  [reqs : Seq(Request), taken : Nat, open : BOOLEAN, loop : BOOLEAN, broken : BOOLEAN,
   answers : Requests]
Stream == {s \in StreamFields : Fill(s.reqs, s.taken)}
Sender == [cur : Request \cup {None}, conn : Nat]

BatchTypes ==
  /\ nextId \in Nat
  /\ outbound \in Seq(Request) /\ Len(outbound) <= OutboundCap
  /\ sender \in Sender /\ sender.conn \in 0..Len(streams)
  /\ streams \in Seq(Stream)
  /\ cmd \in [Callers -> Dispatch]
  /\ executed \in Seq(Callers)

\* Whom the requests of a sequence are of, and that they are of different callers.
Owners(s) == {r.of : r \in Members(s)}
Apart(s) == \A i, j \in 1..Len(s) : s[i].of = s[j].of => i = j

\* The request in the hand of the send loop.
InHand(c) == sender.cur # None /\ sender.cur.of = c

\* The map has ids already given out, and callers.
MapInv == /\ inflight = [i \in DOMAIN inflight |-> inflight[i]]
          /\ \A i \in DOMAIN inflight : i \in Nat /\ i < nextId /\ inflight[i] \in Callers

\* An id is older than the next one, and belongs to one dispatch.
IdInv ==
  /\ \A c \in Callers : cmd[c].pc # "idle" => cmd[c].id < nextId
  /\ \A c \in Callers : cmd[c].pc = "idle" => cmd[c].answer = None
  /\ \A c, d \in Callers :
       cmd[c].pc # "idle" /\ cmd[d].pc # "idle" /\ cmd[c].id = cmd[d].id => c = d

\* A request that has been sent is one of its caller's.
Genuine(r) == cmd[r.of].pc \notin {"idle", "registered"} /\ cmd[r.of].id = r.id

GenuineInv ==
  /\ \A r \in Members(outbound) : Genuine(r)
  /\ sender.cur # None => Genuine(sender.cur)
  /\ \A k \in 1..Len(streams) :
       /\ \A r \in Members(streams[k].reqs) : Genuine(r)
       /\ \A r \in streams[k].answers : Genuine(r) /\ r.of \in Members(executed)
  /\ \A c \in Members(executed) : cmd[c].pc \notin {"idle", "registered"}

\* A caller's request is at one place at most.
PlaceInv ==
  /\ Apart(outbound)
  /\ \A k \in 1..Len(streams) : Apart(streams[k].reqs)
  /\ \A c \in Callers :
       /\ InHand(c) => c \notin Owners(outbound)
       /\ c \in Members(executed) => c \notin Owners(outbound) /\ ~InHand(c)
       /\ \A k \in 1..Len(streams) : c \in Owners(streams[k].reqs) =>
            /\ c \notin Owners(outbound) /\ ~InHand(c) /\ c \notin Members(executed)
            /\ \A l \in 1..Len(streams) : c \in Owners(streams[l].reqs) => k = l
  /\ ExecutedAtMostOnce

BatchInv ==
  BatchTypes /\ MapInv /\ IdInv /\ GenuineInv /\ PlaceInv /\ InflightMatches /\ AnswerIsOwn
----------------------------------------------------------------------------
Pcs == {"idle", "wait", "call", "await", "ok", "reconnect", "waitWrite", "connect", "failed"}
Cluster == [gen : Nat, recent : BOOLEAN]
Call == [pc : Pcs, tries : Nat, left : Int, begin : Cluster \cup {None}, write : BOOLEAN]
ReaderSets == SUBSET Callers
Lock == [readers : ReaderSets, writer : Callers \cup {None}, queue : Seq(Callers)]

\* The attempt that is under way is one of those allowed.
Fits(x) ==
  /\ x.tries <= LeaderChangeRetry /\ x.left <= MaxReconnectAttempts
  /\ x.pc \in {"wait", "call", "await", "reconnect", "waitWrite", "connect"}
       => x.tries < LeaderChangeRetry
  /\ x.pc = "idle" /\ LeaderChangeRetry # 0 => x.tries < LeaderChangeRetry

CallTypes ==
  /\ job \in [Callers -> {"full", "ts", "region", "cmd", "idle"}]
  /\ mishaps \in Nat
  /\ call \in [Callers -> Call]
  /\ cluster \in Cluster
  /\ rw \in Lock
  /\ \A c \in Callers : Fits(call[c])

\* Who is in the lock, and how.
Locks(c) ==
  /\ call[c].pc = "wait" => (call[c].write <=> ~IsTimestampCall(c))
  /\ call[c].pc = "waitWrite" => call[c].write
  /\ call[c].pc = "connect" => rw.writer = c
  /\ call[c].pc = "call" /\ IsTimestampCall(c) => c \in rw.readers
  /\ call[c].pc = "await" => c \in rw.readers /\ IsTimestampCall(c)

LockInv ==
  /\ rw.writer # None => rw.readers = {}
  /\ \A c \in Callers : Locks(c)

\* The timestamp of a call, and that a call that got one has returned or will.
GotInv ==
  /\ got \in [Callers -> Int]
  /\ clock \in Nat
  /\ \A c \in Callers :
       /\ got[c] <= clock
       /\ HasTimestamp(c) => call[c].pc \in {"await", "ok"}
       /\ call[c].pc = "ok" /\ IsTimestampCall(c) => HasTimestamp(c)

Oracle ==
  [state : {"up", "closing", "dead"}, chan : Seq(Callers), pending : Seq(Seq(Callers)),
   side : {"idle", "alloc", "wake"},
   poller : {"scheduled", "parked", "contended", "registered"}, again : BOOLEAN,
   waker : BOOLEAN, chanWaker : BOOLEAN, queued : BOOLEAN,
   net : Seq(Nat), resp : Seq([tail : Nat, count : Nat])]

OracleInv ==
  /\ tso \in Oracle
  /\ Len(tso.chan) <= MaxBatch
  /\ Len(tso.pending) <= MaxPending
  /\ \A p \in 1..Len(tso.pending) : Len(tso.pending[p]) \in 1..MaxBatch
  /\ tso.side = "alloc" => tso.resp # <<>>

\* Those who wait in the channel or in a group wait once, under the read lock.
Waits(c) == got[c] = NoTimestamp /\ call[c].pc = "await"

QueueInv ==
  /\ \A i, j \in 1..Len(tso.chan) : tso.chan[i] = tso.chan[j] => i = j
  /\ \A p, q \in 1..Len(tso.pending) : \A c \in Members(tso.pending[p]) :
       /\ c \notin Members(tso.chan)
       /\ c \in Members(tso.pending[q]) => p = q
  /\ \A c \in Members(tso.chan) : Waits(c)
  /\ \A p \in 1..Len(tso.pending) : \A c \in Members(tso.pending[p]) : Waits(c)

\* The oracle in use knows everyone who waits for a timestamp.
InOracle(c) ==
  c \in Members(tso.chan) \/ \E p \in 1..Len(tso.pending) : c \in Members(tso.pending[p])

NobodyForgotten == \A c \in Callers : Waits(c) => InOracle(c)

\* The responses are ranges of timestamps, one above the other and all above
\* those that callers have.
Below(r) == r.tail - r.count

RangeInv ==
  /\ \A i \in 1..Len(tso.resp) :
       /\ tso.resp[i].tail <= clock /\ 0 <= Below(tso.resp[i])
       /\ \A c \in Callers : got[c] <= Below(tso.resp[i])
  /\ \A i, j \in 1..Len(tso.resp) : i < j => tso.resp[i].tail <= Below(tso.resp[j])

\* A caller's timestamp is its own, and above those it has seen.
OrderInv ==
  /\ seen \in [Callers -> ReaderSets]
  /\ \A c, d \in Callers : c # d =>
       /\ HasTimestamp(c) /\ HasTimestamp(d) => got[c] # got[d]
       /\ d \in seen[c] /\ HasTimestamp(c) => got[c] > got[d]
  /\ \A c \in Callers : \A d \in seen[c] : HasTimestamp(d)

PdInv ==
  /\ CallTypes /\ LockInv /\ GotInv /\ OracleInv /\ QueueInv /\ NobodyForgotten
  /\ RangeInv /\ OrderInv

----------------------------------------------------------------------------
(* Sequences                                                               *)

\* Append adds one member.
LEMMA MembersAppend ==
  ASSUME NEW S, NEW s \in Seq(S), NEW e \in S
  PROVE  /\ Append(s, e) \in Seq(S) /\ Len(Append(s, e)) = Len(s) + 1
         /\ \A i \in 1..Len(s) : Append(s, e)[i] = s[i]
         /\ Append(s, e)[Len(s) + 1] = e
         /\ Members(Append(s, e)) = Members(s) \cup {e}
<1>1. /\ Append(s, e) \in Seq(S) /\ Len(Append(s, e)) = Len(s) + 1
      /\ \A i \in 1..Len(s) : Append(s, e)[i] = s[i]
      /\ Append(s, e)[Len(s) + 1] = e
  BY SMTT(20)
<1>2. Members(Append(s, e)) \subseteq Members(s) \cup {e}
  BY <1>1, SMTT(20) DEF Members
<1>3. Members(s) \cup {e} \subseteq Members(Append(s, e))
  BY <1>1, SMTT(20) DEF Members
<1> QED
  BY <1>1, <1>2, <1>3

\* Head and Tail share out the members.
LEMMA MembersTail ==
  ASSUME NEW S, NEW s \in Seq(S), s # <<>>
  PROVE  /\ Head(s) \in S /\ Tail(s) \in Seq(S) /\ Len(s) > 0 /\ Head(s) = s[1]
         /\ Len(Tail(s)) = Len(s) - 1
         /\ \A i \in 1..Len(Tail(s)) : Tail(s)[i] = s[i + 1]
         /\ Members(s) = {Head(s)} \cup Members(Tail(s))
<1>1. /\ Head(s) \in S /\ Tail(s) \in Seq(S) /\ Len(s) > 0 /\ Head(s) = s[1]
      /\ Len(Tail(s)) = Len(s) - 1
      /\ \A i \in 1..Len(Tail(s)) : Tail(s)[i] = s[i + 1]
  BY SMTT(20)
<1>2. Members(s) \subseteq {Head(s)} \cup Members(Tail(s))
  <2>1. SUFFICES ASSUME NEW i \in 1..Len(s), i # 1 PROVE s[i] \in Members(Tail(s))
    BY <1>1 DEF Members
  <2>2. i - 1 \in 1..Len(Tail(s)) /\ Tail(s)[i - 1] = s[i]
    BY <1>1, <2>1, SMTT(20)
  <2> QED
    BY <2>2 DEF Members
<1>3. {Head(s)} \cup Members(Tail(s)) \subseteq Members(s)
  BY <1>1, SMTT(20) DEF Members
<1> QED
  BY <1>1, <1>2, <1>3

\* A sequence without its i-th element.
Without(s, i) == SubSeq(s, 1, i - 1) \o Drop(s, i)

\* Without takes one element away and keeps the others in order.
LEMMA MembersWithout ==
  ASSUME NEW S, NEW s \in Seq(S), NEW i \in 1..Len(s)
  PROVE  /\ Without(s, i) \in Seq(S) /\ Len(Without(s, i)) = Len(s) - 1
         /\ \A j \in 1..Len(Without(s, i)) : Without(s, i)[j] = IF j < i THEN s[j] ELSE s[j + 1]
         /\ Members(Without(s, i)) \subseteq Members(s)
<1> DEFINE l == SubSeq(s, 1, i - 1)
           r == SubSeq(s, i + 1, Len(s))
<1>1. l \in Seq(S) /\ Len(l) = i - 1 /\ \A j \in 1..(i - 1) : l[j] = s[j]
  BY SMTT(20)
<1>2. r \in Seq(S) /\ Len(r) = Len(s) - i /\ \A j \in 1..(Len(s) - i) : r[j] = s[i + j]
  BY SMTT(20)
<1>3. Without(s, i) = l \o r
  BY DEF Without, Drop
<1> HIDE DEF l, r
<1>4. Without(s, i) \in Seq(S) /\ Len(Without(s, i)) = Len(s) - 1
  BY <1>1, <1>2, <1>3, SMTT(20)
<1>5. ASSUME NEW j \in 1..Len(Without(s, i))
      PROVE  Without(s, i)[j] = IF j < i THEN s[j] ELSE s[j + 1]
  <2>1. CASE j < i
    <3>1. (l \o r)[j] = l[j] /\ j \in 1..(i - 1)
      BY <1>1, <1>2, <1>4, <2>1, SMTT(20)
    <3> QED
      BY <1>1, <1>3, <2>1, <3>1
  <2>2. CASE ~(j < i)
    <3>1. (l \o r)[j] = r[j - (i - 1)] /\ j - (i - 1) \in 1..(Len(s) - i)
      BY <1>1, <1>2, <1>4, <2>2, SMTT(20)
    <3>2. r[j - (i - 1)] = s[i + (j - (i - 1))] /\ i + (j - (i - 1)) = j + 1
      BY <1>2, <3>1, SMTT(20)
    <3> QED
      BY <1>3, <2>2, <3>1, <3>2
  <2> QED
    BY <2>1, <2>2
<1>6. Members(Without(s, i)) \subseteq Members(s)
  BY <1>4, <1>5, SMTT(20) DEF Members
<1> QED
  BY <1>4, <1>5, <1>6

\* A request of another caller is appended.
LEMMA ApartAppend ==
  ASSUME NEW s \in Seq(Request), NEW r \in Request, Apart(s), r.of \notin Owners(s)
  PROVE  Apart(Append(s, r))
<1>1. \A i \in 1..Len(s) : s[i].of # r.of
  BY DEF Owners, Members
<1> QED
  BY <1>1, MembersAppend, SMTT(20) DEF Apart

\* Owners that differ stay different when one is taken away, and that one is gone.
LEMMA ApartWithout ==
  ASSUME NEW s \in Seq(Request), NEW i \in 1..Len(s), Apart(s)
  PROVE  Apart(Without(s, i)) /\ s[i].of \notin Owners(Without(s, i))
<1>1. /\ Len(Without(s, i)) = Len(s) - 1
      /\ \A j \in 1..Len(Without(s, i)) : Without(s, i)[j] = IF j < i THEN s[j] ELSE s[j + 1]
  BY MembersWithout
<1>2. Apart(Without(s, i))
  BY <1>1, SMTT(20) DEF Apart
<1>3. \A j \in 1..Len(Without(s, i)) : Without(s, i)[j].of # s[i].of
  BY <1>1, SMTT(20) DEF Apart
<1> QED
  BY <1>2, <1>3 DEF Owners, Members

\* The same for the first.
LEMMA ApartTail ==
  ASSUME NEW s \in Seq(Request), s # <<>>, Apart(s)
  PROVE  Apart(Tail(s)) /\ Head(s).of \notin Owners(Tail(s))
<1>1. /\ Head(s) = s[1] /\ Len(Tail(s)) = Len(s) - 1 /\ Len(s) > 0
      /\ \A i \in 1..Len(Tail(s)) : Tail(s)[i] = s[i + 1]
  BY MembersTail
<1>2. Apart(Tail(s))
  BY <1>1, SMTT(20) DEF Apart
<1>3. \A j \in 1..Len(Tail(s)) : Tail(s)[j].of # s[1].of
  BY <1>1, SMTT(20) DEF Apart
<1> QED
  BY <1>1, <1>2, <1>3 DEF Owners, Members

----------------------------------------------------------------------------
(* Commands                                                                *)

\* A dispatch that has sent its request keeps its id.
CmdStays ==
  \A c \in Callers : cmd[c].pc \notin {"idle", "registered"} =>
    cmd'[c].pc \notin {"idle", "registered"} /\ cmd'[c].id = cmd[c].id

\* q has no other requests than s.
Part(q, s) == Members(q) \subseteq Members(s) /\ (Apart(s) => Apart(q))

\* No request is put anywhere.
FewerRequests ==
  /\ outbound' = outbound /\ executed' = executed
  /\ sender'.cur \in {None, sender.cur}
  /\ Len(streams') = Len(streams)
  /\ \A k \in 1..Len(streams) : /\ Part(streams'[k].reqs, streams[k].reqs)
                                /\ streams'[k].answers \subseteq streams[k].answers

\* A request stays its caller's.
LEMMA GenuineStays ==
  ASSUME CmdStays, NEW r \in Request, Genuine(r)
  PROVE  Genuine(r)'
BY DEF CmdStays, Genuine, Request

\* The empty sequence.
LEMMA EmptySeq ==
  /\ \A S : <<>> \in Seq(S)
  /\ Len(<<>>) = 0 /\ Members(<<>>) = {} /\ Owners(<<>>) = {} /\ Apart(<<>>)
<1>1. Len(<<>>) = 0 /\ \A S : <<>> \in Seq(S)
  BY SMTT(20)
<1>2. 1..0 = {}
  BY SMTT(20)
<1> QED
  BY <1>1, <1>2 DEF Members, Owners, Apart

\* What is in a stream or a channel is a request.
LEMMA RequestTypes ==
  ASSUME BatchTypes
  PROVE  /\ \A r \in Members(outbound) : r \in Request
         /\ \A k \in 1..Len(streams) : /\ streams[k] \in Stream
                                       /\ \A r \in Members(streams[k].reqs) : r \in Request
                                       /\ \A r \in streams[k].answers : r \in Request
<1>1. \A r \in Members(outbound) : r \in Request
  BY SMTT(20) DEF BatchTypes, Members
<1>2. ASSUME NEW k \in 1..Len(streams) PROVE streams[k] \in Stream
  BY SMTT(20) DEF BatchTypes
<1>3. ASSUME NEW k \in 1..Len(streams), NEW r \in Members(streams[k].reqs) PROVE r \in Request
  <2>1. streams[k].reqs \in Seq(Request)
    BY <1>2 DEF Stream, StreamFields
  <2> QED
    BY <1>3, <2>1, SMTT(20) DEF Members
<1> QED
  BY <1>1, <1>2, <1>3 DEF Stream, StreamFields, Requests

\* Where no request is added, those that are left are genuine and at one place.
LEMMA FewerKeep ==
  ASSUME BatchTypes, GenuineInv, PlaceInv, CmdStays, FewerRequests
  PROVE  GenuineInv' /\ PlaceInv'
<1>1. /\ outbound' = outbound /\ executed' = executed
      /\ sender'.cur \in {None, sender.cur}
      /\ Len(streams') = Len(streams)
  BY DEF FewerRequests
<1>2. ASSUME NEW k \in 1..Len(streams)
      PROVE  /\ Members(streams'[k].reqs) \subseteq Members(streams[k].reqs)
             /\ Owners(streams'[k].reqs) \subseteq Owners(streams[k].reqs)
             /\ Apart(streams[k].reqs) => Apart(streams'[k].reqs)
             /\ streams'[k].answers \subseteq streams[k].answers
  BY DEF FewerRequests, Part, Owners
<1>3. GenuineInv'
  <2>1. \A r \in Members(outbound)' : Genuine(r)'
    BY <1>1, GenuineStays, RequestTypes DEF GenuineInv, Members
  <2>2. (sender.cur # None)' => Genuine(sender.cur)'
    <3>1. SUFFICES ASSUME sender'.cur # None PROVE Genuine(sender.cur)'
      OBVIOUS
    <3>2. sender'.cur = sender.cur /\ sender.cur \in Request
      BY <1>1, <3>1 DEF BatchTypes, Sender
    <3>3. Genuine(sender.cur)
      BY <3>1, <3>2 DEF GenuineInv
    <3> QED
      BY <3>2, <3>3 DEF Genuine, CmdStays, Request
  <2>3. ASSUME NEW k \in 1..Len(streams)
        PROVE  /\ \A r \in Members(streams'[k].reqs) : Genuine(r)'
               /\ \A r \in streams'[k].answers : Genuine(r)' /\ r.of \in Members(executed)'
    BY <1>1, <1>2, GenuineStays, RequestTypes DEF GenuineInv, Members
  <2>4. \A c \in Members(executed)' : cmd'[c].pc \notin {"idle", "registered"}
    <3>1. \A c \in Members(executed) : c \in Callers
      BY SMTT(20) DEF BatchTypes, Members
    <3> QED
      BY <1>1, <3>1 DEF GenuineInv, CmdStays, Members
  <2> QED
    BY <1>1, <2>1, <2>2, <2>3, <2>4 DEF GenuineInv, Members
<1>4. PlaceInv'
  <2>1. \A c \in Callers : InHand(c)' => InHand(c)
    BY <1>1 DEF InHand
  <2>2. ExecutedAtMostOnce'
    BY <1>1 DEF PlaceInv, ExecutedAtMostOnce
  <2>3. Members(executed') = Members(executed) /\ Owners(outbound') = Owners(outbound)
    BY <1>1
  <2> QED
    BY <1>1, <1>2, <2>1, <2>2, <2>3 DEF PlaceInv, InHand
<1> QED
  BY <1>3, <1>4

\* The entry of a command, and the command.
LEMMA MapFact ==
  ASSUME InflightMatches, NEW i \in DOMAIN inflight
  PROVE  /\ cmd[inflight[i]].id = i /\ cmd[inflight[i]].answer = None
         /\ cmd[inflight[i]].pc \in {"registered", "await", "expired", "cancelled"}
BY DEF InflightMatches

\* Entries leave the map, and their callers are told an outcome: an error, or the
\* success of the command each of them waits for.
LEMMA TellKeeps ==
  ASSUME BatchInv, NEW ids, NEW a \in Answer, a # None, Remove(ids),
         Tell({inflight[i] : i \in ids \cap DOMAIN inflight}, a),
         \A i \in ids \cap DOMAIN inflight :
           a.ok => a.of = inflight[i] /\ inflight[i] \in Members(executed),
         UNCHANGED <<nextId, executed>>
  PROVE  /\ cmd' \in [Callers -> Dispatch] /\ CmdStays
         /\ MapInv' /\ IdInv' /\ InflightMatches' /\ AnswerIsOwn'
<1> DEFINE told == {inflight[i] : i \in ids \cap DOMAIN inflight}
<1>1. /\ cmd \in [Callers -> Dispatch] /\ MapInv /\ IdInv /\ InflightMatches /\ AnswerIsOwn
      /\ nextId' = nextId /\ executed' = executed
  BY DEF BatchInv, BatchTypes
<1>2. /\ DOMAIN inflight' = DOMAIN inflight \ ids
      /\ \A i \in DOMAIN inflight' : inflight'[i] = inflight[i]
      /\ inflight' = [i \in DOMAIN inflight' |-> inflight'[i]]
  BY DEF Remove
<1>3. ASSUME NEW c \in Callers
      PROVE  /\ cmd'[c] \in Dispatch /\ cmd'[c].pc = cmd[c].pc /\ cmd'[c].id = cmd[c].id
             /\ IF c \in told /\ cmd[c].pc \in {"registered", "await"}
                THEN cmd'[c].answer = a ELSE cmd'[c].answer = cmd[c].answer
  <2>1. cmd'[c] = IF c \in told /\ cmd[c].pc \in {"registered", "await"}
                  THEN [cmd[c] EXCEPT !.answer = a] ELSE cmd[c]
    BY DEF Tell
  <2>2. cmd[c] \in Dispatch
    BY <1>1
  <2> QED
    BY <2>1, <2>2, SMTT(20) DEF Dispatch
<1>4. cmd' \in [Callers -> Dispatch]
  <2>1. cmd' = [c \in Callers |-> IF c \in told /\ cmd[c].pc \in {"registered", "await"}
                                  THEN [cmd[c] EXCEPT !.answer = a] ELSE cmd[c]]
    BY DEF Tell
  <2>2. DOMAIN cmd' = Callers /\ cmd' = [c \in DOMAIN cmd' |-> cmd'[c]]
    BY <2>1
  <2> HIDE DEF told
  <2> QED
    BY <1>3, <2>2
<1>5. ASSUME NEW i \in ids \cap DOMAIN inflight, NEW j \in DOMAIN inflight',
             inflight[i] = inflight[j]
      PROVE  FALSE
  <2>1. cmd[inflight[i]].id = i /\ cmd[inflight[j]].id = j
    BY <1>1, <1>2, MapFact
  <2> QED
    BY <1>2, <1>5, <2>1
<1>6. CmdStays
  BY <1>3 DEF CmdStays
<1>7. MapInv'
  BY <1>1, <1>2 DEF MapInv
<1>8. IdInv'
  <2>1. \A c \in Callers : c \in told => cmd[c].pc # "idle"
    BY <1>1, MapFact
  <2> HIDE DEF told
  <2> QED
    BY <1>1, <1>3, <2>1 DEF IdInv
<1>9. InflightMatches'
  <2>1. ASSUME NEW c \in Callers, cmd'[c].pc \in {"registered", "await"}, cmd'[c].answer = None
        PROVE  cmd'[c].id \in DOMAIN inflight' /\ inflight'[cmd'[c].id] = c
    <3>1. c \notin told /\ cmd[c].answer = None
      BY <1>3, <2>1
    <3>2. cmd[c].id \in DOMAIN inflight /\ inflight[cmd[c].id] = c
      BY <1>1, <1>3, <2>1, <3>1 DEF InflightMatches
    <3>3. cmd[c].id \notin ids
      BY <3>1, <3>2
    <3>4. cmd[c].id \in DOMAIN inflight' /\ inflight'[cmd[c].id] = c
      BY <1>2, <3>2, <3>3
    <3> QED
      BY <1>3, <3>4
  <2>2. ASSUME NEW i \in DOMAIN inflight'
        PROVE  /\ cmd'[inflight'[i]].id = i
               /\ cmd'[inflight'[i]].pc \in {"registered", "await", "expired", "cancelled"}
               /\ cmd'[inflight'[i]].answer = None
    <3>1. inflight'[i] = inflight[i] /\ i \in DOMAIN inflight /\ inflight[i] \in Callers
      BY <1>1, <1>2 DEF MapInv
    <3>2. inflight[i] \notin told
      BY <1>5, <3>1
    <3>3. /\ cmd[inflight[i]].id = i /\ cmd[inflight[i]].answer = None
          /\ cmd[inflight[i]].pc \in {"registered", "await", "expired", "cancelled"}
      BY <1>1, <3>1, MapFact
    <3> HIDE DEF told
    <3> QED
      BY <1>3, <3>1, <3>2, <3>3
  <2> QED
    BY <2>1, <2>2 DEF InflightMatches
<1>10. AnswerIsOwn'
  <2>1. SUFFICES ASSUME NEW c \in Callers, cmd'[c].answer # None, cmd'[c].answer.ok
                 PROVE  cmd'[c].answer.of = c /\ c \in Members(executed)
    BY <1>1 DEF AnswerIsOwn
  <2>2. CASE cmd'[c].answer = cmd[c].answer
    BY <1>1, <2>1, <2>2 DEF AnswerIsOwn
  <2>3. CASE c \in told /\ cmd'[c].answer = a
    BY <2>1, <2>3
  <2> QED
    BY <1>3, <2>2, <2>3
<1> QED
  BY <1>4, <1>6, <1>7, <1>8, <1>9, <1>10

----------------------------------------------------------------------------
(* dispatch                                                                *)

CmdPcs == {"idle", "registered", "await", "done", "expired", "timeout", "cancelled"}

\* One dispatch takes a step.
LEMMA SetPc ==
  ASSUME cmd \in [Callers -> Dispatch], NEW c \in Callers, NEW x \in CmdPcs,
         cmd' = [cmd EXCEPT ![c].pc = x]
  PROVE  /\ cmd' \in [Callers -> Dispatch]
         /\ \A e \in Callers : cmd'[e].id = cmd[e].id /\ cmd'[e].answer = cmd[e].answer
         /\ \A e \in Callers : e # c => cmd'[e] = cmd[e]
         /\ cmd'[c].pc = x
BY SMTT(20) DEF Dispatch, CmdPcs

\* Nothing moves between the places of a request.
LEMMA SameRequests ==
  ASSUME UNCHANGED <<outbound, sender, streams, executed>>
  PROVE  FewerRequests
BY DEF FewerRequests, Part

\* A new dispatch has a new id.
LEMMA RegisterKeeps ==
  ASSUME BatchInv, NEW c \in Callers, Register(c)
  PROVE  BatchInv'
<1>1. /\ BatchTypes /\ MapInv /\ IdInv /\ GenuineInv /\ PlaceInv /\ InflightMatches /\ AnswerIsOwn
      /\ cmd \in [Callers -> Dispatch] /\ nextId \in Nat
  BY DEF BatchInv, BatchTypes
<1>2. /\ cmd[c].pc = "idle" /\ nextId' = nextId + 1
      /\ inflight' = [i \in DOMAIN inflight \cup {nextId} |-> IF i = nextId THEN c ELSE inflight[i]]
      /\ cmd' = [cmd EXCEPT ![c].pc = "registered", ![c].id = nextId]
      /\ UNCHANGED <<outbound, sender, streams, executed>>
  BY DEF Register
<1>3. /\ cmd' \in [Callers -> Dispatch]
      /\ \A e \in Callers : e # c => cmd'[e] = cmd[e]
      /\ cmd'[c].pc = "registered" /\ cmd'[c].id = nextId /\ cmd'[c].answer = cmd[c].answer
  <2> DEFINE m == [cmd EXCEPT ![c].pc = "registered"]
  <2>1. cmd' = [m EXCEPT ![c].id = nextId]
    BY <1>2
  <2>2. /\ m \in [Callers -> Dispatch] /\ m[c].pc = "registered" /\ m[c].answer = cmd[c].answer
        /\ \A e \in Callers : e # c => m[e] = cmd[e]
    BY <1>1, SMTT(20) DEF Dispatch
  <2> HIDE DEF m
  <2>3. /\ cmd' \in [Callers -> Dispatch]
        /\ \A e \in Callers : e # c => cmd'[e] = m[e]
        /\ cmd'[c].pc = m[c].pc /\ cmd'[c].id = nextId /\ cmd'[c].answer = m[c].answer
    BY <1>1, <2>1, <2>2, SMTT(20) DEF Dispatch
  <2> QED
    BY <2>2, <2>3
<1>4. /\ DOMAIN inflight' = DOMAIN inflight \cup {nextId}
      /\ inflight'[nextId] = c
      /\ \A i \in DOMAIN inflight : i # nextId /\ inflight'[i] = inflight[i]
      /\ inflight' = [i \in DOMAIN inflight' |-> inflight'[i]]
  <2>1. \A i \in DOMAIN inflight : i # nextId
    BY <1>1, SMTT(20) DEF MapInv
  <2> QED
    BY <1>2, <2>1
<1>5. CmdStays
  <2>1. \A e \in Callers : cmd[e].pc # "idle" => cmd'[e] = cmd[e]
    BY <1>2, <1>3
  <2> QED
    BY <2>1 DEF CmdStays
<1>6. BatchTypes'
  <2>1. nextId' \in Nat
    BY <1>1, <1>2, SMTT(20)
  <2> QED
    BY <1>1, <1>2, <1>3, <2>1 DEF BatchTypes
<1>7. GenuineInv' /\ PlaceInv'
  BY <1>1, <1>2, <1>5, SameRequests, FewerKeep
<1>8. nextId < nextId' /\ \A i \in Nat : i < nextId => i < nextId' /\ i # nextId
  BY <1>1, <1>2, SMTT(20)
<1>9. MapInv'
  BY <1>1, <1>4, <1>8 DEF MapInv
<1>10. IdInv'
  <2>1. \A e \in Callers : cmd[e].id \in Nat
    BY <1>1 DEF Dispatch
  <2>2. \A e \in Callers : cmd'[e].pc # "idle" => cmd'[e].id < nextId'
    BY <1>1, <1>3, <1>8, <2>1 DEF IdInv
  <2>3. \A e \in Callers : cmd'[e].pc = "idle" => cmd'[e].answer = None
    BY <1>1, <1>3 DEF IdInv
  <2>4. \A e \in Callers : e # c /\ cmd'[e].pc # "idle" => cmd'[e] = cmd[e] /\ cmd[e].id # nextId
    BY <1>1, <1>3, <1>8, <2>1 DEF IdInv
  <2>5. ASSUME NEW d \in Callers, NEW e \in Callers, cmd'[d].pc # "idle", cmd'[e].pc # "idle",
               cmd'[d].id = cmd'[e].id
        PROVE  d = e
    <3>1. CASE d # c /\ e # c
      BY <1>1, <2>4, <2>5, <3>1 DEF IdInv
    <3>2. CASE d = c \/ e = c
      BY <1>3, <2>4, <2>5, <3>2
    <3> QED
      BY <3>1, <3>2
  <2> QED
    BY <2>2, <2>3, <2>5 DEF IdInv
<1>11. InflightMatches'
  <2>1. ASSUME NEW e \in Callers, cmd'[e].pc \in {"registered", "await"}, cmd'[e].answer = None
        PROVE  cmd'[e].id \in DOMAIN inflight' /\ inflight'[cmd'[e].id] = e
    <3>1. CASE e = c
      BY <1>3, <1>4, <3>1
    <3>2. CASE e # c
      <4>1. cmd'[e] = cmd[e] /\ cmd[e].id \in DOMAIN inflight /\ inflight[cmd[e].id] = e
        BY <1>1, <1>3, <2>1, <3>2 DEF InflightMatches
      <4> QED
        BY <1>4, <4>1
    <3> QED
      BY <3>1, <3>2
  <2>2. ASSUME NEW i \in DOMAIN inflight'
        PROVE  /\ cmd'[inflight'[i]].id = i
               /\ cmd'[inflight'[i]].pc \in {"registered", "await", "expired", "cancelled"}
               /\ cmd'[inflight'[i]].answer = None
    <3>1. CASE i = nextId
      BY <1>1, <1>2, <1>3, <1>4, <3>1 DEF IdInv
    <3>2. CASE i \in DOMAIN inflight
      <4>1. /\ cmd[inflight[i]].id = i /\ cmd[inflight[i]].answer = None
            /\ cmd[inflight[i]].pc \in {"registered", "await", "expired", "cancelled"}
        BY <1>1, <3>2, MapFact
      <4>2. inflight'[i] = inflight[i] /\ inflight[i] # c /\ inflight[i] \in Callers
        BY <1>1, <1>2, <1>4, <3>2, <4>1 DEF MapInv
      <4>3. cmd'[inflight[i]] = cmd[inflight[i]]
        BY <1>3, <4>2
      <4> QED
        BY <4>1, <4>2, <4>3
    <3> QED
      BY <1>4, <3>1, <3>2
  <2> QED
    BY <2>1, <2>2 DEF InflightMatches
<1>12. AnswerIsOwn'
  <2>1. \A e \in Callers : cmd'[e].answer = cmd[e].answer
    BY <1>3
  <2> QED
    BY <1>1, <1>2, <2>1 DEF AnswerIsOwn
<1> QED
  BY <1>6, <1>7, <1>9, <1>10, <1>11, <1>12 DEF BatchInv

\* A step of one dispatch that leaves the map alone keeps it right, unless a
\* command that the map has, or one that waits, comes to be neither.
LEMMA PcKeeps ==
  ASSUME BatchInv, NEW c \in Callers, NEW x \in CmdPcs, cmd' = [cmd EXCEPT ![c].pc = x],
         cmd[c].pc # "idle", x # "idle",
         x \in {"registered", "await"} => cmd[c].pc \in {"registered", "await"},
         cmd[c].pc \in {"registered", "await", "expired", "cancelled"} /\ cmd[c].answer = None
           => x \in {"registered", "await", "expired", "cancelled"},
         UNCHANGED <<nextId, inflight, executed>>
  PROVE  /\ cmd' \in [Callers -> Dispatch]
         /\ MapInv' /\ IdInv' /\ InflightMatches' /\ AnswerIsOwn'
<1>1. /\ MapInv /\ IdInv /\ InflightMatches /\ AnswerIsOwn
      /\ cmd \in [Callers -> Dispatch]
      /\ nextId' = nextId /\ inflight' = inflight /\ executed' = executed
  BY DEF BatchInv, BatchTypes
<1>2. /\ cmd' \in [Callers -> Dispatch]
      /\ \A e \in Callers : cmd'[e].id = cmd[e].id /\ cmd'[e].answer = cmd[e].answer
      /\ \A e \in Callers : e # c => cmd'[e] = cmd[e]
      /\ cmd'[c].pc = x
  BY <1>1, SetPc
<1>3. MapInv' /\ AnswerIsOwn'
  <2>1. MapInv'
    BY <1>1 DEF MapInv
  <2> QED
    BY <1>1, <1>2, <2>1 DEF AnswerIsOwn
<1>4. IdInv'
  <2>1. \A e \in Callers : cmd'[e].pc = "idle" <=> cmd[e].pc = "idle"
    BY <1>2
  <2>2. \A e \in Callers : /\ cmd[e].pc # "idle" => cmd[e].id < nextId'
                           /\ cmd[e].pc = "idle" => cmd'[e].answer = None
    BY <1>1, <1>2 DEF IdInv
  <2>3. \A e, f \in Callers :
          cmd[e].pc # "idle" /\ cmd[f].pc # "idle" /\ cmd'[e].id = cmd'[f].id => e = f
    BY <1>1, <1>2 DEF IdInv
  <2> QED
    BY <1>2, <2>1, <2>2, <2>3 DEF IdInv
<1>5. InflightMatches'
  <2>1. ASSUME NEW e \in Callers, cmd'[e].pc \in {"registered", "await"}, cmd'[e].answer = None
        PROVE  cmd'[e].id \in DOMAIN inflight' /\ inflight'[cmd'[e].id] = e
    <3>1. cmd[e].pc \in {"registered", "await"} /\ cmd[e].answer = None
      BY <1>2, <2>1
    <3>2. cmd[e].id \in DOMAIN inflight /\ inflight[cmd[e].id] = e
      BY <1>1, <3>1 DEF InflightMatches
    <3> QED
      BY <1>1, <1>2, <3>2
  <2>2. ASSUME NEW i \in DOMAIN inflight'
        PROVE  /\ cmd'[inflight'[i]].id = i
               /\ cmd'[inflight'[i]].pc \in {"registered", "await", "expired", "cancelled"}
               /\ cmd'[inflight'[i]].answer = None
    <3>1. /\ cmd[inflight[i]].id = i /\ cmd[inflight[i]].answer = None
          /\ cmd[inflight[i]].pc \in {"registered", "await", "expired", "cancelled"}
          /\ inflight'[i] = inflight[i] /\ inflight[i] \in Callers
      BY <1>1, MapFact DEF MapInv
    <3>2. CASE inflight[i] = c
      BY <1>2, <3>1, <3>2
    <3>3. CASE inflight[i] # c
      BY <1>2, <3>1, <3>3
    <3> QED
      BY <3>2, <3>3
  <2> QED
    BY <2>1, <2>2 DEF InflightMatches
<1> QED
  BY <1>2, <1>3, <1>4, <1>5

\* The answer, the timer and a dropped future end a wait; the map is as before.
LEMMA DispatchEnds ==
  ASSUME BatchInv, NEW c \in Callers, DispatchReturns(c) \/ TimerFires(c) \/ Cancel(c)
  PROVE  BatchInv'
<1>1. /\ BatchTypes /\ GenuineInv /\ PlaceInv /\ cmd \in [Callers -> Dispatch]
      /\ UNCHANGED <<nextId, inflight, outbound, sender, streams, executed>>
      /\ cmd[c].pc \in {"registered", "await"}
  BY DEF BatchInv, BatchTypes, DispatchReturns, TimerFires, Cancel
<1>2. PICK x \in {"done", "expired", "cancelled"} :
        /\ cmd' = [cmd EXCEPT ![c].pc = x]
        /\ x = "done" => cmd[c].answer # None
  BY DEF DispatchReturns, TimerFires, Cancel
<1>3. x \in CmdPcs
  BY <1>2 DEF CmdPcs
<1>4. /\ cmd' \in [Callers -> Dispatch]
      /\ MapInv' /\ IdInv' /\ InflightMatches' /\ AnswerIsOwn'
  BY <1>1, <1>2, <1>3, PcKeeps
<1>5. CmdStays
  BY <1>1, <1>2, <1>3, SetPc DEF CmdStays
<1>6. GenuineInv' /\ PlaceInv'
  BY <1>1, <1>5, SameRequests, FewerKeep
<1>7. BatchTypes'
  BY <1>1, <1>4 DEF BatchTypes
<1> QED
  BY <1>4, <1>6, <1>7 DEF BatchInv

\* An expired command leaves the map.
LEMMA ExpiredKeeps ==
  ASSUME BatchInv, NEW c \in Callers, RemoveExpired(c)
  PROVE  BatchInv'
<1>1. /\ BatchTypes /\ GenuineInv /\ PlaceInv /\ cmd \in [Callers -> Dispatch]
      /\ MapInv /\ IdInv /\ InflightMatches /\ AnswerIsOwn
      /\ UNCHANGED <<nextId, outbound, sender, streams, executed>>
      /\ cmd[c].pc = "expired" /\ cmd' = [cmd EXCEPT ![c].pc = "timeout"]
  BY DEF BatchInv, BatchTypes, RemoveExpired
<1>2. /\ DOMAIN inflight' = DOMAIN inflight \ {cmd[c].id}
      /\ \A i \in DOMAIN inflight' : inflight'[i] = inflight[i]
      /\ inflight' = [i \in DOMAIN inflight' |-> inflight'[i]]
  BY DEF RemoveExpired, Remove
<1>3. /\ cmd' \in [Callers -> Dispatch]
      /\ \A e \in Callers : cmd'[e].id = cmd[e].id /\ cmd'[e].answer = cmd[e].answer
      /\ \A e \in Callers : e # c => cmd'[e] = cmd[e]
      /\ cmd'[c].pc = "timeout"
  BY <1>1, SetPc DEF CmdPcs
<1>4. CmdStays
  BY <1>1, <1>3 DEF CmdStays
<1>5. GenuineInv' /\ PlaceInv'
  BY <1>1, <1>4, SameRequests, FewerKeep
<1>6. BatchTypes' /\ MapInv' /\ AnswerIsOwn'
  <2>1. BatchTypes' /\ MapInv'
    BY <1>1, <1>2, <1>3 DEF BatchTypes, MapInv
  <2> QED
    BY <1>1, <1>3, <2>1 DEF AnswerIsOwn
<1>7. IdInv'
  <2>1. \A e \in Callers : cmd'[e].pc = "idle" <=> cmd[e].pc = "idle"
    BY <1>1, <1>3
  <2>2. \A e \in Callers : /\ cmd[e].pc # "idle" => cmd[e].id < nextId'
                           /\ cmd[e].pc = "idle" => cmd'[e].answer = None
    BY <1>1, <1>3 DEF IdInv
  <2>3. \A e, f \in Callers :
          cmd[e].pc # "idle" /\ cmd[f].pc # "idle" /\ cmd'[e].id = cmd'[f].id => e = f
    BY <1>1, <1>3 DEF IdInv
  <2> QED
    BY <1>3, <2>1, <2>2, <2>3 DEF IdInv
<1>8. InflightMatches'
  <2>1. ASSUME NEW e \in Callers, cmd'[e].pc \in {"registered", "await"}, cmd'[e].answer = None
        PROVE  cmd'[e].id \in DOMAIN inflight' /\ inflight'[cmd'[e].id] = e
    <3>1. e # c /\ cmd'[e] = cmd[e]
      BY <1>3, <2>1
    <3>2. cmd[e].id \in DOMAIN inflight /\ inflight[cmd[e].id] = e
      BY <1>1, <2>1, <3>1 DEF InflightMatches
    <3>3. cmd[e].id # cmd[c].id
      BY <1>1, <2>1, <3>1 DEF IdInv
    <3> QED
      BY <1>2, <3>1, <3>2, <3>3
  <2>2. ASSUME NEW i \in DOMAIN inflight'
        PROVE  /\ cmd'[inflight'[i]].id = i
               /\ cmd'[inflight'[i]].pc \in {"registered", "await", "expired", "cancelled"}
               /\ cmd'[inflight'[i]].answer = None
    <3>1. i \in DOMAIN inflight /\ i # cmd[c].id /\ inflight'[i] = inflight[i]
      BY <1>2
    <3>2. /\ cmd[inflight[i]].id = i /\ cmd[inflight[i]].answer = None
          /\ cmd[inflight[i]].pc \in {"registered", "await", "expired", "cancelled"}
          /\ inflight[i] \in Callers
      BY <1>1, <3>1, MapFact DEF MapInv
    <3>3. inflight[i] # c
      BY <3>1, <3>2
    <3>4. cmd'[inflight[i]] = cmd[inflight[i]]
      BY <1>3, <3>2, <3>3
    <3> QED
      BY <3>1, <3>2, <3>4
  <2> QED
    BY <2>1, <2>2 DEF InflightMatches
<1> QED
  BY <1>3, <1>5, <1>6, <1>7, <1>8 DEF BatchInv

\* A command goes into the channel once: nothing of its caller was there before.
LEMMA EnqueueKeeps ==
  ASSUME BatchInv, NEW c \in Callers, Enqueue(c)
  PROVE  BatchInv'
<1> PICK r : r = [id |-> cmd[c].id, of |-> c]
  OBVIOUS
<1>1. /\ BatchTypes /\ GenuineInv /\ PlaceInv /\ cmd \in [Callers -> Dispatch]
      /\ UNCHANGED <<nextId, inflight, sender, streams, executed>>
      /\ cmd[c].pc = "registered" /\ Len(outbound) < OutboundCap /\ cmd' = [cmd EXCEPT ![c].pc = "await"]
      /\ outbound' = Append(outbound, r)
  BY DEF BatchInv, BatchTypes, Enqueue
<1>2. "await" \in CmdPcs
  BY DEF CmdPcs
<1>3. /\ cmd' \in [Callers -> Dispatch]
      /\ MapInv' /\ IdInv' /\ InflightMatches' /\ AnswerIsOwn'
  BY <1>1, <1>2, PcKeeps
<1>4. /\ \A e \in Callers : cmd'[e].id = cmd[e].id /\ cmd'[e].answer = cmd[e].answer
      /\ \A e \in Callers : e # c => cmd'[e] = cmd[e]
      /\ cmd'[c].pc = "await"
  BY <1>1, <1>2, SetPc
<1>5. CmdStays
  BY <1>1, <1>4 DEF CmdStays
<1>6. r \in Request /\ r.of = c /\ r.id = cmd[c].id /\ outbound \in Seq(Request)
  <2>1. cmd[c].id \in Nat
    BY <1>1 DEF Dispatch
  <2> QED
    BY <1>1, <2>1, SMTT(20) DEF Request, BatchTypes
<1>7. /\ outbound' \in Seq(Request)
      /\ Members(outbound') = Members(outbound) \cup {r}
  <2>1. /\ Append(outbound, r) \in Seq(Request)
        /\ Members(Append(outbound, r)) = Members(outbound) \cup {r}
    BY <1>6, MembersAppend, SMTT(20)
  <2> QED
    BY <1>1, <2>1
<1>8. Owners(outbound') = Owners(outbound) \cup {c}
  BY <1>6, <1>7 DEF Owners
<1>9. /\ c \notin Owners(outbound) /\ ~InHand(c) /\ c \notin Members(executed)
      /\ \A k \in 1..Len(streams) : c \notin Owners(streams[k].reqs)
  <2>1. \A q : Genuine(q) => q.of # c
    BY <1>1 DEF Genuine
  <2> QED
    BY <1>1, <2>1 DEF GenuineInv, Owners, InHand
<1>10. BatchTypes'
  <2>1. Len(outbound') <= OutboundCap
    BY <1>1, <1>6, CapAssumption, SMTT(20)
  <2> QED
    BY <1>1, <1>3, <1>7, <2>1 DEF BatchTypes
<1>11. GenuineInv'
  <2>1. Genuine(r)'
    BY <1>4, <1>6 DEF Genuine
  <2>6. \A q \in Request : Genuine(q) => Genuine(q)'
    BY <1>5, GenuineStays
  <2>2. \A q \in Members(outbound') : Genuine(q)'
    BY <1>1, <1>7, <2>6, <2>1, RequestTypes DEF GenuineInv
  <2>3. sender.cur # None => Genuine(sender.cur)'
    <3>1. SUFFICES ASSUME sender.cur # None PROVE Genuine(sender.cur)'
      OBVIOUS
    <3>2. Genuine(sender.cur) /\ sender.cur.of \in Callers /\ sender' = sender
      BY <1>1, <3>1 DEF GenuineInv, BatchTypes, Sender, Request
    <3> QED
      BY <1>5, <3>2 DEF Genuine, CmdStays
  <2>4. \A k \in 1..Len(streams) :
          /\ \A q \in Members(streams[k].reqs) : Genuine(q)'
          /\ \A q \in streams[k].answers : Genuine(q)' /\ q.of \in Members(executed)
    BY <1>1, <1>5, GenuineStays, RequestTypes DEF GenuineInv
  <2>5. \A e \in Members(executed) : cmd'[e].pc \notin {"idle", "registered"}
    <3>1. \A e \in Members(executed) : e \in Callers
      BY <1>1, SMTT(20) DEF BatchTypes, Members
    <3> QED
      BY <1>1, <1>5, <3>1 DEF GenuineInv, CmdStays
  <2> QED
    BY <1>1, <2>2, <2>3, <2>4, <2>5 DEF GenuineInv
<1>12. PlaceInv'
  <2>1. Apart(outbound')
    BY <1>1, <1>6, <1>9, ApartAppend DEF PlaceInv
  <2>2. \A e \in Callers : InHand(e)' <=> InHand(e)
    BY <1>1 DEF InHand
  <2>3. ASSUME NEW e \in Callers
        PROVE  /\ InHand(e) => e \notin Owners(outbound')
               /\ e \in Members(executed) => e \notin Owners(outbound') /\ ~InHand(e)
    BY <1>1, <1>8, <1>9 DEF PlaceInv
  <2>4. ASSUME NEW e \in Callers, NEW k \in 1..Len(streams), e \in Owners(streams[k].reqs)
        PROVE  /\ e \notin Owners(outbound') /\ ~InHand(e) /\ e \notin Members(executed)
               /\ \A l \in 1..Len(streams) : e \in Owners(streams[l].reqs) => k = l
    <3>1. e # c
      BY <1>9, <2>4
    <3> QED
      BY <1>1, <1>8, <2>4, <3>1 DEF PlaceInv
  <2> QED
    BY <1>1, <2>1, <2>2, <2>3, <2>4 DEF PlaceInv, ExecutedAtMostOnce
<1> QED
  BY <1>3, <1>10, <1>11, <1>12 DEF BatchInv

----------------------------------------------------------------------------
(* The loops and TiKV                                                      *)

\* What a stream keeps when one of its parts changes.
SameStreams(s, m, k) ==
  /\ m \in Seq(Stream) /\ Len(m) = Len(s)
  /\ \A l \in 1..Len(s) : l # k => m[l] = s[l]

\* A part of a sequence is replaced.
LEMMA SetElement ==
  ASSUME NEW S, NEW s \in Seq(S), NEW k \in 1..Len(s), NEW x \in S
  PROVE  /\ [s EXCEPT ![k] = x] \in Seq(S) /\ Len([s EXCEPT ![k] = x]) = Len(s)
         /\ [s EXCEPT ![k] = x][k] = x
         /\ \A l \in 1..Len(s) : l # k => [s EXCEPT ![k] = x][l] = s[l]
BY SMTT(20)

\* A stream is replaced.
LEMMA SetStream ==
  ASSUME NEW s \in Seq(Stream), NEW k \in 1..Len(s), NEW x \in Stream
  PROVE  LET m == [s EXCEPT ![k] = x]
         IN SameStreams(s, m, k) /\ m[k] = x
<1>1. /\ [s EXCEPT ![k] = x] \in Seq(Stream) /\ Len([s EXCEPT ![k] = x]) = Len(s)
      /\ [s EXCEPT ![k] = x][k] = x
      /\ \A l \in 1..Len(s) : l # k => [s EXCEPT ![k] = x][l] = s[l]
  BY SetElement, SMTT(20)
<1> QED
  BY <1>1 DEF SameStreams

\* The requests of a stream change.
LEMMA SetReqs ==
  ASSUME NEW s \in Seq(Stream), NEW k \in 1..Len(s), NEW q \in Seq(Request),
         Fill(q, s[k].taken)
  PROVE  LET m == [s EXCEPT ![k].reqs = q]
         IN SameStreams(s, m, k) /\ m[k].reqs = q /\ m[k].answers = s[k].answers
<1> DEFINE x == [s[k] EXCEPT !.reqs = q]
<1>1. s[k] \in Stream
  BY SMTT(20)
<1>2. ASSUME NEW t \in StreamFields
      PROVE  /\ [t EXCEPT !.reqs = q] \in StreamFields
             /\ [t EXCEPT !.reqs = q].reqs = q
             /\ [t EXCEPT !.reqs = q].taken = t.taken
             /\ [t EXCEPT !.reqs = q].answers = t.answers
  BY DEF StreamFields
<1>3. x \in Stream /\ x.reqs = q /\ x.answers = s[k].answers
  BY <1>1, <1>2 DEF Stream
<1> HIDE DEF x
<1>4. /\ [s EXCEPT ![k] = x] \in Seq(Stream) /\ Len([s EXCEPT ![k] = x]) = Len(s)
      /\ [s EXCEPT ![k] = x][k] = x
      /\ \A l \in 1..Len(s) : l # k => [s EXCEPT ![k] = x][l] = s[l]
  BY <1>3, SetElement, SMTT(20)
<1> QED
  BY <1>3, <1>4 DEF SameStreams, x

\* The answers of a stream change.
LEMMA SetAnswers ==
  ASSUME NEW s \in Seq(Stream), NEW k \in 1..Len(s), NEW a \in Requests
  PROVE  LET m == [s EXCEPT ![k].answers = a]
         IN SameStreams(s, m, k) /\ m[k].reqs = s[k].reqs /\ m[k].answers = a
<1> DEFINE x == [s[k] EXCEPT !.answers = a]
<1>1. s[k] \in Stream
  BY SMTT(20)
<1>2. ASSUME NEW t \in Stream
      PROVE  /\ [t EXCEPT !.answers = a] \in Stream
             /\ [t EXCEPT !.answers = a].reqs = t.reqs
             /\ [t EXCEPT !.answers = a].answers = a
  BY DEF Stream, StreamFields
<1>3. x \in Stream /\ x.reqs = s[k].reqs /\ x.answers = a
  BY <1>1, <1>2
<1> HIDE DEF x
<1>4. /\ [s EXCEPT ![k] = x] \in Seq(Stream) /\ Len([s EXCEPT ![k] = x]) = Len(s)
      /\ [s EXCEPT ![k] = x][k] = x
      /\ \A l \in 1..Len(s) : l # k => [s EXCEPT ![k] = x][l] = s[l]
  BY <1>3, SetElement, SMTT(20)
<1> QED
  BY <1>3, <1>4 DEF SameStreams, x

\* A stream is marked broken.
LEMMA SetBroken ==
  ASSUME NEW s \in Seq(Stream), NEW k \in 1..Len(s)
  PROVE  LET m == [s EXCEPT ![k].broken = TRUE]
         IN SameStreams(s, m, k) /\ m[k].reqs = s[k].reqs /\ m[k].answers = s[k].answers
<1> DEFINE x == [s[k] EXCEPT !.broken = TRUE]
<1>1. s[k] \in Stream
  BY SMTT(20)
<1>2. ASSUME NEW t \in Stream
      PROVE  /\ [t EXCEPT !.broken = TRUE] \in Stream
             /\ [t EXCEPT !.broken = TRUE].reqs = t.reqs
             /\ [t EXCEPT !.broken = TRUE].answers = t.answers
  BY DEF Stream, StreamFields
<1>3. x \in Stream /\ x.reqs = s[k].reqs /\ x.answers = s[k].answers
  BY <1>1, <1>2
<1> HIDE DEF x
<1>4. /\ [s EXCEPT ![k] = x] \in Seq(Stream) /\ Len([s EXCEPT ![k] = x]) = Len(s)
      /\ [s EXCEPT ![k] = x][k] = x
      /\ \A l \in 1..Len(s) : l # k => [s EXCEPT ![k] = x][l] = s[l]
  BY <1>3, SetElement, SMTT(20)
<1> QED
  BY <1>3, <1>4 DEF SameStreams, x

\* The transport takes requests of a stream.
LEMMA SetTaken ==
  ASSUME NEW s \in Seq(Stream), NEW k \in 1..Len(s), NEW n \in Nat, Fill(s[k].reqs, n)
  PROVE  LET m == [s EXCEPT ![k].taken = n]
         IN SameStreams(s, m, k) /\ m[k].reqs = s[k].reqs /\ m[k].answers = s[k].answers
<1> DEFINE x == [s[k] EXCEPT !.taken = n]
<1>1. s[k] \in Stream
  BY SMTT(20)
<1>2. ASSUME NEW t \in StreamFields
      PROVE  /\ [t EXCEPT !.taken = n] \in StreamFields
             /\ [t EXCEPT !.taken = n].reqs = t.reqs
             /\ [t EXCEPT !.taken = n].taken = n
             /\ [t EXCEPT !.taken = n].answers = t.answers
  BY DEF StreamFields
<1>3. x \in Stream /\ x.reqs = s[k].reqs /\ x.answers = s[k].answers
  BY <1>1, <1>2 DEF Stream
<1> HIDE DEF x
<1>4. /\ [s EXCEPT ![k] = x] \in Seq(Stream) /\ Len([s EXCEPT ![k] = x]) = Len(s)
      /\ [s EXCEPT ![k] = x][k] = x
      /\ \A l \in 1..Len(s) : l # k => [s EXCEPT ![k] = x][l] = s[l]
  BY <1>3, SetElement, SMTT(20)
<1> QED
  BY <1>3, <1>4 DEF SameStreams, x

\* The receive loop of a stream is over.
LEMMA SetLoop ==
  ASSUME NEW s \in Seq(Stream), NEW k \in 1..Len(s)
  PROVE  LET m == [s EXCEPT ![k].loop = FALSE]
         IN SameStreams(s, m, k) /\ m[k].reqs = s[k].reqs /\ m[k].answers = s[k].answers
<1> DEFINE x == [s[k] EXCEPT !.loop = FALSE]
<1>1. s[k] \in Stream
  BY SMTT(20)
<1>2. ASSUME NEW t \in Stream
      PROVE  /\ [t EXCEPT !.loop = FALSE] \in Stream
             /\ [t EXCEPT !.loop = FALSE].reqs = t.reqs
             /\ [t EXCEPT !.loop = FALSE].answers = t.answers
  BY DEF Stream, StreamFields
<1>3. x \in Stream /\ x.reqs = s[k].reqs /\ x.answers = s[k].answers
  BY <1>1, <1>2
<1> HIDE DEF x
<1>4. /\ [s EXCEPT ![k] = x] \in Seq(Stream) /\ Len([s EXCEPT ![k] = x]) = Len(s)
      /\ [s EXCEPT ![k] = x][k] = x
      /\ \A l \in 1..Len(s) : l # k => [s EXCEPT ![k] = x][l] = s[l]
  BY <1>3, SetElement, SMTT(20)
<1> QED
  BY <1>3, <1>4 DEF SameStreams, x

\* Changes made one after the other.
LEMMA SameTwice ==
  ASSUME NEW s, NEW m, NEW n, NEW k, SameStreams(s, m, k), SameStreams(m, n, k)
  PROVE  SameStreams(s, n, k)
BY DEF SameStreams

\* What does not touch the dispatches and the map.
LEMMA MapStays ==
  ASSUME BatchInv, UNCHANGED <<nextId, inflight, cmd>>, Members(executed) \subseteq Members(executed')
  PROVE  /\ cmd' \in [Callers -> Dispatch] /\ nextId' \in Nat /\ CmdStays
         /\ MapInv' /\ IdInv' /\ InflightMatches' /\ AnswerIsOwn'
<1>1. /\ cmd \in [Callers -> Dispatch] /\ nextId \in Nat
      /\ MapInv /\ IdInv /\ InflightMatches /\ AnswerIsOwn
      /\ nextId' = nextId /\ inflight' = inflight /\ cmd' = cmd
  BY DEF BatchInv, BatchTypes
<1>2. CmdStays /\ MapInv' /\ IdInv'
  BY <1>1 DEF CmdStays, MapInv, IdInv
<1>3. InflightMatches'
  BY <1>1 DEF InflightMatches
<1>4. AnswerIsOwn'
  BY <1>1 DEF AnswerIsOwn
<1> QED
  BY <1>1, <1>2, <1>3, <1>4

\* What is left of a sequence is a part of it.
LEMMA FrontPart ==
  ASSUME NEW q \in Seq(Request), NEW n \in Nat, n <= Len(q)
  PROVE  /\ SubSeq(q, 1, n) \in Seq(Request) /\ Len(SubSeq(q, 1, n)) = n
         /\ Part(SubSeq(q, 1, n), q)
<1>1. /\ SubSeq(q, 1, n) \in Seq(Request) /\ Len(SubSeq(q, 1, n)) = n
      /\ \A i \in 1..n : SubSeq(q, 1, n)[i] = q[i]
  BY SMTT(20)
<1>2. \A i \in 1..n : i \in 1..Len(q)
  BY SMTT(20)
<1>3. Members(SubSeq(q, 1, n)) \subseteq Members(q)
  BY <1>1, <1>2 DEF Members
<1>4. Apart(q) => Apart(SubSeq(q, 1, n))
  BY <1>1, <1>2 DEF Apart
<1> QED
  BY <1>1, <1>3, <1>4 DEF Part

\* A stream is of its type, and the number of requests taken from it fits.
LEMMA StreamFact ==
  ASSUME BatchTypes, NEW k \in 1..Len(streams)
  PROVE  /\ streams[k] \in Stream /\ streams[k] \in StreamFields
         /\ streams[k].reqs \in Seq(Request) /\ streams[k].taken \in Nat
         /\ Fill(streams[k].reqs, streams[k].taken)
<1>1. streams[k] \in Stream
  BY RequestTypes
<1> QED
  BY <1>1 DEF Stream, StreamFields

\* A stream breaks, the transport takes a request, or it drops the receiver with
\* what is in the channel.
LEMMA StreamGoes ==
  ASSUME BatchInv, NEW k \in 1..Len(streams), StreamBreaks(k) \/ Transmit(k) \/ ReceiverDropped(k)
  PROVE  BatchInv'
<1>1. /\ BatchTypes /\ GenuineInv /\ PlaceInv /\ streams \in Seq(Stream)
      /\ UNCHANGED <<nextId, inflight, outbound, sender, cmd, executed>>
  BY DEF BatchInv, BatchTypes, StreamBreaks, Transmit, ReceiverDropped
<1>2. /\ SameStreams(streams, streams', k)
      /\ Part(streams'[k].reqs, streams[k].reqs)
      /\ streams'[k].answers = streams[k].answers
  <2>1. CASE StreamBreaks(k)
    <3>1. streams' = [streams EXCEPT ![k].broken = TRUE]
      BY <2>1 DEF StreamBreaks
    <3>2. /\ SameStreams(streams, streams', k) /\ streams'[k].reqs = streams[k].reqs
          /\ streams'[k].answers = streams[k].answers
      BY <1>1, <3>1, SetBroken
    <3> QED
      BY <3>2 DEF Part
  <2>2. CASE Transmit(k)
    <3>1. PICK n : n = streams[k].taken + 1
      OBVIOUS
    <3>2. streams' = [streams EXCEPT ![k].taken = n] /\ Waiting(streams[k]) > 0
      BY <2>2, <3>1 DEF Transmit
    <3>3. n \in Nat /\ Fill(streams[k].reqs, n)
      BY <1>1, <3>1, <3>2, StreamFact, CapAssumption, SMTT(20) DEF Fill, Waiting
    <3>4. /\ SameStreams(streams, streams', k) /\ streams'[k].reqs = streams[k].reqs
          /\ streams'[k].answers = streams[k].answers
      BY <1>1, <3>2, <3>3, SetTaken
    <3> QED
      BY <3>4 DEF Part
  <2>3. CASE ReceiverDropped(k)
    <3>1. PICK q : q = SubSeq(streams[k].reqs, 1, streams[k].taken)
      OBVIOUS
    <3>2. PICK x : x = [streams[k] EXCEPT !.open = FALSE, !.reqs = q]
      OBVIOUS
    <3>3. streams' = [streams EXCEPT ![k] = x]
      BY <2>3, <3>1, <3>2 DEF ReceiverDropped
    <3>4. streams[k].taken <= Len(streams[k].reqs)
      BY <1>1, StreamFact DEF Fill
    <3>5. q \in Seq(Request) /\ Len(q) = streams[k].taken /\ Part(q, streams[k].reqs)
      BY <1>1, <3>1, <3>4, StreamFact, FrontPart
    <3>6. Fill(q, streams[k].taken)
      BY <1>1, <3>5, StreamFact, CapAssumption, SMTT(20) DEF Fill
    <3>7. ASSUME NEW t \in StreamFields
          PROVE  LET u == [t EXCEPT !.open = FALSE, !.reqs = q]
                 IN /\ u \in StreamFields /\ u.reqs = q /\ u.taken = t.taken
                    /\ u.answers = t.answers
      BY <3>5 DEF StreamFields
    <3>8. x \in Stream /\ x.reqs = q /\ x.answers = streams[k].answers
      BY <1>1, <3>2, <3>6, <3>7, StreamFact DEF Stream
    <3>9. SameStreams(streams, streams', k) /\ streams'[k] = x
      BY <1>1, <3>3, <3>8, SetStream
    <3> QED
      BY <3>5, <3>8, <3>9
  <2> QED
    BY <2>1, <2>2, <2>3
<1>3. /\ MapInv' /\ IdInv' /\ InflightMatches' /\ AnswerIsOwn' /\ CmdStays
  BY <1>1, MapStays
<1>4. FewerRequests
  BY <1>1, <1>2 DEF FewerRequests, SameStreams, Part
<1>5. GenuineInv' /\ PlaceInv'
  BY <1>1, <1>3, <1>4, FewerKeep
<1>6. BatchTypes'
  BY <1>1, <1>2 DEF BatchTypes, SameStreams
<1> QED
  BY <1>3, <1>5, <1>6 DEF BatchInv

\* The send loop takes the oldest command: it is in its hand and not in the channel.
LEMMA TakeKeeps ==
  ASSUME BatchInv, TakeOutbound
  PROVE  BatchInv'
<1>1. /\ BatchTypes /\ GenuineInv /\ PlaceInv
      /\ UNCHANGED <<nextId, inflight, streams, cmd, executed>>
      /\ outbound \in Seq(Request) /\ outbound # <<>> /\ sender.cur = None
      /\ sender' = [sender EXCEPT !.cur = Head(outbound)]
      /\ outbound' = Tail(outbound)
  BY DEF BatchInv, BatchTypes, TakeOutbound
<1>2. /\ Head(outbound) \in Request /\ outbound' \in Seq(Request)
      /\ Members(outbound) = {Head(outbound)} \cup Members(outbound')
  BY <1>1, MembersTail, SMTT(20)
<1>3. Apart(outbound') /\ Head(outbound).of \notin Owners(outbound')
  BY <1>1, ApartTail DEF PlaceInv
<1>4. PICK r : r = Head(outbound)
  OBVIOUS
<1>5. sender' \in Sender /\ sender'.cur = r /\ sender'.conn = sender.conn
  <2>1. sender \in Sender /\ r \in Request
    BY <1>1, <1>2, <1>4 DEF BatchTypes
  <2> QED
    BY <1>1, <1>4, <2>1 DEF Sender
<1>6. Owners(outbound') \subseteq Owners(outbound) /\ r.of \in Owners(outbound)
  BY <1>2, <1>4 DEF Owners
<1>7. /\ MapInv' /\ IdInv' /\ InflightMatches' /\ AnswerIsOwn'
  BY <1>1, MapStays
<1>8. BatchTypes'
  <2>1. Len(outbound') <= OutboundCap
    BY <1>1, CapAssumption, SMTT(20) DEF BatchTypes
  <2> QED
    BY <1>1, <1>2, <1>5, <2>1 DEF BatchTypes
<1>9. GenuineInv'
  <2>1. \A q : Genuine(q)' <=> Genuine(q)
    BY <1>1 DEF Genuine
  <2>2. Genuine(r) /\ \A q \in Members(outbound') : Genuine(q)
    BY <1>1, <1>2, <1>4 DEF GenuineInv
  <2>3. Genuine(sender.cur)'
    BY <1>1, <1>5, <2>2 DEF Genuine
  <2> QED
    BY <1>1, <2>1, <2>2, <2>3 DEF GenuineInv
<1>10. PlaceInv'
  <2>1. ASSUME NEW c \in Callers
        PROVE  InHand(c)' => c = r.of
    BY <1>5 DEF InHand
  <2>2. ASSUME NEW c \in Callers
        PROVE  /\ InHand(c)' => c \notin Owners(outbound')
               /\ c \in Members(executed) => c \notin Owners(outbound') /\ ~InHand(c)'
    BY <1>1, <1>3, <1>4, <1>6, <2>1 DEF PlaceInv
  <2>3. ASSUME NEW c \in Callers, NEW k \in 1..Len(streams), c \in Owners(streams[k].reqs)
        PROVE  /\ c \notin Owners(outbound') /\ ~InHand(c)' /\ c \notin Members(executed)
               /\ \A l \in 1..Len(streams) : c \in Owners(streams[l].reqs) => k = l
    BY <1>1, <1>6, <2>1, <2>3 DEF PlaceInv
  <2> QED
    BY <1>1, <1>3, <2>2, <2>3 DEF PlaceInv, ExecutedAtMostOnce
<1> QED
  BY <1>7, <1>8, <1>9, <1>10 DEF BatchInv

\* A new stream is empty.
LEMMA ConnectKeeps ==
  ASSUME BatchInv, Connect
  PROVE  BatchInv'
<1>1. /\ BatchTypes /\ GenuineInv /\ PlaceInv /\ sender \in Sender /\ streams \in Seq(Stream)
      /\ UNCHANGED <<nextId, inflight, outbound, cmd, executed>>
      /\ streams' = Append(streams, NewStream)
      /\ sender' = [sender EXCEPT !.conn = Len(streams) + 1]
  BY DEF BatchInv, BatchTypes, Connect
<1>2. /\ NewStream \in Stream /\ Members(NewStream.reqs) = {} /\ Owners(NewStream.reqs) = {}
      /\ Apart(NewStream.reqs) /\ NewStream.answers = {}
  <2>1. 0 \in Nat /\ Fill(<<>>, 0)
    BY CapAssumption, SMTT(20) DEF Fill
  <2> QED
    BY <2>1, EmptySeq DEF NewStream, Stream, StreamFields, Requests
<1>3. Len(streams) \in Nat
  BY <1>1, SMTT(20)
<1>4. PICK n \in Nat : n = Len(streams)
  BY <1>3
<1>5. n + 1 \in Nat /\ n + 1 \in 0..(n + 1) /\ 1..(n + 1) = (1..n) \cup {n + 1}
  BY <1>4, SMTT(20)
<1>6. /\ streams' \in Seq(Stream) /\ Len(streams') = n + 1
      /\ \A k \in 1..n : streams'[k] = streams[k]
      /\ streams'[n + 1] = NewStream
  BY <1>1, <1>2, <1>4, MembersAppend, SMTT(20)
<1>7. sender' \in Sender /\ sender'.cur = sender.cur /\ sender'.conn = n + 1
  BY <1>1, <1>4, <1>5 DEF Sender
<1>8. /\ MapInv' /\ IdInv' /\ InflightMatches' /\ AnswerIsOwn'
  BY <1>1, MapStays
<1>9. BatchTypes'
  BY <1>1, <1>5, <1>6, <1>7 DEF BatchTypes
<1>10. GenuineInv'
  <2>1. \A q : Genuine(q)' <=> Genuine(q)
    BY <1>1 DEF Genuine
  <2>2. (sender.cur # None)' => Genuine(sender.cur)'
    BY <1>1, <1>7 DEF GenuineInv, Genuine
  <2>3. ASSUME NEW k \in 1..Len(streams')
        PROVE  /\ \A q \in Members(streams'[k].reqs) : Genuine(q)
               /\ \A q \in streams'[k].answers : Genuine(q) /\ q.of \in Members(executed)
    <3>1. CASE k \in 1..n
      BY <1>1, <1>4, <1>6, <3>1 DEF GenuineInv
    <3>2. CASE k = n + 1
      BY <1>2, <1>6, <3>2
    <3>3. k \in 1..n \/ k = n + 1
      BY <1>6, SMTT(20)
    <3> QED
      BY <3>1, <3>2, <3>3
  <2> QED
    BY <1>1, <2>1, <2>2, <2>3 DEF GenuineInv
<1>11. PlaceInv'
  <2>1. \A c \in Callers : InHand(c)' <=> InHand(c)
    BY <1>7 DEF InHand
  <2>2. ASSUME NEW k \in 1..Len(streams')
        PROVE  Apart(streams'[k].reqs)
    <3>1. CASE k \in 1..n
      BY <1>1, <1>4, <1>6, <3>1 DEF PlaceInv
    <3>2. CASE k = n + 1
      BY <1>2, <1>6, <3>2
    <3>3. k \in 1..n \/ k = n + 1
      BY <1>6, SMTT(20)
    <3> QED
      BY <3>1, <3>2, <3>3
  <2>3. ASSUME NEW c \in Callers, NEW k \in 1..Len(streams'), c \in Owners(streams'[k].reqs)
        PROVE  k \in 1..Len(streams) /\ streams'[k] = streams[k]
    <3>1. k # n + 1
      BY <1>2, <1>6, <2>3
    <3> QED
      BY <1>4, <1>5, <1>6, <3>1
  <2>4. ASSUME NEW c \in Callers, NEW k \in 1..Len(streams'), c \in Owners(streams'[k].reqs)
        PROVE  /\ c \notin Owners(outbound') /\ ~InHand(c)' /\ c \notin Members(executed')
               /\ \A l \in 1..Len(streams') : c \in Owners(streams'[l].reqs) => k = l
    <3>1. k \in 1..Len(streams) /\ c \in Owners(streams[k].reqs)
      BY <2>3, <2>4
    <3>2. ASSUME NEW l \in 1..Len(streams'), c \in Owners(streams'[l].reqs) PROVE k = l
      <4>1. l \in 1..Len(streams) /\ c \in Owners(streams[l].reqs)
        BY <2>3, <3>2
      <4> QED
        BY <1>1, <3>1, <4>1 DEF PlaceInv
    <3> QED
      BY <1>1, <2>1, <3>1, <3>2 DEF PlaceInv
  <2>5. /\ Apart(outbound)' /\ ExecutedAtMostOnce'
        /\ \A c \in Callers :
             /\ InHand(c)' => c \notin Owners(outbound')
             /\ c \in Members(executed') => c \notin Owners(outbound') /\ ~InHand(c)'
    BY <1>1, <2>1 DEF PlaceInv, ExecutedAtMostOnce
  <2> QED
    BY <2>2, <2>4, <2>5 DEF PlaceInv
<1> QED
  BY <1>8, <1>9, <1>10, <1>11 DEF BatchInv

\* An error is an answer.
LEMMA UnavailableFact == Unavailable \in Answer /\ Unavailable # None /\ ~Unavailable.ok
BY AnswerAssumption DEF Unavailable, Answer

\* No stream can be made: the command at hand fails.
LEMMA ConnectFailsKeeps ==
  ASSUME BatchInv, ConnectFails
  PROVE  BatchInv'
<1>1. PICK id : id = sender.cur.id
  OBVIOUS
<1>2. /\ BatchTypes /\ GenuineInv /\ PlaceInv /\ sender \in Sender
      /\ UNCHANGED <<nextId, outbound, streams, executed>>
      /\ Remove({id})
      /\ Tell({inflight[i] : i \in {id} \cap DOMAIN inflight}, Unavailable)
      /\ sender' = [sender EXCEPT !.cur = None]
  BY <1>1 DEF BatchInv, BatchTypes, ConnectFails
<1>3. /\ cmd' \in [Callers -> Dispatch] /\ CmdStays
      /\ MapInv' /\ IdInv' /\ InflightMatches' /\ AnswerIsOwn'
  BY <1>2, UnavailableFact, TellKeeps
<1>4. sender' \in Sender /\ sender'.cur = None /\ sender'.conn = sender.conn
  BY <1>2 DEF Sender
<1>5. FewerRequests
  BY <1>2, <1>4 DEF FewerRequests, Part
<1>6. GenuineInv' /\ PlaceInv'
  BY <1>2, <1>3, <1>5, FewerKeep
<1>7. BatchTypes'
  BY <1>2, <1>3, <1>4 DEF BatchTypes
<1> QED
  BY <1>3, <1>6, <1>7 DEF BatchInv

\* An answer is for the caller whose id it carries.
LEMMA ReceiveKeeps ==
  ASSUME BatchInv, NEW k \in 1..Len(streams), ReceiveAnswer(k)
  PROVE  BatchInv'
<1>1. PICK r \in streams[k].answers :
        /\ streams' = [streams EXCEPT ![k].answers = streams[k].answers \ {r}]
        /\ Remove({r.id})
        /\ Tell({inflight[i] : i \in {r.id} \cap DOMAIN inflight}, OkFor(r.of))
        /\ UNCHANGED <<nextId, outbound, sender, executed>>
  BY DEF ReceiveAnswer
<1>2. /\ BatchTypes /\ GenuineInv /\ PlaceInv /\ streams \in Seq(Stream) /\ MapInv
      /\ IdInv /\ InflightMatches
  BY DEF BatchInv, BatchTypes
<1>3. streams[k].answers \subseteq Request
  BY <1>2, RequestTypes
<1>4. r \in Request /\ Genuine(r) /\ r.of \in Members(executed) /\ r.of \in Callers
  BY <1>2, <1>3 DEF GenuineInv, Request
<1>5. OkFor(r.of) \in Answer /\ OkFor(r.of) # None /\ OkFor(r.of).of = r.of
  BY <1>4, AnswerAssumption DEF OkFor, Answer
<1>6. \A i \in {r.id} \cap DOMAIN inflight : OkFor(r.of).of = inflight[i] /\ inflight[i] \in Members(executed)
  <2>1. SUFFICES ASSUME r.id \in DOMAIN inflight PROVE inflight[r.id] = r.of
    BY <1>4, <1>5
  <2>2. /\ cmd[inflight[r.id]].id = r.id /\ inflight[r.id] \in Callers
        /\ cmd[inflight[r.id]].pc \in {"registered", "await", "expired", "cancelled"}
    BY <1>2, <2>1, MapFact DEF MapInv
  <2>3. cmd[r.of].pc # "idle" /\ cmd[r.of].id = r.id
    BY <1>4 DEF Genuine
  <2> QED
    BY <1>2, <1>4, <2>2, <2>3 DEF IdInv
<1>7. /\ cmd' \in [Callers -> Dispatch] /\ CmdStays
      /\ MapInv' /\ IdInv' /\ InflightMatches' /\ AnswerIsOwn'
  BY <1>1, <1>5, <1>6, TellKeeps
<1>8. /\ SameStreams(streams, streams', k) /\ streams'[k].reqs = streams[k].reqs
      /\ streams'[k].answers = streams[k].answers \ {r}
  <2>1. PICK a : a = streams[k].answers \ {r}
    OBVIOUS
  <2>2. a \in Requests /\ streams' = [streams EXCEPT ![k].answers = a]
    BY <1>1, <1>3, <2>1 DEF Requests
  <2>3. /\ SameStreams(streams, streams', k) /\ streams'[k].reqs = streams[k].reqs
        /\ streams'[k].answers = a
    BY <1>2, <2>2, SetAnswers
  <2> QED
    BY <2>1, <2>3
<1>9. FewerRequests
  BY <1>1, <1>8 DEF FewerRequests, Part, SameStreams
<1>10. GenuineInv' /\ PlaceInv'
  BY <1>2, <1>7, <1>9, FewerKeep
<1>11. BatchTypes'
  BY <1>1, <1>2, <1>7, <1>8 DEF BatchTypes, SameStreams
<1> QED
  BY <1>7, <1>10, <1>11 DEF BatchInv

\* A receive loop that ends fails whatever is in the map.
LEMMA LoopEndsKeeps ==
  ASSUME BatchInv, NEW k \in 1..Len(streams), ReceiveLoopEnds(k)
  PROVE  BatchInv'
<1>1. /\ BatchTypes /\ GenuineInv /\ PlaceInv /\ streams \in Seq(Stream)
      /\ UNCHANGED <<nextId, outbound, sender, executed>>
      /\ Remove(DOMAIN inflight)
      /\ Tell({inflight[i] : i \in DOMAIN inflight}, Unavailable)
  BY DEF BatchInv, BatchTypes, ReceiveLoopEnds
<1>2. {inflight[i] : i \in DOMAIN inflight} = {inflight[i] : i \in DOMAIN inflight \cap DOMAIN inflight}
  OBVIOUS
<1>3. Tell({inflight[i] : i \in DOMAIN inflight \cap DOMAIN inflight}, Unavailable)
  BY <1>1, <1>2
<1>4. /\ cmd' \in [Callers -> Dispatch] /\ CmdStays
      /\ MapInv' /\ IdInv' /\ InflightMatches' /\ AnswerIsOwn'
  BY <1>1, <1>3, UnavailableFact, TellKeeps
<1>5. /\ SameStreams(streams, streams', k) /\ streams'[k].reqs = streams[k].reqs
      /\ streams'[k].answers = {}
  <2>1. PICK m : m = [streams EXCEPT ![k].loop = FALSE]
    OBVIOUS
  <2>2. streams' = [m EXCEPT ![k].answers = {}]
    BY <2>1 DEF ReceiveLoopEnds
  <2>3. SameStreams(streams, m, k) /\ m[k].reqs = streams[k].reqs
    BY <1>1, <2>1, SetLoop
  <2>4. m \in Seq(Stream) /\ k \in 1..Len(m) /\ {} \in Requests
    BY <2>3 DEF SameStreams, Requests
  <2>5. SameStreams(m, streams', k) /\ streams'[k].reqs = m[k].reqs /\ streams'[k].answers = {}
    BY <2>2, <2>4, SetAnswers
  <2> QED
    BY <2>3, <2>5, SameTwice
<1>6. FewerRequests
  BY <1>1, <1>5 DEF FewerRequests, Part, SameStreams
<1>7. GenuineInv' /\ PlaceInv'
  BY <1>1, <1>4, <1>6, FewerKeep
<1>8. BatchTypes'
  BY <1>1, <1>4, <1>5 DEF BatchTypes, SameStreams
<1> QED
  BY <1>4, <1>7, <1>8 DEF BatchInv

\* The command at hand goes into the stream in use, or that stream is given up.
LEMMA SendKeeps ==
  ASSUME BatchInv, SendOnStream
  PROVE  BatchInv'
<1>1. /\ BatchTypes /\ GenuineInv /\ PlaceInv /\ streams \in Seq(Stream) /\ sender \in Sender
      /\ UNCHANGED <<nextId, inflight, outbound, cmd, executed>>
      /\ sender.cur # None /\ sender.conn # 0 /\ sender.conn \in 0..Len(streams)
  BY DEF BatchInv, BatchTypes, SendOnStream
<1>2. /\ MapInv' /\ IdInv' /\ InflightMatches' /\ AnswerIsOwn' /\ CmdStays
  BY <1>1, MapStays
<1>3. CASE ~streams[sender.conn].open
  <2>1. sender' = [sender EXCEPT !.conn = 0] /\ streams' = streams
    BY <1>3 DEF SendOnStream
  <2>2. sender' \in Sender /\ sender'.cur = sender.cur /\ sender'.conn = 0
    <3>1. 0 \in Nat
      BY SMTT(20)
    <3> QED
      BY <1>1, <2>1, <3>1 DEF Sender
  <2>3. FewerRequests
    BY <1>1, <2>1, <2>2 DEF FewerRequests, Part
  <2>4. GenuineInv' /\ PlaceInv'
    BY <1>1, <1>2, <2>3, FewerKeep
  <2>5. 0 \in 0..Len(streams)
    BY <1>1, SMTT(20)
  <2> QED
    BY <1>1, <1>2, <2>1, <2>2, <2>4, <2>5 DEF BatchInv, BatchTypes
<1>4. CASE streams[sender.conn].open
  <2>1. PICK k, r : k = sender.conn /\ r = sender.cur
    OBVIOUS
  <2>2. k \in 1..Len(streams) /\ r \in Request
    <3>1. k \in 1..Len(streams)
      BY <1>1, <2>1, SMTT(20)
    <3> QED
      BY <1>1, <2>1, <3>1 DEF Sender
  <2>3. PICK q : q = Append(streams[k].reqs, r)
    OBVIOUS
  <2>4. /\ streams' = [streams EXCEPT ![k].reqs = q] /\ sender' = [sender EXCEPT !.cur = None]
        /\ Waiting(streams[k]) < StreamCap
    BY <1>4, <2>1, <2>3 DEF SendOnStream
  <2>5. streams[k].reqs \in Seq(Request) /\ Fill(q, streams[k].taken)
    <3>1. streams[k].reqs \in Seq(Request) /\ streams[k].taken \in Nat
      BY <1>1, <2>2, StreamFact
    <3>2. Fill(streams[k].reqs, streams[k].taken)
      BY <1>1, <2>2, StreamFact
    <3>3. Len(q) = Len(streams[k].reqs) + 1
      BY <2>2, <2>3, <3>1, SMTT(20)
    <3> QED
      BY <2>4, <3>1, <3>2, <3>3, CapAssumption, SMTT(20) DEF Fill, Waiting
  <2>6. q \in Seq(Request) /\ Members(q) = Members(streams[k].reqs) \cup {r}
    BY <2>2, <2>3, <2>5, MembersAppend, SMTT(20)
  <2>7. Owners(q) = Owners(streams[k].reqs) \cup {r.of}
    BY <2>6 DEF Owners
  <2>8. /\ InHand(r.of) /\ Genuine(r) /\ r.of \in Callers
    BY <1>1, <2>1, <2>2 DEF InHand, GenuineInv, Request
  <2>9. /\ r.of \notin Owners(outbound) /\ r.of \notin Members(executed)
        /\ \A l \in 1..Len(streams) : r.of \notin Owners(streams[l].reqs)
    BY <1>1, <2>8 DEF PlaceInv
  <2>10. Apart(q)
    BY <1>1, <2>2, <2>3, <2>5, <2>9, ApartAppend DEF PlaceInv
  <2>11. /\ SameStreams(streams, streams', k) /\ streams'[k].reqs = q
         /\ streams'[k].answers = streams[k].answers
    BY <1>1, <2>2, <2>4, <2>5, <2>6, SetReqs
  <2>12. sender' \in Sender /\ sender'.cur = None /\ sender'.conn = sender.conn
    BY <1>1, <2>4 DEF Sender
  <2>13. BatchTypes'
    BY <1>1, <2>11, <2>12 DEF BatchTypes, SameStreams
  <2>14. GenuineInv'
    <3>1. \A x : Genuine(x)' <=> Genuine(x)
      BY <1>1 DEF Genuine
    <3>2. ASSUME NEW l \in 1..Len(streams)
          PROVE  /\ \A x \in Members(streams'[l].reqs) : Genuine(x)
                 /\ \A x \in streams'[l].answers : Genuine(x) /\ x.of \in Members(executed)
      <4>1. CASE l = k
        BY <1>1, <2>6, <2>8, <2>11, <4>1 DEF GenuineInv
      <4>2. CASE l # k
        BY <1>1, <2>11, <4>2 DEF GenuineInv, SameStreams
      <4> QED
        BY <4>1, <4>2
    <3>3. Len(streams') = Len(streams)
      BY <2>11 DEF SameStreams
    <3> QED
      BY <1>1, <2>12, <3>1, <3>2, <3>3 DEF GenuineInv
  <2>15. PlaceInv'
    <3>1. \A c \in Callers : ~InHand(c)'
      BY <2>12 DEF InHand
    <3>2. ASSUME NEW l \in 1..Len(streams) PROVE Apart(streams'[l].reqs)
      <4>1. CASE l = k
        BY <2>10, <2>11, <4>1
      <4>2. CASE l # k
        BY <1>1, <2>11, <4>2 DEF PlaceInv, SameStreams
      <4> QED
        BY <4>1, <4>2
    <3>3. ASSUME NEW c \in Callers, NEW l \in 1..Len(streams), c \in Owners(streams'[l].reqs)
          PROVE  (c = r.of /\ l = k) \/ (c # r.of /\ c \in Owners(streams[l].reqs))
      <4>1. CASE l = k
        BY <2>7, <2>11, <3>3, <4>1
      <4>2. CASE l # k
        BY <2>9, <2>11, <3>3, <4>2 DEF SameStreams
      <4> QED
        BY <4>1, <4>2
    <3>4. ASSUME NEW c \in Callers, NEW l \in 1..Len(streams), c \in Owners(streams'[l].reqs)
          PROVE  /\ c \notin Owners(outbound') /\ c \notin Members(executed')
                 /\ \A j \in 1..Len(streams) : c \in Owners(streams'[j].reqs) => l = j
      <4>1. CASE c = r.of
        BY <1>1, <2>9, <3>3, <3>4, <4>1
      <4>2. CASE c # r.of
        BY <1>1, <3>3, <3>4, <4>2 DEF PlaceInv
      <4> QED
        BY <4>1, <4>2
    <3>5. Len(streams') = Len(streams)
      BY <2>11 DEF SameStreams
    <3>6. /\ Apart(outbound)' /\ ExecutedAtMostOnce'
          /\ \A c \in Callers : c \in Members(executed') => c \notin Owners(outbound')
      BY <1>1 DEF PlaceInv, ExecutedAtMostOnce
    <3> QED
      BY <3>1, <3>2, <3>4, <3>5, <3>6 DEF PlaceInv
  <2> QED
    BY <1>2, <2>13, <2>14, <2>15 DEF BatchInv
<1> QED
  BY <1>3, <1>4

\* TiKV takes a command out of a stream and executes it.
LEMMA ExecuteKeeps ==
  ASSUME BatchInv, NEW k \in 1..Len(streams), Execute(k)
  PROVE  BatchInv'
<1>1. PICK i \in 1..streams[k].taken :
        /\ executed' = Append(executed, streams[k].reqs[i].of)
        /\ streams' = [streams EXCEPT ![k] =
                         [streams[k] EXCEPT !.answers = streams[k].answers \cup {streams[k].reqs[i]},
                                            !.reqs = Without(streams[k].reqs, i),
                                            !.taken = streams[k].taken - 1]]
        /\ UNCHANGED <<nextId, inflight, outbound, sender, cmd>>
  BY DEF Execute, Without
<1>2. /\ BatchTypes /\ GenuineInv /\ PlaceInv /\ streams \in Seq(Stream) /\ executed \in Seq(Callers)
  BY DEF BatchInv, BatchTypes
<1>3. PICK r : r = streams[k].reqs[i]
  OBVIOUS
<1>4. PICK q : q = Without(streams[k].reqs, i)
  OBVIOUS
<1>5. PICK a : a = streams[k].answers \cup {r}
  OBVIOUS
<1>6. /\ streams[k] \in Stream /\ streams[k].reqs \in Seq(Request)
      /\ streams[k].answers \subseteq Request /\ i \in 1..Len(streams[k].reqs)
  <2>1. streams[k].taken \in Nat /\ Fill(streams[k].reqs, streams[k].taken)
    BY <1>2, StreamFact
  <2>2. i \in 1..Len(streams[k].reqs)
    BY <1>2, <2>1, StreamFact, SMTT(20) DEF Fill
  <2> QED
    BY <1>2, <2>2, StreamFact, RequestTypes
<1>7. r \in Members(streams[k].reqs) /\ r.of \in Owners(streams[k].reqs)
  BY <1>3, <1>6 DEF Members, Owners
<1>8. r \in Request /\ Genuine(r) /\ r.of \in Callers
  BY <1>2, <1>7, RequestTypes DEF GenuineInv, Request
<1>9. q \in Seq(Request) /\ Members(q) \subseteq Members(streams[k].reqs)
  BY <1>4, <1>6, MembersWithout, SMTT(20)
<1>10. Apart(q) /\ r.of \notin Owners(q) /\ Owners(q) \subseteq Owners(streams[k].reqs)
  <2>1. Apart(streams[k].reqs)
    BY <1>2 DEF PlaceInv
  <2>2. Apart(q) /\ r.of \notin Owners(q)
    BY <1>3, <1>4, <1>6, <2>1, ApartWithout
  <2> QED
    BY <1>9, <2>2 DEF Owners
<1>11. /\ SameStreams(streams, streams', k)
       /\ streams'[k].reqs = q /\ streams'[k].answers = a
  <2>1. PICK n : n = streams[k].taken - 1
    OBVIOUS
  <2>2. PICK x : x = [streams[k] EXCEPT !.answers = a, !.reqs = q, !.taken = n]
    OBVIOUS
  <2>3. streams' = [streams EXCEPT ![k] = x]
    BY <1>1, <1>3, <1>4, <1>5, <2>1, <2>2
  <2>4. a \in Requests
    BY <1>5, <1>6, <1>8 DEF Requests
  <2>5. n \in Nat /\ Fill(q, n)
    <3>1. streams[k].taken \in Nat /\ Fill(streams[k].reqs, streams[k].taken)
      BY <1>2, StreamFact
    <3>2. Len(q) = Len(streams[k].reqs) - 1
      BY <1>4, <1>6, MembersWithout
    <3> QED
      BY <1>6, <2>1, <3>1, <3>2, CapAssumption, SMTT(20) DEF Fill
  <2>6. ASSUME NEW t \in StreamFields
        PROVE  LET u == [t EXCEPT !.answers = a, !.reqs = q, !.taken = n]
               IN u \in StreamFields /\ u.reqs = q /\ u.taken = n /\ u.answers = a
    BY <1>9, <2>4, <2>5 DEF StreamFields
  <2>7. x \in Stream /\ x.reqs = q /\ x.answers = a
    BY <1>2, <2>2, <2>5, <2>6, StreamFact DEF Stream
  <2>8. SameStreams(streams, streams', k) /\ streams'[k] = x
    BY <1>2, <2>3, <2>7, SetStream
  <2> QED
    BY <2>7, <2>8
<1>12. /\ executed' \in Seq(Callers) /\ Len(executed') = Len(executed) + 1
       /\ \A j \in 1..Len(executed) : executed'[j] = executed[j]
       /\ executed'[Len(executed) + 1] = r.of
       /\ Members(executed') = Members(executed) \cup {r.of}
  BY <1>1, <1>2, <1>3, <1>8, MembersAppend, SMTT(20)
<1>13. /\ MapInv' /\ IdInv' /\ InflightMatches' /\ AnswerIsOwn'
  <2>1. UNCHANGED <<nextId, inflight, cmd>> /\ Members(executed) \subseteq Members(executed')
    BY <1>1, <1>12
  <2> QED
    BY <2>1, MapStays
<1>14. Len(streams') = Len(streams) /\ \A l \in 1..Len(streams) : l # k => streams'[l] = streams[l]
  BY <1>11 DEF SameStreams
<1>15. BatchTypes'
  BY <1>1, <1>2, <1>11, <1>12 DEF BatchTypes, SameStreams
<1>16. GenuineInv'
  <2>1. \A x : Genuine(x)' <=> Genuine(x)
    BY <1>1 DEF Genuine
  <2>2. ASSUME NEW l \in 1..Len(streams)
        PROVE  /\ \A x \in Members(streams'[l].reqs) : Genuine(x)
               /\ \A x \in streams'[l].answers : Genuine(x) /\ x.of \in Members(executed')
    <3>1. CASE l = k
      <4>1. \A x \in Members(q) : Genuine(x)
        BY <1>2, <1>9 DEF GenuineInv
      <4>2. \A x \in a : Genuine(x) /\ x.of \in Members(executed')
        BY <1>2, <1>5, <1>8, <1>12 DEF GenuineInv
      <4> QED
        BY <1>11, <3>1, <4>1, <4>2
    <3>2. CASE l # k
      BY <1>2, <1>12, <1>14, <3>2 DEF GenuineInv
    <3> QED
      BY <3>1, <3>2
  <2>3. \A c \in Members(executed') : cmd[c].pc \notin {"idle", "registered"}
    BY <1>2, <1>8, <1>12 DEF GenuineInv, Genuine
  <2>4. (sender.cur # None)' => Genuine(sender.cur)'
    BY <1>1, <1>2 DEF GenuineInv, Genuine
  <2> QED
    BY <1>1, <1>2, <1>14, <2>1, <2>2, <2>3, <2>4 DEF GenuineInv
<1>17. PlaceInv'
  <2>1. \A c \in Callers : InHand(c)' <=> InHand(c)
    BY <1>1 DEF InHand
  <2>2. /\ r.of \notin Owners(outbound) /\ ~InHand(r.of) /\ r.of \notin Members(executed)
        /\ \A l \in 1..Len(streams) : l # k => r.of \notin Owners(streams[l].reqs)
    BY <1>2, <1>7, <1>8 DEF PlaceInv
  <2>3. ASSUME NEW l \in 1..Len(streams)
        PROVE  /\ Apart(streams'[l].reqs) /\ r.of \notin Owners(streams'[l].reqs)
               /\ Owners(streams'[l].reqs) \subseteq Owners(streams[l].reqs)
    <3>1. CASE l = k
      BY <1>10, <1>11, <3>1
    <3>2. CASE l # k
      BY <1>2, <1>14, <2>2, <3>2 DEF PlaceInv
    <3> QED
      BY <3>1, <3>2
  <2>4. ASSUME NEW c \in Callers, NEW l \in 1..Len(streams), c \in Owners(streams'[l].reqs)
        PROVE  /\ c \notin Owners(outbound') /\ ~InHand(c)' /\ c \notin Members(executed')
               /\ \A j \in 1..Len(streams) : c \in Owners(streams'[j].reqs) => l = j
    <3>1. c # r.of /\ c \in Owners(streams[l].reqs)
      BY <2>3, <2>4
    <3>2. c \notin Owners(outbound) /\ ~InHand(c) /\ c \notin Members(executed)
      BY <1>2, <3>1 DEF PlaceInv
    <3>3. ASSUME NEW j \in 1..Len(streams), c \in Owners(streams'[j].reqs) PROVE l = j
      BY <1>2, <2>3, <3>1, <3>3 DEF PlaceInv
    <3> QED
      BY <1>1, <1>12, <2>1, <3>1, <3>2, <3>3
  <2>5. Apart(outbound)'
    BY <1>1, <1>2 DEF PlaceInv
  <2>6. \A c \in Callers :
          /\ InHand(c)' => c \notin Owners(outbound')
          /\ c \in Members(executed') => c \notin Owners(outbound') /\ ~InHand(c)'
    BY <1>1, <1>2, <1>12, <2>1, <2>2 DEF PlaceInv
  <2>7. ExecutedAtMostOnce'
    <3>1. \A j \in 1..Len(executed) : executed[j] # r.of
      BY <2>2 DEF Members
    <3>2. ExecutedAtMostOnce
      BY <1>2 DEF PlaceInv
    <3> QED
      BY <1>2, <1>12, <3>1, <3>2, SMTT(20) DEF ExecutedAtMostOnce
  <2> QED
    BY <1>14, <2>3, <2>4, <2>5, <2>6, <2>7 DEF PlaceInv
<1> QED
  BY <1>13, <1>15, <1>16, <1>17 DEF BatchInv

\* What none of the loops and dispatches does.
LEMMA BatchStutters ==
  ASSUME BatchInv, UNCHANGED batchVars
  PROVE  BatchInv'
<1>1. /\ BatchTypes /\ GenuineInv /\ PlaceInv
      /\ UNCHANGED <<nextId, inflight, outbound, sender, streams, cmd, executed>>
  BY DEF BatchInv, batchVars
<1>2. /\ MapInv' /\ IdInv' /\ InflightMatches' /\ AnswerIsOwn' /\ CmdStays
  BY <1>1, MapStays
<1>3. GenuineInv' /\ PlaceInv'
  BY <1>1, <1>2, SameRequests, FewerKeep
<1>4. BatchTypes'
  BY <1>1 DEF BatchTypes
<1> QED
  BY <1>2, <1>3, <1>4 DEF BatchInv

\* Nothing is in flight at first.
LEMMA InitBatch == Init => BatchInv
<1> SUFFICES ASSUME Init PROVE BatchInv
  OBVIOUS
<1>1. /\ nextId = 1 /\ inflight = [i \in {} |-> None] /\ outbound = <<>>
      /\ sender = [cur |-> None, conn |-> 0] /\ streams = <<>>
      /\ cmd = [c \in Callers |-> NewDispatch] /\ executed = <<>>
  BY DEF Init, BatchInit
<1>2. 0 \in Nat /\ 1 \in Nat /\ 0 \in 0..0 /\ 1..0 = {}
  BY SMTT(20)
<1>3. /\ NewDispatch \in Dispatch /\ NewDispatch.pc = "idle" /\ NewDispatch.answer = None
  BY <1>2 DEF NewDispatch, Dispatch
<1>4. sender \in Sender /\ sender.conn = 0 /\ sender.cur = None
  BY <1>1, <1>2 DEF Sender
<1>5. BatchTypes
  <2>1. Len(outbound) <= OutboundCap
    BY <1>1, CapAssumption, SMTT(20)
  <2> QED
    BY <1>1, <1>2, <1>3, <1>4, <2>1, EmptySeq DEF BatchTypes
<1>6. MapInv /\ IdInv /\ InflightMatches /\ AnswerIsOwn
  BY <1>1, <1>3 DEF MapInv, IdInv, InflightMatches, AnswerIsOwn
<1>7. GenuineInv
  BY <1>1, <1>2, <1>4, EmptySeq DEF GenuineInv
<1>8. PlaceInv
  BY <1>1, <1>2, <1>4, EmptySeq DEF PlaceInv, InHand, ExecutedAtMostOnce
<1> QED
  BY <1>5, <1>6, <1>7, <1>8 DEF BatchInv

\* Every step keeps the commands right.
LEMMA NextBatch ==
  ASSUME BatchInv, [Next]_vars
  PROVE  BatchInv'
<1>1. CASE \E c \in Callers : DispatchStep(c)
  BY <1>1, RegisterKeeps, EnqueueKeeps, DispatchEnds, ExpiredKeeps DEF DispatchStep
<1>2. CASE \E c \in Callers : CallerDrops(c)
  BY <1>2, DispatchEnds DEF CallerDrops
<1>3. CASE SendLoop \/ StreamOpens
  BY <1>3, TakeKeeps, ConnectKeeps, SendKeeps DEF SendLoop, StreamOpens
<1>4. CASE StreamStep
  BY <1>4, ExecuteKeeps, ReceiveKeeps, StreamGoes, LoopEndsKeeps DEF StreamStep
<1>5. CASE BatchTrouble
  BY <1>5, ConnectFailsKeeps, StreamGoes DEF BatchTrouble
<1>6. CASE \/ \E c \in Callers : Asks(c) \/ PdStep(c) \/ PdTrouble(c)
           \/ StreamTask \/ TsoTask \/ PdAnswers \/ TsoTrouble \/ TimePasses \/ UNCHANGED vars
  <2>1. UNCHANGED batchVars
    BY <1>6 DEF Asks, PdStep, PdTrouble, StreamTask, TsoTask, PdAnswers, TsoTrouble, TimePasses, vars
  <2> QED
    BY <2>1, BatchStutters
<1> QED
  BY <1>1, <1>2, <1>3, <1>4, <1>5, <1>6 DEF Next, CallerStep

\* The invariant of the commands.
THEOREM BatchInvariant == Spec => []BatchInv
<1>1. BatchInv /\ [Next]_vars => BatchInv'
  BY NextBatch
<1> QED
  BY <1>1, InitBatch, PTL DEF Spec

\* The map of commands in flight holds exactly those whose callers still wait
\* without an answer, those about to time out and those whose caller was dropped,
\* for any callers, however streams break and are replaced.
THEOREM CommandsInFlight == Spec => []InflightMatches
<1>1. BatchInv => InflightMatches
  BY DEF BatchInv
<1> QED
  BY <1>1, BatchInvariant, PTL

\* A caller that is told "ok" was answered for its own command, which TiKV has
\* executed, however late the answers are and whichever loop receives them.
THEOREM AnswersOwn == Spec => []AnswerIsOwn
<1>1. BatchInv => AnswerIsOwn
  BY DEF BatchInv
<1> QED
  BY <1>1, BatchInvariant, PTL

\* A dispatch is executed at most once, whatever the send loop sends again.
THEOREM ExecutedOnce == Spec => []ExecutedAtMostOnce
<1>1. BatchInv => ExecutedAtMostOnce
  BY DEF BatchInv, PlaceInv
<1> QED
  BY <1>1, BatchInvariant, PTL

----------------------------------------------------------------------------
(* Calls to PD                                                             *)

\* A step of one call that keeps the others' hold on the lock.
LockKept(c) ==
  /\ rw' \in Lock
  /\ rw.readers \ {c} \subseteq rw'.readers
  /\ \A d \in Callers : d # c /\ rw.writer = d => rw'.writer = d
  /\ rw'.writer # None => rw'.readers = {}

LockStep(c, x) ==
  /\ call' = [call EXCEPT ![c] = x]
  /\ Fits(x)
  /\ LockKept(c)
  /\ Locks(c)'
  /\ job' = job /\ mishaps' \in Nat /\ cluster' \in Cluster

\* The others' calls keep their hold on the lock.
LEMMA LockStepKeeps ==
  ASSUME PdInv, NEW c \in Callers, NEW x \in Call, LockStep(c, x)
  PROVE  CallTypes' /\ LockInv' /\ call'[c] = x /\ \A d \in Callers : d # c => call'[d] = call[d]
<1>1. CallTypes /\ LockInv
  BY DEF PdInv
<1>2. /\ call' \in [Callers -> Call] /\ call'[c] = x
      /\ \A d \in Callers : d # c => call'[d] = call[d]
  BY <1>1 DEF LockStep, CallTypes
<1>3. \A d \in Callers : Fits(call'[d])
  BY <1>1, <1>2 DEF LockStep, CallTypes
<1>4. CallTypes'
  BY <1>1, <1>2, <1>3 DEF LockStep, LockKept, CallTypes, Fits
<1>5. ASSUME NEW d \in Callers, d # c PROVE Locks(d)'
  <2>1. Locks(d) /\ call'[d] = call[d] /\ job' = job
    BY <1>1, <1>2, <1>5 DEF LockStep, LockInv
  <2>2. (d \in rw.readers => d \in rw'.readers) /\ (rw.writer = d => rw'.writer = d)
    <3>1. /\ rw.readers \ {c} \subseteq rw'.readers
          /\ \A e \in Callers : e # c /\ rw.writer = e => rw'.writer = e
      BY DEF LockStep, LockKept
    <3>2. rw.writer = d => rw'.writer = d
      BY <1>5, <3>1
    <3>3. d \in rw.readers => d \in rw.readers \ {c}
      BY <1>5
    <3> QED
      BY <3>1, <3>2, <3>3
  <2> QED
    BY <2>1, <2>2 DEF Locks, IsTimestampCall
<1>6. LockInv'
  BY <1>5 DEF LockStep, LockKept, LockInv
<1> QED
  BY <1>2, <1>4, <1>6

\* What a step of one call leaves of the timestamps.
LEMMA GotRests ==
  ASSUME PdInv, NEW c \in Callers, NEW x \in Call, LockStep(c, x), UNCHANGED <<clock, got>>,
         HasTimestamp(c) => x.pc \in {"await", "ok"},
         x.pc = "ok" /\ IsTimestampCall(c) => HasTimestamp(c)
  PROVE  GotInv'
<1>1. GotInv /\ clock' = clock /\ got' = got /\ job' = job
  BY DEF PdInv, LockStep
<1>2. call'[c] = x /\ \A d \in Callers : d # c => call'[d] = call[d]
  BY LockStepKeeps
<1>3. ASSUME NEW d \in Callers
      PROVE  /\ HasTimestamp(d) => call'[d].pc \in {"await", "ok"}
             /\ call'[d].pc = "ok" /\ IsTimestampCall(d) => HasTimestamp(d)
  <2>1. CASE d = c
    BY <1>2, <2>1
  <2>2. CASE d # c
    BY <1>1, <1>2, <2>2 DEF GotInv
  <2> QED
    BY <2>1, <2>2
<1> QED
  BY <1>1, <1>3 DEF GotInv, HasTimestamp, IsTimestampCall

\* Those in the oracle are callers.
LEMMA OracleTypes ==
  ASSUME OracleInv
  PROVE  /\ tso \in Oracle /\ tso.chan \in Seq(Callers) /\ tso.pending \in Seq(Seq(Callers))
         /\ tso.net \in Seq(Nat) /\ tso.resp \in Seq([tail : Nat, count : Nat])
         /\ \A d \in Members(tso.chan) : d \in Callers
         /\ \A p \in 1..Len(tso.pending) :
              tso.pending[p] \in Seq(Callers) /\ \A d \in Members(tso.pending[p]) : d \in Callers
<1>1. /\ tso \in Oracle /\ tso.chan \in Seq(Callers) /\ tso.pending \in Seq(Seq(Callers))
      /\ tso.net \in Seq(Nat) /\ tso.resp \in Seq([tail : Nat, count : Nat])
  BY DEF OracleInv, Oracle
<1>2. \A d \in Members(tso.chan) : d \in Callers
  BY <1>1, SMTT(20) DEF Members
<1>3. ASSUME NEW p \in 1..Len(tso.pending)
      PROVE  tso.pending[p] \in Seq(Callers) /\ \A d \in Members(tso.pending[p]) : d \in Callers
  <2>1. tso.pending[p] \in Seq(Callers)
    BY <1>1, SMTT(20)
  <2>2. \A d \in Members(tso.pending[p]) : d \in Callers
    BY <2>1, SMTT(20) DEF Members
  <2> QED
    BY <2>1, <2>2
<1> QED
  BY <1>1, <1>2, <1>3

\* A step of one call that does not wait in the oracle leaves the oracle's callers.
LEMMA OracleRests ==
  ASSUME PdInv, NEW c \in Callers, NEW x \in Call, LockStep(c, x), UNCHANGED <<tso, clock, got>>,
         ~Waits(c), x.pc # "await", HasTimestamp(c) => x.pc = "ok",
         x.pc = "ok" /\ IsTimestampCall(c) => HasTimestamp(c)
  PROVE  /\ CallTypes' /\ LockInv' /\ GotInv' /\ OracleInv' /\ QueueInv' /\ NobodyForgotten'
         /\ RangeInv'
<1>1. /\ OracleInv /\ QueueInv /\ RangeInv /\ NobodyForgotten
      /\ tso' = tso /\ clock' = clock /\ got' = got
  BY DEF PdInv
<1>2. CallTypes' /\ LockInv' /\ call'[c] = x /\ \A d \in Callers : d # c => call'[d] = call[d]
  BY LockStepKeeps
<1>3. GotInv'
  BY GotRests
<1>4. OracleInv' /\ RangeInv'
  BY <1>1 DEF OracleInv, RangeInv, Below
<1>5. \A d \in Callers : Waits(d) <=> Waits(d)'
  BY <1>1, <1>2 DEF Waits
<1>6. QueueInv'
  BY <1>1, <1>5, OracleTypes DEF QueueInv
<1>7. NobodyForgotten'
  BY <1>1, <1>5 DEF NobodyForgotten, InOracle
<1> QED
  BY <1>2, <1>3, <1>4, <1>6, <1>7

\* Asking, getting and giving up the lock.
LEMMA LockMoves ==
  ASSUME PdInv, NEW c \in Callers
  PROVE  /\ rw' = [rw EXCEPT !.queue = Append(rw.queue, c)] => LockKept(c)
         /\ rw' = Released(c) => LockKept(c)
         /\ UNCHANGED rw => LockKept(c)
<1>1. rw \in Lock /\ (rw.writer # None => rw.readers = {})
  BY DEF PdInv, CallTypes, LockInv
<1>2. ASSUME NEW q \in Seq(Callers), rw' = [rw EXCEPT !.queue = q] PROVE LockKept(c)
  <2>1. rw' \in Lock /\ rw'.readers = rw.readers /\ rw'.writer = rw.writer
    BY <1>1, <1>2 DEF Lock
  <2> QED
    BY <1>1, <2>1 DEF LockKept
<1>3. Append(rw.queue, c) \in Seq(Callers)
  <2>1. rw.queue \in Seq(Callers)
    BY <1>1 DEF Lock
  <2> QED
    BY <2>1, MembersAppend, SMTT(20)
<1>4. ASSUME rw' = Released(c) PROVE LockKept(c)
  <2>1. PICK R, w : R = rw.readers \ {c} /\ w = IF rw.writer = c THEN None ELSE rw.writer
    OBVIOUS
  <2>2. R \in ReaderSets /\ w \in Callers \cup {None}
    BY <1>1, <2>1 DEF Lock, ReaderSets
  <2>3. rw' = [rw EXCEPT !.readers = R, !.writer = w]
    BY <1>4, <2>1 DEF Released
  <2>4. rw' \in Lock /\ rw'.readers = R /\ rw'.writer = w
    BY <1>1, <2>2, <2>3 DEF Lock
  <2> QED
    BY <1>1, <2>1, <2>4 DEF LockKept
<1>5. ASSUME UNCHANGED rw PROVE LockKept(c)
  BY <1>1, <1>5 DEF LockKept
<1> QED
  BY <1>2, <1>3, <1>4, <1>5

\* The head of the queue gets the lock as it asked for it.
LEMMA GrantMoves ==
  ASSUME PdInv, NEW c \in Callers, Granted(c), NEW p, Grant(c, p)
  PROVE  /\ LockKept(c)
         /\ ~call[c].write => c \in rw'.readers
         /\ call[c].write => rw'.writer = c
<1>1. rw \in Lock /\ rw.writer = None /\ (call[c].write => rw.readers = {}) /\ rw.queue # <<>>
  BY DEF PdInv, CallTypes, Granted
<1>2. PICK R, w, q : /\ R = (IF call[c].write THEN rw.readers ELSE rw.readers \cup {c})
                     /\ w = (IF call[c].write THEN c ELSE rw.writer)
                     /\ q = Tail(rw.queue)
  OBVIOUS
<1>3. rw.queue \in Seq(Callers)
  BY <1>1 DEF Lock
<1>4. q \in Seq(Callers)
  BY <1>1, <1>2, <1>3, MembersTail, SMTT(20)
<1>5. R \in ReaderSets /\ w \in Callers \cup {None}
  BY <1>1, <1>2 DEF Lock, ReaderSets
<1>6. rw' = [rw EXCEPT !.queue = q, !.readers = R, !.writer = w]
  BY <1>2 DEF Grant
<1>7. rw' \in Lock /\ rw'.readers = R /\ rw'.writer = w
  BY <1>1, <1>4, <1>5, <1>6 DEF Lock
<1>8. LockKept(c)
  <2>1. \A d \in Callers : rw.writer # d
    BY <1>1, NobodyAssumption
  <2>2. w # None => R = {}
    BY <1>1, <1>2
  <2>3. rw.readers \subseteq R
    BY <1>2
  <2> QED
    BY <1>7, <2>1, <2>2, <2>3 DEF LockKept
<1> QED
  BY <1>2, <1>7, <1>8

\* Nobody gets or asks for a timestamp.
LEMMA OrderRests ==
  ASSUME PdInv, UNCHANGED <<got, seen>>
  PROVE  OrderInv'
BY DEF PdInv, OrderInv, HasTimestamp

\* What the invariant says of one call.
LEMMA CallFacts ==
  ASSUME PdInv, NEW c \in Callers
  PROVE  /\ call[c] \in Call /\ call[c].tries \in Nat /\ call[c].left \in Int
         /\ call[c].write \in BOOLEAN
         /\ Fits(call[c]) /\ Locks(c) /\ cluster \in Cluster /\ call \in [Callers -> Call]
         /\ HasTimestamp(c) => call[c].pc \in {"await", "ok"}
BY DEF PdInv, CallTypes, LockInv, GotInv, Call

\* A call that asks for the lock, and one that has no attempt left.
LEMMA AskKeeps ==
  ASSUME PdInv, NEW c \in Callers, Asks(c)
  PROVE  PdInv'
<1>1. /\ call[c].pc = "idle" /\ UNCHANGED <<tso, clock, got>> /\ cluster' = cluster
      /\ job' = job /\ mishaps' = mishaps
      /\ seen' = [seen EXCEPT ![c] = {d \in Callers : HasTimestamp(d)}]
  BY DEF Asks, StartCall, tsoVars, clientVars
<1>2. /\ call[c] \in Call /\ Fits(call[c]) /\ cluster \in Cluster /\ mishaps \in Nat
      /\ ~HasTimestamp(c)
  BY <1>1, CallFacts DEF PdInv, CallTypes
<1>3. \E x \in Call : LockStep(c, x) /\ x.pc \in {"wait", "failed"}
  <2>1. CASE LeaderChangeRetry = 0
    <3>1. PICK x : x = [call[c] EXCEPT !.pc = "failed"]
      OBVIOUS
    <3>2. /\ x \in Call /\ x.pc = "failed" /\ x.tries = call[c].tries /\ x.left = call[c].left
      <4>1. "failed" \in Pcs
        BY DEF Pcs
      <4> QED
        BY <1>2, <3>1, <4>1 DEF Call
    <3>3. call' = [call EXCEPT ![c] = x] /\ UNCHANGED rw
      BY <2>1, <3>1 DEF Asks, StartCall
    <3>4. Fits(x)
      BY <1>2, <3>2 DEF Fits
    <3>5. Locks(c)'
      <4>1. call'[c].pc = "failed"
        BY <3>2, <3>3, CallFacts
      <4> QED
        BY <4>1 DEF Locks
    <3> QED
      BY <1>1, <1>2, <3>2, <3>3, <3>4, <3>5, LockMoves DEF LockStep
  <2>2. CASE LeaderChangeRetry # 0
    <3>1. PICK x : x = [call[c] EXCEPT !.pc = "wait", !.write = ~IsTimestampCall(c)]
      OBVIOUS
    <3>2. /\ x \in Call /\ x.pc = "wait" /\ x.tries = call[c].tries /\ x.left = call[c].left
          /\ x.write = ~IsTimestampCall(c)
      <4>1. "wait" \in Pcs /\ (~IsTimestampCall(c)) \in BOOLEAN
        BY DEF Pcs
      <4> QED
        BY <1>2, <3>1, <4>1 DEF Call
    <3>3. /\ call' = [call EXCEPT ![c] = x]
          /\ rw' = [rw EXCEPT !.queue = Append(rw.queue, c)]
      BY <2>2, <3>1 DEF Asks, StartCall, Ask
    <3>4. Fits(x)
      BY <1>1, <1>2, <2>2, <3>2 DEF Fits
    <3>5. Locks(c)'
      <4>1. call'[c] = x
        BY <3>3, CallFacts
      <4>2. IsTimestampCall(c)' <=> IsTimestampCall(c)
        BY <1>1 DEF IsTimestampCall
      <4> QED
        BY <3>2, <4>1, <4>2 DEF Locks
    <3> QED
      BY <1>1, <1>2, <3>2, <3>3, <3>4, <3>5, LockMoves DEF LockStep
  <2> QED
    BY <2>1, <2>2
<1>4. /\ CallTypes' /\ LockInv' /\ GotInv' /\ OracleInv' /\ QueueInv' /\ NobodyForgotten'
      /\ RangeInv'
  <2>1. ~Waits(c)
    BY <1>1 DEF Waits
  <2> QED
    BY <1>1, <1>2, <1>3, <2>1, OracleRests
<1>5. OrderInv'
  <2>1. OrderInv /\ got' = got
    BY <1>1 DEF PdInv
  <2>2. {d \in Callers : HasTimestamp(d)} \in ReaderSets
    BY DEF ReaderSets
  <2>3. /\ seen' \in [Callers -> ReaderSets]
        /\ \A d \in Callers : d # c => seen'[d] = seen[d]
        /\ seen'[c] = {d \in Callers : HasTimestamp(d)}
    BY <1>1, <2>1, <2>2 DEF OrderInv
  <2>4. \A d \in Callers : HasTimestamp(d)' <=> HasTimestamp(d)
    BY <2>1 DEF HasTimestamp
  <2>5. ASSUME NEW e \in Callers, NEW d \in seen'[e] PROVE HasTimestamp(d)
    BY <2>1, <2>3 DEF OrderInv
  <2>6. ASSUME NEW e \in Callers, NEW d \in Callers, e # d, d \in seen'[e], HasTimestamp(e)
        PROVE  got[e] > got[d]
    <3>1. e # c
      BY <1>2, <2>6
    <3> QED
      BY <2>1, <2>3, <2>6, <3>1 DEF OrderInv
  <2>7. \A e, d \in Callers : e # d /\ HasTimestamp(e) /\ HasTimestamp(d) => got[e] # got[d]
    BY <2>1 DEF OrderInv
  <2>8. \A e \in Callers : \A d \in seen'[e] : HasTimestamp(d)'
    <3>1. \A e \in Callers : \A d \in seen'[e] : d \in Callers
      BY <2>3 DEF ReaderSets
    <3> QED
      BY <2>4, <2>5, <3>1
  <2> QED
    BY <2>1, <2>3, <2>4, <2>6, <2>7, <2>8 DEF OrderInv
<1> QED
  BY <1>4, <1>5 DEF PdInv

\* What a call does not touch.
Beside == job' = job /\ mishaps' \in Nat /\ seen' = seen

\* The invariant after a step of a call that leaves the oracle alone.
LEMMA CallStepKeeps ==
  ASSUME PdInv, NEW c \in Callers, NEW x \in Call, LockStep(c, x), seen' = seen,
         UNCHANGED <<tso, clock, got>>, ~Waits(c), x.pc # "await", HasTimestamp(c) => x.pc = "ok",
         x.pc = "ok" /\ IsTimestampCall(c) => HasTimestamp(c)
  PROVE  PdInv'
BY OracleRests, OrderRests DEF PdInv

\* A call gets the lock, for reading if it is for a timestamp.
LEMMA LockForCallKeeps ==
  ASSUME PdInv, NEW c \in Callers, Beside, LockForCall(c)
  PROVE  PdInv'
<1>1. /\ call[c].pc = "wait" /\ Granted(c) /\ Grant(c, "call")
      /\ cluster' = cluster /\ UNCHANGED <<tso, clock, got>>
  BY DEF LockForCall, tsoVars
<1>2. /\ call[c] \in Call /\ Fits(call[c]) /\ Locks(c) /\ cluster \in Cluster
      /\ ~HasTimestamp(c)
  BY <1>1, CallFacts
<1>3. /\ LockKept(c) /\ (~call[c].write => c \in rw'.readers)
  BY <1>1, GrantMoves
<1>4. PICK x : x = [call[c] EXCEPT !.pc = "call"]
  OBVIOUS
<1>5. /\ x \in Call /\ x.pc = "call" /\ x.tries = call[c].tries /\ x.left = call[c].left
  <2>1. "call" \in Pcs
    BY DEF Pcs
  <2> QED
    BY <1>2, <1>4, <2>1 DEF Call
<1>6. call' = [call EXCEPT ![c] = x]
  BY <1>1, <1>4 DEF Grant
<1>7. Fits(x)
  BY <1>1, <1>2, <1>5 DEF Fits
<1>8. Locks(c)'
  <2>1. call'[c] = x
    BY <1>6, CallFacts
  <2>2. IsTimestampCall(c)' <=> IsTimestampCall(c)
    BY DEF Beside, IsTimestampCall
  <2>3. IsTimestampCall(c) => c \in rw'.readers
    BY <1>1, <1>2, <1>3 DEF Locks
  <2> QED
    BY <1>5, <2>1, <2>2, <2>3 DEF Locks
<1>9. LockStep(c, x)
  BY <1>1, <1>2, <1>3, <1>6, <1>7, <1>8 DEF LockStep, Beside
<1>10. ~Waits(c)
  BY <1>1 DEF Waits
<1> QED
  BY <1>1, <1>2, <1>5, <1>9, <1>10, CallStepKeeps DEF Beside

\* A reconnect gets the lock, for writing.
LEMMA LockForReconnectKeeps ==
  ASSUME PdInv, NEW c \in Callers, Beside, LockForReconnect(c)
  PROVE  PdInv'
<1>1. /\ call[c].pc = "waitWrite" /\ Granted(c) /\ Grant(c, "connect")
      /\ cluster' = cluster /\ UNCHANGED <<tso, clock, got>>
  BY DEF LockForReconnect, tsoVars
<1>2. /\ call[c] \in Call /\ Fits(call[c]) /\ Locks(c) /\ cluster \in Cluster
      /\ ~HasTimestamp(c)
  BY <1>1, CallFacts
<1>3. LockKept(c) /\ rw'.writer = c
  BY <1>1, <1>2, GrantMoves DEF Locks
<1>4. PICK x : x = [call[c] EXCEPT !.pc = "connect"]
  OBVIOUS
<1>5. /\ x \in Call /\ x.pc = "connect" /\ x.tries = call[c].tries /\ x.left = call[c].left
  <2>1. "connect" \in Pcs
    BY DEF Pcs
  <2> QED
    BY <1>2, <1>4, <2>1 DEF Call
<1>6. call' = [call EXCEPT ![c] = x]
  BY <1>1, <1>4 DEF Grant
<1>7. Fits(x)
  BY <1>1, <1>2, <1>5 DEF Fits
<1>8. Locks(c)'
  <2>1. call'[c] = x
    BY <1>6, CallFacts
  <2> QED
    BY <1>3, <1>5, <2>1 DEF Locks
<1>9. LockStep(c, x)
  BY <1>1, <1>2, <1>3, <1>6, <1>7, <1>8 DEF LockStep, Beside
<1>10. ~Waits(c)
  BY <1>1 DEF Waits
<1> QED
  BY <1>1, <1>2, <1>5, <1>9, <1>10, CallStepKeeps DEF Beside

\* A call that succeeds gives the lock back.
LEMMA SucceedsKeeps ==
  ASSUME PdInv, NEW c \in Callers, Beside, TimestampArrives(c) \/ RpcReturns(c)
  PROVE  PdInv'
<1>1. /\ CallSucceeds(c) /\ cluster' = cluster /\ UNCHANGED <<tso, clock, got>>
      /\ \/ call[c].pc = "await" /\ HasTimestamp(c)
         \/ call[c].pc = "call" /\ ~IsTimestampCall(c)
  BY DEF TimestampArrives, RpcReturns, CallSucceeds, tsoVars
<1>2. /\ call[c] \in Call /\ Fits(call[c]) /\ cluster \in Cluster
  BY CallFacts
<1>3. PICK x : x = [call[c] EXCEPT !.pc = "ok"]
  OBVIOUS
<1>4. /\ x \in Call /\ x.pc = "ok" /\ x.tries = call[c].tries /\ x.left = call[c].left
  <2>1. "ok" \in Pcs
    BY DEF Pcs
  <2> QED
    BY <1>2, <1>3, <2>1 DEF Call
<1>5. call' = [call EXCEPT ![c] = x] /\ rw' = Released(c)
  BY <1>1, <1>3 DEF CallSucceeds
<1>6. Fits(x)
  BY <1>2, <1>4 DEF Fits
<1>7. Locks(c)'
  <2>1. call'[c] = x
    BY <1>5, CallFacts
  <2> QED
    BY <1>4, <2>1 DEF Locks
<1>8. LockStep(c, x)
  BY <1>1, <1>2, <1>5, <1>6, <1>7, LockMoves DEF LockStep, Beside
<1>9. ~Waits(c)
  <2>1. ~(NoTimestamp > 0)
    BY SMTT(20) DEF NoTimestamp
  <2> QED
    BY <1>1, <2>1 DEF Waits, HasTimestamp
<1> QED
  BY <1>1, <1>4, <1>8, <1>9, CallStepKeeps DEF Beside

\* A call that fails gives the lock back and will reconnect.
LEMMA FailsKeeps ==
  ASSUME PdInv, NEW c \in Callers, Beside, TimestampFails(c) \/ RpcFails(c)
  PROVE  PdInv'
<1>1. /\ CallFails(c) /\ cluster' = cluster /\ UNCHANGED <<tso, clock, got>>
      /\ call[c].pc = "call" \/ (call[c].pc = "await" /\ got[c] = Failed)
  BY DEF TimestampFails, RpcFails, CallFails, tsoVars
<1>2. /\ call[c] \in Call /\ Fits(call[c]) /\ cluster \in Cluster
  BY CallFacts
<1>3. PICK x : x = [call[c] EXCEPT !.pc = "reconnect", !.left = MaxReconnectAttempts]
  OBVIOUS
<1>4. MaxReconnectAttempts \in Int /\ MaxReconnectAttempts <= MaxReconnectAttempts
  BY RetryAssumption, SMTT(20)
<1>5. /\ x \in Call /\ x.pc = "reconnect" /\ x.tries = call[c].tries
      /\ x.left = MaxReconnectAttempts
  <2>1. "reconnect" \in Pcs
    BY DEF Pcs
  <2> QED
    BY <1>2, <1>3, <1>4, <2>1 DEF Call
<1>6. call' = [call EXCEPT ![c] = x] /\ rw' = Released(c)
  BY <1>1, <1>3 DEF CallFails
<1>7. Fits(x)
  BY <1>1, <1>2, <1>4, <1>5 DEF Fits
<1>8. Locks(c)'
  <2>1. call'[c] = x
    BY <1>6, CallFacts
  <2> QED
    BY <1>5, <2>1 DEF Locks
<1>9. LockStep(c, x)
  BY <1>1, <1>2, <1>6, <1>7, <1>8, LockMoves DEF LockStep, Beside
<1>10. ~Waits(c) /\ ~HasTimestamp(c)
  <2>1. ~(Failed > 0) /\ Failed # NoTimestamp
    BY SMTT(20) DEF NoTimestamp, Failed
  <2> QED
    BY <1>1, <2>1, CallFacts DEF Waits, HasTimestamp
<1> QED
  BY <1>1, <1>5, <1>9, <1>10, CallStepKeeps DEF Beside

\* A call that reconnects notes the time and asks for the lock.
LEMMA BeginReconnectKeeps ==
  ASSUME PdInv, NEW c \in Callers, Beside, BeginReconnect(c)
  PROVE  PdInv'
<1>1. /\ call[c].pc = "reconnect" /\ cluster' = cluster /\ UNCHANGED <<tso, clock, got>>
  BY DEF BeginReconnect, tsoVars
<1>2. /\ call[c] \in Call /\ Fits(call[c]) /\ cluster \in Cluster /\ ~HasTimestamp(c)
  BY <1>1, CallFacts
<1>3. PICK x : x = [call[c] EXCEPT !.pc = "waitWrite", !.write = TRUE, !.begin = cluster]
  OBVIOUS
<1>4. /\ x \in Call /\ x.pc = "waitWrite" /\ x.tries = call[c].tries /\ x.left = call[c].left
      /\ x.write = TRUE
  <2>1. "waitWrite" \in Pcs
    BY DEF Pcs
  <2> QED
    BY <1>2, <1>3, <2>1 DEF Call
<1>5. /\ call' = [call EXCEPT ![c] = x]
      /\ rw' = [rw EXCEPT !.queue = Append(rw.queue, c)]
  BY <1>3 DEF BeginReconnect
<1>6. Fits(x)
  BY <1>1, <1>2, <1>4 DEF Fits
<1>7. Locks(c)'
  <2>1. call'[c] = x
    BY <1>5, CallFacts
  <2> QED
    BY <1>4, <2>1 DEF Locks
<1>8. LockStep(c, x)
  BY <1>1, <1>2, <1>5, <1>6, <1>7, LockMoves DEF LockStep, Beside
<1>9. ~Waits(c)
  BY <1>1 DEF Waits
<1> QED
  BY <1>1, <1>2, <1>4, <1>8, <1>9, CallStepKeeps DEF Beside

\* The connection cannot be made.
LEMMA ReconnectFailsKeeps ==
  ASSUME PdInv, NEW c \in Callers, Beside, ReconnectFails(c)
  PROVE  PdInv'
<1>1. /\ call[c].pc = "connect" /\ cluster' = cluster /\ UNCHANGED <<tso, clock, got>>
  BY DEF ReconnectFails, tsoVars
<1>2. /\ call[c] \in Call /\ Fits(call[c]) /\ cluster \in Cluster /\ ~HasTimestamp(c)
      /\ call[c].left \in Int
  BY <1>1, CallFacts
<1>3. PICK p, n : p = (IF call[c].left = 1 THEN "failed" ELSE "reconnect") /\ n = call[c].left - 1
  OBVIOUS
<1>4. PICK x : x = [call[c] EXCEPT !.pc = p, !.left = n]
  OBVIOUS
<1>5. n \in Int /\ n <= MaxReconnectAttempts
  BY <1>2, <1>3, RetryAssumption, SMTT(20) DEF Fits
<1>6. /\ x \in Call /\ x.pc \in {"failed", "reconnect"} /\ x.tries = call[c].tries /\ x.left = n
  <2>1. p \in Pcs /\ p \in {"failed", "reconnect"}
    BY <1>3 DEF Pcs
  <2> QED
    BY <1>2, <1>4, <1>5, <2>1 DEF Call
<1>7. call' = [call EXCEPT ![c] = x] /\ rw' = Released(c)
  BY <1>3, <1>4 DEF ReconnectFails
<1>8. Fits(x)
  BY <1>1, <1>2, <1>5, <1>6 DEF Fits
<1>9. Locks(c)'
  <2>1. call'[c] = x
    BY <1>7, CallFacts
  <2> QED
    BY <1>6, <2>1 DEF Locks
<1>10. LockStep(c, x)
  BY <1>1, <1>2, <1>7, <1>8, <1>9, LockMoves DEF LockStep, Beside
<1>11. ~Waits(c)
  BY <1>1 DEF Waits
<1> QED
  BY <1>1, <1>2, <1>6, <1>10, <1>11, CallStepKeeps DEF Beside

\* A new oracle: nobody waits for a timestamp, because whoever does holds the lock
\* for reading.
LEMMA ReconnectKeeps ==
  ASSUME PdInv, NEW c \in Callers, Beside, Reconnect(c)
  PROVE  PdInv'
<1>1. /\ call[c].pc = "connect" /\ UNCHANGED <<clock, got>> /\ rw' = Released(c) /\ NextTry(c)
      /\ \/ tso' = NewOracle /\ cluster' = [gen |-> cluster.gen + 1, recent |-> TRUE]
         \/ tso' = tso /\ cluster' = cluster
  BY DEF Reconnect, tsoVars
<1>2. /\ call[c] \in Call /\ Fits(call[c]) /\ cluster \in Cluster /\ ~HasTimestamp(c)
      /\ call[c].tries \in Nat /\ Locks(c)
  BY <1>1, CallFacts
<1>3. cluster' \in Cluster
  <2>1. cluster.gen + 1 \in Nat
    BY <1>2, SMTT(20) DEF Cluster
  <2>2. \A g \in Nat : [gen |-> g, recent |-> TRUE] \in Cluster
    BY DEF Cluster
  <2> QED
    BY <1>1, <1>2, <2>1, <2>2
<1>4. PICK p, n : /\ n = call[c].tries + 1
                  /\ p = IF call[c].tries + 1 < LeaderChangeRetry THEN "idle" ELSE "failed"
  OBVIOUS
<1>5. PICK x : x = [call[c] EXCEPT !.pc = p, !.tries = n]
  OBVIOUS
<1>6. call[c].tries < LeaderChangeRetry
  BY <1>1, <1>2 DEF Fits
<1>7. n \in Nat /\ n <= LeaderChangeRetry /\ (p = "idle" => n < LeaderChangeRetry)
  BY <1>2, <1>4, <1>6, RetryAssumption, SMTT(20)
<1>8. /\ x \in Call /\ x.pc = p /\ x.tries = n /\ x.left = call[c].left /\ p \in {"idle", "failed"}
  <2>1. p \in Pcs /\ p \in {"idle", "failed"}
    BY <1>4 DEF Pcs
  <2> QED
    BY <1>2, <1>5, <1>7, <2>1 DEF Call
<1>9. call' = [call EXCEPT ![c] = x]
  BY <1>1, <1>4, <1>5 DEF NextTry
<1>10. Fits(x)
  BY <1>2, <1>7, <1>8 DEF Fits
<1>11. Locks(c)'
  <2>1. call'[c] = x
    BY <1>9, CallFacts
  <2> QED
    BY <1>8, <2>1 DEF Locks
<1>12. LockStep(c, x)
  BY <1>1, <1>3, <1>9, <1>10, <1>11, LockMoves DEF LockStep, Beside
<1>13. ~Waits(c)
  BY <1>1 DEF Waits
<1>14. CASE tso' = tso
  BY <1>1, <1>2, <1>8, <1>12, <1>13, <1>14, CallStepKeeps DEF Beside
<1>15. CASE tso' = NewOracle
  <2>1. CallTypes' /\ LockInv' /\ call'[c] = x /\ \A d \in Callers : d # c => call'[d] = call[d]
    BY <1>8, <1>12, LockStepKeeps
  <2>2. GotInv'
    BY <1>1, <1>2, <1>8, <1>12, GotRests
  <2>3. /\ NewOracle \in Oracle /\ NewOracle.side = "idle"
        /\ NewOracle.chan = <<>> /\ NewOracle.pending = <<>> /\ NewOracle.resp = <<>>
    BY EmptySeq DEF NewOracle, Oracle
  <2>4. 0 <= MaxBatch /\ 0 <= MaxPending /\ 1..0 = {}
    BY TsoAssumption, SMTT(20)
  <2>5. /\ tso' \in Oracle /\ tso'.side = "idle" /\ tso'.chan = <<>> /\ tso'.pending = <<>>
        /\ tso'.resp = <<>>
    BY <1>15, <2>3
  <2>6. OracleInv' /\ RangeInv'
    BY <2>4, <2>5, EmptySeq DEF OracleInv, RangeInv
  <2>7. QueueInv'
    <3>1. 1..Len(tso'.chan) = {} /\ 1..Len(tso'.pending) = {} /\ Members(tso'.chan) = {}
      BY <2>4, <2>5, EmptySeq
    <3> QED
      BY <3>1 DEF QueueInv
  <2>8. \A d \in Callers : call[d].pc # "await"
    <3>1. rw.writer = c /\ c # None
      BY <1>1, <1>2, NobodyAssumption DEF Locks
    <3>2. rw.readers = {}
      BY <3>1 DEF PdInv, LockInv
    <3> QED
      BY <3>2, CallFacts DEF Locks
  <2>9. \A d \in Callers : call'[d].pc # "await"
    BY <1>8, <2>1, <2>8
  <2>10. NobodyForgotten'
    BY <2>9 DEF NobodyForgotten, Waits
  <2> QED
    BY <1>1, <2>1, <2>2, <2>6, <2>7, <2>10, OrderRests DEF PdInv, Beside
<1> QED
  BY <1>1, <1>14, <1>15

----------------------------------------------------------------------------
(* The oracle                                                              *)

Pollers == {"scheduled", "parked", "contended", "registered"}

\* Only the wakers and the poller differ.
SameQueues(u, t) ==
  /\ u \in Oracle /\ u.chan = t.chan /\ u.pending = t.pending /\ u.resp = t.resp
  /\ u.side = t.side /\ u.net = t.net /\ u.state = t.state /\ u.queued = t.queued

\* Waking the task that polls the stream changes nothing else.
LEMMA WakeupSame ==
  ASSUME NEW t \in Oracle
  PROVE  SameQueues(Wakeup(t), t)
<1>1. \A p \in Pollers : SameQueues([t EXCEPT !.poller = p], t)
  BY DEF Oracle, SameQueues, Pollers
<1>2. SameQueues([t EXCEPT !.again = TRUE], t)
  BY DEF Oracle, SameQueues
<1>3. SameQueues(t, t)
  BY DEF SameQueues
<1>4. "scheduled" \in Pollers
  BY DEF Pollers
<1>5. t.poller \in Pollers
  BY DEF Oracle, Pollers
<1>6. CASE t.poller = "parked"
  <2>1. Wakeup(t) = [t EXCEPT !.poller = "scheduled"]
    BY <1>6, SMTT(20) DEF Wakeup
  <2> QED
    BY <1>1, <1>4, <2>1
<1>7. CASE t.poller \in {"contended", "registered"}
  <2>1. Wakeup(t) = [t EXCEPT !.again = TRUE]
    BY <1>7, SMTT(20) DEF Wakeup
  <2> QED
    BY <1>2, <2>1
<1>8. CASE t.poller = "scheduled"
  <2>1. Wakeup(t) = t
    BY <1>8, SMTT(20) DEF Wakeup
  <2> QED
    BY <1>3, <2>1
<1> QED
  BY <1>5, <1>6, <1>7, <1>8 DEF Pollers

\* What a step of the oracle does not touch.
CallsApart == UNCHANGED <<call, rw, cluster>> /\ Beside

\* The calls and the lock rest.
LEMMA CallsRest ==
  ASSUME PdInv, CallsApart
  PROVE  CallTypes' /\ LockInv'
BY DEF PdInv, CallsApart, Beside, CallTypes, Fits, LockInv, Locks, IsTimestampCall

\* A step that moves nobody in the queues.
LEMMA QueuesRest ==
  ASSUME PdInv, CallsApart, UNCHANGED <<clock, got>>, tso' \in Oracle,
         tso'.chan = tso.chan, tso'.pending = tso.pending, tso'.resp = tso.resp,
         tso'.side = "alloc" => tso.resp # <<>>
  PROVE  PdInv'
<1>1. /\ GotInv /\ OracleInv /\ QueueInv /\ NobodyForgotten /\ RangeInv
      /\ call' = call /\ job' = job /\ seen' = seen /\ clock' = clock /\ got' = got
  BY DEF PdInv, CallsApart, Beside
<1>2. CallTypes' /\ LockInv'
  BY CallsRest
<1>3. GotInv'
  BY <1>1 DEF GotInv, HasTimestamp, IsTimestampCall
<1>4. OracleInv'
  BY <1>1 DEF OracleInv
<1>5. \A d : Waits(d)' <=> Waits(d)
  BY <1>1 DEF Waits
<1>6. QueueInv' /\ NobodyForgotten'
  BY <1>1, <1>5 DEF QueueInv, NobodyForgotten, InOracle
<1>7. RangeInv'
  BY <1>1 DEF RangeInv, Below
<1>8. OrderInv'
  BY <1>1, OrderRests
<1> QED
  BY <1>2, <1>3, <1>4, <1>6, <1>7, <1>8 DEF PdInv

\* The poller and the wakers.
LEMMA PollerKeeps ==
  ASSUME PdInv, CallsApart,
         PollContended \/ PollRegister \/ PollReturn \/ RespLock \/ RespWake \/ StreamEnds
  PROVE  PdInv'
<1>1. /\ OracleInv /\ tso \in Oracle /\ UNCHANGED <<clock, got>>
  BY DEF PdInv, OracleInv, PollContended, PollRegister, PollReturn, RespLock, RespWake, StreamEnds
<1>2. "idle" # "alloc" /\ "wake" # "alloc"
  OBVIOUS
<1>3. CASE PollContended
  <2>1. tso' = [tso EXCEPT !.poller = "contended", !.queued = TRUE]
    BY <1>3 DEF PollContended
  <2>2. /\ tso' \in Oracle /\ tso'.chan = tso.chan /\ tso'.pending = tso.pending
        /\ tso'.resp = tso.resp /\ tso'.side = tso.side
    BY <1>1, <2>1 DEF Oracle
  <2> QED
    BY <1>1, <2>2, QueuesRest DEF OracleInv
<1>4. CASE PollRegister
  <2>1. tso' = [tso EXCEPT !.poller = "registered", !.waker = TRUE]
    BY <1>4 DEF PollRegister
  <2>2. /\ tso' \in Oracle /\ tso'.chan = tso.chan /\ tso'.pending = tso.pending
        /\ tso'.resp = tso.resp /\ tso'.side = tso.side
    BY <1>1, <2>1 DEF Oracle
  <2> QED
    BY <1>1, <2>2, QueuesRest DEF OracleInv
<1>5. CASE PollReturn
  <2>1. PICK p \in Pollers : tso' = [tso EXCEPT !.poller = p, !.again = FALSE, !.queued = FALSE]
    BY <1>5 DEF PollReturn, Pollers
  <2>2. /\ tso' \in Oracle /\ tso'.chan = tso.chan /\ tso'.pending = tso.pending
        /\ tso'.resp = tso.resp /\ tso'.side = tso.side
    BY <1>1, <2>1 DEF Oracle, Pollers
  <2> QED
    BY <1>1, <2>2, QueuesRest DEF OracleInv
<1>6. CASE RespLock
  <2>1. tso' = [tso EXCEPT !.side = "alloc"] /\ tso.resp # <<>>
    BY <1>6 DEF RespLock
  <2>2. /\ tso' \in Oracle /\ tso'.chan = tso.chan /\ tso'.pending = tso.pending
        /\ tso'.resp = tso.resp
    BY <1>1, <2>1 DEF Oracle
  <2> QED
    BY <1>1, <2>1, <2>2, QueuesRest
<1>7. CASE RespWake
  <2>1. PICK t : t = IF tso.waker THEN Wakeup(tso) ELSE tso
    OBVIOUS
  <2>2. SameQueues(t, tso)
    BY <1>1, <2>1, WakeupSame DEF SameQueues
  <2>3. tso' = [t EXCEPT !.side = "idle", !.waker = FALSE]
    BY <1>7, <2>1 DEF RespWake
  <2>4. t \in Oracle /\ t.chan = tso.chan /\ t.pending = tso.pending /\ t.resp = tso.resp
    BY <2>2 DEF SameQueues
  <2>5. /\ tso' \in Oracle /\ tso'.chan = t.chan /\ tso'.pending = t.pending
        /\ tso'.resp = t.resp /\ tso'.side = "idle"
    BY <2>3, <2>4 DEF Oracle
  <2> QED
    BY <1>1, <1>2, <2>4, <2>5, QueuesRest
<1>8. CASE StreamEnds
  <2>1. tso' = [tso EXCEPT !.state = "closing"]
    BY <1>8 DEF StreamEnds
  <2>2. /\ tso' \in Oracle /\ tso'.chan = tso.chan /\ tso'.pending = tso.pending
        /\ tso'.resp = tso.resp /\ tso'.side = tso.side
    BY <1>1, <2>1 DEF Oracle
  <2> QED
    BY <1>1, <2>2, QueuesRest DEF OracleInv
<1> QED
  BY <1>3, <1>4, <1>5, <1>6, <1>7, <1>8

\* Timestamps that are handed out stay, and no new ones come.
LEMMA OrderStays ==
  ASSUME PdInv, seen' = seen,
         \A d \in Callers : /\ HasTimestamp(d)' <=> HasTimestamp(d)
                            /\ HasTimestamp(d) => got'[d] = got[d]
  PROVE  OrderInv'
<1>1. OrderInv
  BY DEF PdInv
<1>2. \A c \in Callers : \A d \in seen[c] : d \in Callers /\ HasTimestamp(d)
  BY <1>1 DEF OrderInv, ReaderSets
<1>3. ASSUME NEW c \in Callers, NEW d \in Callers, c # d
      PROVE  /\ HasTimestamp(c) /\ HasTimestamp(d) => got'[c] # got'[d]
             /\ d \in seen[c] /\ HasTimestamp(c) => got'[c] > got'[d]
  <2>1. HasTimestamp(c) /\ HasTimestamp(d) => got[c] # got[d]
    BY <1>1, <1>3 DEF OrderInv
  <2>2. d \in seen[c] /\ HasTimestamp(c) => got[c] > got[d]
    BY <1>1, <1>3 DEF OrderInv
  <2> QED
    BY <1>2, <2>1, <2>2
<1> QED
  BY <1>1, <1>2, <1>3 DEF OrderInv

\* A request for a timestamp goes into the channel.
LEMMA SendTimestampKeeps ==
  ASSUME PdInv, NEW c \in Callers, Beside, SendTimestampRequest(c)
  PROVE  PdInv'
<1>1. /\ call[c].pc = "call" /\ IsTimestampCall(c) /\ ChanSend(c)
      /\ rw' = rw /\ cluster' = cluster
      /\ Len(tso.chan) < MaxBatch /\ got' = [got EXCEPT ![c] = NoTimestamp] /\ clock' = clock
  BY DEF SendTimestampRequest, ChanSend
<1>2. /\ call[c] \in Call /\ Fits(call[c]) /\ Locks(c) /\ cluster \in Cluster /\ ~HasTimestamp(c)
      /\ GotInv /\ OracleInv /\ QueueInv /\ RangeInv /\ NobodyForgotten
  BY <1>1, CallFacts DEF PdInv
<1>3. PICK x : x = [call[c] EXCEPT !.pc = "await"]
  OBVIOUS
<1>4. /\ x \in Call /\ x.pc = "await" /\ x.tries = call[c].tries /\ x.left = call[c].left
  <2>1. "await" \in Pcs
    BY DEF Pcs
  <2> QED
    BY <1>2, <1>3, <2>1 DEF Call
<1>5. call' = [call EXCEPT ![c] = x]
  BY <1>3 DEF SendTimestampRequest
<1>6. Fits(x)
  BY <1>1, <1>2, <1>4 DEF Fits
<1>7. Locks(c)'
  <2>1. call'[c] = x
    BY <1>5, CallFacts
  <2>2. IsTimestampCall(c)' <=> IsTimestampCall(c)
    BY DEF Beside, IsTimestampCall
  <2>3. c \in rw'.readers
    BY <1>1, <1>2 DEF Locks
  <2> QED
    BY <1>1, <1>4, <2>1, <2>2, <2>3 DEF Locks
<1>8. LockStep(c, x)
  BY <1>1, <1>2, <1>5, <1>6, <1>7, LockMoves DEF LockStep, Beside
<1>9. CallTypes' /\ LockInv' /\ call'[c] = x /\ \A d \in Callers : d # c => call'[d] = call[d]
  BY <1>4, <1>8, LockStepKeeps
<1>10. PICK s : s = Append(tso.chan, c)
  OBVIOUS
<1>11. /\ s \in Seq(Callers) /\ Len(s) = Len(tso.chan) + 1 /\ s[Len(tso.chan) + 1] = c
       /\ \A i \in 1..Len(tso.chan) : s[i] = tso.chan[i]
       /\ Members(s) = Members(tso.chan) \cup {c} /\ Len(tso.chan) \in Nat
  <2>1. tso.chan \in Seq(Callers)
    BY <1>2, OracleTypes
  <2> QED
    BY <1>10, <2>1, MembersAppend, SMTT(20)
<1>12. /\ tso' \in Oracle /\ tso'.chan = s /\ tso'.pending = tso.pending /\ tso'.resp = tso.resp
       /\ tso'.side = tso.side
  <2>1. PICK t : t = [tso EXCEPT !.chan = s]
    OBVIOUS
  <2>2. /\ t \in Oracle /\ t.chan = s /\ t.pending = tso.pending /\ t.resp = tso.resp
        /\ t.side = tso.side
    BY <1>2, <1>11, <2>1, OracleTypes DEF Oracle
  <2>3. \/ tso' = t
        \/ tso' = [Wakeup(t) EXCEPT !.chanWaker = FALSE]
    BY <1>1, <1>10, <2>1 DEF ChanSend
  <2>4. CASE tso' = [Wakeup(t) EXCEPT !.chanWaker = FALSE]
    <3>1. PICK u : u = Wakeup(t)
      OBVIOUS
    <3>2. SameQueues(u, t)
      BY <2>2, <3>1, WakeupSame
    <3>3. /\ u \in Oracle /\ u.chan = t.chan /\ u.pending = t.pending /\ u.resp = t.resp
          /\ u.side = t.side
      BY <3>2 DEF SameQueues
    <3>4. tso' = [u EXCEPT !.chanWaker = FALSE]
      BY <2>4, <3>1
    <3>5. /\ tso' \in Oracle /\ tso'.chan = u.chan /\ tso'.pending = u.pending /\ tso'.resp = u.resp
          /\ tso'.side = u.side
      BY <3>3, <3>4 DEF Oracle
    <3> QED
      BY <2>2, <3>3, <3>5
  <2> QED
    BY <2>2, <2>3, <2>4
<1>13. /\ got' \in [Callers -> Int] /\ got'[c] = NoTimestamp
       /\ \A d \in Callers : d # c => got'[d] = got[d]
  <2>1. NoTimestamp \in Int
    BY SMTT(20) DEF NoTimestamp
  <2> QED
    BY <1>1, <1>2, <2>1 DEF GotInv
<1>14. /\ \A d \in Callers : /\ HasTimestamp(d)' <=> HasTimestamp(d)
                             /\ HasTimestamp(d) => got'[d] = got[d]
  <2>1. ~(NoTimestamp > 0)
    BY SMTT(20) DEF NoTimestamp
  <2>2. \A d \in Callers : HasTimestamp(d)' <=> got'[d] > 0
    BY DEF HasTimestamp
  <2> QED
    BY <1>2, <1>13, <2>1, <2>2 DEF HasTimestamp
<1>15. OrderInv'
  BY <1>14, OrderStays DEF Beside
<1>16. GotInv'
  <2>1. clock \in Nat /\ NoTimestamp <= clock
    BY <1>2, SMTT(20) DEF GotInv, NoTimestamp
  <2>2. ASSUME NEW d \in Callers
        PROVE  /\ got'[d] <= clock
               /\ HasTimestamp(d)' => call'[d].pc \in {"await", "ok"}
               /\ call'[d].pc = "ok" /\ IsTimestampCall(d) => HasTimestamp(d)'
    <3>1. CASE d = c
      BY <1>4, <1>9, <1>13, <2>1, <3>1
    <3>2. CASE d # c
      BY <1>2, <1>9, <1>13, <1>14, <3>2 DEF GotInv
    <3> QED
      BY <3>1, <3>2
  <2>3. \A d \in Callers : IsTimestampCall(d)' <=> IsTimestampCall(d)
    BY DEF Beside, IsTimestampCall
  <2> QED
    BY <1>1, <1>13, <2>1, <2>2, <2>3 DEF GotInv
<1>17. OracleInv'
  <2>1. Len(s) <= MaxBatch
    BY <1>1, <1>11, TsoAssumption, SMTT(20)
  <2> QED
    BY <1>2, <1>12, <2>1 DEF OracleInv
<1>18. \A d \in Callers : Waits(d)' <=> Waits(d) \/ d = c
  BY <1>1, <1>4, <1>9, <1>13 DEF Waits
<1>19. ~Waits(c)
  BY <1>1 DEF Waits
<1>20. QueueInv'
  <2>1. c \notin Members(tso.chan) /\ \A p \in 1..Len(tso.pending) : c \notin Members(tso.pending[p])
    BY <1>2, <1>19 DEF QueueInv
  <2>2. \A i \in 1..Len(tso.chan) : tso.chan[i] # c
    BY <2>1 DEF Members
  <2>3. \A i, j \in 1..Len(s) : s[i] = s[j] => i = j
    <3>1. \A i, j \in 1..Len(tso.chan) : tso.chan[i] = tso.chan[j] => i = j
      BY <1>2 DEF QueueInv
    <3> QED
      BY <1>11, <2>2, <3>1, SMTT(20)
  <2>4. \A p, q \in 1..Len(tso.pending) : \A d \in Members(tso.pending[p]) :
          d \notin Members(s) /\ (d \in Members(tso.pending[q]) => p = q)
    BY <1>2, <1>11, <2>1 DEF QueueInv
  <2>5. \A d \in Members(s) : Waits(d)'
    BY <1>2, <1>11, <1>18, OracleTypes DEF QueueInv
  <2>6. \A p \in 1..Len(tso.pending) : \A d \in Members(tso.pending[p]) : Waits(d)'
    BY <1>2, <1>18, OracleTypes DEF QueueInv
  <2> QED
    BY <1>12, <2>3, <2>4, <2>5, <2>6 DEF QueueInv
<1>21. NobodyForgotten'
  BY <1>2, <1>11, <1>12, <1>18 DEF NobodyForgotten, InOracle
<1>22. RangeInv'
  <2>1. \A i \in 1..Len(tso.resp) : got'[c] <= Below(tso.resp[i])
    BY <1>2, <1>13 DEF RangeInv, NoTimestamp
  <2>2. \A i \in 1..Len(tso.resp) : \A d \in Callers : got'[d] <= Below(tso.resp[i])
    BY <1>2, <1>13, <2>1 DEF RangeInv
  <2> QED
    BY <1>1, <1>2, <1>12, <2>2 DEF RangeInv, Below
<1> QED
  BY <1>9, <1>15, <1>16, <1>17, <1>20, <1>21, <1>22 DEF PdInv

\* All of a sequence, and what is left then.
LEMMA WholeSeq ==
  ASSUME NEW S, NEW s \in Seq(S)
  PROVE  SubSeq(s, 1, Len(s)) = s /\ Drop(s, 0) = s /\ Drop(s, Len(s)) = <<>>
<1>1. SubSeq(s, 1, Len(s)) = s
  BY SMTT(20)
<1>2. Drop(s, 0) = s
  <2>1. 0 + 1 = 1
    BY SMTT(20)
  <2> QED
    BY <1>1, <2>1 DEF Drop
<1>3. SubSeq(s, Len(s) + 1, Len(s)) = <<>>
  BY SMTT(20)
<1> QED
  BY <1>1, <1>2, <1>3 DEF Drop

\* The stream sends the channel as one group, if there is room for it.
LEMMA PollBodyKeeps ==
  ASSUME PdInv, CallsApart, PollBody
  PROVE  PdInv'
<1>1. /\ OracleInv /\ QueueInv /\ NobodyForgotten /\ RangeInv /\ GotInv /\ tso \in Oracle
      /\ tso.chan \in Seq(Callers) /\ tso.pending \in Seq(Seq(Callers)) /\ tso.net \in Seq(Nat)
      /\ clock' = clock /\ got' = got /\ call' = call /\ job' = job /\ seen' = seen
      /\ tso.side # "alloc"
  BY OracleTypes DEF PdInv, PollBody, CallsApart, Beside
<1>2. Len(tso.chan) \in Nat /\ Len(tso.chan) <= MaxBatch /\ Len(tso.pending) \in Nat
  BY <1>1, SMTT(20) DEF OracleInv
<1>3. PICK n : n = IF HasRoom THEN Smaller(Len(tso.chan), MaxBatch) ELSE 0
  OBVIOUS
<1>4. n = (IF HasRoom THEN Len(tso.chan) ELSE 0) /\ n \in Nat /\ (n > 0 => HasRoom /\ n = Len(tso.chan))
      /\ (~(n > 0) => n = 0)
  BY <1>2, <1>3, TsoAssumption, SMTT(20) DEF Smaller
<1>5. PICK w \in BOOLEAN : w = (tso.chanWaker \/ (HasRoom /\ n < MaxBatch))
  OBVIOUS
<1>6. PICK t : t = [tso EXCEPT !.chanWaker = w, !.chan = Drop(tso.chan, n)]
  OBVIOUS
<1>7. tso' = IF n > 0
             THEN [t EXCEPT !.pending = Append(t.pending, SubSeq(tso.chan, 1, n)),
                            !.net = Append(t.net, n)]
             ELSE [t EXCEPT !.waker = TRUE, !.poller = "parked"]
  BY <1>3, <1>5, <1>6 DEF PollBody
<1>8. CASE ~(n > 0)
  <2>1. Drop(tso.chan, n) = tso.chan
    BY <1>1, <1>4, <1>8, WholeSeq
  <2>2. t = [tso EXCEPT !.chanWaker = w, !.chan = tso.chan]
    BY <1>6, <2>1
  <2>3. /\ t \in Oracle /\ t.chan = tso.chan /\ t.pending = tso.pending /\ t.resp = tso.resp
        /\ t.side = tso.side
    BY <1>1, <2>2 DEF Oracle
  <2>4. tso' = [t EXCEPT !.waker = TRUE, !.poller = "parked"]
    BY <1>7, <1>8
  <2>5. /\ tso' \in Oracle /\ tso'.chan = t.chan /\ tso'.pending = t.pending /\ tso'.resp = t.resp
        /\ tso'.side = t.side
    BY <2>3, <2>4 DEF Oracle
  <2> QED
    BY <1>1, <2>3, <2>5, QueuesRest
<1>9. CASE n > 0
  <2>1. /\ n = Len(tso.chan) /\ Drop(tso.chan, n) = <<>> /\ SubSeq(tso.chan, 1, n) = tso.chan
        /\ HasRoom
    BY <1>1, <1>4, <1>9, WholeSeq
  <2>2. PICK e \in Seq(Callers) : e = <<>>
    BY EmptySeq
  <2>3. t = [tso EXCEPT !.chanWaker = w, !.chan = e]
    BY <1>6, <2>1, <2>2
  <2>4. /\ t \in Oracle /\ t.chan = e /\ t.pending = tso.pending /\ t.resp = tso.resp
        /\ t.side = tso.side /\ t.net = tso.net
    BY <1>1, <2>3 DEF Oracle
  <2>5. PICK P, N : P = Append(tso.pending, tso.chan) /\ N = Append(tso.net, n)
    OBVIOUS
  <2>6. tso' = [t EXCEPT !.pending = P, !.net = N]
    BY <1>7, <1>9, <2>1, <2>4, <2>5
  <2>7. PICK m \in Nat : m = Len(tso.pending)
    BY <1>2
  <2>8. /\ P \in Seq(Seq(Callers)) /\ Len(P) = m + 1 /\ P[m + 1] = tso.chan
        /\ \A p \in 1..m : P[p] = tso.pending[p]
    BY <1>1, <2>5, <2>7, MembersAppend, SMTT(20)
  <2>9. N \in Seq(Nat)
    BY <1>1, <1>4, <2>5, MembersAppend, SMTT(20)
  <2>10. /\ tso' \in Oracle /\ tso'.chan = <<>> /\ tso'.pending = P /\ tso'.resp = tso.resp
         /\ tso'.side = tso.side
    <3>1. /\ tso' \in Oracle /\ tso'.chan = t.chan /\ tso'.pending = P /\ tso'.resp = t.resp
          /\ tso'.side = t.side
      BY <2>4, <2>6, <2>8, <2>9 DEF Oracle
    <3> QED
      BY <2>2, <2>4, <3>1
  <2>11. \A p \in 1..(m + 1) : p \in 1..m \/ p = m + 1
    BY SMTT(20)
  <2>12. m + 1 \in 1..(m + 1) /\ \A p \in 1..m : p \in 1..(m + 1)
    BY SMTT(20)
  <2>13. OracleInv'
    <3>1. 0 <= MaxBatch /\ m + 1 <= MaxPending /\ Len(tso.chan) \in 1..MaxBatch
      BY <1>2, <1>4, <1>9, <2>1, <2>7, TsoAssumption, SMTT(20) DEF HasRoom
    <3>2. \A p \in 1..(m + 1) : Len(P[p]) \in 1..MaxBatch
      BY <1>1, <2>7, <2>8, <2>11, <3>1 DEF OracleInv
    <3> QED
      BY <1>1, <2>8, <2>10, <3>1, <3>2, EmptySeq DEF OracleInv
  <2>14. \A d : Waits(d)' <=> Waits(d)
    BY <1>1 DEF Waits
  <2>15. \A p \in 1..(m + 1) : \A d \in Members(P[p]) :
           (p \in 1..m /\ d \in Members(tso.pending[p])) \/ (p = m + 1 /\ d \in Members(tso.chan))
    BY <2>8, <2>11
  <2>16. QueueInv'
    <3>1. 1..Len(tso'.chan) = {} /\ Members(tso'.chan) = {}
      <4>1. 1..0 = {}
        BY SMTT(20)
      <4> QED
        BY <2>10, <4>1, EmptySeq
    <3>2. ASSUME NEW p \in 1..(m + 1), NEW q \in 1..(m + 1), NEW d \in Members(P[p]), d \in Members(P[q])
          PROVE  p = q
      BY <1>1, <2>7, <2>15, <3>2 DEF QueueInv
    <3>3. \A p \in 1..(m + 1) : \A d \in Members(P[p]) : Waits(d)'
      BY <1>1, <2>7, <2>14, <2>15 DEF QueueInv
    <3> QED
      BY <2>8, <2>10, <3>1, <3>2, <3>3 DEF QueueInv
  <2>17. NobodyForgotten'
    <3>1. SUFFICES ASSUME NEW d \in Callers, Waits(d) PROVE InOracle(d)'
      BY <2>14 DEF NobodyForgotten
    <3>2. CASE d \in Members(tso.chan)
      BY <2>8, <2>10, <2>12, <3>2 DEF InOracle
    <3>3. CASE \E p \in 1..Len(tso.pending) : d \in Members(tso.pending[p])
      BY <2>7, <2>8, <2>10, <2>12, <3>3 DEF InOracle
    <3> QED
      BY <1>1, <3>1, <3>2, <3>3 DEF NobodyForgotten, InOracle
  <2>18. RangeInv' /\ GotInv'
    BY <1>1, <2>10 DEF RangeInv, Below, GotInv, HasTimestamp, IsTimestampCall
  <2> QED
    BY <1>1, <2>13, <2>16, <2>17, <2>18, CallsRest, OrderRests DEF PdInv
<1> QED
  BY <1>8, <1>9

\* The elements of a sequence.
LEMMA ElementIn ==
  ASSUME NEW S, NEW s \in Seq(S), NEW i \in 1..Len(s)
  PROVE  s[i] \in S
BY SMTT(20)

\* The responses that wait.
LEMMA ResponseTypes ==
  ASSUME NEW s \in Seq([tail : Nat, count : Nat]), NEW i \in 1..Len(s)
  PROVE  s[i].tail \in Nat /\ s[i].count \in Nat /\ Below(s[i]) \in Int
<1>1. PICK x : x = s[i]
  OBVIOUS
<1>2. x \in [tail : Nat, count : Nat]
  BY <1>1, ElementIn
<1>3. x.tail \in Nat /\ x.count \in Nat
  BY <1>2
<1>4. x.tail - x.count \in Int
  BY <1>3, SMTT(20)
<1> QED
  BY <1>1, <1>3, <1>4 DEF Below

\* PD hands out a range of timestamps above all earlier ones.
LEMMA PdServeKeeps ==
  ASSUME PdInv, CallsApart, PdServe \/ PdMiscounts
  PROVE  PdInv'
<1>1. /\ OracleInv /\ QueueInv /\ NobodyForgotten /\ RangeInv /\ GotInv /\ tso \in Oracle
      /\ tso.net \in Seq(Nat) /\ tso.resp \in Seq([tail : Nat, count : Nat]) /\ clock \in Nat
      /\ got' = got /\ call' = call /\ job' = job /\ seen' = seen /\ tso.net # <<>>
  BY OracleTypes DEF PdInv, PdServe, PdMiscounts, CallsApart, Beside, GotInv
<1>2. Head(tso.net) \in Nat /\ Tail(tso.net) \in Seq(Nat)
  BY <1>1, MembersTail, SMTT(20)
<1>3. PICK n \in Nat : /\ clock' = clock + n
                       /\ tso' = [tso EXCEPT !.net = Tail(tso.net),
                                   !.resp = Append(tso.resp, [tail |-> clock', count |-> n])]
  <2>1. CASE PdServe
    BY <1>2, <2>1 DEF PdServe
  <2>2. CASE PdMiscounts
    <3>1. \A h \in Nat : h + 1 \in Nat /\ clock + h + 1 = clock + (h + 1)
      BY <1>1, SMTT(20)
    <3> QED
      BY <1>2, <2>2, <3>1 DEF PdMiscounts
  <2> QED
    BY <2>1, <2>2
<1>4. PICK r : r = [tail |-> clock', count |-> n]
  OBVIOUS
<1>5. clock' \in Nat /\ clock <= clock' /\ clock' <= clock'
  BY <1>1, <1>3, SMTT(20)
<1>6. r \in [tail : Nat, count : Nat] /\ r.tail = clock' /\ r.count = n
  BY <1>4, <1>5
<1>7. Below(r) = clock
  BY <1>1, <1>3, <1>6, SMTT(20) DEF Below
<1>8. PICK R : R = Append(tso.resp, r)
  OBVIOUS
<1>9. PICK m \in Nat : m = Len(tso.resp)
  BY <1>1, SMTT(20)
<1>10. /\ R \in Seq([tail : Nat, count : Nat]) /\ Len(R) = m + 1 /\ R[m + 1] = r
       /\ \A i \in 1..m : R[i] = tso.resp[i]
  BY <1>1, <1>6, <1>8, <1>9, MembersAppend, SMTT(20)
<1>11. PICK N \in Seq(Nat) : N = Tail(tso.net)
  BY <1>2
<1>12. /\ tso' \in Oracle /\ tso'.chan = tso.chan /\ tso'.pending = tso.pending /\ tso'.resp = R
       /\ tso'.side = tso.side
  <2>1. tso' = [tso EXCEPT !.net = N, !.resp = R]
    BY <1>3, <1>4, <1>8, <1>11
  <2> QED
    BY <1>1, <1>10, <2>1 DEF Oracle
<1>13. OracleInv'
  <2>1. R # <<>>
    BY <1>10, SMTT(20)
  <2> QED
    BY <1>1, <1>12, <2>1 DEF OracleInv
<1>14. \A d : Waits(d)' <=> Waits(d)
  BY <1>1 DEF Waits
<1>15. QueueInv' /\ NobodyForgotten'
  BY <1>1, <1>12, <1>14 DEF QueueInv, NobodyForgotten, InOracle
<1>16. GotInv'
  <2>1. \A d \in Callers : got[d] <= clock'
    BY <1>1, <1>5, SMTT(20) DEF GotInv
  <2> QED
    BY <1>1, <1>5, <2>1 DEF GotInv, HasTimestamp, IsTimestampCall
<1>17. RangeInv'
  <2>1. ASSUME NEW i \in 1..m
        PROVE  /\ R[i].tail <= clock' /\ 0 <= Below(R[i]) /\ R[i].tail <= Below(R[m + 1])
               /\ \A d \in Callers : got[d] <= Below(R[i])
    <3>1. /\ tso.resp[i].tail <= clock /\ 0 <= Below(tso.resp[i]) /\ tso.resp[i].tail \in Nat
          /\ \A d \in Callers : got[d] <= Below(tso.resp[i])
      <4>1. tso.resp[i].tail \in Nat
        BY <1>1, <1>9, ResponseTypes
      <4> QED
        BY <1>1, <1>9, <4>1 DEF RangeInv
    <3>2. tso.resp[i].tail <= clock'
      BY <1>1, <1>5, <3>1, SMTT(20)
    <3> QED
      BY <1>7, <1>10, <3>1, <3>2
  <2>2. /\ R[m + 1].tail <= clock' /\ 0 <= Below(R[m + 1])
        /\ \A d \in Callers : got[d] <= Below(R[m + 1])
    <3>1. 0 <= clock
      BY <1>1, SMTT(20)
    <3> QED
      BY <1>1, <1>5, <1>6, <1>7, <1>10, <3>1 DEF GotInv
  <2>3. \A i \in 1..(m + 1) : i \in 1..m \/ i = m + 1
    BY SMTT(20)
  <2>4. ASSUME NEW i \in 1..(m + 1), NEW j \in 1..(m + 1), i < j
        PROVE  R[i].tail <= Below(R[j])
    <3>1. i \in 1..m
      BY <2>4, SMTT(20)
    <3>2. CASE j \in 1..m
      BY <1>1, <1>9, <1>10, <2>4, <3>1, <3>2 DEF RangeInv
    <3>3. CASE j = m + 1
      BY <2>1, <3>1, <3>3
    <3> QED
      BY <2>3, <3>2, <3>3
  <2>5. \A i \in 1..(m + 1) : /\ R[i].tail <= clock' /\ 0 <= Below(R[i])
                              /\ \A d \in Callers : got[d] <= Below(R[i])
    BY <2>1, <2>2, <2>3
  <2> QED
    BY <1>1, <1>10, <1>12, <2>4, <2>5 DEF RangeInv, Below
<1> QED
  BY <1>1, <1>13, <1>15, <1>16, <1>17, CallsRest, OrderRests DEF PdInv

\* The request stream is dropped, and everyone who waits gets an error.
LEMMA StreamDroppedKeeps ==
  ASSUME PdInv, CallsApart, StreamDropped
  PROVE  PdInv'
<1>1. /\ OracleInv /\ QueueInv /\ NobodyForgotten /\ RangeInv /\ GotInv
      /\ clock' = clock /\ call' = call /\ job' = job /\ seen' = seen
  BY DEF PdInv, StreamDropped, CallsApart, Beside
<1>2. /\ tso' \in Oracle /\ tso'.side = "idle"
      /\ tso'.chan = <<>> /\ tso'.pending = <<>> /\ tso'.resp = <<>>
  <2>1. PICK t : t = NewOracle
    OBVIOUS
  <2>2. /\ t \in Oracle /\ t.side = "idle" /\ t.chan = <<>> /\ t.pending = <<>> /\ t.resp = <<>>
    BY <2>1, EmptySeq DEF NewOracle, Oracle
  <2>3. tso' = [t EXCEPT !.state = "dead", !.poller = "parked"]
    BY <2>1 DEF StreamDropped
  <2>4. /\ tso' \in Oracle /\ tso'.side = t.side /\ tso'.chan = t.chan /\ tso'.pending = t.pending
        /\ tso'.resp = t.resp
    BY <2>2, <2>3 DEF Oracle
  <2> QED
    BY <2>2, <2>4
<1>3. 1..Len(tso'.chan) = {} /\ 1..Len(tso'.pending) = {} /\ 1..Len(tso'.resp) = {}
      /\ Members(tso'.chan) = {}
  <2>1. 1..0 = {}
    BY SMTT(20)
  <2> QED
    BY <1>2, <2>1, EmptySeq
<1>4. PICK S : S = Members(tso.chan) \cup UNION {Members(g) : g \in Members(tso.pending)}
  OBVIOUS
<1>5. \A d : d \in S <=> InOracle(d)
  <2>1. \A d : d \in S <=> \/ d \in Members(tso.chan)
                           \/ \E g \in Members(tso.pending) : d \in Members(g)
    BY <1>4
  <2>2. \A g : g \in Members(tso.pending) <=> \E p \in 1..Len(tso.pending) : g = tso.pending[p]
    BY DEF Members
  <2> QED
    BY <2>1, <2>2 DEF InOracle
<1>6. got' = [d \in Callers |-> IF d \in S THEN Failed ELSE got[d]]
  BY <1>4 DEF StreamDropped, Fail
<1>7. Failed \in Int /\ ~(Failed > 0) /\ Failed # NoTimestamp /\ ~(NoTimestamp > 0) /\ Failed <= clock
  BY <1>1, SMTT(20) DEF Failed, NoTimestamp, GotInv
<1>8. \A d \in S : Waits(d)
  BY <1>1, <1>5 DEF InOracle, QueueInv
<1>9. \A d \in Callers : /\ d \in S => got'[d] = Failed
                         /\ d \notin S => got'[d] = got[d]
  BY <1>6
<1>10. \A d \in Callers : /\ HasTimestamp(d)' <=> HasTimestamp(d)
                          /\ HasTimestamp(d) => got'[d] = got[d]
  <2>1. \A d \in Callers : HasTimestamp(d)' <=> got'[d] > 0
    BY DEF HasTimestamp
  <2> QED
    BY <1>7, <1>8, <1>9, <2>1 DEF HasTimestamp, Waits
<1>11. OrderInv'
  BY <1>1, <1>10, OrderStays
<1>12. GotInv'
  <2>1. got' \in [Callers -> Int]
    BY <1>1, <1>6, <1>7 DEF GotInv
  <2>2. \A d \in Callers : got'[d] <= clock
    BY <1>1, <1>7, <1>9 DEF GotInv
  <2>3. \A d \in Callers : IsTimestampCall(d)' <=> IsTimestampCall(d)
    BY <1>1 DEF IsTimestampCall
  <2> QED
    BY <1>1, <1>10, <2>1, <2>2, <2>3 DEF GotInv
<1>13. OracleInv'
  <2>1. 0 <= MaxBatch /\ 0 <= MaxPending
    BY TsoAssumption, SMTT(20)
  <2> QED
    BY <1>2, <1>3, <2>1, EmptySeq DEF OracleInv
<1>14. QueueInv' /\ RangeInv'
  BY <1>3 DEF QueueInv, RangeInv
<1>15. NobodyForgotten'
  <2>1. \A d \in Callers : ~Waits(d)'
    BY <1>1, <1>5, <1>7, <1>9 DEF NobodyForgotten, Waits
  <2> QED
    BY <2>1 DEF NobodyForgotten
<1> QED
  BY <1>11, <1>12, <1>13, <1>14, <1>15, CallsRest DEF PdInv

\* The state of the oracle once a response has been dealt with.
LEMMA AllocateQueues ==
  ASSUME OracleInv, RespAllocate, NEW R, R = Tail(tso.resp),
         NEW P, P = (IF tso.pending = <<>> THEN tso.pending ELSE Tail(tso.pending)),
         R \in Seq([tail : Nat, count : Nat]), P \in Seq(Seq(Callers))
  PROVE  /\ tso' \in Oracle /\ tso'.chan = tso.chan /\ tso'.pending = P /\ tso'.resp = R
         /\ tso'.side # "alloc"
<1>1. tso \in Oracle
  BY DEF OracleInv
<1>2. PICK t : t = [tso EXCEPT !.resp = R, !.side = "wake", !.pending = P]
  OBVIOUS
<1>3. t \in Oracle /\ t.chan = tso.chan /\ t.pending = P /\ t.resp = R /\ t.side = "wake"
  BY <1>1, <1>2 DEF Oracle
<1>4. PICK u : u = IF t.queued THEN [Wakeup(t) EXCEPT !.queued = FALSE] ELSE t
  OBVIOUS
<1>5. u \in Oracle /\ u.chan = tso.chan /\ u.pending = P /\ u.resp = R /\ u.side = "wake"
  <2>1. CASE t.queued
    <3>1. PICK v : v = Wakeup(t)
      OBVIOUS
    <3>2. SameQueues(v, t)
      BY <1>3, <3>1, WakeupSame
    <3>3. v \in Oracle /\ v.chan = t.chan /\ v.pending = t.pending /\ v.resp = t.resp /\ v.side = t.side
      BY <3>2 DEF SameQueues
    <3>4. u = [v EXCEPT !.queued = FALSE]
      BY <1>4, <2>1, <3>1
    <3>5. u \in Oracle /\ u.chan = v.chan /\ u.pending = v.pending /\ u.resp = v.resp /\ u.side = v.side
      BY <3>3, <3>4 DEF Oracle
    <3> QED
      BY <1>3, <3>3, <3>5
  <2> QED
    BY <1>3, <1>4, <2>1
<1>6. tso' = u \/ tso' = [u EXCEPT !.state = "closing", !.side = "idle"]
  <2>1. t = [tso EXCEPT !.resp = Tail(tso.resp), !.side = "wake",
                        !.pending = IF tso.pending = <<>> THEN tso.pending ELSE Tail(tso.pending)]
    BY <1>2
  <2> QED
    BY <1>4, <2>1 DEF RespAllocate
<1>7. CASE tso' = [u EXCEPT !.state = "closing", !.side = "idle"]
  <2>1. /\ tso' \in Oracle /\ tso'.chan = u.chan /\ tso'.pending = u.pending /\ tso'.resp = u.resp
        /\ tso'.side = "idle"
    BY <1>5, <1>7 DEF Oracle
  <2> QED
    BY <1>5, <2>1
<1>8. CASE tso' = u
  BY <1>5, <1>8
<1> QED
  BY <1>6, <1>7, <1>8

\* What the members of the oldest group get: a timestamp of the response's range,
\* each another one, or an error.
Served(g, r) ==
  /\ got' \in [Callers -> Int]
  /\ \A d \in Callers \ Members(g) : got'[d] = got[d]
  /\ \A d \in Members(g) : got'[d] = Failed \/ (got'[d] > Below(r) /\ got'[d] <= r.tail)
  /\ \A d, e \in Members(g) : d # e /\ got'[d] = got'[e] => got'[d] = Failed

\* allocate_timestamps gives each of the group another timestamp.
LEMMA AllocatedServes ==
  ASSUME got \in [Callers -> Int], NEW g \in Seq(Callers), NEW r \in [tail : Nat, count : Nat],
         Len(g) = r.count, got' = Allocated(g, r.tail)
  PROVE  Served(g, r)
<1>1. r.tail \in Nat /\ r.count \in Nat /\ Len(g) \in Nat
  BY SMTT(20)
<1> DEFINE At(d) == CHOOSE i \in 1..Len(g) : g[i] = d
<1>2. \A d \in Members(g) : At(d) \in 1..Len(g) /\ g[At(d)] = d
  BY DEF Members
<1>3. got' = [d \in Callers |-> IF d \in Members(g) THEN r.tail - Len(g) + At(d) ELSE got[d]]
  BY DEF Allocated
<1> HIDE DEF At
<1>4. \A d \in Members(g) : d \in Callers
  <2>1. \A i \in 1..Len(g) : g[i] \in Callers
    BY ElementIn
  <2> QED
    BY <2>1 DEF Members
<1>5. \A t, n \in Nat : \A i \in 1..n : /\ t - n + i \in Int
                                        /\ t - n + i > t - n /\ t - n + i <= t
                                        /\ \A j \in 1..n : t - n + i = t - n + j => i = j
  BY SMTT(20)
<1>6. \A i \in 1..Len(g) : /\ r.tail - Len(g) + i \in Int
                           /\ r.tail - Len(g) + i > r.tail - Len(g)
                           /\ r.tail - Len(g) + i <= r.tail
                           /\ \A j \in 1..Len(g) : r.tail - Len(g) + i = r.tail - Len(g) + j => i = j
  BY <1>1, <1>5
<1>7. got' \in [Callers -> Int]
  <2>1. \A d \in Callers : (IF d \in Members(g) THEN r.tail - Len(g) + At(d) ELSE got[d]) \in Int
    BY <1>2, <1>6
  <2> QED
    BY <1>3, <2>1
<1>8. Below(r) = r.tail - Len(g)
  BY DEF Below
<1>9. \A d \in Callers : /\ d \in Members(g) => got'[d] = r.tail - Len(g) + At(d)
                         /\ d \notin Members(g) => got'[d] = got[d]
  BY <1>3
<1>10. \A d \in Members(g) : got'[d] > Below(r) /\ got'[d] <= r.tail
  <2>1. SUFFICES ASSUME NEW d \in Members(g)
                 PROVE  got'[d] > r.tail - Len(g) /\ got'[d] <= r.tail
    BY <1>8
  <2>2. got'[d] = r.tail - Len(g) + At(d) /\ At(d) \in 1..Len(g)
    BY <1>2, <1>4, <1>9, <2>1
  <2>3. /\ r.tail - Len(g) + At(d) > r.tail - Len(g)
        /\ r.tail - Len(g) + At(d) <= r.tail
    BY <1>6, <2>2
  <2> QED
    BY <2>2, <2>3
<1>11. \A d, e \in Members(g) : got'[d] = got'[e] => d = e
  <2>1. SUFFICES ASSUME NEW d \in Members(g), NEW e \in Members(g), got'[d] = got'[e]
                 PROVE  At(d) = At(e)
    BY <1>2
  <2>2. r.tail - Len(g) + At(d) = r.tail - Len(g) + At(e)
    BY <1>4, <1>9, <2>1
  <2> QED
    BY <1>2, <1>6, <2>2
<1> QED
  BY <1>7, <1>9, <1>10, <1>11 DEF Served

\* The oldest group is answered, each member with another timestamp or all with
\* an error.
LEMMA RespAllocateServes ==
  ASSUME PdInv, RespAllocate, NEW r \in [tail : Nat, count : Nat], r = Head(tso.resp),
         NEW g \in Seq(Callers), g = (IF tso.pending = <<>> THEN <<>> ELSE Head(tso.pending))
  PROVE  Served(g, r)
<1>1. got \in [Callers -> Int]
  BY DEF PdInv, GotInv
<1>2. CASE tso.pending # <<>> /\ Len(Head(tso.pending)) = r.count
  <2>1. got' = Allocated(g, r.tail)
    BY <1>2, SMTT(20) DEF RespAllocate
  <2>2. Len(g) = r.count
    BY <1>2
  <2> QED
    BY <1>1, <2>1, <2>2, AllocatedServes
<1>3. CASE tso.pending # <<>> /\ Len(Head(tso.pending)) # r.count
  <2>1. got' = Fail(Members(g))
    BY <1>3, SMTT(20) DEF RespAllocate
  <2>2. Failed \in Int
    BY SMTT(20) DEF Failed
  <2>3. \A d \in Members(g) : d \in Callers
    <3>1. \A i \in 1..Len(g) : g[i] \in Callers
      BY ElementIn
    <3> QED
      BY <3>1 DEF Members
  <2>4. got' \in [Callers -> Int] /\ \A d \in Callers : got'[d] = IF d \in Members(g) THEN Failed ELSE got[d]
    BY <1>1, <2>1, <2>2 DEF Fail
  <2> QED
    BY <2>3, <2>4 DEF Served
<1>4. CASE tso.pending = <<>>
  <2>1. got' = got
    BY <1>4, SMTT(20) DEF RespAllocate
  <2>2. Members(g) = {}
    BY <1>4, EmptySeq
  <2> QED
    BY <1>1, <2>1, <2>2 DEF Served
<1> QED
  BY <1>2, <1>3, <1>4

\* A response is shared out.
LEMMA RespAllocateKeeps ==
  ASSUME PdInv, CallsApart, RespAllocate
  PROVE  PdInv'
<1>1. /\ OracleInv /\ QueueInv /\ NobodyForgotten /\ RangeInv /\ GotInv /\ OrderInv
      /\ tso.resp \in Seq([tail : Nat, count : Nat]) /\ tso.pending \in Seq(Seq(Callers))
      /\ clock' = clock /\ call' = call /\ job' = job /\ seen' = seen
      /\ tso.resp # <<>> /\ tso.side = "alloc"
  BY OracleTypes DEF PdInv, RespAllocate, CallsApart, Beside, OracleInv
<1>2. PICK r, R : r = Head(tso.resp) /\ R = Tail(tso.resp)
  OBVIOUS
<1>3. PICK m \in Nat : m = Len(tso.resp)
  BY <1>1, SMTT(20)
<1>4. /\ r \in [tail : Nat, count : Nat] /\ R \in Seq([tail : Nat, count : Nat])
      /\ r = tso.resp[1] /\ Len(R) = m - 1 /\ m > 0
      /\ \A i \in 1..Len(R) : R[i] = tso.resp[i + 1]
  BY <1>1, <1>2, <1>3, MembersTail
<1>5. \A i \in 1..Len(R) : R[i] = tso.resp[i + 1] /\ i + 1 \in 1..m /\ 1 \in 1..m /\ 1 < i + 1
  BY <1>4, SMTT(20)
<1>6. PICK k \in Nat : k = Len(tso.pending)
  BY <1>1, SMTT(20)
<1>7. PICK g, P : /\ g = IF tso.pending = <<>> THEN <<>> ELSE Head(tso.pending)
                  /\ P = IF tso.pending = <<>> THEN tso.pending ELSE Tail(tso.pending)
  OBVIOUS
<1>8. /\ g \in Seq(Callers) /\ P \in Seq(Seq(Callers)) /\ Len(P) \in Nat /\ Len(P) <= k
      /\ \A p \in 1..Len(P) : p + 1 \in 1..k /\ P[p] = tso.pending[p + 1]
      /\ \A q \in 1..k : (q = 1 /\ tso.pending[q] = g) \/ (q - 1 \in 1..Len(P) /\ P[q - 1] = tso.pending[q])
      /\ Members(g) = {} \/ (1 \in 1..k /\ g = tso.pending[1])
  <2>1. CASE tso.pending = <<>>
    <3>1. g = <<>> /\ P = <<>> /\ k = 0
      BY <1>6, <1>7, <2>1, EmptySeq
    <3>2. 1..0 = {} /\ 0 \in Nat /\ 0 <= 0
      BY SMTT(20)
    <3> QED
      BY <3>1, <3>2, EmptySeq
  <2>2. CASE tso.pending # <<>>
    <3>1. g = Head(tso.pending) /\ P = Tail(tso.pending)
      BY <1>7, <2>2
    <3>2. /\ g \in Seq(Callers) /\ P \in Seq(Seq(Callers)) /\ g = tso.pending[1] /\ k > 0
          /\ Len(P) = k - 1
          /\ \A p \in 1..Len(P) : P[p] = tso.pending[p + 1]
      BY <1>1, <1>6, <2>2, <3>1, MembersTail
    <3>3. /\ Len(P) \in Nat /\ Len(P) <= k /\ 1 \in 1..k
          /\ \A p \in 1..Len(P) : p + 1 \in 1..k
          /\ \A q \in 1..k : q = 1 \/ (q - 1 \in 1..Len(P) /\ (q - 1) + 1 = q)
      BY <3>2, SMTT(20)
    <3>4. \A q \in 1..k : q - 1 \in 1..Len(P) /\ (q - 1) + 1 = q => P[q - 1] = tso.pending[q]
      <4>1. SUFFICES ASSUME NEW q \in 1..k, q - 1 \in 1..Len(P), (q - 1) + 1 = q
                     PROVE  P[q - 1] = tso.pending[q]
        OBVIOUS
      <4>2. P[q - 1] = tso.pending[(q - 1) + 1]
        BY <3>2, <4>1
      <4> QED
        BY <4>1, <4>2
    <3> QED
      BY <3>2, <3>3, <3>4
  <2> QED
    BY <2>1, <2>2
<1>9. /\ tso' \in Oracle /\ tso'.chan = tso.chan /\ tso'.pending = P /\ tso'.resp = R
      /\ tso'.side # "alloc"
  BY <1>1, <1>2, <1>4, <1>7, <1>8, AllocateQueues
<1>10. Served(g, r)
  BY <1>2, <1>4, <1>7, <1>8, RespAllocateServes
<1>11. \A d \in Members(g) : /\ d \in Callers /\ Waits(d) /\ d \notin Members(tso.chan)
                             /\ \A p \in 1..Len(P) : d \notin Members(P[p])
  <2>1. SUFFICES ASSUME NEW d \in Members(g)
                 PROVE  /\ d \in Callers /\ Waits(d) /\ d \notin Members(tso.chan)
                        /\ \A p \in 1..Len(P) : d \notin Members(P[p])
    OBVIOUS
  <2>2. 1 \in 1..k /\ d \in Members(tso.pending[1])
    BY <1>8, <2>1
  <2>3. Waits(d) /\ d \notin Members(tso.chan)
    BY <1>1, <1>6, <2>2 DEF QueueInv
  <2>4. d \in Callers
    <3>1. \A i \in 1..Len(g) : g[i] \in Callers
      BY <1>8, ElementIn
    <3> QED
      BY <3>1 DEF Members
  <2>5. \A p \in 1..Len(P) : p + 1 # 1
    BY SMTT(20)
  <2>6. \A p \in 1..Len(P) : d \notin Members(P[p])
    BY <1>1, <1>6, <1>8, <2>2, <2>5 DEF QueueInv
  <2> QED
    BY <2>3, <2>4, <2>6
<1>12. /\ clock \in Nat /\ r.tail <= clock /\ 0 <= Below(r) /\ r.tail \in Nat /\ Below(r) \in Int
       /\ \A d \in Callers : got[d] <= Below(r) /\ got[d] \in Int /\ got'[d] \in Int
  <2>1. 1 \in 1..m
    BY <1>4, SMTT(20)
  <2>2. r.tail \in Nat /\ Below(r) \in Int
    BY <1>1, <1>3, <1>4, <2>1, ResponseTypes
  <2> QED
    BY <1>1, <1>3, <1>4, <1>10, <2>1, <2>2 DEF RangeInv, GotInv, Served
<1>13. \A d \in Members(g) : /\ got'[d] # NoTimestamp /\ got'[d] <= r.tail /\ got'[d] <= clock
                             /\ HasTimestamp(d)' => got'[d] > Below(r)
  <2>1. SUFFICES ASSUME NEW d \in Members(g)
                 PROVE  /\ got'[d] # NoTimestamp /\ got'[d] <= r.tail /\ got'[d] <= clock
                        /\ got'[d] > 0 => got'[d] > Below(r)
    BY DEF HasTimestamp
  <2>2. got'[d] = Failed \/ (got'[d] > Below(r) /\ got'[d] <= r.tail)
    BY <1>10, <2>1 DEF Served
  <2>3. got'[d] \in Int
    BY <1>11, <1>12, <2>1
  <2> QED
    BY <1>12, <2>2, <2>3, SMTT(20) DEF Failed, NoTimestamp
<1>14. \A d \in Callers \ Members(g) : got'[d] = got[d] /\ (HasTimestamp(d)' <=> HasTimestamp(d))
                                      /\ (Waits(d)' <=> Waits(d))
  BY <1>1, <1>10 DEF Served, HasTimestamp, Waits
<1>15. \A d \in Members(g) : ~HasTimestamp(d) /\ ~Waits(d)'
  <2>1. ~(NoTimestamp > 0)
    BY SMTT(20) DEF NoTimestamp
  <2> QED
    BY <1>11, <1>13, <2>1 DEF HasTimestamp, Waits
<1>16. GotInv'
  <2>1. \A d \in Callers : IsTimestampCall(d)' <=> IsTimestampCall(d)
    BY <1>1 DEF IsTimestampCall
  <2>2. ASSUME NEW d \in Callers
        PROVE  /\ got'[d] <= clock
               /\ HasTimestamp(d)' => call[d].pc \in {"await", "ok"}
               /\ call[d].pc = "ok" /\ IsTimestampCall(d) => HasTimestamp(d)'
    <3>1. CASE d \in Members(g)
      BY <1>11, <1>13, <3>1 DEF Waits
    <3>2. CASE d \notin Members(g)
      BY <1>1, <1>14, <3>2 DEF GotInv
    <3> QED
      BY <3>1, <3>2
  <2> QED
    BY <1>1, <1>10, <1>12, <2>1, <2>2 DEF GotInv, Served
<1>17. OracleInv'
  <2>1. Len(P) <= MaxPending
    BY <1>1, <1>6, <1>8, TsoAssumption, SMTT(20) DEF OracleInv
  <2>2. \A p \in 1..Len(P) : Len(P[p]) \in 1..MaxBatch
    BY <1>1, <1>6, <1>8 DEF OracleInv
  <2> QED
    BY <1>1, <1>9, <2>1, <2>2 DEF OracleInv
<1>18. \A p \in 1..Len(P) : \A d \in Members(P[p]) : d \in Callers
  <2>1. SUFFICES ASSUME NEW p \in 1..Len(P) PROVE \A d \in Members(P[p]) : d \in Callers
    OBVIOUS
  <2>2. P[p] \in Seq(Callers)
    BY <1>8, ElementIn
  <2>3. \A i \in 1..Len(P[p]) : P[p][i] \in Callers
    BY <2>2, ElementIn
  <2> QED
    BY <2>3 DEF Members
<1>19. \A d \in Members(tso.chan) : d \in Callers
  <2>1. tso.chan \in Seq(Callers)
    BY <1>1, OracleTypes
  <2>2. \A i \in 1..Len(tso.chan) : tso.chan[i] \in Callers
    BY <2>1, ElementIn
  <2> QED
    BY <2>2 DEF Members
<1>20. QueueInv'
  <2>1. \A d \in Members(tso.chan) : Waits(d)'
    BY <1>1, <1>11, <1>14, <1>19 DEF QueueInv
  <2>2. \A p \in 1..Len(P) : \A d \in Members(P[p]) : Waits(d)' /\ d \notin Members(tso.chan)
    BY <1>1, <1>6, <1>8, <1>11, <1>14, <1>18 DEF QueueInv
  <2>3. \A p, q \in 1..Len(P) : \A d \in Members(P[p]) : d \in Members(P[q]) => p = q
    <3>1. SUFFICES ASSUME NEW p \in 1..Len(P), NEW q \in 1..Len(P),
                          NEW d \in Members(P[p]), d \in Members(P[q])
                   PROVE  p = q
      OBVIOUS
    <3>2. /\ p + 1 \in 1..k /\ q + 1 \in 1..k
          /\ d \in Members(tso.pending[p + 1]) /\ d \in Members(tso.pending[q + 1])
      BY <1>8, <3>1
    <3>3. p + 1 = q + 1
      BY <1>1, <1>6, <3>2 DEF QueueInv
    <3> QED
      BY <3>3, SMTT(20)
  <2> QED
    BY <1>1, <1>9, <2>1, <2>2, <2>3 DEF QueueInv
<1>21. NobodyForgotten'
  <2>1. SUFFICES ASSUME NEW d \in Callers, Waits(d)' PROVE InOracle(d)'
    BY DEF NobodyForgotten
  <2>2. d \notin Members(g) /\ InOracle(d)
    BY <1>1, <1>14, <1>15, <2>1 DEF NobodyForgotten
  <2>3. CASE d \in Members(tso.chan)
    BY <1>9, <2>3 DEF InOracle
  <2>4. CASE \E q \in 1..k : d \in Members(tso.pending[q])
    <3>1. \E p \in 1..Len(P) : d \in Members(P[p])
      BY <1>8, <2>2, <2>4
    <3> QED
      BY <1>9, <3>1 DEF InOracle
  <2> QED
    BY <1>6, <2>2, <2>3, <2>4 DEF InOracle
<1>22. RangeInv'
  <2>1. ASSUME NEW i \in 1..Len(R)
        PROVE  /\ R[i].tail <= clock /\ 0 <= Below(R[i])
               /\ \A d \in Callers : got'[d] <= Below(R[i])
    <3>1. /\ tso.resp[i + 1].tail <= clock /\ 0 <= Below(tso.resp[i + 1])
          /\ \A d \in Callers : got[d] <= Below(tso.resp[i + 1])
          /\ tso.resp[1].tail <= Below(tso.resp[i + 1])
      BY <1>1, <1>3, <1>5 DEF RangeInv
    <3>2. r.tail <= Below(R[i]) /\ R[i].tail <= clock /\ 0 <= Below(R[i])
          /\ \A d \in Callers : got[d] <= Below(R[i])
      BY <1>4, <1>5, <3>1
    <3>3. Below(R[i]) \in Int
      BY <1>4, ResponseTypes
    <3>4. ASSUME NEW d \in Members(g) PROVE got'[d] <= Below(R[i])
      <4>1. got'[d] <= r.tail /\ got'[d] \in Int
        BY <1>11, <1>12, <1>13
      <4> QED
        BY <1>12, <3>2, <3>3, <4>1, SMTT(20)
    <3> QED
      BY <1>14, <3>2, <3>4
  <2>2. ASSUME NEW i \in 1..Len(R), NEW j \in 1..Len(R), i < j
        PROVE  R[i].tail <= Below(R[j])
    <3>1. i + 1 < j + 1
      BY <2>2, SMTT(20)
    <3> QED
      BY <1>1, <1>3, <1>5, <3>1 DEF RangeInv
  <2> QED
    BY <1>1, <1>9, <2>1, <2>2 DEF RangeInv, Below
<1>23. OrderInv'
  <2>1. \A c \in Callers : \A d \in seen[c] : d \in Callers /\ d \notin Members(g) /\ HasTimestamp(d)
    BY <1>1, <1>15 DEF OrderInv, ReaderSets
  <2>2. \A c \in Members(g) : \A d \in Callers \ Members(g) :
          HasTimestamp(c)' => got'[c] > got'[d] /\ got'[d] # got'[c]
    <3>1. SUFFICES ASSUME NEW c \in Members(g), NEW d \in Callers \ Members(g), HasTimestamp(c)'
                   PROVE  got'[c] > got'[d] /\ got'[d] # got'[c]
      OBVIOUS
    <3>2. /\ got'[c] > Below(r) /\ got'[c] \in Int /\ got'[d] = got[d] /\ got[d] \in Int
          /\ got[d] <= Below(r)
      BY <1>11, <1>12, <1>13, <1>14, <3>1
    <3> QED
      BY <1>12, <3>2, SMTT(20)
  <2>3. ASSUME NEW c \in Callers, NEW d \in Callers, c # d, HasTimestamp(c)', HasTimestamp(d)'
        PROVE  got'[c] # got'[d]
    <3>1. CASE c \in Members(g) /\ d \in Members(g)
      <4>1. ~(Failed > 0)
        BY SMTT(20) DEF Failed
      <4> QED
        BY <1>10, <2>3, <3>1, <4>1 DEF Served, HasTimestamp
    <3>2. CASE c \in Members(g) /\ d \notin Members(g)
      BY <2>2, <2>3, <3>2
    <3>3. CASE c \notin Members(g) /\ d \in Members(g)
      BY <2>2, <2>3, <3>3
    <3>4. CASE c \notin Members(g) /\ d \notin Members(g)
      BY <1>1, <1>14, <2>3, <3>4 DEF OrderInv
    <3> QED
      BY <3>1, <3>2, <3>3, <3>4
  <2>4. ASSUME NEW c \in Callers, NEW d \in Callers, c # d, d \in seen[c], HasTimestamp(c)'
        PROVE  got'[c] > got'[d]
    <3>1. d \notin Members(g)
      BY <2>1, <2>4
    <3>2. CASE c \in Members(g)
      BY <2>2, <2>4, <3>1, <3>2
    <3>3. CASE c \notin Members(g)
      BY <1>1, <1>14, <2>4, <3>1, <3>3 DEF OrderInv
    <3> QED
      BY <3>2, <3>3
  <2>5. \A c \in Callers : \A d \in seen[c] : HasTimestamp(d)'
    BY <1>14, <2>1
  <2> QED
    BY <1>1, <2>3, <2>4, <2>5 DEF OrderInv
<1> QED
  BY <1>16, <1>17, <1>20, <1>21, <1>22, <1>23, CallsRest DEF PdInv

\* reconnect_interval passes.
LEMMA TimeKeeps ==
  ASSUME PdInv, TimePasses
  PROVE  PdInv'
<1>1. /\ cluster' = [cluster EXCEPT !.recent = FALSE]
      /\ UNCHANGED <<rw, call, tso, clock, got, job, mishaps, seen>>
  BY DEF TimePasses, IntervalPasses, tsoVars, clientVars
<1>2. cluster' \in Cluster
  BY <1>1 DEF PdInv, CallTypes, Cluster
<1>3. CallTypes' /\ LockInv' /\ GotInv' /\ OracleInv'
  BY <1>1, <1>2 DEF PdInv, CallTypes, Fits, LockInv, Locks, IsTimestampCall, GotInv, HasTimestamp, OracleInv
<1>4. QueueInv' /\ NobodyForgotten' /\ RangeInv'
  BY <1>1 DEF PdInv, QueueInv, Waits, NobodyForgotten, InOracle, RangeInv, Below
<1> QED
  BY <1>1, <1>3, <1>4, OrderRests DEF PdInv

\* A step of the commands.
LEMMA PdStutters ==
  ASSUME PdInv, Beside, UNCHANGED <<tsoVars, retryVars>>
  PROVE  PdInv'
<1>1. CallsApart /\ UNCHANGED <<tso, clock, got>>
  BY DEF CallsApart, tsoVars, retryVars
<1>2. tso' = tso /\ tso \in Oracle /\ (tso.side = "alloc" => tso.resp # <<>>)
  BY <1>1 DEF PdInv, OracleInv
<1> QED
  BY <1>1, <1>2, QueuesRest

\* Nobody has asked PD yet.
LEMMA InitPd ==
  ASSUME Init
  PROVE  PdInv
<1>1. /\ tso = NewOracle /\ clock = 0 /\ got = [c \in Callers |-> NoTimestamp]
      /\ rw = [readers |-> {}, writer |-> None, queue |-> <<>>]
      /\ call = [c \in Callers |-> NewCall]
      /\ cluster = [gen |-> 1, recent |-> TRUE]
      /\ seen = [c \in Callers |-> {}]
  BY DEF Init, TsoInit, RetryInit
<1>2. /\ job \in [Callers -> {"full", "ts", "region", "cmd", "idle"}] /\ mishaps \in Nat
  BY JobsAssumption DEF Init
<1>3. /\ 0 \in Nat /\ 1 \in Nat /\ 0 \in Int /\ 0 <= LeaderChangeRetry /\ 0 <= MaxReconnectAttempts
      /\ LeaderChangeRetry # 0 => 0 < LeaderChangeRetry
      /\ 0 <= MaxBatch /\ 0 <= MaxPending /\ 0 <= 0 /\ ~(0 > 0) /\ 1..0 = {}
  BY RetryAssumption, TsoAssumption, SMTT(20)
<1>4. "idle" \in Pcs /\ {} \in ReaderSets
  BY DEF Pcs, ReaderSets
<1>5. /\ NewCall \in Call /\ NewCall.pc = "idle" /\ NewCall.tries = 0 /\ NewCall.left = 0
  BY <1>3, <1>4 DEF NewCall, Call
<1>6. Fits(NewCall)
  BY <1>3, <1>5 DEF Fits
<1>7. \A c \in Callers : call[c].pc = "idle" /\ call[c] \in Call /\ Fits(call[c]) /\ got[c] = NoTimestamp
  BY <1>1, <1>5, <1>6
<1>8. cluster \in Cluster /\ rw \in Lock /\ rw.writer = None
  BY <1>1, <1>3, <1>4, EmptySeq DEF Cluster, Lock
<1>9. call \in [Callers -> Call]
  BY <1>1, <1>5
<1>10. CallTypes
  BY <1>2, <1>7, <1>8, <1>9 DEF CallTypes
<1>11. LockInv
  BY <1>7, <1>8 DEF LockInv, Locks
<1>12. \A c \in Callers : got[c] = 0 /\ ~HasTimestamp(c)
  BY <1>3, <1>7 DEF HasTimestamp, NoTimestamp
<1>13. GotInv
  <2>1. got \in [Callers -> Int]
    BY <1>1, <1>3 DEF NoTimestamp
  <2> QED
    BY <1>1, <1>3, <1>7, <1>12, <2>1 DEF GotInv
<1>14. /\ tso \in Oracle /\ tso.side = "idle"
       /\ tso.chan = <<>> /\ tso.pending = <<>> /\ tso.resp = <<>>
  BY <1>1, EmptySeq DEF NewOracle, Oracle
<1>15. 1..Len(tso.chan) = {} /\ 1..Len(tso.pending) = {} /\ 1..Len(tso.resp) = {}
       /\ Members(tso.chan) = {}
  BY <1>3, <1>14, EmptySeq
<1>16. OracleInv
  BY <1>3, <1>14, <1>15, EmptySeq DEF OracleInv
<1>17. QueueInv /\ RangeInv
  BY <1>15 DEF QueueInv, RangeInv
<1>18. NobodyForgotten
  BY <1>7 DEF NobodyForgotten, Waits
<1>19. OrderInv
  BY <1>1, <1>4, <1>12 DEF OrderInv
<1> QED
  BY <1>10, <1>11, <1>13, <1>16, <1>17, <1>18, <1>19 DEF PdInv

\* Every step keeps the calls to PD right.
LEMMA NextPd ==
  ASSUME PdInv, [Next]_vars
  PROVE  PdInv'
<1>1. mishaps \in Nat
  BY DEF PdInv, CallTypes
<1>2. Mishap => job' = job /\ mishaps' \in Nat
  <2>1. \A n \in Nat : n > 0 => n - 1 \in Nat
    BY SMTT(20)
  <2> QED
    BY <1>1, <2>1 DEF Mishap
<1>3. UNCHANGED clientVars => job' = job /\ mishaps' \in Nat
  BY <1>1 DEF clientVars
<1>4. CASE \E c \in Callers : Asks(c)
  BY <1>4, AskKeeps
<1>5. CASE \E c \in Callers : PdStep(c)
  <2>1. PICK c \in Callers : PdStep(c)
    BY <1>5
  <2>2. Beside
    BY <1>3, <2>1 DEF PdStep, Beside
  <2> QED
    BY <2>1, <2>2, LockForCallKeeps, SendTimestampKeeps, SucceedsKeeps, FailsKeeps,
       BeginReconnectKeeps, LockForReconnectKeeps, ReconnectKeeps DEF PdStep
<1>6. CASE \E c \in Callers : PdTrouble(c)
  <2>1. PICK c \in Callers : PdTrouble(c)
    BY <1>6
  <2>2. Beside
    BY <1>2, <2>1 DEF PdTrouble, Beside
  <2> QED
    BY <2>1, <2>2, FailsKeeps, ReconnectFailsKeeps DEF PdTrouble
<1>7. CASE StreamTask \/ TsoTask \/ PdAnswers \/ TsoTrouble
  <2>1. CallsApart
    BY <1>2, <1>3, <1>7 DEF StreamTask, TsoTask, PdAnswers, TsoTrouble, CallsApart, Beside, retryVars
  <2> QED
    BY <1>7, <2>1, PollerKeeps, PollBodyKeeps, RespAllocateKeeps, StreamDroppedKeeps, PdServeKeeps
    DEF StreamTask, TsoTask, PdAnswers, TsoTrouble
<1>8. CASE TimePasses
  BY <1>8, TimeKeeps
<1>9. CASE \/ \E c \in Callers : DispatchStep(c) \/ CallerDrops(c)
           \/ SendLoop \/ StreamOpens \/ StreamStep \/ BatchTrouble \/ UNCHANGED vars
  <2>1. Beside /\ UNCHANGED <<tsoVars, retryVars>>
    BY <1>2, <1>3, <1>9 DEF DispatchStep, CallerDrops, SendLoop, StreamOpens, StreamStep, BatchTrouble, vars, Beside
  <2> QED
    BY <2>1, PdStutters
<1> QED
  BY <1>4, <1>5, <1>6, <1>7, <1>8, <1>9 DEF Next, CallerStep

\* The invariant of the calls to PD and of the oracle.
THEOREM PdInvariant == Spec => []PdInv
<1>1. PdInv /\ [Next]_vars => PdInv'
  BY NextPd
<1> QED
  BY <1>1, InitPd, PTL DEF Spec

\* No two callers get the same timestamp, and one that asks after another has its
\* timestamp gets a later one, for any callers, channel and number of groups, and
\* across groups, errors, retries and reconnects.
THEOREM TimestampsInOrder == Spec => []TimestampsOrdered
<1>1. PdInv => TimestampsOrdered
  BY DEF PdInv, OrderInv, GotInv, TimestampsOrdered
<1> QED
  BY <1>1, PdInvariant, PTL

\* Whoever waits for a timestamp is in the channel or in a group of the oracle in
\* use: no reconnect replaces the oracle under them, so that a response or the end
\* of the stream reaches them.
THEOREM WaitersAreKnown == Spec => []NobodyForgotten
<1>1. PdInv => NobodyForgotten
  BY DEF PdInv
<1> QED
  BY <1>1, PdInvariant, PTL

\* The channel, the groups and the attempts keep their bounds, the lock has one
\* writer or readers, and everything keeps its type.
THEOREM RpcTypes == Spec => []TypeOK
<1>1. BatchInv /\ PdInv => TypeOK
  <2>1. SUFFICES ASSUME BatchInv, PdInv PROVE TypeOK
    OBVIOUS
  <2>2. \A g \in Members(tso.pending) : Len(g) \in 1..MaxBatch
    BY <2>1 DEF PdInv, OracleInv, Members
  <2>3. /\ job \in [Callers -> {"full", "ts", "region", "cmd", "idle"}] /\ mishaps \in Nat
        /\ rw \in Lock /\ \A c \in Callers : Fits(call[c])
    BY <2>1 DEF PdInv, CallTypes
  <2>4. rw.readers \subseteq Callers /\ rw.writer \in Callers \cup {None}
    BY <2>3 DEF Lock, ReaderSets
  <2>5. /\ tso \in Oracle /\ Len(tso.chan) <= MaxBatch /\ Len(tso.pending) <= MaxPending
        /\ rw.writer # None => rw.readers = {}
        /\ \A c \in Callers : got[c] \in Int
    BY <2>1 DEF PdInv, OracleInv, LockInv, GotInv
  <2>6. /\ tso.state \in {"up", "closing", "dead"} /\ tso.side \in {"idle", "alloc", "wake"}
        /\ tso.poller \in {"scheduled", "parked", "contended", "registered"}
    BY <2>5 DEF Oracle
  <2>7. /\ Len(outbound) <= OutboundCap
        /\ sender.conn \in 0..Len(streams)
        /\ \A i \in DOMAIN inflight : i < nextId /\ inflight[i] \in Callers
    BY <2>1 DEF BatchInv, BatchTypes, MapInv, IdInv
  <2>8. ASSUME NEW k \in 1..Len(streams)
        PROVE  Waiting(streams[k]) \in 0..StreamCap
    <3>1. /\ streams[k].reqs \in Seq(Request) /\ streams[k].taken \in Nat
          /\ Fill(streams[k].reqs, streams[k].taken)
      BY <2>1, StreamFact DEF BatchInv
    <3> QED
      BY <3>1, CapAssumption, SMTT(20) DEF Fill, Waiting
  <2> QED
    BY <2>2, <2>3, <2>4, <2>5, <2>6, <2>7, <2>8 DEF TypeOK, Fits
<1> QED
  BY <1>1, BatchInvariant, PdInvariant, PTL
============================================================================
