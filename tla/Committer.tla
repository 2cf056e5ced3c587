----------------------------- MODULE Committer -----------------------------
(***************************************************************************)
(* One optimistic transaction (transaction/transaction.rs): the public     *)
(* commit() and rollback() with the TransactionStatus they guard, and the  *)
(* Committer that runs prewrite, commit of the primary, and the background *)
(* commit of the other keys, in its three modes: two-phase, async and      *)
(* one-phase commit.                                                       *)
(***************************************************************************)
EXTENDS Tikv

CONSTANTS Modes,          \* the modes a transaction may be opened with
          MaxCalls,       \* bound: calls of commit() and rollback()
          RetryAfter,     \* results of commit() after which the caller calls it again
          RollbackAfter,  \* results of commit() after which the caller rolls back
          MaxTs           \* bound: the last timestamp PD hands out

\* What a call returned: success, a key error (TiKV's verdict), any other
\* error after the retries are used up, no commit timestamp, or
\* UndeterminedError.
Errors  == {"refused", "failed", "lag", "undetermined"}
Results == {"none", "ok", "rolledback"} \cup Errors

ASSUME CommitterAssumption ==
  /\ Modes \subseteq {"2pc", "async", "1pc", "async+1pc"}
  /\ MaxCalls \in Nat /\ MaxTs \in Nat
  /\ RetryAfter \subseteq Errors /\ RollbackAfter \subseteq Errors

VARIABLES
  clock,      \* PD: the last timestamp handed out
  mode,       \* TransactionOptions: async_commit, try_one_pc or neither
  status,     \* Transaction.status
  cpc,        \* what the transaction is awaiting
  result,     \* what the last finished call returned
  calls,      \* number of calls
  replied,    \* the regions that have answered the current request
  minReply,   \* the largest min_commit_ts of the prewrite responses
  onePcReply, \* the largest one_pc_commit_ts
  commitTs,   \* commit_version
  acked       \* the timestamp commit() returned, 0 if it has not

clientVars == <<mode, status, cpc, result, calls, replied, minReply, onePcReply,
                commitTs, acked>>

CommitterInit ==
  /\ clock = StartTs
  /\ mode \in Modes
  /\ status = "Active" /\ cpc = "idle" /\ result = "none" /\ calls = 0
  /\ replied = {} /\ minReply = 0 /\ onePcReply = 0
  /\ commitTs = 0 /\ acked = 0
----------------------------------------------------------------------------
\* The call ends: commit() or rollback() returns to the caller.
Return(res) ==
  /\ cpc' = "returned" /\ result' = res

\* A failed call leaves the status and what has been sent as they are.
Fail(res) ==
  /\ Return(res)
  /\ UNCHANGED <<tikvVars, clock, mode, status, calls, replied, minReply, onePcReply,
                 commitTs, acked>>

\* Mutant: the shard of the primary tries one-phase commit whatever its size.
ShardModeAnySize(r) ==
  IF mode \in {"1pc", "async+1pc"} /\ Primary \in Shard(r) THEN "1pc"
  ELSE IF mode \in {"async", "async+1pc"} THEN "async" ELSE "2pc"

\* PrewriteRequest::apply_shard: one-phase commit is tried only by a shard
\* that has the primary and as many mutations as there are commit keys.
ShardMode(r) ==
  IF /\ mode \in {"1pc", "async+1pc"}
     /\ Primary \in Shard(r) /\ Cardinality(Shard(r)) = Cardinality(CommitKeys)
  THEN "1pc"
  ELSE IF mode \in {"async", "async+1pc"} THEN "async" ELSE "2pc"

PrewriteShard(r) == Request("prewrite", Shard(r), 0, ShardMode(r))

\* commit() moves the status to StartedCommit, also from StartedCommit, and
\* sends the prewrite of every region at once.
CallCommit ==
  /\ status \in {"Active", "StartedCommit"}
  /\ cpc = "idle" \/ (cpc = "returned" /\ result \in RetryAfter)
  /\ calls < MaxCalls /\ calls' = calls + 1
  /\ status' = "StartedCommit" /\ cpc' = "prewrite"
  /\ replied' = {} /\ minReply' = 0 /\ onePcReply' = 0
  /\ msgs' = msgs \cup {PrewriteShard(r) : r \in ShardRegions}
  /\ UNCHANGED <<regionOf, lockTable, conflict, maxTs, clock, mode, result, commitTs, acked>>

\* Mutant: the first min_commit_ts is kept instead of the largest.
PrewriteOkFirst(r) ==
  LET m == PrewriteShard(r) IN
  /\ cpc = "prewrite" /\ r \notin replied
  /\ Prewrite(m.keys, m.mode)
  /\ replied' = replied \cup {r}
  /\ minReply' = IF minReply > 0 THEN minReply ELSE MinCommitReply(m.keys, m.mode)
  /\ onePcReply' = Max({onePcReply, OnePcReply(m.keys, m.mode)})
  /\ UNCHANGED <<msgs, clock, mode, status, cpc, result, calls, commitTs, acked>>

PrewriteOk(r) ==
  LET m == PrewriteShard(r) IN
  /\ cpc = "prewrite" /\ r \notin replied
  /\ Prewrite(m.keys, m.mode)
  /\ replied' = replied \cup {r}
  /\ minReply' = Max({minReply, MinCommitReply(m.keys, m.mode)})
  /\ onePcReply' = Max({onePcReply, OnePcReply(m.keys, m.mode)})
  /\ UNCHANGED <<msgs, clock, mode, status, cpc, result, calls, commitTs, acked>>

PrewriteRefused(r) ==
  /\ cpc = "prewrite" /\ r \notin replied
  /\ ~MayPrewrite(Shard(r))
  /\ Fail("refused")

\* No answer, region errors or foreign locks until the backoff is used up.
PrewriteFailed == cpc = "prewrite" /\ Fail("failed")

\* Returning success: the status, and the requests of commit_secondary, which
\* runs in the background (none after one-phase commit; all keys after async
\* commit; all but the primary after two-phase commit).
Succeed(ts, ks) ==
  /\ Return("ok")
  /\ status' = "Committed" /\ acked' = ts /\ commitTs' = ts
  /\ msgs' = msgs \cup {Request("commit", ks \cap CommitShard(r), ts, "") :
                          r \in {x \in CommitRegions : ks \cap CommitShard(x) # {}}}

\* The single response of a transaction that tried one-phase commit.
OnePcResponse == mode \in {"1pc", "async+1pc"} /\ Cardinality(ShardRegions) = 1

\* Mutant: the first response is taken for all of them.
PrewriteDoneEarly ==
  /\ cpc = "prewrite" /\ replied # {}
  /\ \/ minReply > 0 /\ Succeed(minReply, CommitKeys)
     \/ minReply = 0 /\ cpc' = "getTs" /\ UNCHANGED <<msgs, status, result, commitTs, acked>>
  /\ UNCHANGED <<regionOf, lockTable, conflict, maxTs, clock, mode, calls, replied,
                 minReply, onePcReply>>

\* Prewrite has all its responses: the commit is complete (one-phase), it is
\* decided (async), or two-phase commit goes on.  one_pc_commit_ts of one of
\* several responses fails an assert_eq!; min_commit_ts in the single response
\* of a one-phase attempt is an error.
PrewriteDone ==
  /\ cpc = "prewrite" /\ replied = ShardRegions
  /\ \/ OnePcResponse /\ onePcReply > 0 /\ Succeed(onePcReply, {})
     \/ ~OnePcResponse /\ onePcReply = 0 /\ minReply > 0 /\ Succeed(minReply, CommitKeys)
     \/ /\ IF OnePcResponse THEN onePcReply = 0 ELSE onePcReply > 0 \/ minReply = 0
        /\ cpc' = IF onePcReply > 0 THEN "panicked"
                  ELSE IF minReply > 0 THEN "returned" ELSE "getTs"
        /\ result' = IF onePcReply = 0 /\ minReply > 0 THEN "failed" ELSE result
        /\ UNCHANGED <<msgs, status, commitTs, acked>>
  /\ UNCHANGED <<regionOf, lockTable, conflict, maxTs, clock, mode, calls, replied,
                 minReply, onePcReply>>

\* Mutant: the secondaries are committed together with the primary.
FetchCommitTsAllKeys ==
  /\ cpc = "getTs" /\ clock < MaxTs
  /\ clock' = clock + 1 /\ commitTs' = clock + 1
  /\ cpc' = "commit"
  /\ msgs' = msgs \cup {Request("commit", CommitShard(r), clock + 1, "") : r \in CommitRegions}
  /\ UNCHANGED <<regionOf, lockTable, conflict, maxTs, mode, status, result, calls,
                 replied, minReply, onePcReply, acked>>

\* Mutant: a commit timestamp that PD handed out before the prewrite.
FetchCommitTsStale ==
  /\ cpc = "getTs"
  /\ commitTs' = StartTs + 1
  /\ cpc' = "commit"
  /\ msgs' = msgs \cup {Request("commit", {Primary}, StartTs + 1, "")}
  /\ UNCHANGED <<regionOf, lockTable, conflict, maxTs, clock, mode, status, result, calls,
                 replied, minReply, onePcReply, acked>>

\* commit_primary: fetch_commit_timestamp, then the commit request.
FetchCommitTs ==
  /\ cpc = "getTs" /\ clock < MaxTs
  /\ clock' = clock + 1 /\ commitTs' = clock + 1
  /\ cpc' = "commit"
  /\ msgs' = msgs \cup {Request("commit", {Primary}, clock + 1, "")}
  /\ UNCHANGED <<regionOf, lockTable, conflict, maxTs, mode, status, result, calls,
                 replied, minReply, onePcReply, acked>>

\* PD fails, or its timestamps stay below commit_wait_until_tso.
FetchCommitTsFailed == cpc = "getTs" /\ Fail("lag")

CommitPrimaryOk ==
  /\ cpc = "commit"
  /\ Commit({Primary}, commitTs)
  /\ Succeed(commitTs, CommitKeys \ {Primary})
  /\ UNCHANGED <<clock, mode, calls, replied, minReply, onePcReply>>

CommitPrimaryRefused ==
  cpc = "commit" /\ ~MayCommit({Primary}, commitTs) /\ Fail("refused")

\* Only Error::Grpc, a failed connection, marks the outcome undetermined; an
\* RPC that gets no answer ends in Error::GrpcAPI.
Undetermined(error) == error = "Grpc"

\* Mutant: a lost answer is reported as a key error.
CommitPrimaryFailedRefused == cpc = "commit" /\ Fail("refused")

CommitPrimaryFailed ==
  /\ cpc = "commit"
  /\ \E error \in {"Grpc", "GrpcAPI"} :
       Fail(IF Undetermined(error) THEN "undetermined" ELSE "failed")
----------------------------------------------------------------------------
\* rollback() is allowed from Active, StartedCommit and StartedRollback.
CallRollback ==
  /\ status \in {"Active", "StartedCommit", "StartedRollback"}
  /\ \/ cpc = "idle"
     \/ cpc = "returned" /\ (result \in RollbackAfter \/ status = "StartedRollback")
  /\ calls < MaxCalls /\ calls' = calls + 1
  /\ status' = "StartedRollback" /\ cpc' = "rollback"
  /\ replied' = {}
  /\ msgs' = msgs \cup {Request("rollback", CommitShard(r), 0, "") : r \in CommitRegions}
  /\ UNCHANGED <<regionOf, lockTable, conflict, maxTs, clock, mode, result, minReply,
                 onePcReply, commitTs, acked>>

RollbackOk(r) ==
  /\ cpc = "rollback" /\ r \notin replied
  /\ BatchRollback(CommitShard(r))
  /\ replied' = replied \cup {r}
  /\ UNCHANGED <<msgs, clock, mode, status, cpc, result, calls, minReply, onePcReply,
                 commitTs, acked>>

\* Mutant: the first response is taken for all of them.
RollbackDoneEarly ==
  /\ cpc = "rollback" /\ replied # {}
  /\ Return("rolledback")
  /\ status' = "Rolledback"
  /\ UNCHANGED <<tikvVars, clock, mode, calls, replied, minReply, onePcReply, commitTs,
                 acked>>

RollbackDone ==
  /\ cpc = "rollback" /\ replied = CommitRegions
  /\ Return("rolledback")
  /\ status' = "Rolledback"
  /\ UNCHANGED <<tikvVars, clock, mode, calls, replied, minReply, onePcReply, commitTs,
                 acked>>

\* A committed key refuses, or there is no answer.
RollbackFailed ==
  /\ cpc = "rollback"
  /\ \E res \in {"failed"} \cup {"refused" : r \in {x \in CommitRegions :
                                              ~MayRollback(CommitShard(x))}} : Fail(res)

\* The transaction is dropped, or its process ends, at any point.
Drop ==
  /\ cpc \notin {"gone", "panicked"}
  /\ cpc' = "gone" /\ status' = "Dropped"
  /\ UNCHANGED <<tikvVars, clock, mode, result, calls, replied, minReply, onePcReply,
                 commitTs, acked>>
----------------------------------------------------------------------------
CommitterStep ==
  \/ CallCommit
  \/ \E r \in ShardRegions : PrewriteOk(r) \/ PrewriteRefused(r)
  \/ PrewriteFailed \/ PrewriteDone
  \/ FetchCommitTs \/ FetchCommitTsFailed
  \/ CommitPrimaryOk \/ CommitPrimaryRefused \/ CommitPrimaryFailed
  \/ CallRollback
  \/ \E r \in CommitRegions : RollbackOk(r)
  \/ RollbackDone \/ RollbackFailed
  \/ Drop

Statuses == {"Active", "StartedCommit", "Committed", "StartedRollback", "Rolledback",
             "Dropped"}

CommitterTypeOK ==
  /\ clock \in Nat /\ mode \in Modes
  /\ status \in Statuses
  /\ cpc \in {"idle", "prewrite", "getTs", "commit", "rollback", "returned", "gone",
              "panicked"}
  /\ result \in Results
  /\ calls \in Nat
  /\ replied \subseteq Regions
  /\ {minReply, onePcReply, commitTs, acked} \subseteq Nat
============================================================================
