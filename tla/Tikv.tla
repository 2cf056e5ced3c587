------------------------------- MODULE Tikv -------------------------------
(***************************************************************************)
(* The TiKV cluster as one transaction of the client sees it: the locks,   *)
(* commit records and rollback tombstones that the transaction with start  *)
(* timestamp StartTs leaves on its keys, and the requests in the network.  *)
(* TiKV is not part of the repository: its behaviour is taken from how     *)
(* src/src/transaction uses it and from the request definitions in         *)
(* proto/kvrpcpb.proto.                                                    *)
(*                                                                         *)
(* A request that was sent may be executed at any later time, more than    *)
(* once (the client re-sends what it got no answer to) or never.  The      *)
(* client that waits for it either learns the answer of an execution or    *)
(* gives up; what is executed after that is a late delivery.               *)
(***************************************************************************)
EXTENDS Integers, FiniteSets, FiniteSetsExt

CONSTANTS Keys,          \* every key the transaction mutates
          CheckKeys,     \* those with a CheckNotExists mutation: never locked
          Primary,       \* the primary key
          Regions,
          RegionMaps,    \* the possible assignments of keys to regions
          SafeWindow     \* max_commit_ts_safe_window

StartTs   == 1
NoWrite   == -1
Rollback  == 0
CommitKeys == Keys \ CheckKeys

ASSUME TikvAssumption ==
  /\ CheckKeys \subseteq Keys
  /\ Primary \in CommitKeys
  /\ RegionMaps \subseteq [Keys -> Regions]
  /\ SafeWindow \in Nat

VARIABLES
  regionOf,     \* the region of each key
  locked,       \* keys with a prewrite lock of this transaction
  asyncLocked,  \* those locks that have use_async_commit set
  minCommit,    \* min_commit_ts of each lock
  write,        \* NoWrite, Rollback, or the commit timestamp
  conflict,     \* keys that have a newer version of another transaction
  maxTs,        \* the largest timestamp a region has served a read at
  msgs          \* every request ever sent

lockTable == <<locked, asyncLocked, minCommit, write>>
tikvVars == <<regionOf, lockTable, conflict, maxTs, msgs>>

Shard(r)       == {k \in Keys : regionOf[k] = r}
CommitShard(r) == {k \in CommitKeys : regionOf[k] = r}
ShardRegions   == {regionOf[k] : k \in Keys}
CommitRegions  == {regionOf[k] : k \in CommitKeys}

Requests == [type : {"prewrite", "commit", "rollback", "cleanup", "status", "resolve",
                     "secondaries"},
             keys : SUBSET Keys, ts : Nat, mode : {"", "2pc", "async", "1pc"}]

Request(type, keys, ts, mode) == [type |-> type, keys |-> keys, ts |-> ts, mode |-> mode]

TikvInit ==
  /\ regionOf \in RegionMaps
  /\ locked = {} /\ asyncLocked = {}
  /\ minCommit = [k \in Keys |-> 0]
  /\ write = [k \in Keys |-> NoWrite]
  /\ conflict = {}
  /\ maxTs = [r \in Regions |-> 0]
  /\ msgs = {}
----------------------------------------------------------------------------
(* Prewrite.  A newer version or a tombstone on any key refuses the whole  *)
(* request; keys that are locked or committed already are left alone.      *)

MayPrewrite(ks) == \A k \in ks : k \notin conflict /\ write[k] # Rollback

\* Async commit and one-phase commit take their timestamp from the reads the
\* region has served; beyond max_commit_ts TiKV falls back to plain locks.
ComputedTs(ks) == 1 + Max({StartTs} \cup {maxTs[regionOf[k]] : k \in ks})

Prewrite(ks, mode) ==
  LET new == {k \in ks \cap CommitKeys : write[k] = NoWrite /\ k \notin locked}
      ts  == ComputedTs(ks)
      computed == mode # "2pc" /\ ts <= StartTs + SafeWindow
  IN
  /\ MayPrewrite(ks)
  /\ IF mode = "1pc" /\ computed
     THEN /\ write' = [k \in Keys |-> IF k \in new THEN ts ELSE write[k]]
          /\ UNCHANGED <<locked, asyncLocked, minCommit>>
     ELSE /\ locked' = locked \cup new
          /\ asyncLocked' = IF computed THEN asyncLocked \cup new ELSE asyncLocked
          /\ minCommit' = [k \in Keys |-> IF k \notin new THEN minCommit[k]
                                          ELSE IF computed THEN ts ELSE StartTs + 1]
          /\ UNCHANGED write
  /\ UNCHANGED <<regionOf, conflict, maxTs>>

\* PrewriteResponse.one_pc_commit_ts and min_commit_ts, in the state after.
OnePcReply(ks, mode) ==
  IF mode = "1pc" /\ \A k \in ks \cap CommitKeys : write'[k] > 0
  THEN Max({0} \cup {write'[k] : k \in ks \cap CommitKeys}) ELSE 0

MinCommitReply(ks, mode) ==
  IF mode = "async" /\ \A k \in ks \cap CommitKeys : k \in asyncLocked' \/ write'[k] > 0
  THEN Max({0} \cup {IF k \in locked' THEN minCommit'[k] ELSE write'[k]
                      : k \in ks \cap CommitKeys})
  ELSE 0
----------------------------------------------------------------------------
(* Commit, rollback and the requests of lock resolution.                   *)

\* Settle turns locks into commit records (ts > 0) or tombstones (0).
Settle(ks, ts) ==
  /\ write' = [k \in Keys |-> IF k \in ks THEN ts ELSE write[k]]
  /\ locked' = locked \ ks
  /\ asyncLocked' = asyncLocked \ ks
  /\ UNCHANGED <<regionOf, minCommit, conflict, maxTs>>

MayCommit(ks, ts) ==
  \A k \in ks : write[k] > 0 \/ (k \in locked /\ minCommit[k] <= ts)

Commit(ks, ts) == MayCommit(ks, ts) /\ Settle(ks \cap locked, ts)

\* BatchRollback removes locks and leaves tombstones; a committed key refuses.
MayRollback(ks) == \A k \in ks : write[k] <= 0

BatchRollback(ks) == MayRollback(ks) /\ Settle(ks, Rollback)

\* Cleanup with current_ts = 0, and CheckTxnStatus where it decides: the
\* primary is rolled back, locked or not, unless it is committed.
RollbackPrimary == Settle({k \in {Primary} : write[k] = NoWrite}, Rollback)

\* ResolveLock with a commit version settles the locks of one region.
ResolveLock(ks, ts) == Settle(ks \cap locked, ts)

\* CheckSecondaryLocks leaves a tombstone where it finds neither a lock nor
\* a record.
CheckSecondaryLocks(ks) == Settle({k \in ks : k \notin locked /\ write[k] = NoWrite}, Rollback)

Execute(m) ==
  \/ m.type = "prewrite" /\ Prewrite(m.keys, m.mode)
  \/ m.type = "commit" /\ Commit(m.keys, m.ts)
  \/ m.type = "rollback" /\ BatchRollback(m.keys)
  \/ m.type = "cleanup" /\ RollbackPrimary
  \/ m.type = "status" /\ Primary \notin asyncLocked /\ RollbackPrimary
  \/ m.type = "resolve" /\ ResolveLock(m.keys, m.ts)
  \/ m.type = "secondaries" /\ CheckSecondaryLocks(m.keys)

LateDelivery == \E m \in msgs : Execute(m) /\ UNCHANGED msgs

\* Another transaction commits a newer version of an unlocked key.
NewerVersion(k) ==
  /\ k \notin locked /\ k \notin conflict /\ write[k] = NoWrite
  /\ conflict' = conflict \cup {k}
  /\ UNCHANGED <<regionOf, lockTable, maxTs, msgs>>

\* A read at ts is blocked by a lock unless the lock's commit is later.
Blocked(k, ts) == k \in locked /\ minCommit[k] <= ts

ServeRead(k, ts) ==
  /\ maxTs' = [maxTs EXCEPT ![regionOf[k]] = IF @ > ts THEN @ ELSE ts]
  /\ UNCHANGED <<regionOf, lockTable, conflict>>

TikvTypeOK ==
  /\ regionOf \in [Keys -> Regions]
  /\ locked \subseteq CommitKeys /\ asyncLocked \subseteq locked
  /\ minCommit \in [Keys -> Nat]
  /\ write \in [Keys -> Nat \cup {NoWrite}]
  /\ conflict \subseteq Keys
  /\ maxTs \in [Regions -> Nat]
  /\ msgs \subseteq Requests
============================================================================
