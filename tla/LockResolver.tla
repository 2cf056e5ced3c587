---------------------------- MODULE LockResolver ----------------------------
(***************************************************************************)
(* Other clients that meet the transaction's locks (transaction/lock.rs).  *)
(*                                                                         *)
(* A reader runs resolve_locks inside its read plan: Cleanup of the        *)
(* primary, then ResolveLock in the region of the key it was reading.  The *)
(* garbage collector runs LockResolver::cleanup_locks in every region,     *)
(* concurrently and with one shared ResolveLocksContext: CheckTxnStatus,   *)
(* for async commit CheckSecondaryLocks, then ResolveLock in its region.   *)
(***************************************************************************)
EXTENDS Tikv

CONSTANTS Readers,
          Expiry,     \* {TRUE}, {FALSE} or both: is the TTL of a lock that is met over
          GcRegions   \* the regions the garbage collector scans

ASSUME ResolverAssumption == Expiry \subseteq BOOLEAN /\ GcRegions \subseteq Regions

NotCached == -1
CachedLocked == -2

VARIABLES
  readTs,       \* the timestamp of each reader, 0 before it starts
  rpc,          \* what each reader is doing
  rkey,         \* the key whose lock it resolves
  rversion,     \* the commit version its Cleanup returned
  seen,         \* what it has read of each key
  gpc,          \* what cleanup_locks is doing in each region
  resolved,     \* ResolveLocksContext.resolved: a commit version, or one of these two
  gcTs,         \* the commit version cleanup_locks works with
  gcChecked,    \* the regions whose CheckSecondaryLocks response is in
  gcMissing,    \* the commit_ts of the responses with missing locks
  gcPlain       \* a response had a lock that is not async commit

readerVars == <<readTs, rpc, rkey, rversion, seen>>
gcVars == <<gpc, resolved, gcTs, gcChecked, gcMissing, gcPlain>>

ResolverInit ==
  /\ readTs = [i \in Readers |-> 0]
  /\ rpc = [i \in Readers |-> "idle"]
  /\ rkey = [i \in Readers |-> Primary]
  /\ rversion = [i \in Readers |-> 0]
  /\ seen = [i \in Readers |-> [k \in CommitKeys |-> "unread"]]
  /\ gpc = [r \in Regions |-> "scan"]
  /\ resolved = NotCached
  /\ gcTs = [r \in Regions |-> 0]
  /\ gcChecked = [r \in Regions |-> {}]
  /\ gcMissing = [r \in Regions |-> {}]
  /\ gcPlain = [r \in Regions |-> FALSE]
----------------------------------------------------------------------------
(* resolve_locks                                                           *)

\* A read of k at the reader's timestamp that no lock blocks.
ReadKey(i, k) ==
  /\ rpc[i] = "read" /\ seen[i][k] = "unread"
  /\ ~Blocked(k, readTs[i])
  /\ ServeRead(k, readTs[i])
  /\ seen' = [seen EXCEPT ![i][k] =
                IF write[k] > 0 /\ write[k] <= readTs[i] THEN "new" ELSE "old"]
  /\ UNCHANGED <<msgs, readTs, rpc, rkey, rversion, gcVars>>

\* The read returns the lock.  Resolved at once if its TTL is over, by a
\* Cleanup whose current_ts is 0; otherwise the read backs off.
ReadLocked(i, k) ==
  /\ rpc[i] = "read" /\ seen[i][k] = "unread"
  /\ Blocked(k, readTs[i])
  /\ ServeRead(k, readTs[i])
  /\ \E expired \in Expiry :
       /\ rpc' = [rpc EXCEPT ![i] = IF expired THEN "cleanup" ELSE "read"]
       /\ msgs' = IF expired THEN msgs \cup {Request("cleanup", {Primary}, 0, "")} ELSE msgs
  /\ rkey' = [rkey EXCEPT ![i] = k]
  /\ UNCHANGED <<readTs, rversion, seen, gcVars>>

\* Mutant: the absence of a commit record is passed on as it is.
CommitVersionRaw == write[Primary]

\* Mutant: every cleaned-up primary counts as rolled back.
CommitVersionZero == 0

\* CleanupResponse.commit_version decides what ResolveLock does.
CommitVersion == IF write[Primary] > 0 THEN write[Primary] ELSE 0

CleanupOk(i) ==
  /\ rpc[i] = "cleanup"
  /\ RollbackPrimary
  /\ rpc' = [rpc EXCEPT ![i] = "resolve"]
  /\ rversion' = [rversion EXCEPT ![i] = CommitVersion]
  /\ msgs' = msgs \cup {Request("resolve", CommitShard(regionOf[rkey[i]]), CommitVersion, "")}
  /\ UNCHANGED <<readTs, rkey, seen, gcVars>>

\* Mutant: the locks of the primary's region are resolved instead.
ResolveOkPrimary(i) ==
  /\ rpc[i] = "resolve"
  /\ ResolveLock(CommitShard(regionOf[Primary]), rversion[i])
  /\ rpc' = [rpc EXCEPT ![i] = "read"]
  /\ UNCHANGED <<msgs, readTs, rkey, rversion, seen, gcVars>>

\* resolve_lock_with_retry.
ResolveOk(i) ==
  /\ rpc[i] = "resolve"
  /\ ResolveLock(CommitShard(regionOf[rkey[i]]), rversion[i])
  /\ rpc' = [rpc EXCEPT ![i] = "read"]
  /\ UNCHANGED <<msgs, readTs, rkey, rversion, seen, gcVars>>
----------------------------------------------------------------------------
(* cleanup_locks                                                           *)

\* ScanLock finds locks of the transaction in the region.
GcScan(r) ==
  /\ r \in GcRegions /\ gpc[r] = "scan"
  /\ CommitShard(r) \cap locked # {}
  /\ gpc' = [gpc EXCEPT ![r] = "status"]
  /\ gcChecked' = [gcChecked EXCEPT ![r] = {}]
  /\ gcMissing' = [gcMissing EXCEPT ![r] = {}]
  /\ gcPlain' = [gcPlain EXCEPT ![r] = FALSE]
  /\ msgs' = msgs \cup {Request("status", {Primary}, 0, "")}
  /\ UNCHANGED <<regionOf, lockTable, conflict, maxTs, readerVars, resolved, gcTs>>

\* check_txn_status answers from its cache.  Locked as the second answer is an
\* error: the region is scanned again, until the backoff is used up.
GcCached(r) ==
  /\ gpc[r] \in {"status", "recheck"} /\ resolved # NotCached
  /\ IF resolved = CachedLocked
     THEN /\ \E next \in IF gpc[r] = "status" THEN {"secondaries"} ELSE {"scan", "failed"} :
               gpc' = [gpc EXCEPT ![r] = next]
          /\ gcTs' = [gcTs EXCEPT ![r] = minCommit[Primary]]
     ELSE /\ gpc' = [gpc EXCEPT ![r] = "resolve"]
          /\ gcTs' = [gcTs EXCEPT ![r] = resolved]
  /\ UNCHANGED <<tikvVars, readerVars, resolved, gcChecked, gcMissing, gcPlain>>

\* check_txn_status asks TiKV, with current_ts = u64::MAX: the primary is
\* rolled back unless it is committed or an async commit lock.  The second
\* call sets force_sync_commit.  A Locked answer whose TTL is over is cached.
GcStatus(r) ==
  LET undecided == gpc[r] = "status" /\ Primary \in asyncLocked IN
  /\ gpc[r] \in {"status", "recheck"} /\ resolved = NotCached
  /\ IF undecided THEN UNCHANGED <<regionOf, lockTable, conflict, maxTs>> ELSE RollbackPrimary
  /\ gpc' = [gpc EXCEPT ![r] = IF undecided THEN "secondaries" ELSE "resolve"]
  /\ gcTs' = [gcTs EXCEPT ![r] = IF undecided THEN minCommit[Primary] ELSE CommitVersion]
  /\ \E expired \in Expiry :
       resolved' = IF ~undecided THEN CommitVersion
                   ELSE IF expired THEN CachedLocked ELSE NotCached
  /\ UNCHANGED <<msgs, readerVars, gcChecked, gcMissing, gcPlain>>

Secondaries(s) == CommitShard(s) \ {Primary}
SecondaryRegions == {s \in CommitRegions : Secondaries(s) # {}}

\* CheckSecondaryLocks goes to every region with secondaries at once.
SecondaryRequests == {Request("secondaries", Secondaries(s), 0, "") : s \in SecondaryRegions}

\* Mutant: the min_commit_ts of the secondaries is not collected.
GcSecondaryPrimaryTs(r, s) ==
  LET ks == Secondaries(s)
      ts == Max({0} \cup {write[k] : k \in ks})
  IN
  /\ gpc[r] = "secondaries" /\ s \notin gcChecked[r] /\ ks # {}
  /\ CheckSecondaryLocks(ks)
  /\ msgs' = msgs \cup SecondaryRequests
  /\ gcChecked' = [gcChecked EXCEPT ![r] = @ \cup {s}]
  /\ gcPlain' = [gcPlain EXCEPT ![r] = @ \/ ~(ks \subseteq asyncLocked)]
  /\ gcMissing' = IF ks \subseteq locked THEN gcMissing
                  ELSE [gcMissing EXCEPT ![r] = @ \cup {ts}]
  /\ UNCHANGED <<gpc, gcTs, readerVars, resolved>>

\* check_all_secondaries: the response of one region s.  With a lock missing
\* it carries a commit_ts (0: rolled back), otherwise the locks.
GcSecondary(r, s) ==
  LET ks == Secondaries(s)
      ts == Max({0} \cup {write[k] : k \in ks})
  IN
  /\ gpc[r] = "secondaries" /\ s \notin gcChecked[r] /\ ks # {}
  /\ CheckSecondaryLocks(ks)
  /\ msgs' = msgs \cup SecondaryRequests
  /\ gcChecked' = [gcChecked EXCEPT ![r] = @ \cup {s}]
  /\ IF ks \subseteq locked
     THEN /\ gcPlain' = [gcPlain EXCEPT ![r] = @ \/ ~(ks \subseteq asyncLocked)]
          /\ gcTs' = [gcTs EXCEPT ![r] = Max({@} \cup {minCommit[k] : k \in ks})]
          /\ UNCHANGED gcMissing
     ELSE /\ gcMissing' = [gcMissing EXCEPT ![r] = @ \cup {ts}]
          /\ UNCHANGED <<gcPlain, gcTs>>
  /\ UNCHANGED <<gpc, readerVars, resolved>>

\* Mutant: missing locks are ignored.
GcDecideAlways(r) ==
  /\ gpc[r] = "secondaries"
  /\ gcChecked[r] = SecondaryRegions
  /\ gpc' = [gpc EXCEPT ![r] = "resolve"]
  /\ UNCHANGED <<tikvVars, readerVars, resolved, gcTs, gcChecked, gcMissing, gcPlain>>

\* All responses are in, and are looked at in the order of the shards, which
\* may be any: a plain lock means fall back to two-phase commit; two different
\* commit_ts, or one below a min_commit_ts, are an internal error; otherwise the
\* transaction has the commit_ts of the missing locks or, if there are none,
\* commits at the largest min_commit_ts.
GcDecide(r) ==
  LET contradiction == \/ Cardinality(gcMissing[r]) > 1
                       \/ \E ts \in gcMissing[r] : ts # 0 /\ ts < gcTs[r]
  IN
  /\ gpc[r] = "secondaries" /\ gcChecked[r] = SecondaryRegions
  /\ \E next \in {"recheck", "failed", "resolve"} :
       /\ next = "recheck" => gcPlain[r]
       /\ next = "failed" => contradiction
       /\ next = "resolve" => ~gcPlain[r] /\ ~contradiction
       /\ gpc' = [gpc EXCEPT ![r] = next]
  /\ gcTs' = [gcTs EXCEPT ![r] = IF gcMissing[r] # {} THEN Max(gcMissing[r]) ELSE @]
  /\ UNCHANGED <<tikvVars, readerVars, resolved, gcChecked, gcMissing, gcPlain>>

\* batch_resolve_locks in the region.
GcResolve(r) ==
  /\ gpc[r] = "resolve"
  /\ ResolveLock(CommitShard(r), gcTs[r])
  /\ msgs' = msgs \cup {Request("resolve", CommitShard(r), gcTs[r], "")}
  /\ gpc' = [gpc EXCEPT ![r] = "done"]
  /\ UNCHANGED <<readerVars, resolved, gcTs, gcChecked, gcMissing, gcPlain>>
----------------------------------------------------------------------------
ReaderStep(i) ==
  \/ \E k \in CommitKeys : ReadKey(i, k) \/ ReadLocked(i, k)
  \/ CleanupOk(i) \/ ResolveOk(i)

GcStep(r) ==
  \/ GcScan(r) \/ GcCached(r) \/ GcStatus(r) \/ GcDecide(r) \/ GcResolve(r)
  \/ \E s \in CommitRegions : GcSecondary(r, s)

ResolverTypeOK ==
  /\ readTs \in [Readers -> Nat]
  /\ rpc \in [Readers -> {"idle", "read", "cleanup", "resolve"}]
  /\ rkey \in [Readers -> CommitKeys] /\ rversion \in [Readers -> Nat]
  /\ seen \in [Readers -> [CommitKeys -> {"unread", "old", "new"}]]
  /\ gpc \in [Regions -> {"scan", "status", "recheck", "secondaries", "resolve", "done",
                          "failed"}]
  /\ resolved \in Nat \cup {NotCached, CachedLocked}
  /\ gcTs \in [Regions -> Nat]
  /\ gcChecked \in [Regions -> SUBSET Regions]
  /\ gcMissing \in [Regions -> SUBSET Nat]
  /\ gcPlain \in [Regions -> BOOLEAN]
============================================================================
