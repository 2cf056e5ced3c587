--------------------------- MODULE TxnInvariants ---------------------------
(***************************************************************************)
(* The inductive invariants of TxnSystem.                                  *)
(*                                                                         *)
(* How a transaction commits is settled by its mode and by the regions of  *)
(* its keys: plain locks everywhere (PlainShards), async commit everywhere *)
(* (AsyncShards), or a single region that tries one-phase commit           *)
(* (OneShard).  Each has an invariant of its own, and ModesInv is all of   *)
(* them.  Recorded is what the three have in common: what they say of the  *)
(* records, the caller and the readers.                                    *)
(***************************************************************************)
EXTENDS TxnSystem

\* The caller calls commit() again, or rollback(), only after an error that is a
\* verdict: a key error or no commit timestamp.  After any other error the
\* properties fail: a Commit whose answer was lost may still take effect.
CallsAfterVerdict ==
  /\ RetryAfter \subseteq {"refused", "lag"}
  /\ RollbackAfter \subseteq {"refused", "lag"}

\* The transaction is opened with neither async nor one-phase commit.
TwoPhaseOnly == Modes = {"2pc"} /\ CallsAfterVerdict

\* Every region is prewritten with plain locks: the mode of a transaction opened
\* that way, and of one that wants one-phase commit but has keys in several regions.
PlainShards == \A r \in ShardRegions : ShardMode(r) = "2pc"

\* The prewrite of k took effect, whatever happened to its lock since.
Secured(k) == k \in locked \/ write[k] # NoWrite

\* The requests of one type that were ever sent.
Sent(type) == {m \in msgs : m.type = type}

\* The primary is rolled back: no Commit of it can succeed any more.
Dead == write[Primary] = Rollback

\* Nothing of async commit or one-phase commit is in use.
ModeInv ==
  /\ PlainShards /\ asyncLocked = {} /\ minReply = 0 /\ onePcReply = 0
  /\ resolved # CachedLocked
  /\ \A r \in Regions : gpc[r] \in {"scan", "status", "resolve", "done"}
  /\ Sent("secondaries") = {}
  /\ \A m \in Sent("prewrite") : m.mode = "2pc"

\* The lock table: the primary decides.  A committed key has the primary's
\* timestamp, which was sent, and a tombstone is due to a dead primary or to
\* rollback().
StoreInv ==
  /\ \A k \in locked : write[k] = NoWrite /\ minCommit[k] = StartTs + 1
  /\ \A k \in CommitKeys : write[k] > 0 => write[k] = write[Primary]
  /\ \A k \in CommitKeys : write[k] = Rollback => Dead \/ Sent("rollback") # {}
  /\ write[Primary] > 0 => \E m \in Sent("commit") : m.ts = write[Primary]

\* The requests: one commit timestamp for all Commits, the secondaries' only after
\* the primary committed, ResolveLock only with the primary's version, and no
\* Commit before every key is secured.
MsgInv ==
  /\ \A m, n \in Sent("commit") : m.ts = n.ts
  /\ \A m \in Sent("commit") :
       /\ StartTs < m.ts /\ m.ts <= clock
       /\ m.keys = {Primary} \/ (Primary \notin m.keys /\ write[Primary] = m.ts)
  /\ \A m \in Sent("rollback") : m.keys \subseteq CommitKeys
  /\ \A m \in Sent("resolve") : m.ts = write[Primary]
  /\ Sent("commit") # {} => \A k \in CommitKeys : Secured(k)
  /\ Sent("commit") # {} /\ Sent("rollback") # {} => Dead

\* The client: what its place in the code says of the requests and the locks.
ClientInv ==
  /\ cpc \in {"prewrite", "getTs", "commit"} => status = "StartedCommit"
  /\ cpc = "rollback" => status = "StartedRollback"
  /\ cpc = "idle" => Sent("commit") = {} /\ Sent("rollback") = {}
  /\ Sent("rollback") # {} => status \in {"StartedRollback", "Rolledback", "Dropped"}
  /\ status = "StartedRollback" => Sent("rollback") # {}
  /\ cpc = "getTs" => replied = ShardRegions /\ Sent("commit") = {}
  /\ cpc \in {"prewrite", "getTs"} => \A r \in replied : \A k \in CommitShard(r) : Secured(k)
  /\ cpc = "prewrite" /\ Sent("commit") # {} => Dead /\ regionOf[Primary] \notin replied
  /\ cpc = "commit" => Request("commit", {Primary}, commitTs, "") \in msgs
  /\ cpc = "returned" /\ result \in {"refused", "lag"} /\ Sent("commit") # {} => Dead
  /\ cpc = "rollback" => \A r \in replied : \A k \in CommitShard(r) : write[k] = Rollback
  /\ status = "Rolledback" => \A k \in CommitKeys : write[k] = Rollback
  /\ acked > 0 => write[Primary] = acked

\* The readers: a key that was read as old is not committed below the read
\* timestamp, now or later.
ReaderInv ==
  /\ \A i \in Readers : rpc[i] = "resolve" => rversion[i] = write[Primary]
  /\ \A i \in Readers : rpc[i] # "idle" => StartTs < readTs[i]
  /\ \A i \in Readers : rpc[i] = "idle" => \A k \in CommitKeys : seen[i][k] = "unread"
  /\ \A i \in Readers : readTs[i] <= clock
  /\ \A i \in Readers : \A k \in CommitKeys :
       seen[i][k] = "new" => write[k] > 0 /\ write[k] <= readTs[i]
  /\ \A i \in Readers : \A k \in CommitKeys :
       seen[i][k] = "old" => Dead \/ \A m \in Sent("commit") : readTs[i] < m.ts
  /\ StartTs <= clock

\* The garbage collector works with the primary's version.
GcInv ==
  /\ \A r \in Regions : gpc[r] = "resolve" => gcTs[r] = write[Primary]
  /\ resolved # NotCached => resolved = write[Primary]

\* The inductive invariant.
TwoPhaseInv ==
  TypeOK /\ ModeInv /\ StoreInv /\ MsgInv /\ ClientInv /\ ReaderInv /\ GcInv
----------------------------------------------------------------------------
\* What the theorems assume: no CheckNotExists mutation, locks that are met are
\* not taken for expired, no timestamp beyond max_commit_ts, and a caller that
\* calls again only after a verdict.
AsyncAssumption ==
  /\ IsFiniteSet(Keys) /\ CheckKeys = {}
  /\ Expiry \subseteq {FALSE}
  /\ 0 < SafeWindow /\ MaxTs <= SafeWindow
  /\ CallsAfterVerdict

\* Every region is prewritten for async commit.
AsyncShards == ~OnePcResponse /\ \A r \in ShardRegions : ShardMode(r) = "async"

\* All keys are in one region, which tries one-phase commit.
OneShard ==
  /\ OnePcResponse
  /\ \A r \in ShardRegions : ShardMode(r) = "1pc" /\ Shard(r) = CommitKeys
----------------------------------------------------------------------------
(* Async commit                                                            *)

\* The commit timestamp, once every key has been locked.
IsFinal(t) ==
  /\ \E k \in CommitKeys : minCommit[k] = t
  /\ \A k \in CommitKeys : 0 < minCommit[k] /\ minCommit[k] <= t

\* A key that never had a lock can not be prewritten any more.
Doomed == \E k \in CommitKeys : minCommit[k] = 0 /\ (k \in conflict \/ write[k] = Rollback)

\* commit() was not called and can not be.
NeverSent == Sent("prewrite") = {} /\ status \notin {"Active", "StartedCommit"}

\* The transaction will not commit.
Lost == Doomed \/ NeverSent

\* A commit version that is safe to act on.
Decided(ts) == IsFinal(ts) \/ (ts = 0 /\ Lost)

\* The lock table and the records.
LocksInv ==
  /\ asyncLocked = locked
  /\ \A k \in locked : write[k] = NoWrite /\ 0 < minCommit[k]
  /\ \A k \in CommitKeys : 0 < minCommit[k] => k \in locked \/ write[k] # NoWrite
  /\ \A k \in CommitKeys \cap conflict : minCommit[k] = 0
  /\ \A k \in CommitKeys : write[k] # NoWrite => Decided(write[k])
  /\ \A k \in CommitKeys : 0 < minCommit[k] => Sent("prewrite") # {}

\* Timestamps in use are not ahead of PD by more than one.
ClockInv ==
  /\ StartTs <= clock /\ clock <= SafeWindow
  /\ \A k \in CommitKeys : minCommit[k] <= clock + 1
  /\ \A r \in Regions : maxTs[r] <= clock
  /\ \A i \in Readers : readTs[i] <= clock

\* The requests.
AsyncMsgInv ==
  /\ Sent("cleanup") = {}
  /\ \A m \in Sent("prewrite") : m.mode = "async"
  /\ \A m \in Sent("commit") : IsFinal(m.ts)
  /\ Sent("rollback") # {} => Lost
  /\ \A m \in Sent("resolve") : Decided(m.ts)

\* commit() and rollback().
AsyncClientInv ==
  /\ cpc \in {"idle", "prewrite", "rollback", "returned", "gone"}
  /\ onePcReply = 0
  /\ cpc = "idle" => Sent("prewrite") = {}
  /\ cpc = "prewrite" => status = "StartedCommit" /\ Sent("prewrite") # {}
  /\ cpc = "rollback" => status = "StartedRollback"
  /\ status = "StartedRollback" => Lost
  /\ cpc = "returned" => result # "lag" /\ (result = "refused" => Lost)
  /\ cpc = "prewrite" => \A r \in replied : \A k \in CommitShard(r) :
                           0 < minCommit[k] /\ minCommit[k] <= minReply
  /\ cpc = "prewrite" /\ replied # {} =>
       \E k \in CommitKeys : 0 < minCommit[k] /\ minCommit[k] = minReply
  /\ cpc = "prewrite" /\ replied = {} => minReply = 0
  /\ acked > 0 => IsFinal(acked)
  /\ cpc = "rollback" => \A r \in replied : \A k \in CommitShard(r) : write[k] = Rollback
  /\ status = "Rolledback" => \A k \in CommitKeys : write[k] = Rollback

\* Why k is not committed at or below the timestamp of reader i, now or later:
\* its region remembers the read, its lock or record is later, or the
\* transaction is lost.
Passed(i, k) ==
  \/ minCommit[k] = 0 /\ readTs[i] <= maxTs[regionOf[k]]
  \/ readTs[i] < minCommit[k]
  \/ readTs[i] < write[k]
  \/ Lost

\* The readers.
AsyncReaderInv ==
  /\ \A i \in Readers : rpc[i] \in {"idle", "read"}
  /\ \A i \in Readers : rpc[i] = "idle" => /\ readTs[i] = 0
                                           /\ \A k \in CommitKeys : seen[i][k] = "unread"
  /\ \A i \in Readers : rpc[i] # "idle" => 0 < readTs[i]
  /\ \A i \in Readers : \A k \in CommitKeys :
       seen[i][k] = "new" => 0 < write[k] /\ write[k] <= readTs[i]
  /\ \A i \in Readers : \A k \in CommitKeys : seen[i][k] = "old" => Passed(i, k)

\* The garbage collector in a region.
GcGood(r) ==
  /\ gpc[r] \in {"scan", "status", "secondaries", "resolve", "done"}
  /\ gcPlain[r] = FALSE
  /\ gpc[r] = "status" => gcChecked[r] = {} /\ gcMissing[r] = {}
  /\ gpc[r] = "resolve" => Decided(gcTs[r])
  /\ gpc[r] = "secondaries" =>
       /\ 0 < minCommit[Primary] /\ minCommit[Primary] <= gcTs[r]
       /\ \E k \in CommitKeys : minCommit[k] = gcTs[r]
       /\ \A ts \in gcMissing[r] : Decided(ts)
       /\ gcMissing[r] = {} => \A s \in gcChecked[r] : \A k \in Secondaries(s) :
                                 0 < minCommit[k] /\ minCommit[k] <= gcTs[r]

\* The garbage collector and its cache.
AsyncGcInv ==
  /\ resolved # NotCached => Decided(resolved)
  /\ \A r \in Regions : GcGood(r)

\* The inductive invariant of async commit.
AsyncInv ==
  /\ TypeOK /\ LocksInv /\ ClockInv /\ AsyncMsgInv
  /\ AsyncClientInv /\ AsyncReaderInv /\ AsyncGcInv
----------------------------------------------------------------------------
(* One-phase commit: a single request commits every key or none.           *)

\* The transaction has not committed.
Uncommitted == \A k \in CommitKeys : write[k] <= 0

\* The records: no lock, and every key committed at one timestamp or none.
OneStoreInv ==
  /\ locked = {} /\ asyncLocked = {}
  /\ \A k \in CommitKeys : minCommit[k] = 0
  /\ \A j, k \in CommitKeys : 0 < write[j] => write[k] = write[j]
  /\ Doomed \/ Sent("prewrite") = {} => Uncommitted

\* The requests: prewrite and rollback of all keys.
OneMsgInv ==
  /\ \A m \in msgs : /\ m.type \in {"prewrite", "rollback"} /\ m.keys = CommitKeys
                     /\ m.type = "prewrite" => m.mode = "1pc"
  /\ Sent("rollback") # {} => Lost

\* commit() and rollback().
OneClientInv ==
  /\ cpc \in {"idle", "prewrite", "rollback", "returned", "gone"}
  /\ minReply = 0
  /\ cpc = "idle" => Sent("prewrite") = {}
  /\ cpc = "prewrite" => status = "StartedCommit" /\ Sent("prewrite") # {}
  /\ cpc = "rollback" => status = "StartedRollback"
  /\ status = "StartedRollback" => Lost
  /\ cpc = "returned" => result # "lag" /\ (result = "refused" => Lost)
  /\ cpc = "prewrite" /\ replied = {} => onePcReply = 0
  /\ cpc = "prewrite" /\ replied # {} =>
       0 < onePcReply /\ \A k \in CommitKeys : write[k] = onePcReply
  /\ acked > 0 => \A k \in CommitKeys : write[k] = acked
  /\ cpc = "rollback" /\ replied # {} => \A k \in CommitKeys : write[k] = Rollback
  /\ status = "Rolledback" => \A k \in CommitKeys : write[k] = Rollback

\* What a reader has seen of a key.
OneSeen(i, k) ==
  /\ seen[i][k] = "new" => 0 < write[k] /\ write[k] <= readTs[i]
  /\ seen[i][k] = "old" => \/ write[k] <= 0 /\ readTs[i] <= maxTs[regionOf[k]]
                           \/ readTs[i] < write[k]

\* The readers.
OneReaderInv ==
  /\ \A i \in Readers : rpc[i] \in {"idle", "read"}
  /\ \A i \in Readers : rpc[i] = "idle" => /\ readTs[i] = 0
                                           /\ \A k \in CommitKeys : seen[i][k] = "unread"
  /\ \A i \in Readers : rpc[i] # "idle" => 0 < readTs[i]
  /\ \A i \in Readers : \A k \in CommitKeys : OneSeen(i, k)

\* The inductive invariant of one-phase commit.
OnePcInv ==
  /\ TypeOK /\ ClockInv /\ OneStoreInv /\ OneMsgInv /\ OneClientInv /\ OneReaderInv
  /\ \A k \in CommitKeys : write[k] <= clock + 1
  /\ \A r \in Regions : gpc[r] = "scan"

\* The inductive invariant, whatever the mode.
ModesInv ==
  /\ OneShard \/ AsyncShards \/ PlainShards
  /\ OneShard => OnePcInv
  /\ AsyncShards => AsyncInv
  /\ PlainShards => TwoPhaseInv
----------------------------------------------------------------------------
(***************************************************************************)
(* What the invariant of a mode says of the records, the caller and the    *)
(* readers.  It implies the safety properties, and with it every step is   *)
(* one of AtomicTxn, whatever the mode.                                    *)
(***************************************************************************)

\* A timestamp at which the transaction is known to be committed: by a record,
\* or by what the caller was told.
CommittedAt(t) == 0 < t /\ (t = acked \/ \E k \in CommitKeys : write[k] = t)

\* A reader sees a key as new only from a record at or below its timestamp, and
\* as old only if no commit at or below its timestamp is known.
ReadsAgree ==
  /\ \A i \in Readers : \A k \in CommitKeys :
       seen[i][k] = "new" => 0 < write[k] /\ write[k] <= readTs[i]
  /\ \A i \in Readers : \A k \in CommitKeys :
       seen[i][k] = "old" => \A t : CommittedAt(t) => readTs[i] < t
  /\ \A i \in Readers : rpc[i] = "read" => 0 < readTs[i]

\* Records and locks tell one outcome; the caller is told it before PD is two
\* timestamps further.
Recorded ==
  /\ TypeOK /\ Atomicity /\ AckedIsDurable /\ ReadsAgree
  /\ \A k \in locked : write[k] = NoWrite
  /\ \A k \in locked : \A t : CommittedAt(t) => minCommit[k] <= t
  /\ cpc = "commit" => 0 < commitTs
  /\ acked <= clock + 1

\* A reader that has not begun has no timestamp, and the caller is answered once.
HistoryInv ==
  /\ \A i \in Readers : rpc[i] = "idle" => readTs[i] = 0
  /\ cpc \in {"prewrite", "getTs", "commit"} => status = "StartedCommit"
  /\ cpc = "rollback" => status = "StartedRollback"
  /\ acked # 0 => status \in {"Committed", "Dropped"}
============================================================================
