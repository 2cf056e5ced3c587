----------------------------- MODULE TxnSystem -----------------------------
(***************************************************************************)
(* One transaction, the readers and the garbage collector that meet its    *)
(* locks, and the cluster: Committer and LockResolver over Tikv.           *)
(***************************************************************************)
EXTENDS Committer, LockResolver

vars == <<tikvVars, clock, clientVars, readerVars, gcVars>>

Init == TikvInit /\ CommitterInit /\ ResolverInit

\* A reader gets its timestamp from PD.
StartRead(i) ==
  /\ rpc[i] = "idle" /\ clock < MaxTs
  /\ clock' = clock + 1
  /\ readTs' = [readTs EXCEPT ![i] = clock + 1]
  /\ rpc' = [rpc EXCEPT ![i] = "read"]
  /\ UNCHANGED <<tikvVars, clientVars, rkey, rversion, seen, gcVars>>

Cluster ==
  /\ LateDelivery \/ \E k \in Keys : NewerVersion(k)
  /\ UNCHANGED <<clock, clientVars, readerVars, gcVars>>

Next ==
  \/ CommitterStep /\ UNCHANGED <<readerVars, gcVars>>
  \/ \E i \in Readers : StartRead(i)
  \/ \E i \in Readers : ReaderStep(i) /\ UNCHANGED <<clock, clientVars>>
  \/ \E r \in Regions : GcStep(r) /\ UNCHANGED <<clock, clientVars>>
  \/ Cluster

Spec == Init /\ [][Next]_vars

\* A reader's plan keeps retrying; nothing is assumed of the transaction, of
\* the network or of the garbage collector.
FairSpec == Spec /\ \A i \in Readers : WF_vars(ReaderStep(i) /\ UNCHANGED <<clock, clientVars>>)
----------------------------------------------------------------------------
\* Every variable of the transaction, its resolvers and the cluster has its type.
TypeOK == TikvTypeOK /\ CommitterTypeOK /\ ResolverTypeOK

\* Atomicity: once a key of the transaction is committed, every other key of
\* it is committed with the same timestamp or still locked, whatever the
\* committer, the resolvers, lost replies and late requests do.
Atomicity ==
  \A j, k \in CommitKeys :
    write[j] > 0 => write[k] = write[j] \/ (write[k] = NoWrite /\ k \in locked)

\* "its writes atomically become visible to other transactions at (logically)
\* the commit timestamp": a reader never sees one write and misses another.
AtomicVisibility ==
  \A i \in Readers : \A j, k \in CommitKeys : ~(seen[i][j] = "old" /\ seen[i][k] = "new")

\* "return success as soon as the writes are guaranteed to be committed": after
\* commit() returned a timestamp, every key is committed at it or still locked.
AckedIsDurable ==
  acked > 0 => \A k \in CommitKeys :
                 write[k] = acked \/ (write[k] = NoWrite /\ k \in locked)

\* commit() that reports a key error has not committed anything.
RefusedIsUncommitted ==
  cpc = "returned" /\ result = "refused" => \A k \in CommitKeys : write[k] <= 0

\* commit() fails with an error other than UndeterminedError only if the
\* transaction is not committed.
DefiniteErrorIsUncommitted ==
  cpc = "returned" /\ result \in Errors \ {"undetermined"} =>
    \A k \in CommitKeys : write[k] <= 0

\* "If it succeeds, all mutations made by this transaction will be discarded":
\* after rollback() succeeded no key of the transaction is locked or committed.
RolledBackIsDiscarded ==
  status = "Rolledback" => \A k \in CommitKeys : write[k] = Rollback /\ k \notin locked

\* The assertion of prewrite on one_pc_commit_ts never fails.
NoPanic == cpc # "panicked"

\* Async commit recovery never meets contradictory commit timestamps, and no
\* region's cleanup_locks gives up on an unexpected status.
RecoveryDecides == \A r \in Regions : gpc[r] # "failed"

\* The outcome that the records in TiKV and the answer to the caller imply.
Outcome ==
  LET committed == {write[k] : k \in CommitKeys} \ {NoWrite, Rollback} IN
  IF committed # {} THEN Max(committed)
  ELSE IF acked > 0 THEN acked
  ELSE IF \E k \in CommitKeys : write[k] = Rollback THEN 0 ELSE NoWrite

Abstract == INSTANCE AtomicTxn WITH Keys <- CommitKeys, outcome <- Outcome

\* The transaction is decided once and for all, the caller and every reader
\* learn that decision, and a read begun after commit() returned sees the
\* writes: the committer, the resolvers and the cluster implement AtomicTxn.
ImplementsAtomicTxn == Abstract!Spec

\* A reader that meets locks is not blocked for ever: it reads every key.  The
\* locks count as expired when it asks (Expiry = {TRUE}); a lock that is kept
\* alive may hold it up for as long.
ReadersFinish ==
  \A i \in Readers : rpc[i] = "read" ~> \A k \in CommitKeys : seen[i][k] # "unread"
============================================================================
