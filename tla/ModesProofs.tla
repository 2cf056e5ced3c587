---------------------------- MODULE ModesProofs ----------------------------
(***************************************************************************)
(* The safety properties of TxnSystem for every mode of a transaction, for *)
(* every set of keys, regions and readers and every bound.                 *)
(*                                                                         *)
(* The way a transaction commits is one of three and does not change; the  *)
(* invariant of each is inductive, by TwoPhaseProofs and AsyncProofs and,  *)
(* for the recovery of async commit by the garbage collector, here.        *)
(***************************************************************************)
EXTENDS TwoPhaseProofs, AsyncProofs, FiniteSetTheorems

\* Zenon proves a leaf, and the SMT solver one that cites SMTT: arithmetic
\* and sequences.
USE TikvAssumption, ZenonT(30)
----------------------------------------------------------------------------
(* The mode of a transaction and the regions of its keys                   *)

\* Without CheckNotExists mutations a region tries one-phase commit only if it
\* has all the keys, so that there is a single response.
LEMMA OnePcMeansOneRegion ==
  ASSUME IsFiniteSet(Keys), CheckKeys = {}, regionOf \in [Keys -> Regions],
         NEW r, ShardMode(r) = "1pc"
  PROVE  OnePcResponse
<1>1. /\ mode \in {"1pc", "async+1pc"} /\ CommitKeys = Keys
      /\ Cardinality(Shard(r)) = Cardinality(CommitKeys)
  BY DEF ShardMode, CommitKeys
<1>2. Shard(r) \in SUBSET Keys
  BY DEF Shard
<1>3. Shard(r) = Keys
  BY <1>1, <1>2, FS_Subset
<1>4. ShardRegions = {r}
  BY <1>1, <1>3 DEF ShardRegions, Shard
<1> QED
  BY <1>1, <1>4, FS_Singleton DEF OnePcResponse

\* A single response is that of a region that tried one-phase commit.
LEMMA OneRegionMeansOnePc ==
  ASSUME IsFiniteSet(Keys), CheckKeys = {}, regionOf \in [Keys -> Regions], OnePcResponse
  PROVE  OneShard /\ \A r \in ShardRegions : CommitShard(r) = CommitKeys /\ Shard(r) = CommitKeys
<1>1. mode \in {"1pc", "async+1pc"} /\ Cardinality(ShardRegions) = 1 /\ CommitKeys = Keys
  BY DEF OnePcResponse, CommitKeys
<1>2. IsFiniteSet(ShardRegions)
  <2>1. regionOf \in Surjection(Keys, ShardRegions)
    BY DEF Surjection, ShardRegions
  <2> QED
    BY <2>1, FS_Surjection
<1>3. PICK x : ShardRegions = {x}
  BY <1>1, <1>2, FS_Singleton
<1>4. \A k \in Keys : regionOf[k] = x
  BY <1>3 DEF ShardRegions
<1>5. Shard(x) = Keys /\ CommitShard(x) = CommitKeys
  BY <1>1, <1>4 DEF Shard, CommitShard
<1>6. ShardMode(x) = "1pc"
  BY <1>1, <1>5 DEF ShardMode
<1> QED
  BY <1>1, <1>3, <1>5, <1>6 DEF OneShard

\* The three ways to commit.
LEMMA Cases ==
  ASSUME IsFiniteSet(Keys), CheckKeys = {}, regionOf \in [Keys -> Regions]
  PROVE  OneShard \/ AsyncShards \/ PlainShards
<1>1. CASE OnePcResponse
  BY <1>1, OneRegionMeansOnePc
<1>2. CASE ~OnePcResponse
  <2>1. \A r : ShardMode(r) # "1pc"
    BY <1>2, OnePcMeansOneRegion
  <2> QED
    BY <1>2, <2>1 DEF ShardMode, AsyncShards, PlainShards
<1> QED
  BY <1>1, <1>2

\* The way to commit does not change.
LEMMA CasesStay ==
  ASSUME regionOf' = regionOf, mode' = mode
  PROVE  /\ OneShard' <=> OneShard
         /\ AsyncShards' <=> AsyncShards
         /\ PlainShards' <=> PlainShards
         /\ OnePcResponse' <=> OnePcResponse
BY DEF OneShard, AsyncShards, PlainShards, OnePcResponse, ShardRegions, ShardMode, Shard

\* No request moves a key to another region.
LEMMA RequestsStayInRegion ==
  /\ \A ks, md : Prewrite(ks, md) => regionOf' = regionOf
  /\ \A ks, ts : Commit(ks, ts) \/ ResolveLock(ks, ts) => regionOf' = regionOf
  /\ \A ks : BatchRollback(ks) \/ CheckSecondaryLocks(ks) => regionOf' = regionOf
  /\ RollbackPrimary => regionOf' = regionOf
<1>1. \A ks, md : Prewrite(ks, md) => regionOf' = regionOf
  BY DEF Prewrite
<1>2. \A ks, ts : Settle(ks, ts) => regionOf' = regionOf
  BY DEF Settle
<1> QED
  BY <1>1, <1>2 DEF Commit, ResolveLock, BatchRollback, CheckSecondaryLocks, RollbackPrimary

\* The mode of the transaction and the regions of its keys do not change.
LEMMA NextStays ==
  ASSUME [Next]_vars
  PROVE  regionOf' = regionOf /\ mode' = mode
<1>1. CASE CommitterStep
  <2>1. CASE \/ CallCommit \/ PrewriteDone \/ FetchCommitTs \/ CallRollback \/ RollbackDone \/ Drop
    BY <2>1 DEF CallCommit, PrewriteDone, FetchCommitTs, CallRollback, RollbackDone, Drop, tikvVars
  <2>2. CASE \/ \E r \in ShardRegions : PrewriteRefused(r)
             \/ PrewriteFailed \/ FetchCommitTsFailed \/ CommitPrimaryFailed \/ RollbackFailed
             \/ CommitPrimaryRefused
    BY <2>2 DEF PrewriteRefused, PrewriteFailed, FetchCommitTsFailed, CommitPrimaryFailed,
                RollbackFailed, CommitPrimaryRefused, Fail, tikvVars
  <2>3. CASE \E r \in ShardRegions : PrewriteOk(r)
    BY <2>3, RequestsStayInRegion DEF PrewriteOk
  <2>4. CASE CommitPrimaryOk \/ \E r \in CommitRegions : RollbackOk(r)
    BY <2>4, RequestsStayInRegion DEF CommitPrimaryOk, RollbackOk
  <2> QED
    BY <1>1, <2>1, <2>2, <2>3, <2>4 DEF CommitterStep
<1>2. CASE \E i \in Readers : StartRead(i)
  BY <1>2 DEF StartRead, tikvVars, clientVars
<1>3. ASSUME NEW i \in Readers, ReaderStep(i), UNCHANGED <<clock, clientVars>>
      PROVE  regionOf' = regionOf /\ mode' = mode
  BY <1>3, RequestsStayInRegion DEF ReaderStep, ReadKey, ReadLocked, ServeRead, CleanupOk, ResolveOk,
                                    clientVars
<1>4. ASSUME NEW r \in Regions, GcStep(r), UNCHANGED <<clock, clientVars>>
      PROVE  regionOf' = regionOf /\ mode' = mode
  <2>1. mode' = mode
    BY <1>4 DEF clientVars
  <2>2. CASE GcScan(r) \/ GcCached(r) \/ GcDecide(r)
    BY <2>1, <2>2 DEF GcScan, GcCached, GcDecide, tikvVars
  <2>3. CASE GcStatus(r) \/ GcResolve(r) \/ \E s \in CommitRegions : GcSecondary(r, s)
    BY <2>1, <2>3, RequestsStayInRegion DEF GcStatus, GcResolve, GcSecondary
  <2> QED
    BY <1>4, <2>2, <2>3 DEF GcStep
<1>5. CASE Cluster
  BY <1>5, RequestsStayInRegion DEF Cluster, LateDelivery, Execute, NewerVersion, clientVars
<1>6. CASE UNCHANGED vars
  BY <1>6 DEF vars, tikvVars, clientVars
<1> QED
  BY <1>1, <1>2, <1>3, <1>4, <1>5, <1>6 DEF Next

\* A one_pc_commit_ts comes from the only region there is.
PanicInv ==
  regionOf \in [Keys -> Regions] /\ cpc # "panicked" /\ (onePcReply = 0 \/ OnePcResponse)

\* The committer never panics, whatever the mode, the retries, the expiry of
\* locks and the fallback of TiKV: a region answers with a one_pc_commit_ts only
\* if it was asked to commit all keys, and then its response is the only one.
\* Without CheckNotExists mutations: prewrite compares the number of a region's
\* mutations with the number of keys to commit.
THEOREM PrewriteNeverPanics == IsFiniteSet(Keys) /\ CheckKeys = {} => (Spec => []NoPanic)
<1> SUFFICES ASSUME IsFiniteSet(Keys), CheckKeys = {} PROVE Spec => []NoPanic
  OBVIOUS
<1>1. Init => PanicInv
  BY DEF Init, TikvInit, CommitterInit, PanicInv
<1>2. PanicInv /\ [Next]_vars => PanicInv'
  <2> SUFFICES ASSUME PanicInv, [Next]_vars PROVE PanicInv'
    OBVIOUS
  <2>1. regionOf' = regionOf /\ (OnePcResponse' <=> OnePcResponse)
    BY NextStays, CasesStay
  <2>2. CASE UNCHANGED <<cpc, onePcReply>>
    BY <2>1, <2>2 DEF PanicInv
  <2>3. CASE \/ CallCommit \/ FetchCommitTs \/ CallRollback \/ RollbackDone \/ Drop
    BY <2>1, <2>3 DEF PanicInv, CallCommit, FetchCommitTs, CallRollback, RollbackDone, Drop, Return
  <2>4. CASE \/ \E r \in ShardRegions : PrewriteRefused(r)
             \/ PrewriteFailed \/ FetchCommitTsFailed \/ CommitPrimaryFailed \/ RollbackFailed
             \/ CommitPrimaryRefused
    BY <2>1, <2>4 DEF PanicInv, PrewriteRefused, PrewriteFailed, FetchCommitTsFailed, CommitPrimaryFailed,
                RollbackFailed, CommitPrimaryRefused, Fail, Return
  <2>5. ASSUME NEW r \in ShardRegions, PrewriteOk(r) PROVE PanicInv'
    <3>1. cpc' = cpc /\ onePcReply' = Max({onePcReply, OnePcReply(Shard(r), ShardMode(r))})
      BY <2>5 DEF PrewriteOk, PrewriteShard, Request
    <3>2. CASE OnePcResponse
      BY <2>1, <3>1, <3>2 DEF PanicInv
    <3>3. CASE ~OnePcResponse
      <4>1. ShardMode(r) # "1pc"
        BY <3>3, OnePcMeansOneRegion DEF PanicInv
      <4>2. OnePcReply(Shard(r), ShardMode(r)) = 0 /\ onePcReply = 0
        BY <3>3, <4>1 DEF PanicInv, OnePcReply
      <4>3. onePcReply' = 0
        BY <3>1, <4>2, MaxZero
      <4> QED
        BY <2>1, <3>1, <4>3 DEF PanicInv
    <3> QED
      BY <3>2, <3>3
  <2>6. CASE PrewriteDone
    <3>1. onePcReply' = onePcReply
      BY <2>6 DEF PrewriteDone
    <3>2. CASE OnePcResponse
      <4>1. CASE onePcReply > 0 /\ Succeed(onePcReply, {})
        BY <2>1, <3>1, <4>1 DEF PanicInv, Succeed, Return
      <4>2. CASE onePcReply = 0 /\ cpc' = IF onePcReply > 0 THEN "panicked"
                                          ELSE IF minReply > 0 THEN "returned" ELSE "getTs"
        <5>1. ~(onePcReply > 0)
          BY <4>2, SMTT(20)
        <5> QED
          BY <2>1, <3>1, <4>2, <5>1 DEF PanicInv
      <4> QED
        BY <2>6, <3>2, <4>1, <4>2 DEF PrewriteDone
    <3>3. CASE ~OnePcResponse
      <4>1. onePcReply = 0
        BY <3>3 DEF PanicInv
      <4>2. ~(onePcReply > 0)
        BY <4>1, SMTT(20)
      <4> QED
        BY <2>1, <2>6, <3>1, <3>3, <4>1, <4>2 DEF PanicInv, PrewriteDone, Succeed, Return
    <3> QED
      BY <3>2, <3>3
  <2>7. CASE CommitPrimaryOk \/ \E r \in CommitRegions : RollbackOk(r)
    BY <2>1, <2>7 DEF PanicInv, CommitPrimaryOk, RollbackOk, Succeed, Return
  <2>8. CASE CommitterStep
    BY <2>3, <2>4, <2>5, <2>6, <2>7, <2>8 DEF CommitterStep
  <2>9. CASE ~CommitterStep
    BY <2>2, <2>9 DEF Next, StartRead, Cluster, clientVars, vars
  <2> QED
    BY <2>8, <2>9
<1>3. PanicInv => NoPanic
  BY DEF PanicInv, NoPanic
<1> QED
  BY <1>1, <1>2, <1>3, PTL DEF Spec
\* check_all_secondaries meets no contradiction, and what it decides keeps the
\* invariant.
LEMMA AsyncGcDecide ==
  ASSUME AsyncInv, NEW r \in Regions, GcDecide(r), UNCHANGED <<clock, clientVars>>
  PROVE  AsyncInv'
<1>1. /\ TypeOK /\ TikvTypeOK /\ ResolverTypeOK /\ LocksInv /\ AsyncGcInv /\ GcGood(r)
  BY DEF AsyncInv, TypeOK, AsyncGcInv
<1>2. gpc[r] = "secondaries" /\ gcChecked[r] = SecondaryRegions
  BY DEF GcDecide
<1>3. /\ 0 < minCommit[Primary] /\ minCommit[Primary] <= gcTs[r]
      /\ \E k \in CommitKeys : minCommit[k] = gcTs[r]
      /\ \A ts \in gcMissing[r] : Decided(ts)
      /\ gcMissing[r] = {} => \A x \in gcChecked[r] : \A k \in Secondaries(x) :
                                0 < minCommit[k] /\ minCommit[k] <= gcTs[r]
      /\ gcPlain[r] = FALSE /\ gcTs[r] \in Nat /\ gcMissing[r] \subseteq Nat
  BY <1>1, <1>2 DEF GcGood, ResolverTypeOK
<1>4. \A t, u \in gcMissing[r] : t = u
  <2> SUFFICES ASSUME NEW t \in gcMissing[r], NEW u \in gcMissing[r] PROVE t = u
    OBVIOUS
  <2>1. Decided(t) /\ Decided(u)
    BY <1>3
  <2> QED
    BY <1>1, <2>1, FinalUnique, FinalWins DEF Decided
<1>5. ~(Cardinality(gcMissing[r]) > 1)
  <2>1. CASE gcMissing[r] = {}
    <3>1. Cardinality(gcMissing[r]) = 0
      BY <2>1, FS_EmptySet
    <3> QED
      BY <3>1, SMTT(20)
  <2>2. CASE gcMissing[r] # {}
    <3>1. PICK t : gcMissing[r] = {t}
      BY <1>4, <2>2
    <3>2. Cardinality(gcMissing[r]) = 1
      BY <3>1, FS_Singleton
    <3> QED
      BY <3>2, SMTT(20)
  <2> QED
    BY <2>1, <2>2
<1>6. ~(\E ts \in gcMissing[r] : ts # 0 /\ ts < gcTs[r])
  <2> SUFFICES ASSUME NEW ts \in gcMissing[r], ts # 0 PROVE ~(ts < gcTs[r])
    OBVIOUS
  <2>1. IsFinal(ts) /\ ts \in Nat
    BY <1>3 DEF Decided
  <2>2. gcTs[r] <= ts
    BY <1>3, <2>1 DEF IsFinal
  <2> QED
    BY <1>3, <2>1, <2>2, SMTT(20)
<1>7. /\ gpc' = [gpc EXCEPT ![r] = "resolve"]
      /\ gcTs' = [gcTs EXCEPT ![r] = IF gcMissing[r] # {} THEN Max(gcMissing[r]) ELSE gcTs[r]]
      /\ UNCHANGED <<tikvVars, readerVars, resolved, gcChecked, gcMissing, gcPlain>>
      /\ UNCHANGED <<regionOf, lockTable, conflict, maxTs, msgs, status>>
  BY <1>3, <1>5, <1>6 DEF GcDecide, tikvVars, clientVars
<1>8. PICK v : v = IF gcMissing[r] # {} THEN Max(gcMissing[r]) ELSE gcTs[r]
  OBVIOUS
<1>9. v \in Nat /\ Decided(v)
  <2>1. CASE gcMissing[r] # {}
    <3>1. PICK t \in gcMissing[r] : gcMissing[r] = {t}
      BY <1>4, <2>1
    <3>2. t \in Nat /\ v = t
      BY <1>3, <1>8, <3>1, MaxOfOne
    <3> QED
      BY <1>3, <3>2
  <2>2. CASE gcMissing[r] = {}
    <3>1. v = gcTs[r]
      BY <1>8, <2>2
    <3>2. ASSUME NEW k \in CommitKeys, k # Primary PROVE 0 < minCommit[k] /\ minCommit[k] <= gcTs[r]
      <4>1. k \in Secondaries(regionOf[k]) /\ regionOf[k] \in SecondaryRegions
        BY <3>2 DEF Secondaries, SecondaryRegions, CommitShard, CommitRegions
      <4> QED
        BY <1>2, <1>3, <2>2, <4>1
    <3>3. IsFinal(gcTs[r])
      BY <1>3, <3>2 DEF IsFinal
    <3> QED
      BY <1>3, <3>1, <3>3 DEF Decided
  <2> QED
    BY <2>1, <2>2
<1>10. LocksStep
  BY <1>1, <1>7, SameLocks DEF NeverSent, Sent
<1>11. ResolverTypeOK'
  BY <1>1, <1>7, <1>8, <1>9 DEF ResolverTypeOK, readerVars
<1>12. gpc'[r] = "resolve" /\ gcTs'[r] = v /\ gcPlain'[r] = FALSE /\ Decided(v)'
  BY <1>1, <1>3, <1>7, <1>8, <1>9, <1>10, DecidedStays DEF ResolverTypeOK
<1>13. Decided(gcTs[r])'
  BY <1>12 DEF Decided, IsFinal
<1>14. GcGood(r)'
  BY <1>12, <1>13 DEF GcGood
<1>15. \A x \in Regions \ {r} : /\ gpc'[x] = gpc[x] /\ gcTs'[x] = gcTs[x]
                                /\ gcChecked'[x] = gcChecked[x] /\ gcMissing'[x] = gcMissing[x]
                                /\ gcPlain'[x] = gcPlain[x]
  BY <1>1, <1>7 DEF ResolverTypeOK
<1>16. (resolved # NotCached => Decided(resolved))'
  BY <1>1, <1>7, <1>10, CacheStays
<1> QED
  BY <1>7, <1>10, <1>11, <1>14, <1>15, <1>16, AsyncGcStep

\* Every step keeps the invariant.
LEMMA AsyncNext ==
  ASSUME AsyncAssumption, AsyncShards, AsyncInv, [Next]_vars
  PROVE  AsyncInv'
<1>1. CASE CommitterStep /\ UNCHANGED <<readerVars, gcVars>>
  BY <1>1, AsyncCommitter
<1>2. ASSUME NEW i \in Readers, StartRead(i) PROVE AsyncInv'
  BY <1>2, AsyncStartRead
<1>3. ASSUME NEW i \in Readers, ReaderStep(i), UNCHANGED <<clock, clientVars>> PROVE AsyncInv'
  BY <1>3, AsyncRead
<1>4. ASSUME NEW r \in Regions, GcStep(r), UNCHANGED <<clock, clientVars>> PROVE AsyncInv'
  BY <1>4, AsyncGcScan, AsyncGcCached, AsyncGcStatus, AsyncGcSecondary, AsyncGcDecide, AsyncGcResolve DEF GcStep
<1>5. CASE Cluster
  BY <1>5, AsyncCluster
<1>6. CASE UNCHANGED vars
  <2>1. /\ UNCHANGED <<regionOf, lockTable, conflict, maxTs, msgs, clock, clientVars, readerVars, gcVars, status>>
        /\ TypeOK /\ TikvTypeOK /\ CommitterTypeOK /\ LocksInv /\ AsyncClientInv
    BY <1>6 DEF vars, tikvVars, clientVars, AsyncInv, TypeOK
  <2>2. LocksStep /\ UNCHANGED Sent("prewrite")
    BY <2>1, SameLocks DEF NeverSent, Sent
  <2>3. AsyncClientInv' /\ CommitterTypeOK'
    BY <2>1, <2>2, AsyncClient DEF CommitterTypeOK, clientVars
  <2> QED
    BY <2>1, <2>2, <2>3, AsyncTimes, AsyncClientStep
<1> QED
  BY <1>1, <1>2, <1>3, <1>4, <1>5, <1>6 DEF Next

\* The invariant holds initially.
LEMMA AsyncInit ==
  ASSUME AsyncAssumption, Init
  PROVE  AsyncInv
<1>1. /\ 0 \in Nat /\ StartTs \in Nat /\ StartTs <= StartTs /\ StartTs <= SafeWindow /\ 0 <= StartTs + 1
      /\ 0 <= StartTs /\ ~(0 < 0)
  BY SMTT(20) DEF StartTs, AsyncAssumption
<1>2. CommitKeys \subseteq Keys /\ Primary \in CommitKeys
  BY DEF CommitKeys
<1>3. TypeOK
  BY <1>1, <1>2 DEF Init, TikvInit, CommitterInit, ResolverInit, TypeOK, TikvTypeOK, CommitterTypeOK, ResolverTypeOK,
     Statuses, Results
<1>4. LocksInv
  BY <1>1, <1>2 DEF Init, TikvInit, LocksInv
<1>5. ClockInv
  BY <1>1, <1>2 DEF Init, TikvInit, CommitterInit, ResolverInit, ClockInv
<1>6. AsyncMsgInv
  BY DEF Init, TikvInit, AsyncMsgInv, Sent
<1>7. AsyncClientInv
  BY <1>1 DEF Init, TikvInit, CommitterInit, AsyncClientInv, Sent
<1>8. AsyncReaderInv
  BY DEF Init, ResolverInit, AsyncReaderInv
<1>9. AsyncGcInv
  BY DEF Init, ResolverInit, AsyncGcInv, GcGood
<1> QED
  BY <1>3, <1>4, <1>5, <1>6, <1>7, <1>8, <1>9 DEF AsyncInv

----------------------------------------------------------------------------
(* What the invariants say of the records                                  *)

\* Async commit: a known commit timestamp is the largest min_commit_ts.
LEMMA AsyncCommit ==
  ASSUME AsyncInv, NEW t, CommittedAt(t)
  PROVE  IsFinal(t) /\ t \in Nat /\ 0 < t /\ ~Lost
<1>1. TypeOK /\ LocksInv /\ AsyncClientInv /\ TikvTypeOK
  BY DEF AsyncInv, TypeOK
<1>2. 0 < t /\ t # 0 /\ t # NoWrite
  <2>1. 0 < t /\ t \in Int
    BY <1>1, Values, SMTT(20) DEF CommittedAt
  <2> QED
    BY <2>1, SMTT(20) DEF NoWrite
<1>3. IsFinal(t)
  <2>1. CASE t = acked
    <3>1. acked > 0
      BY <1>1, <1>2, <2>1, Values, SMTT(20)
    <3> QED
      BY <1>1, <2>1, <3>1 DEF AsyncClientInv
  <2>2. CASE \E k \in CommitKeys : write[k] = t
    BY <1>1, <1>2, <2>2 DEF LocksInv, Decided
  <2> QED
    BY <2>1, <2>2 DEF CommittedAt
<1> QED
  BY <1>1, <1>3, FinalWins

\* Every key of a committed transaction is committed or locked: it had a lock,
\* and no rollback was sent.
LEMMA AsyncKeys ==
  ASSUME AsyncInv, NEW t, CommittedAt(t), NEW k \in CommitKeys
  PROVE  write[k] = t \/ (write[k] = NoWrite /\ k \in locked)
<1>1. IsFinal(t) /\ ~Lost /\ LocksInv /\ TikvTypeOK
  BY AsyncCommit DEF AsyncInv, TypeOK
<1>2. 0 < minCommit[k]
  BY <1>1 DEF IsFinal
<1>3. CASE write[k] = NoWrite
  BY <1>1, <1>2, <1>3 DEF LocksInv
<1>4. CASE write[k] # NoWrite
  <2>1. IsFinal(write[k])
    BY <1>1, <1>4 DEF LocksInv, Decided
  <2> QED
    BY <1>1, <2>1, FinalUnique
<1> QED
  BY <1>3, <1>4

\* A reader that passed a key is below the commit timestamp.
LEMMA AsyncOld ==
  ASSUME AsyncInv, NEW t, CommittedAt(t), NEW i \in Readers, NEW k \in CommitKeys, Passed(i, k)
  PROVE  readTs[i] < t
<1>1. IsFinal(t) /\ t \in Nat /\ ~Lost /\ TypeOK
  BY AsyncCommit DEF AsyncInv
<1>2. 0 < minCommit[k] /\ minCommit[k] <= t
  BY <1>1 DEF IsFinal
<1>3. minCommit[k] \in Nat /\ readTs[i] \in Nat /\ write[k] \in Int
  BY <1>1, Values DEF TypeOK, TikvTypeOK, CommitKeys
<1>4. CASE readTs[i] < minCommit[k]
  BY <1>1, <1>2, <1>3, <1>4, SMTT(20)
<1>5. CASE readTs[i] < write[k]
  <2>1. write[k] = t \/ write[k] = NoWrite
    BY AsyncKeys
  <2> QED
    BY <1>3, <1>5, <2>1, SMTT(20) DEF NoWrite
<1>6. minCommit[k] # 0
  BY <1>2, <1>3, SMTT(20)
<1> QED
  BY <1>1, <1>4, <1>5, <1>6 DEF Passed

\* The invariant of async commit.
LEMMA AsyncRecorded == AsyncInv => Recorded
<1> SUFFICES ASSUME AsyncInv PROVE Recorded
  OBVIOUS
<1>1. TypeOK /\ LocksInv /\ ClockInv /\ AsyncClientInv /\ AsyncReaderInv
  BY DEF AsyncInv
<1>2. Atomicity /\ AckedIsDurable
  BY <1>1, AsyncKeys, KnownCommit DEF Atomicity, AckedIsDurable
<1>3. ReadsAgree
  <2>1. ASSUME NEW i \in Readers, NEW k \in CommitKeys, seen[i][k] = "old", NEW t, CommittedAt(t)
        PROVE  readTs[i] < t
    <3>1. Passed(i, k)
      BY <1>1, <2>1 DEF AsyncReaderInv
    <3> QED
      BY <2>1, <3>1, AsyncOld
  <2> QED
    BY <1>1, <2>1 DEF ReadsAgree, AsyncReaderInv
<1>4. ASSUME NEW k \in locked, NEW t, CommittedAt(t) PROVE minCommit[k] <= t
  <2>1. k \in CommitKeys
    BY <1>1 DEF TypeOK, TikvTypeOK
  <2> QED
    BY <1>4, <2>1, AsyncCommit DEF IsFinal
<1>5. cpc # "commit"
  BY <1>1 DEF AsyncClientInv
<1>6. acked <= clock + 1
  <2>1. acked > 0 => acked <= clock + 1
    BY <1>1, KnownCommit, AsyncCommit DEF IsFinal, ClockInv
  <2> QED
    BY <1>1, <2>1, Values, SMTT(20)
<1> QED
  BY <1>1, <1>2, <1>3, <1>4, <1>5, <1>6 DEF Recorded, LocksInv

\* One-phase commit: a known commit is that of every key.
LEMMA OneCommit ==
  ASSUME OnePcInv, NEW t, CommittedAt(t)
  PROVE  t > 0 /\ \A k \in CommitKeys : write[k] = t
<1>1. TypeOK /\ OneStoreInv /\ OneClientInv
  BY DEF OnePcInv
<1>2. 0 < t /\ t > 0
  BY <1>1, Values, SMTT(20) DEF CommittedAt
<1>3. CASE t = acked
  BY <1>1, <1>2, <1>3 DEF OneClientInv
<1>4. CASE \E k \in CommitKeys : write[k] = t
  BY <1>1, <1>2, <1>4 DEF OneStoreInv
<1> QED
  BY <1>2, <1>3, <1>4 DEF CommittedAt

\* The invariant of one-phase commit.
LEMMA OneRecorded == OnePcInv => Recorded
<1> SUFFICES ASSUME OnePcInv PROVE Recorded
  OBVIOUS
<1>1. TypeOK /\ OneStoreInv /\ OneClientInv /\ OneReaderInv
  BY DEF OnePcInv
<1>2. Atomicity /\ AckedIsDurable
  BY <1>1, OneCommit, KnownCommit DEF Atomicity, AckedIsDurable
<1>3. ASSUME NEW i \in Readers, NEW k \in CommitKeys, seen[i][k] = "old", NEW t, CommittedAt(t)
      PROVE  readTs[i] < t
  <2>1. write[k] = t /\ t > 0
    BY <1>3, OneCommit
  <2>2. write[k] <= 0 \/ readTs[i] < write[k]
    BY <1>1, <1>3 DEF OneReaderInv, OneSeen
  <2>3. write[k] \in Int
    BY <1>1, Values
  <2> QED
    BY <2>1, <2>2, <2>3, SMTT(20)
<1>4. ReadsAgree
  BY <1>1, <1>3 DEF ReadsAgree, OneReaderInv, OneSeen
<1>5. cpc # "commit" /\ locked = {}
  BY <1>1 DEF OneClientInv, OneStoreInv
<1>6. acked <= clock + 1
  <2>1. acked > 0 => acked <= clock + 1
    BY <1>1 DEF OneClientInv, OnePcInv
  <2> QED
    BY <1>1, <2>1, Values, SMTT(20)
<1> QED
  BY <1>1, <1>2, <1>4, <1>5, <1>6 DEF Recorded

\* A key error of async commit or one-phase commit rules a commit out.
LEMMA LostRefused ==
  /\ AsyncInv => RefusedIsUncommitted
  /\ OnePcInv => RefusedIsUncommitted
<1>1. ASSUME AsyncInv, cpc = "returned", result = "refused", NEW k \in CommitKeys
      PROVE  write[k] <= 0
  <2>1. Lost /\ TypeOK
    BY <1>1 DEF AsyncInv, AsyncClientInv
  <2>2. ~(write[k] > 0)
    BY <1>1, <2>1, KnownCommit, AsyncCommit
  <2> QED
    BY <2>1, <2>2, Values, SMTT(20)
<1>2. ASSUME OnePcInv, cpc = "returned", result = "refused" PROVE Uncommitted
  <2>1. Lost
    BY <1>2 DEF OnePcInv, OneClientInv
  <2> QED
    BY <1>2, <2>1 DEF OnePcInv, OneStoreInv, Lost, NeverSent
<1> QED
  BY <1>1, <1>2 DEF RefusedIsUncommitted, Uncommitted

\* rollback() of async commit or one-phase commit that succeeded left a
\* tombstone on every key.
LEMMA LostRolledBack ==
  /\ AsyncInv => RolledBackIsDiscarded
  /\ OnePcInv => RolledBackIsDiscarded
<1>1. Rollback # NoWrite
  BY SMTT(20) DEF Rollback, NoWrite
<1>2. AsyncInv => RolledBackIsDiscarded
  BY <1>1 DEF AsyncInv, AsyncClientInv, LocksInv, RolledBackIsDiscarded
<1>3. OnePcInv => RolledBackIsDiscarded
  BY DEF OnePcInv, OneClientInv, OneStoreInv, RolledBackIsDiscarded
<1> QED
  BY <1>2, <1>3
----------------------------------------------------------------------------
(* Every mode                                                              *)

\* Before commit() is called.
LEMMA InitModes ==
  ASSUME AsyncAssumption, Init
  PROVE  ModesInv
<1>1. regionOf \in [Keys -> Regions]
  BY DEF Init, TikvInit
<1>2. OneShard \/ AsyncShards \/ PlainShards
  BY <1>1, Cases DEF AsyncAssumption
<1> QED
  BY <1>2, OneInit, AsyncInit, InitInv DEF ModesInv

\* Every step, whatever the mode.
LEMMA NextModes ==
  ASSUME AsyncAssumption, ModesInv, [Next]_vars
  PROVE  ModesInv'
<1>1. /\ OneShard' <=> OneShard
      /\ AsyncShards' <=> AsyncShards
      /\ PlainShards' <=> PlainShards
  BY NextStays, CasesStay
<1>2. OneShard => OnePcInv'
  BY OneNext DEF ModesInv
<1>3. AsyncShards => AsyncInv'
  BY AsyncNext DEF ModesInv
<1>4. PlainShards => TwoPhaseInv'
  BY NextInv DEF ModesInv, AsyncAssumption
<1> QED
  BY <1>1, <1>2, <1>3, <1>4 DEF ModesInv

\* The invariant holds in every state, for any mode, keys, regions, readers,
\* retries and number of messages.
THEOREM ModesInvariant == AsyncAssumption => (Spec => []ModesInv)
<1> SUFFICES ASSUME AsyncAssumption PROVE Spec => []ModesInv
  OBVIOUS
<1>1. Init => ModesInv
  BY InitModes
<1>2. ModesInv /\ [Next]_vars => ModesInv'
  BY NextModes
<1> QED
  BY <1>1, <1>2, PTL DEF Spec

\* The records of a transaction in any mode tell one outcome.
LEMMA ModesRecorded == ModesInv => Recorded
BY OneRecorded, AsyncRecorded, PlainRecorded DEF ModesInv

\* Every variable keeps its type, whatever the mode.
THEOREM AnyModeTypes == AsyncAssumption => (Spec => []TypeOK)
<1>1. ModesInv => TypeOK
  BY ModesRecorded DEF Recorded
<1> QED
  BY <1>1, ModesInvariant, PTL

\* Atomicity in every mode: once one key is committed, by its committer or by a
\* recovery that found all the locks, every other key is committed with the same
\* timestamp or still locked.
THEOREM AnyModeAtomic == AsyncAssumption => (Spec => []Atomicity)
<1>1. ModesInv => Atomicity
  BY ModesRecorded DEF Recorded
<1> QED
  BY <1>1, ModesInvariant, PTL

\* In every mode a reader sees all of the writes or none: a region that served a
\* read gives later locks a min_commit_ts above it.
THEOREM AnyModeVisible == AsyncAssumption => (Spec => []AtomicVisibility)
BY ModesRecorded, RecordedVisible, ModesInvariant, PTL

\* In every mode success is never undone: with async commit it is reported when
\* nothing but locks say so, and any recovery finds the same timestamp.
THEOREM AnyModeDurable == AsyncAssumption => (Spec => []AckedIsDurable)
<1>1. ModesInv => AckedIsDurable
  BY ModesRecorded DEF Recorded
<1> QED
  BY <1>1, ModesInvariant, PTL

\* In every mode commit() that reports a key error has committed nothing.
THEOREM AnyModeRefused == AsyncAssumption => (Spec => []RefusedIsUncommitted)
<1>1. ModesInv => RefusedIsUncommitted
  BY LostRefused, PlainRefused DEF ModesInv
<1> QED
  BY <1>1, ModesInvariant, PTL

\* In every mode rollback() that succeeded leaves neither a lock nor a commit
\* record.
THEOREM AnyModeRolledBack == AsyncAssumption => (Spec => []RolledBackIsDiscarded)
<1>1. ModesInv => RolledBackIsDiscarded
  BY LostRolledBack, PlainRolledBack DEF ModesInv
<1> QED
  BY <1>1, ModesInvariant, PTL

\* cleanup_locks never gives up on the locks of a transaction: all the commit
\* timestamps that check_secondary_locks reports are the same, and a lock that
\* is gone is one that was committed or that can not be taken any more.
THEOREM RecoveryAgrees == AsyncAssumption => (Spec => []RecoveryDecides)
<1>1. OnePcInv => RecoveryDecides
  BY DEF OnePcInv, RecoveryDecides
<1>2. AsyncInv => RecoveryDecides
  BY DEF AsyncInv, AsyncGcInv, GcGood, RecoveryDecides
<1>3. TwoPhaseInv => RecoveryDecides
  BY DEF TwoPhaseInv, ModeInv, RecoveryDecides
<1>4. ModesInv => RecoveryDecides
  BY <1>1, <1>2, <1>3 DEF ModesInv
<1> QED
  BY <1>4, ModesInvariant, PTL

\* A transaction in any mode implements AtomicTxn: it is decided once, the caller
\* and every reader learn that decision, and a read begun after commit() returned
\* sees the writes.
THEOREM AnyModeImplements == AsyncAssumption => (Spec => ImplementsAtomicTxn)
<1> SUFFICES ASSUME AsyncAssumption PROVE Spec => ImplementsAtomicTxn
  OBVIOUS
<1>1. Spec => []ModesInv
  BY ModesInvariant
<1>2. ModesInv => Recorded /\ TypeOK
  BY ModesRecorded DEF Recorded
<1>3. Init => Abstract!Init /\ HistoryInv
  BY InitRefines
<1>4. TypeOK /\ HistoryInv /\ [Next]_vars => HistoryInv'
  BY NextHistory
<1>5. Recorded /\ Recorded' /\ HistoryInv /\ [Next]_vars => [Abstract!Next]_Abstract!vars
  BY NextRefines
<1> QED
  BY <1>1, <1>2, <1>3, <1>4, <1>5, PTL DEF Spec, ImplementsAtomicTxn, Abstract!Spec
============================================================================
