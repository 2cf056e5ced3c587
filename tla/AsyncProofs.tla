---------------------------- MODULE AsyncProofs ----------------------------
(***************************************************************************)
(* AsyncInv, the invariant of async commit, is kept by every step but the  *)
(* last of a recovery, which is in ModesProofs; for every set of keys,     *)
(* regions and readers and every bound.                                    *)
(*                                                                         *)
(* The argument for async commit: the locks decide.  The min_commit_ts of  *)
(* a key is set once, so when every key has one the commit timestamp is    *)
(* their maximum, for the committer and for everyone who recovers the      *)
(* transaction; and a key that can not be prewritten any more, because it  *)
(* has a tombstone or a newer version and never had a lock, rules a commit *)
(* out for good.  A rollback is only ever sent in that case.  A reader is  *)
(* served by a region before the prewrite, which then takes a later        *)
(* min_commit_ts, or passes a lock whose min_commit_ts is later.           *)
(*                                                                         *)
(* LocksStep says what any step does to the locks and records.  Each       *)
(* request is first shown to be a LocksStep; every part of the invariant   *)
(* then has a lemma that says what it needs of the steps of the others.    *)
(***************************************************************************)
EXTENDS TxnInvariants, WellFoundedInduction, TLAPS

\* Zenon proves a leaf, and the SMT solver one that cites SMTT: arithmetic
\* and sequences.
USE TikvAssumption, ZenonT(30)

(* The largest of a set of timestamps.                                     *)

\* A set of natural numbers has a smallest element.
LEMMA Smallest ==
  ASSUME NEW T, T \subseteq Nat, T # {}
  PROVE  \E x \in T : \A y \in T : x <= y
<1>1. PICK x \in T : \A y \in T : ~(<<y, x>> \in OpToRel(<, Nat))
  BY NatLessThanWellFounded, WFMin
<1>2. ASSUME NEW y \in T PROVE ~(y < x)
  <2>1. <<y, x>> \in Nat \X Nat
    OBVIOUS
  <2>2. ~(<<y, x>>[1] < <<y, x>>[2])
    BY <1>1, <2>1 DEF OpToRel
  <2> QED
    BY <2>2, SMTT(20)
<1> QED
  BY <1>2, SMTT(20)

\* A bounded set of natural numbers has a largest element, and Max is it.
LEMMA Largest ==
  ASSUME NEW S, S \subseteq Nat, S # {}, NEW b \in Nat, \A x \in S : x <= b
  PROVE  Max(S) \in S /\ \A y \in S : y <= Max(S)
<1> DEFINE T == {b - x : x \in S}
<1>1. T \subseteq Nat /\ T # {}
  <2>1. \A x \in S : b - x \in Nat
    BY SMTT(20)
  <2> QED
    BY <2>1
<1>2. PICK t \in T : \A y \in T : t <= y
  <2> HIDE DEF T
  <2> QED
    BY <1>1, Smallest
<1>3. PICK x \in S : t = b - x
  BY <1>2
<1>4. \A y \in S : b - x <= b - y
  BY <1>2, <1>3
<1>5. \A y \in S : x >= y
  BY <1>4, SMTT(20)
<1>6. Max(S) \in S /\ \A y \in S : Max(S) >= y
  BY <1>5 DEF Max
<1> QED
  BY <1>6, SMTT(20)

\* The regions of the keys.
LEMMA ShardFacts ==
  ASSUME TikvTypeOK
  PROVE  /\ Primary \in CommitKeys /\ CommitKeys \subseteq Keys
         /\ regionOf[Primary] \in ShardRegions /\ regionOf[Primary] \in CommitRegions
         /\ ShardRegions \subseteq Regions /\ CommitRegions \subseteq Regions
         /\ \A k \in CommitKeys : /\ regionOf[k] \in CommitRegions /\ regionOf[k] \in ShardRegions
                                  /\ k \in CommitShard(regionOf[k])
         /\ \A r : /\ CommitShard(r) = Shard(r) \cap CommitKeys
                   /\ Shard(r) \in SUBSET Keys /\ CommitShard(r) \in SUBSET CommitKeys
BY DEF TikvTypeOK, CommitKeys, ShardRegions, CommitRegions, CommitShard, Shard

\* The largest of no timestamps, and of one.
LEMMA MaxOfSame ==
  ASSUME NEW n \in Nat
  PROVE  Max({n}) = n /\ Max({0, 0}) = 0
BY SMTT(20) DEF Max
----------------------------------------------------------------------------
(* Async commit: the lock table                                            *)

\* What a key once has it keeps: its min_commit_ts, and its record.
KeysStay ==
  \A k \in CommitKeys : /\ 0 < minCommit[k] => minCommit'[k] = minCommit[k]
                        /\ write[k] # NoWrite => write'[k] = write[k]

\* What any step does to the locks and records.  A key is locked with a
\* min_commit_ts later than every read its region has served.
LocksStep ==
  /\ regionOf' = regionOf /\ LocksInv' /\ (Lost => Lost') /\ KeysStay
  /\ locked' \subseteq CommitKeys
  /\ minCommit' \in [Keys -> Nat] /\ write' \in [Keys -> Nat \cup {NoWrite}]
  /\ \A k \in CommitKeys : \/ minCommit'[k] = minCommit[k]
                           \/ maxTs[regionOf[k]] < minCommit'[k] /\ minCommit'[k] <= clock + 1

\* The types of a key's min_commit_ts and record.
LEMMA KeyTypes ==
  ASSUME TikvTypeOK
  PROVE  /\ Primary \in CommitKeys /\ CommitKeys \subseteq Keys
         /\ \A k \in CommitKeys : /\ minCommit[k] \in Nat /\ write[k] \in Nat \cup {NoWrite}
                                  /\ regionOf[k] \in Regions /\ maxTs[regionOf[k]] \in Nat
BY DEF TikvTypeOK, CommitKeys

\* A final timestamp stays final.
LEMMA FinalStays ==
  ASSUME KeysStay, NEW t, IsFinal(t)
  PROVE  IsFinal(t)'
BY DEF KeysStay, IsFinal

\* There is one final timestamp.
LEMMA FinalUnique ==
  ASSUME TikvTypeOK, NEW t, NEW u, IsFinal(t), IsFinal(u)
  PROVE  t = u
<1>1. PICK j \in CommitKeys : minCommit[j] = t
  BY DEF IsFinal
<1>2. PICK k \in CommitKeys : minCommit[k] = u
  BY DEF IsFinal
<1>3. t <= u /\ u <= t
  BY <1>1, <1>2 DEF IsFinal
<1>4. t \in Nat /\ u \in Nat
  BY <1>1, <1>2, KeyTypes
<1> QED
  BY <1>3, <1>4, SMTT(20)

\* A final timestamp is positive, and a transaction that has one is not lost.
LEMMA FinalWins ==
  ASSUME TikvTypeOK, LocksInv, NEW t, IsFinal(t)
  PROVE  t \in Nat /\ 0 < t /\ ~Lost
<1>1. PICK j \in CommitKeys : minCommit[j] = t
  BY DEF IsFinal
<1>2. 0 < minCommit[j] /\ minCommit[j] \in Nat
  BY <1>1, KeyTypes DEF IsFinal
<1>3. ~NeverSent
  BY <1>1, <1>2 DEF LocksInv, NeverSent
<1>4. ~Doomed
  <2> SUFFICES ASSUME NEW k \in CommitKeys, minCommit[k] = 0 PROVE FALSE
    BY DEF Doomed
  <2>1. 0 < minCommit[k]
    BY DEF IsFinal
  <2> QED
    BY <2>1, SMTT(20)
<1> QED
  BY <1>1, <1>2, <1>3, <1>4 DEF Lost

\* What was decided stays decided.
LEMMA DecidedStays ==
  ASSUME LocksStep, NEW t, Decided(t)
  PROVE  Decided(t)'
BY FinalStays DEF LocksStep, Decided

\* A key with a record, or without a lock, that had no min_commit_ts.
LEMMA NeverLocked ==
  ASSUME TikvTypeOK, LocksInv, NEW k \in CommitKeys, k \notin locked, write[k] = NoWrite
  PROVE  minCommit[k] = 0
<1>1. minCommit[k] \in Nat /\ ~(0 < minCommit[k])
  BY KeyTypes DEF LocksInv
<1> QED
  BY <1>1, SMTT(20)

\* A transaction that is lost stays lost when its keys keep what makes it so.
LEMMA LostStays ==
  ASSUME Lost, conflict \subseteq conflict', UNCHANGED <<status, Sent("prewrite")>>,
         \A k \in CommitKeys : minCommit[k] = 0 /\ (k \in conflict \/ write[k] = Rollback)
           => minCommit'[k] = 0 /\ (write[k] = Rollback => write'[k] = Rollback)
  PROVE  Lost'
<1>1. CASE Doomed
  <2>1. PICK k \in CommitKeys : minCommit[k] = 0 /\ (k \in conflict \/ write[k] = Rollback)
    BY <1>1 DEF Doomed
  <2>2. minCommit'[k] = 0 /\ (k \in conflict' \/ write'[k] = Rollback)
    BY <2>1
  <2> QED
    BY <2>2 DEF Lost, Doomed
<1>2. CASE NeverSent
  BY <1>2 DEF NeverSent, Lost
<1> QED
  BY <1>1, <1>2 DEF Lost

\* Settling keys that are not settled is a step of the locks, if it commits
\* at the final timestamp, or rolls back a lost transaction or keys that never
\* had a lock.
LEMMA SettleLocks ==
  ASSUME TikvTypeOK, LocksInv, UNCHANGED <<status, Sent("prewrite")>>,
         NEW ks \in SUBSET CommitKeys, NEW ts \in Nat, Settle(ks, ts),
         \A k \in ks : write[k] = NoWrite \/ (write[k] = Rollback /\ ts = Rollback),
         Decided(ts) \/ (ts = Rollback /\ \A k \in ks : minCommit[k] = 0)
  PROVE  LocksStep /\ (ks # {} => Decided(ts)')
<1>1. /\ write' = [k \in Keys |-> IF k \in ks THEN ts ELSE write[k]]
      /\ locked' = locked \ ks /\ asyncLocked' = asyncLocked \ ks
      /\ UNCHANGED <<regionOf, minCommit, conflict, maxTs>>
  BY DEF Settle
<1>2. CommitKeys \subseteq Keys /\ ts \in Nat \cup {NoWrite}
  BY KeyTypes
<1>3. \A k \in CommitKeys : write'[k] = IF k \in ks THEN ts ELSE write[k]
  BY <1>1, <1>2
<1>4. KeysStay
  BY <1>1, <1>3 DEF KeysStay
<1>5. Lost => Lost'
  BY <1>1, <1>3, LostStays, SMTT(20) DEF Rollback, NoWrite
<1>6. \A t : Decided(t) => Decided(t)'
  BY <1>4, <1>5, FinalStays DEF Decided
<1>7. ks # {} => Decided(ts)'
  <2>1. CASE Decided(ts)
    BY <1>6, <2>1
  <2>2. ASSUME ts = Rollback, \A k \in ks : minCommit[k] = 0, ks # {} PROVE Decided(ts)'
    <3>1. PICK k \in ks : minCommit'[k] = 0 /\ write'[k] = Rollback
      BY <1>1, <1>3, <2>2
    <3>2. Lost'
      BY <3>1 DEF Lost, Doomed
    <3> QED
      BY <2>2, <3>2 DEF Decided, Rollback
  <2> QED
    BY <2>1, <2>2
<1>8. LocksInv'
  <2>1. /\ asyncLocked' = locked' /\ \A k \in locked' : write'[k] = NoWrite /\ 0 < minCommit'[k]
    BY <1>1, <1>2 DEF LocksInv, TikvTypeOK
  <2>2. \A k \in CommitKeys : 0 < minCommit'[k] => k \in locked' \/ write'[k] # NoWrite
    <3>1. ts # NoWrite
      BY SMTT(20) DEF NoWrite
    <3> QED
      BY <1>1, <1>3, <3>1 DEF LocksInv
  <2>3. \A k \in CommitKeys \cap conflict' : minCommit'[k] = 0
    BY <1>1 DEF LocksInv
  <2>4. (\A k \in CommitKeys : write[k] # NoWrite => Decided(write[k]))'
    <3> SUFFICES ASSUME NEW k \in CommitKeys, write'[k] # NoWrite PROVE Decided(write[k])'
      OBVIOUS
    <3>1. CASE k \in ks
      BY <1>3, <1>7, <3>1 DEF Decided
    <3>2. CASE k \notin ks
      <4>1. write'[k] = write[k] /\ Decided(write[k])
        BY <1>3, <3>2 DEF LocksInv
      <4> QED
        BY <1>4, <1>5, <4>1, FinalStays DEF Decided
    <3> QED
      BY <3>1, <3>2
  <2>5. \A k \in CommitKeys : 0 < minCommit'[k] => Sent("prewrite")' # {}
    BY <1>1 DEF LocksInv
  <2> QED
    BY <2>1, <2>2, <2>3, <2>4, <2>5 DEF LocksInv
<1>9. locked' \subseteq CommitKeys /\ minCommit' \in [Keys -> Nat] /\ write' \in [Keys -> Nat \cup {NoWrite}]
  BY <1>1, <1>2 DEF TikvTypeOK
<1> QED
  BY <1>1, <1>4, <1>5, <1>7, <1>8, <1>9 DEF LocksStep

\* A step that leaves the lock table alone is a step of the locks.
LEMMA SameLocks ==
  ASSUME TikvTypeOK, LocksInv, UNCHANGED <<regionOf, lockTable, conflict>>,
         NeverSent => NeverSent', Sent("prewrite") # {} => Sent("prewrite")' # {}
  PROVE  LocksStep
<1>1. UNCHANGED <<regionOf, locked, asyncLocked, minCommit, write, conflict>>
  BY DEF lockTable
<1>2. KeysStay
  BY <1>1 DEF KeysStay
<1>3. Lost => Lost'
  BY <1>1 DEF Lost, Doomed
<1>4. \A k \in CommitKeys : write[k] # NoWrite => Decided(write[k]) /\ write'[k] = write[k]
  BY <1>1 DEF LocksInv
<1>5. (\A k \in CommitKeys : write[k] # NoWrite => Decided(write[k]))'
  BY <1>1, <1>2, <1>3, <1>4, FinalStays DEF Decided
<1>6. LocksInv'
  BY <1>1, <1>5 DEF LocksInv
<1> QED
  BY <1>1, <1>2, <1>3, <1>6 DEF LocksStep, TikvTypeOK

\* The timestamp a region computes is later than every read it served, and
\* not beyond max_commit_ts.
LEMMA ComputedLater ==
  ASSUME AsyncAssumption, TikvTypeOK, ClockInv, clock \in Nat, NEW ks \in SUBSET Keys
  PROVE  /\ ComputedTs(ks) \in Nat /\ 0 < ComputedTs(ks)
         /\ ComputedTs(ks) <= clock + 1 /\ ComputedTs(ks) <= StartTs + SafeWindow
         /\ \A k \in ks : maxTs[regionOf[k]] < ComputedTs(ks)
<1> DEFINE S == {StartTs} \cup {maxTs[regionOf[k]] : k \in ks}
<1>1. \A k \in ks : maxTs[regionOf[k]] \in Nat /\ maxTs[regionOf[k]] <= clock
  BY DEF TikvTypeOK, ClockInv
<1>2. StartTs \in Nat /\ StartTs <= clock /\ clock <= SafeWindow /\ SafeWindow \in Nat
  BY SMTT(20) DEF StartTs, ClockInv
<1>3. S \subseteq Nat /\ S # {} /\ \A x \in S : x <= clock
  BY <1>1, <1>2
<1>4. \A k \in ks : maxTs[regionOf[k]] \in S
  OBVIOUS
<1>5. ComputedTs(ks) = 1 + Max(S)
  BY DEF ComputedTs
<1> HIDE DEF S
<1>6. Max(S) \in S /\ \A y \in S : y <= Max(S)
  BY <1>3, Largest
<1>7. Max(S) \in Nat /\ Max(S) <= clock
  BY <1>3, <1>6
<1>8. \A k \in ks : maxTs[regionOf[k]] <= Max(S)
  BY <1>4, <1>6
<1> QED
  BY <1>1, <1>2, <1>5, <1>7, <1>8, SMTT(20) DEF StartTs

\* An async Prewrite is a step of the locks, and locks every key that was not.
LEMMA PrewriteLocks ==
  ASSUME AsyncAssumption, TikvTypeOK, LocksInv, ClockInv, clock \in Nat,
         UNCHANGED <<status, Sent("prewrite")>>, Sent("prewrite") # {},
         NEW ks \in SUBSET CommitKeys, Prewrite(ks, "async")
  PROVE  /\ LocksStep /\ UNCHANGED <<conflict, maxTs>>
         /\ \A k \in ks : 0 < minCommit'[k] /\ (k \in locked' \/ write'[k] > 0)
<1> DEFINE new == {k \in ks \cap CommitKeys : write[k] = NoWrite /\ k \notin locked}
<1> DEFINE ts == ComputedTs(ks)
<1>1. /\ ts \in Nat /\ 0 < ts /\ ts <= clock + 1 /\ ts <= StartTs + SafeWindow
      /\ \A k \in ks : maxTs[regionOf[k]] < ts
  BY ComputedLater, KeyTypes
<1>2. /\ locked' = locked \cup new /\ asyncLocked' = asyncLocked \cup new
      /\ minCommit' = [k \in Keys |-> IF k \notin new THEN minCommit[k] ELSE ts]
      /\ UNCHANGED <<write, regionOf, conflict, maxTs>> /\ MayPrewrite(ks)
  BY <1>1 DEF Prewrite
<1>3. new \subseteq CommitKeys /\ new \subseteq ks /\ CommitKeys \subseteq Keys
  BY KeyTypes
<1>4. \A k \in new : write[k] = NoWrite /\ k \notin locked /\ minCommit[k] = 0
  BY NeverLocked
<1>5. \A k \in ks : k \notin conflict /\ write[k] # Rollback
  BY <1>2 DEF MayPrewrite
<1>6. \A k \in CommitKeys : k \in ks => k \in new \/ k \in locked \/ write[k] # NoWrite
  OBVIOUS
<1> HIDE DEF new, ts
<1>7. \A k \in CommitKeys : minCommit'[k] = IF k \notin new THEN minCommit[k] ELSE ts
  BY <1>2, <1>3
<1>8. \A k \in CommitKeys : 0 < minCommit[k] => k \notin new
  BY <1>4, SMTT(20)
<1>9. KeysStay
  BY <1>2, <1>7, <1>8 DEF KeysStay
<1>10. Lost => Lost'
  BY <1>2, <1>3, <1>5, <1>7, LostStays
<1>11. \A t : Decided(t) => Decided(t)'
  BY <1>9, <1>10, FinalStays DEF Decided
<1>12. LocksInv'
  <2>1. asyncLocked' = locked' /\ \A k \in locked' : write'[k] = NoWrite /\ 0 < minCommit'[k]
    <3>1. asyncLocked' = locked' /\ locked \subseteq CommitKeys
      BY <1>2 DEF LocksInv, TikvTypeOK
    <3>2. ASSUME NEW k \in locked' PROVE write'[k] = NoWrite /\ 0 < minCommit'[k]
      <4>1. CASE k \in new
        BY <1>1, <1>2, <1>3, <1>4, <1>7, <4>1
      <4>2. CASE k \in locked /\ k \notin new
        BY <1>2, <1>7, <3>1, <4>2 DEF LocksInv
      <4> QED
        BY <1>2, <4>1, <4>2
    <3> QED
      BY <3>1, <3>2
  <2>2. \A k \in CommitKeys : 0 < minCommit'[k] => k \in locked' \/ write'[k] # NoWrite
    BY <1>2, <1>7 DEF LocksInv
  <2>3. \A k \in CommitKeys \cap conflict' : minCommit'[k] = 0
    BY <1>2, <1>3, <1>5, <1>7 DEF LocksInv
  <2>4. (\A k \in CommitKeys : write[k] # NoWrite => Decided(write[k]))'
    <3>1. \A k \in CommitKeys : write[k] # NoWrite => Decided(write[k]) /\ write'[k] = write[k]
      BY <1>2 DEF LocksInv
    <3> QED
      BY <1>2, <1>9, <1>10, <3>1, FinalStays DEF Decided
  <2> QED
    BY <2>1, <2>2, <2>3, <2>4 DEF LocksInv
<1>13. locked' \subseteq CommitKeys /\ minCommit' \in [Keys -> Nat] /\ write' \in [Keys -> Nat \cup {NoWrite}]
  BY <1>1, <1>2, <1>3 DEF TikvTypeOK
<1>14. LocksStep
  BY <1>1, <1>2, <1>3, <1>7, <1>9, <1>10, <1>12, <1>13 DEF LocksStep
<1>15. ASSUME NEW k \in ks PROVE 0 < minCommit'[k] /\ (k \in locked' \/ write'[k] > 0)
  <2>1. write[k] \in Nat \cup {NoWrite} /\ write[k] # Rollback
    BY <1>5, KeyTypes
  <2>2. CASE k \in new
    BY <1>1, <1>2, <1>7, <2>2
  <2>3. CASE k \in locked
    <3>1. 0 < minCommit[k]
      BY <2>3 DEF LocksInv
    <3> QED
      BY <1>2, <1>9, <2>3, <3>1 DEF KeysStay
  <2>4. CASE write[k] # NoWrite
    <3>1. write[k] > 0
      BY <2>1, <2>4, SMTT(20) DEF Rollback, NoWrite
    <3>2. write[k] # 0
      BY <3>1, SMTT(20)
    <3>3. IsFinal(write[k])
      BY <2>4, <3>2 DEF LocksInv, Decided
    <3>4. 0 < minCommit[k]
      BY <3>3 DEF IsFinal
    <3> QED
      BY <1>2, <1>9, <3>1, <3>4 DEF KeysStay
  <2> QED
    BY <1>6, <2>2, <2>3, <2>4
<1> QED
  BY <1>2, <1>14, <1>15

\* A Commit or ResolveLock with a version that is decided is a step of the locks.
LEMMA ResolveLocks ==
  ASSUME TikvTypeOK, LocksInv, UNCHANGED <<status, Sent("prewrite")>>,
         NEW ks, NEW ts \in Nat, Decided(ts), Commit(ks, ts) \/ ResolveLock(ks, ts)
  PROVE  LocksStep
<1>1. Settle(ks \cap locked, ts) /\ ks \cap locked \in SUBSET CommitKeys
  BY DEF Commit, ResolveLock, TikvTypeOK
<1>2. \A k \in ks \cap locked : write[k] = NoWrite
  BY DEF LocksInv
<1> QED
  BY <1>1, <1>2, SettleLocks

\* BatchRollback of a lost transaction is a step of the locks.
LEMMA RollbackLocks ==
  ASSUME TikvTypeOK, LocksInv, UNCHANGED <<status, Sent("prewrite")>>,
         NEW ks \in SUBSET CommitKeys, Lost, BatchRollback(ks)
  PROVE  LocksStep /\ \A k \in ks : write'[k] = Rollback
<1>1. Settle(ks, Rollback) /\ \A k \in ks : write[k] <= 0
  BY DEF BatchRollback, MayRollback
<1>2. \A k \in ks : write[k] = NoWrite \/ write[k] = Rollback
  BY <1>1, KeyTypes, SMTT(20) DEF NoWrite, Rollback
<1>3. Rollback \in Nat /\ Decided(Rollback)
  BY SMTT(20) DEF Rollback, Decided
<1>4. LocksStep
  BY <1>1, <1>2, <1>3, SettleLocks
<1>5. \A k \in ks : write'[k] = Rollback
  BY <1>1, KeyTypes DEF Settle
<1> QED
  BY <1>4, <1>5

\* CheckTxnStatus that decides is a step of the locks, and what it answers is
\* decided.
LEMMA StatusLocks ==
  ASSUME TikvTypeOK, LocksInv, UNCHANGED <<status, Sent("prewrite")>>,
         Primary \notin asyncLocked, RollbackPrimary
  PROVE  LocksStep /\ \E v \in Nat : v = CommitVersion /\ Decided(v)'
<1>1. Primary \in CommitKeys /\ write[Primary] \in Nat \cup {NoWrite} /\ Primary \notin locked
  BY KeyTypes DEF LocksInv
<1> DEFINE ks == {k \in {Primary} : write[k] = NoWrite}
<1>2. Settle(ks, Rollback) /\ ks \in SUBSET CommitKeys
  BY <1>1 DEF RollbackPrimary
<1>3. \A k \in ks : write[k] = NoWrite /\ minCommit[k] = 0
  BY <1>1, NeverLocked
<1>4. Rollback \in Nat
  BY SMTT(20) DEF Rollback
<1>5. ks = {} <=> write[Primary] # NoWrite
  OBVIOUS
<1> HIDE DEF ks
<1>6. LocksStep /\ (ks # {} => Decided(Rollback)')
  BY <1>2, <1>3, <1>4, SettleLocks
<1>7. CASE write[Primary] = NoWrite
  <2>1. CommitVersion = Rollback
    BY <1>7, SMTT(20) DEF CommitVersion, NoWrite, Rollback
  <2>2. Decided(Rollback)'
    BY <1>5, <1>6, <1>7
  <2>3. PICK v \in Nat : v = Rollback
    BY <1>4
  <2>4. Decided(v)'
    BY <2>2, <2>3 DEF Decided, Rollback
  <2> QED
    BY <1>6, <2>1, <2>3, <2>4
<1>8. CASE write[Primary] # NoWrite
  <2>1. CommitVersion = write[Primary] /\ write[Primary] \in Nat
    BY <1>1, <1>8, SMTT(20) DEF CommitVersion, NoWrite
  <2>2. Decided(write[Primary])
    BY <1>1, <1>8 DEF LocksInv
  <2>3. PICK v \in Nat : v = write[Primary]
    BY <2>1
  <2>4. Decided(v)'
    BY <1>6, <2>2, <2>3, DecidedStays
  <2> QED
    BY <1>6, <2>1, <2>3, <2>4
<1> QED
  BY <1>7, <1>8

\* CheckSecondaryLocks is a step of the locks; the transaction is lost when it
\* leaves a tombstone.
LEMMA SecondaryLocks ==
  ASSUME TikvTypeOK, LocksInv, UNCHANGED <<status, Sent("prewrite")>>,
         NEW ks \in SUBSET CommitKeys, CheckSecondaryLocks(ks)
  PROVE  /\ LocksStep
         /\ (\E k \in ks : k \notin locked /\ write[k] = NoWrite) => Lost'
<1> DEFINE free == {k \in ks : k \notin locked /\ write[k] = NoWrite}
<1>1. Settle(free, Rollback) /\ free \in SUBSET CommitKeys
  BY DEF CheckSecondaryLocks
<1>2. \A k \in free : write[k] = NoWrite /\ minCommit[k] = 0
  BY NeverLocked
<1>3. Rollback \in Nat
  BY SMTT(20) DEF Rollback
<1>4. (\E k \in ks : k \notin locked /\ write[k] = NoWrite) => free # {}
  OBVIOUS
<1> HIDE DEF free
<1>5. LocksStep /\ (free # {} => Decided(Rollback)')
  BY <1>1, <1>2, <1>3, SettleLocks
<1>6. ASSUME free # {} PROVE Lost'
  <2>1. PICK k \in free : TRUE
    BY <1>6
  <2>2. minCommit'[k] = 0 /\ write'[k] = Rollback /\ k \in CommitKeys
    BY <1>1, <1>2, KeyTypes DEF Settle
  <2> QED
    BY <2>2 DEF Lost, Doomed
<1> QED
  BY <1>4, <1>5, <1>6

\* Whatever request of the network is executed, late or again, is a step of
\* the locks.
LEMMA ExecuteLocks ==
  ASSUME AsyncAssumption, TikvTypeOK, LocksInv, ClockInv, AsyncMsgInv, clock \in Nat,
         UNCHANGED <<status, msgs>>, NEW m \in msgs, Execute(m)
  PROVE  LocksStep /\ UNCHANGED <<conflict, maxTs>>
<1>1. m \in Requests /\ CommitKeys = Keys /\ UNCHANGED Sent("prewrite")
  BY DEF TikvTypeOK, AsyncAssumption, CommitKeys, Sent
<1>2. m.keys \in SUBSET CommitKeys /\ m.ts \in Nat
  BY <1>1 DEF Requests
<1>0. UNCHANGED <<conflict, maxTs>>
  BY DEF Execute, Prewrite, Commit, BatchRollback, RollbackPrimary, ResolveLock, CheckSecondaryLocks, Settle
<1>3. CASE m.type = "prewrite" /\ Prewrite(m.keys, m.mode)
  <2>1. m.mode = "async" /\ Sent("prewrite") # {}
    BY <1>3 DEF AsyncMsgInv, Sent
  <2> QED
    BY <1>1, <1>2, <1>3, <2>1, PrewriteLocks
<1>4. CASE m.type = "commit" /\ Commit(m.keys, m.ts)
  <2>1. Decided(m.ts)
    BY <1>4 DEF AsyncMsgInv, Sent, Decided
  <2> QED
    BY <1>0, <1>1, <1>2, <1>4, <2>1, ResolveLocks
<1>5. CASE m.type = "rollback" /\ BatchRollback(m.keys)
  <2>1. Lost
    BY <1>5 DEF AsyncMsgInv, Sent
  <2> QED
    BY <1>0, <1>1, <1>2, <1>5, <2>1, RollbackLocks
<1>6. CASE m.type = "status" /\ Primary \notin asyncLocked /\ RollbackPrimary
  BY <1>0, <1>1, <1>6, StatusLocks
<1>7. CASE m.type = "resolve" /\ ResolveLock(m.keys, m.ts)
  <2>1. Decided(m.ts)
    BY <1>7 DEF AsyncMsgInv, Sent
  <2> QED
    BY <1>0, <1>1, <1>2, <1>7, <2>1, ResolveLocks
<1>8. CASE m.type = "secondaries" /\ CheckSecondaryLocks(m.keys)
  BY <1>0, <1>1, <1>2, <1>8, SecondaryLocks
<1>9. m.type # "cleanup"
  BY DEF AsyncMsgInv, Sent
<1> QED
  BY <1>3, <1>4, <1>5, <1>6, <1>7, <1>8, <1>9 DEF Execute

----------------------------------------------------------------------------
(* Async commit: what a part of the invariant needs of a step of another   *)

\* The cluster's variables keep their types.
LEMMA AsyncTikvTypes ==
  ASSUME TikvTypeOK, LocksStep, conflict' \subseteq Keys, maxTs' \in [Regions -> Nat],
         msgs' \subseteq Requests
  PROVE  TikvTypeOK'
BY DEF TikvTypeOK, LocksStep, LocksInv, CommitKeys, Requests

\* Timestamps stay within PD's.
LEMMA AsyncClock ==
  ASSUME TypeOK, ClockInv, LocksStep, clock' \in Nat, clock <= clock', clock' <= SafeWindow,
         \A r \in Regions : maxTs'[r] <= clock', \A i \in Readers : readTs'[i] <= clock'
  PROVE  ClockInv'
<1>1. clock \in Nat /\ TikvTypeOK /\ SafeWindow \in Nat
  BY DEF TypeOK, CommitterTypeOK
<1>2. StartTs <= clock'
  BY <1>1, SMTT(20) DEF ClockInv, StartTs
<1>3. ASSUME NEW k \in CommitKeys PROVE minCommit'[k] <= clock' + 1
  <2>1. minCommit[k] \in Nat /\ minCommit'[k] \in Nat /\ minCommit[k] <= clock + 1
    BY <1>1, KeyTypes DEF ClockInv, LocksStep
  <2>2. minCommit'[k] = minCommit[k] \/ minCommit'[k] <= clock + 1
    BY DEF LocksStep
  <2> QED
    BY <1>1, <2>1, <2>2, SMTT(20)
<1> QED
  BY <1>2, <1>3 DEF ClockInv

\* A new request is one of these.
Sendable(m) ==
  \/ m.type \in {"status", "secondaries"}
  \/ m.type = "prewrite" /\ m.mode = "async"
  \/ m.type = "commit" /\ IsFinal(m.ts)
  \/ m.type = "rollback" /\ Lost
  \/ m.type = "resolve" /\ Decided(m.ts)

\* The requests that were sent stay as they should be.
LEMMA AsyncMsgs ==
  ASSUME AsyncMsgInv, LocksStep, \A m \in msgs' \ msgs : Sendable(m)'
  PROVE  AsyncMsgInv'
<1>1. Sent("cleanup")' = {}
  BY DEF AsyncMsgInv, Sent, Sendable
<1>2. \A m \in Sent("prewrite")' : m.mode = "async"
  BY DEF AsyncMsgInv, Sent, Sendable
<1>3. ASSUME NEW m \in Sent("commit")' PROVE IsFinal(m.ts)'
  <2>1. CASE m \in msgs
    <3>1. IsFinal(m.ts) /\ KeysStay
      BY <2>1 DEF AsyncMsgInv, Sent, LocksStep
    <3> QED
      BY <3>1, FinalStays
  <2>2. CASE m \notin msgs
    BY <2>2 DEF Sent, Sendable
  <2> QED
    BY <2>1, <2>2
<1>4. Sent("rollback")' # {} => Lost'
  BY DEF AsyncMsgInv, Sent, Sendable, LocksStep
<1>5. ASSUME NEW m \in Sent("resolve")' PROVE Decided(m.ts)'
  <2>1. CASE m \in msgs
    <3>1. Decided(m.ts)
      BY <2>1 DEF AsyncMsgInv, Sent
    <3> QED
      BY <3>1, DecidedStays
  <2>2. CASE m \notin msgs
    BY <2>2 DEF Sent, Sendable
  <2> QED
    BY <2>1, <2>2
<1> QED
  BY <1>1, <1>2, <1>3, <1>4, <1>5 DEF AsyncMsgInv

\* Nothing moves a key to another shard.
LEMMA ShardsStay ==
  ASSUME regionOf' = regionOf
  PROVE  /\ \A r : CommitShard(r)' = CommitShard(r) /\ Secondaries(r)' = Secondaries(r)
         /\ ShardRegions' = ShardRegions /\ CommitRegions' = CommitRegions
         /\ SecondaryRegions' = SecondaryRegions
BY DEF CommitShard, Secondaries, ShardRegions, CommitRegions, SecondaryRegions

\* A step of somebody else keeps the invariant of the committer.
LEMMA AsyncClient ==
  ASSUME AsyncClientInv, LocksStep, UNCHANGED <<clientVars, Sent("prewrite")>>
  PROVE  AsyncClientInv'
<1>1. UNCHANGED <<mode, status, cpc, result, replied, minReply, onePcReply, commitTs, acked>>
  BY DEF clientVars
<1>2. /\ \A k \in CommitKeys : 0 < minCommit[k] => minCommit'[k] = minCommit[k]
      /\ \A k \in CommitKeys : write[k] = Rollback => write'[k] = Rollback
  BY SMTT(20) DEF LocksStep, KeysStay, Rollback, NoWrite
<1>3. (Lost => Lost') /\ \A r : CommitShard(r)' = CommitShard(r) /\ CommitShard(r) \subseteq CommitKeys
  BY ShardsStay DEF LocksStep, CommitShard
<1>4. ASSUME acked > 0 PROVE IsFinal(acked)'
  <2>1. PICK v : v = acked
    OBVIOUS
  <2>2. IsFinal(v)'
    BY <1>4, <2>1, FinalStays DEF AsyncClientInv, LocksStep
  <2> QED
    BY <1>1, <2>1, <2>2
<1>5. cpc = "prewrite" => \A r \in replied : \A k \in CommitShard(r) :
                           0 < minCommit'[k] /\ minCommit'[k] <= minReply
  BY <1>2, <1>3 DEF AsyncClientInv
<1>6. cpc = "prewrite" /\ replied # {} =>
       \E k \in CommitKeys : 0 < minCommit'[k] /\ minCommit'[k] = minReply
  BY <1>2 DEF AsyncClientInv
<1>7. cpc = "rollback" => \A r \in replied : \A k \in CommitShard(r) : write'[k] = Rollback
  BY <1>2, <1>3 DEF AsyncClientInv
<1>8. status = "Rolledback" => \A k \in CommitKeys : write'[k] = Rollback
  BY <1>2 DEF AsyncClientInv
<1>9. (acked > 0 => IsFinal(acked))'
  BY <1>1, <1>4
<1> QED
  BY <1>1, <1>3, <1>5, <1>6, <1>7, <1>8, <1>9 DEF AsyncClientInv

\* A read that passed a key has passed it for good.
LEMMA PassedStays ==
  ASSUME TypeOK, LocksStep, UNCHANGED readTs, \A r \in Regions : maxTs[r] <= maxTs'[r],
         maxTs' \in [Regions -> Nat],
         NEW i \in Readers, NEW k \in CommitKeys, Passed(i, k)
  PROVE  Passed(i, k)'
<1>1. /\ minCommit[k] \in Nat /\ write[k] \in Nat \cup {NoWrite} /\ readTs[i] \in Nat
      /\ regionOf[k] \in Regions /\ maxTs[regionOf[k]] \in Nat /\ maxTs'[regionOf[k]] \in Nat
      /\ minCommit'[k] \in Nat
  BY KeyTypes DEF TypeOK, ResolverTypeOK, LocksStep
<1>2. /\ regionOf' = regionOf /\ (Lost => Lost') /\ KeysStay
      /\ \/ minCommit'[k] = minCommit[k]
         \/ maxTs[regionOf[k]] < minCommit'[k] /\ minCommit'[k] <= clock + 1
  BY DEF LocksStep
<1>3. CASE minCommit[k] = 0 /\ readTs[i] <= maxTs[regionOf[k]]
  <2>1. maxTs[regionOf[k]] <= maxTs'[regionOf[k]]
    BY <1>1
  <2>2. \/ minCommit'[k] = 0 /\ readTs[i] <= maxTs'[regionOf[k]]
        \/ readTs[i] < minCommit'[k]
    BY <1>1, <1>2, <1>3, <2>1, SMTT(20)
  <2> QED
    BY <1>2, <2>2 DEF Passed
<1>4. CASE readTs[i] < minCommit[k]
  <2>1. 0 < minCommit[k]
    BY <1>1, <1>4, SMTT(20)
  <2>2. minCommit'[k] = minCommit[k]
    BY <1>2, <2>1 DEF KeysStay
  <2> QED
    BY <1>4, <2>2 DEF Passed
<1>5. CASE readTs[i] < write[k]
  <2>1. write[k] # NoWrite
    BY <1>1, <1>5, SMTT(20) DEF NoWrite
  <2>2. write'[k] = write[k]
    BY <1>2, <2>1 DEF KeysStay
  <2> QED
    BY <1>5, <2>2 DEF Passed
<1>6. CASE Lost
  BY <1>2, <1>6 DEF Passed
<1> QED
  BY <1>3, <1>4, <1>5, <1>6 DEF Passed

\* A step of somebody else keeps the invariant of the readers.
LEMMA AsyncReaders ==
  ASSUME TypeOK, AsyncReaderInv, LocksStep, UNCHANGED <<readerVars, maxTs>>
  PROVE  AsyncReaderInv'
<1>1. UNCHANGED <<readTs, rpc, rkey, rversion, seen>> /\ maxTs' \in [Regions -> Nat]
  BY DEF readerVars, TypeOK, TikvTypeOK
<1>2. \A r \in Regions : maxTs[r] <= maxTs'[r]
  BY SMTT(20) DEF TypeOK, TikvTypeOK
<1>3. ASSUME NEW i \in Readers, NEW k \in CommitKeys, seen[i][k] = "old" PROVE Passed(i, k)'
  BY <1>1, <1>2, <1>3, PassedStays DEF AsyncReaderInv
<1>4. ASSUME NEW i \in Readers, NEW k \in CommitKeys, seen[i][k] = "new"
      PROVE  0 < write'[k] /\ write'[k] <= readTs[i]
  <2>1. 0 < write[k] /\ write[k] <= readTs[i]
    BY <1>4 DEF AsyncReaderInv
  <2>2. write[k] # NoWrite
    BY <2>1, SMTT(20) DEF NoWrite
  <2> QED
    BY <2>1, <2>2 DEF LocksStep, KeysStay
<1> QED
  BY <1>1, <1>3, <1>4 DEF AsyncReaderInv

\* A step of somebody else keeps what the garbage collector knows in a region.
LEMMA GcGoodStays ==
  ASSUME TypeOK, LocksStep, NEW r \in Regions, GcGood(r),
         gpc'[r] = gpc[r], gcTs'[r] = gcTs[r], gcChecked'[r] = gcChecked[r],
         gcMissing'[r] = gcMissing[r], gcPlain'[r] = gcPlain[r]
  PROVE  GcGood(r)'
<1>1. ASSUME gpc[r] = "resolve" PROVE Decided(gcTs[r])'
  <2>1. PICK v : v = gcTs[r]
    OBVIOUS
  <2>2. Decided(v)'
    BY <1>1, <2>1, DecidedStays DEF GcGood
  <2> QED
    BY <2>1, <2>2
<1>2. ASSUME gpc[r] = "secondaries"
      PROVE  /\ 0 < minCommit'[Primary] /\ minCommit'[Primary] <= gcTs[r]
             /\ \E k \in CommitKeys : minCommit'[k] = gcTs[r]
             /\ \A ts \in gcMissing[r] : Decided(ts)'
             /\ gcMissing[r] = {} => \A s \in gcChecked[r] : \A k \in Secondaries(s) :
                                       0 < minCommit'[k] /\ minCommit'[k] <= gcTs[r]
  <2>1. \A k \in CommitKeys : 0 < minCommit[k] => minCommit'[k] = minCommit[k]
    BY DEF LocksStep, KeysStay
  <2>2. Primary \in CommitKeys /\ \A s : Secondaries(s) \subseteq CommitKeys
    BY DEF CommitKeys, Secondaries, CommitShard
  <2>3. 0 < minCommit[Primary] /\ minCommit[Primary] <= gcTs[r]
    BY <1>2 DEF GcGood
  <2>4. \E k \in CommitKeys : minCommit'[k] = gcTs[r]
    <3>1. PICK k \in CommitKeys : minCommit[k] = gcTs[r]
      BY <1>2 DEF GcGood
    <3>2. minCommit[k] \in Nat /\ minCommit[Primary] \in Nat
      BY <2>2, KeyTypes DEF TypeOK
    <3>3. 0 < minCommit[k]
      BY <2>3, <3>1, <3>2, SMTT(20)
    <3> QED
      BY <2>1, <3>1, <3>3
  <2>5. \A ts \in gcMissing[r] : Decided(ts)'
    BY <1>2, DecidedStays DEF GcGood
  <2>6. gcMissing[r] = {} => \A s \in gcChecked[r] : \A k \in Secondaries(s) :
                                       0 < minCommit'[k] /\ minCommit'[k] <= gcTs[r]
    BY <1>2, <2>1, <2>2 DEF GcGood
  <2> QED
    BY <2>1, <2>2, <2>3, <2>4, <2>5, <2>6
<1>3. \A s : Secondaries(s)' = Secondaries(s)
  BY ShardsStay DEF LocksStep
<1> QED
  BY <1>1, <1>2, <1>3 DEF GcGood

\* A step of somebody else keeps the cache.
LEMMA CacheStays ==
  ASSUME AsyncGcInv, LocksStep, UNCHANGED resolved
  PROVE  (resolved # NotCached => Decided(resolved))'
<1>1. PICK v : v = resolved
  OBVIOUS
<1>2. v # NotCached => Decided(v)'
  BY <1>1, DecidedStays DEF AsyncGcInv
<1> QED
  BY <1>1, <1>2

\* A step of somebody else keeps the invariant of the garbage collector.
LEMMA AsyncGc ==
  ASSUME TypeOK, AsyncGcInv, LocksStep, UNCHANGED gcVars
  PROVE  AsyncGcInv'
<1>1. UNCHANGED <<gpc, resolved, gcTs, gcChecked, gcMissing, gcPlain>>
  BY DEF gcVars
<1>2. \A r \in Regions : GcGood(r)'
  BY <1>1, GcGoodStays DEF AsyncGcInv
<1> QED
  BY <1>1, <1>2, CacheStays DEF AsyncGcInv

----------------------------------------------------------------------------
(* Async commit: commit() and rollback()                                   *)

\* What remains to be shown of a step of the committer.
LEMMA AsyncClientStep ==
  ASSUME AsyncInv, LocksStep, UNCHANGED <<conflict, maxTs, clock, readerVars, gcVars>>,
         msgs' \subseteq Requests, \A m \in msgs' \ msgs : Sendable(m)',
         CommitterTypeOK', AsyncClientInv'
  PROVE  AsyncInv'
<1>1. /\ TypeOK /\ TikvTypeOK /\ CommitterTypeOK /\ ResolverTypeOK
      /\ ClockInv /\ AsyncMsgInv /\ AsyncReaderInv /\ AsyncGcInv
  BY DEF AsyncInv, TypeOK
<1>2. TikvTypeOK'
  BY <1>1, AsyncTikvTypes DEF TikvTypeOK
<1>3. UNCHANGED readTs /\ ResolverTypeOK'
  BY <1>1 DEF ResolverTypeOK, readerVars, gcVars
<1>4. ClockInv'
  <2>1. clock' \in Nat /\ clock <= clock' /\ clock' <= SafeWindow
    BY <1>1, SMTT(20) DEF CommitterTypeOK, ClockInv
  <2>2. (\A r \in Regions : maxTs'[r] <= clock') /\ \A i \in Readers : readTs'[i] <= clock'
    BY <1>1, <1>3 DEF ClockInv
  <2> QED
    BY <1>1, <2>1, <2>2, AsyncClock
<1>5. AsyncMsgInv'
  BY <1>1, AsyncMsgs
<1>6. AsyncReaderInv' /\ AsyncGcInv'
  BY <1>1, AsyncReaders, AsyncGc
<1> QED
  BY <1>2, <1>3, <1>4, <1>5, <1>6 DEF AsyncInv, TypeOK, LocksStep

\* A call that fails keeps the invariant, provided a key error means that the
\* transaction is lost.
LEMMA AsyncFail ==
  ASSUME AsyncInv, NEW res \in Errors, Fail(res), UNCHANGED <<readerVars, gcVars>>,
         res # "lag", res = "refused" => Lost
  PROVE  AsyncInv'
<1>1. TikvTypeOK /\ CommitterTypeOK /\ LocksInv /\ AsyncClientInv
  BY DEF AsyncInv, TypeOK
<1>2. /\ UNCHANGED <<regionOf, lockTable, conflict, maxTs, msgs, clock, mode, status, calls>>
      /\ UNCHANGED <<replied, minReply, onePcReply, commitTs, acked>>
      /\ cpc' = "returned" /\ result' = res
  BY DEF Fail, Return, tikvVars
<1>3. LocksStep
  BY <1>1, <1>2, SameLocks DEF NeverSent, Sent
<1>4. CommitterTypeOK' /\ msgs' \subseteq Requests /\ msgs' \ msgs = {}
  BY <1>1, <1>2 DEF CommitterTypeOK, Results, TikvTypeOK
<1>5. AsyncClientInv'
  BY <1>1, <1>2, <1>3 DEF AsyncClientInv, LocksStep, lockTable, IsFinal
<1> QED
  BY <1>2, <1>3, <1>4, <1>5, AsyncClientStep

\* The request that prewrites a region.
LEMMA AsyncShardRequest ==
  ASSUME AsyncShards, NEW r \in ShardRegions
  PROVE  /\ PrewriteShard(r) \in Requests /\ PrewriteShard(r).type = "prewrite"
         /\ PrewriteShard(r).mode = "async" /\ PrewriteShard(r).keys = Shard(r)
<1>1. ShardMode(r) = "async"
  BY DEF AsyncShards
<1> QED
  BY <1>1 DEF PrewriteShard, Request, Requests, Shard

\* A call of commit() keeps the invariant.
LEMMA AsyncCallCommit ==
  ASSUME AsyncShards, AsyncInv, CallCommit, UNCHANGED <<readerVars, gcVars>>
  PROVE  AsyncInv'
<1>1. TikvTypeOK /\ CommitterTypeOK /\ LocksInv /\ AsyncClientInv
  BY DEF AsyncInv, TypeOK
<1>2. /\ UNCHANGED <<regionOf, lockTable, conflict, maxTs, clock, mode, result, commitTs, acked>>
      /\ status \in {"Active", "StartedCommit"} /\ status' = "StartedCommit" /\ cpc' = "prewrite"
      /\ replied' = {} /\ minReply' = 0 /\ onePcReply' = 0 /\ calls' = calls + 1
      /\ msgs' = msgs \cup {PrewriteShard(r) : r \in ShardRegions}
  BY DEF CallCommit
<1>3. /\ msgs \subseteq msgs'
      /\ \A m \in msgs' \ msgs : m \in Requests /\ m.type = "prewrite" /\ m.mode = "async"
  BY <1>2, AsyncShardRequest
<1>4. Sent("prewrite")' # {}
  <2>1. regionOf[Primary] \in ShardRegions
    BY <1>1, ShardFacts
  <2> QED
    BY <1>2, <2>1, AsyncShardRequest DEF Sent
<1>5. LocksStep
  BY <1>1, <1>2, <1>4, SameLocks DEF NeverSent
<1>6. msgs' \subseteq Requests /\ CommitterTypeOK'
  BY <1>1, <1>2, <1>3, SMTT(20) DEF TikvTypeOK, CommitterTypeOK, Statuses
<1>7. AsyncClientInv'
  BY <1>1, <1>2, <1>4 DEF AsyncClientInv, lockTable, IsFinal
<1>8. \A m \in msgs' \ msgs : Sendable(m)'
  BY <1>3 DEF Sendable
<1> QED
  BY <1>2, <1>5, <1>6, <1>7, <1>8, AsyncClientStep

\* The end of prewrite keeps the invariant: the largest min_commit_ts of all
\* regions is the final timestamp.
LEMMA AsyncPrewriteDone ==
  ASSUME AsyncShards, AsyncInv, PrewriteDone, UNCHANGED <<readerVars, gcVars>>
  PROVE  AsyncInv'
<1>1. TikvTypeOK /\ CommitterTypeOK /\ LocksInv /\ AsyncClientInv
  BY DEF AsyncInv, TypeOK
<1>2. cpc = "prewrite" /\ replied = ShardRegions /\ onePcReply = 0 /\ ~OnePcResponse
  BY <1>1 DEF PrewriteDone, AsyncClientInv, AsyncShards
<1>3. replied # {} /\ \A k \in CommitKeys : regionOf[k] \in replied /\ k \in CommitShard(regionOf[k])
  BY <1>1, <1>2, ShardFacts
<1>4. PICK j \in CommitKeys : 0 < minCommit[j] /\ minCommit[j] = minReply
  BY <1>1, <1>2, <1>3 DEF AsyncClientInv
<1>5. minReply \in Nat /\ minReply > 0 /\ minReply # 0
  <2>1. minReply \in Nat
    BY <1>1 DEF CommitterTypeOK
  <2> QED
    BY <1>4, <2>1, SMTT(20)
<1>6. IsFinal(minReply)
  BY <1>1, <1>2, <1>3, <1>4 DEF AsyncClientInv, IsFinal
<1>7. ~(onePcReply > 0)
  BY <1>2, SMTT(20)
<1>8. /\ UNCHANGED <<regionOf, lockTable, conflict, maxTs, clock, mode, calls, replied,
                     minReply, onePcReply>>
      /\ Succeed(minReply, CommitKeys)
  BY <1>2, <1>5, <1>7 DEF PrewriteDone
<1>9. /\ cpc' = "returned" /\ result' = "ok" /\ status' = "Committed"
      /\ acked' = minReply /\ commitTs' = minReply
  BY <1>8 DEF Succeed, Return
<1> DEFINE new(r) == Request("commit", CommitKeys \cap CommitShard(r), minReply, "")
<1>10. msgs \subseteq msgs' /\ \A m \in msgs' \ msgs : \E r \in CommitRegions : m = new(r)
  BY <1>8 DEF Succeed
<1>11. \A r : new(r) \in Requests /\ new(r).type = "commit" /\ new(r).ts = minReply
  BY <1>5 DEF Request, Requests, CommitKeys, CommitShard
<1>12. \A m \in msgs' \ msgs : m \in Requests /\ m.type = "commit" /\ m.ts = minReply
  BY <1>10, <1>11
<1> HIDE DEF new
<1>13. LocksStep
  <2>1. Sent("prewrite") # {} /\ Sent("prewrite") \subseteq Sent("prewrite")'
    BY <1>1, <1>2, <1>10 DEF AsyncClientInv, Sent
  <2> QED
    BY <1>1, <1>8, <2>1, SameLocks DEF NeverSent
<1>14. msgs' \subseteq Requests /\ CommitterTypeOK'
  BY <1>1, <1>5, <1>8, <1>9, <1>12 DEF TikvTypeOK, CommitterTypeOK, Statuses, Results
<1>15. PICK v : v = minReply
  OBVIOUS
<1>16. IsFinal(v)'
  BY <1>6, <1>13, <1>15, FinalStays DEF LocksStep
<1>17. AsyncClientInv'
  <2>1. IsFinal(acked)'
    BY <1>9, <1>15, <1>16
  <2> QED
    BY <1>1, <1>8, <1>9, <2>1 DEF AsyncClientInv
<1>18. \A m \in msgs' \ msgs : Sendable(m)'
  <2> SUFFICES ASSUME NEW m \in msgs' \ msgs PROVE Sendable(m)'
    OBVIOUS
  <2>1. m.type = "commit" /\ m.ts = v
    BY <1>12, <1>15
  <2>2. IsFinal(m.ts)'
    BY <1>16, <2>1
  <2> QED
    BY <2>1, <2>2 DEF Sendable
<1> QED
  BY <1>8, <1>13, <1>14, <1>17, <1>18, AsyncClientStep

----------------------------------------------------------------------------
\* What a prewritten key contributes to the min_commit_ts of a response, in the
\* state after: it is the min_commit_ts of some key, and not below its own.
LEMMA Contribution ==
  ASSUME TikvTypeOK', LocksInv', NEW k \in CommitKeys, 0 < minCommit'[k],
         k \in locked' \/ write'[k] > 0,
         NEW v, v = IF k \in locked' THEN minCommit'[k] ELSE write'[k]
  PROVE  /\ v \in Nat /\ minCommit'[k] <= v
         /\ \E j \in CommitKeys : 0 < minCommit'[j] /\ minCommit'[j] = v
<1>1. minCommit'[k] \in Nat /\ write'[k] \in Nat \cup {NoWrite}
  BY DEF TikvTypeOK, CommitKeys
<1>2. CASE k \in locked'
  <2>1. v = minCommit'[k] /\ minCommit'[k] <= minCommit'[k]
    BY <1>1, <1>2, SMTT(20)
  <2> QED
    BY <1>1, <2>1
<1>3. CASE k \notin locked'
  <2>1. v = write'[k] /\ write'[k] > 0
    BY <1>3
  <2>2. write'[k] # NoWrite /\ write'[k] # 0 /\ v \in Nat
    BY <1>1, <2>1, SMTT(20) DEF NoWrite
  <2>3. Decided(write[k])'
    BY <2>2 DEF LocksInv
  <2>4. IsFinal(write[k])'
    BY <2>2, <2>3 DEF Decided
  <2>5. /\ \E j \in CommitKeys : minCommit'[j] = write'[k]
        /\ \A j \in CommitKeys : 0 < minCommit'[j] /\ minCommit'[j] <= write'[k]
    BY <2>4 DEF IsFinal
  <2> QED
    BY <2>1, <2>2, <2>5
<1> QED
  BY <1>2, <1>3

\* An element that is not below any other is the largest.
LEMMA MaxIs ==
  ASSUME NEW S, S \subseteq Int, NEW x \in S, \A y \in S : y <= x
  PROVE  Max(S) = x
<1>1. \A y \in S : x >= y
  BY SMTT(20)
<1>2. Max(S) \in S /\ \A y \in S : Max(S) >= y
  BY <1>1 DEF Max
<1>3. Max(S) >= x /\ Max(S) <= x /\ Max(S) \in Int /\ x \in Int
  BY <1>2
<1> QED
  BY <1>3, SMTT(20)

\* The successor of a timestamp.
LEMMA Successor ==
  ASSUME NEW t \in Nat
  PROVE  0 \in Nat /\ t + 1 \in Nat /\ 0 <= t + 1
BY SMTT(20)

\* The response of a prewritten region carries the min_commit_ts of some key,
\* and none of the region's keys has a later one.
LEMMA ReplyOf ==
  ASSUME TikvTypeOK', LocksInv', ClockInv', clock' \in Nat,
         NEW ks \in SUBSET CommitKeys, ks # {},
         \A k \in ks : 0 < minCommit'[k] /\ (k \in locked' \/ write'[k] > 0),
         NEW M, M = Max({0} \cup {IF k \in locked' THEN minCommit'[k] ELSE write'[k] : k \in ks})
  PROVE  /\ M \in Nat /\ \A k \in ks : minCommit'[k] <= M
         /\ \E j \in CommitKeys : 0 < minCommit'[j] /\ minCommit'[j] = M
<1> DEFINE val(k) == IF k \in locked' THEN minCommit'[k] ELSE write'[k]
<1> DEFINE S == {0} \cup {val(k) : k \in ks}
<1>1. \A k \in ks : /\ val(k) \in Nat /\ minCommit'[k] <= val(k)
                    /\ \E j \in CommitKeys : 0 < minCommit'[j] /\ minCommit'[j] = val(k)
  BY Contribution
<1>2. M = Max(S)
  OBVIOUS
<1> HIDE DEF val
<1>3. \A k \in CommitKeys : minCommit'[k] \in Nat /\ minCommit'[k] <= clock' + 1
  BY DEF ClockInv, TikvTypeOK, CommitKeys
<1>4. 0 <= clock' + 1 /\ clock' + 1 \in Nat /\ 0 \in Nat
  BY Successor
<1>5. S \subseteq Nat /\ S # {} /\ \A k \in ks : val(k) \in S
  BY <1>1, <1>4
<1>6. \A x \in S : x <= clock' + 1
  <2>1. ks \subseteq CommitKeys /\ \A k \in ks : val(k) <= clock' + 1
    BY <1>1, <1>3
  <2> QED
    BY <1>4, <2>1
<1>7. \A x \in S : x = 0 \/ \E k \in ks : x = val(k)
  OBVIOUS
<1> HIDE DEF S
<1>8. PICK b : b = clock' + 1
  OBVIOUS
<1>9. M \in S /\ \A y \in S : y <= M
  BY <1>2, <1>4, <1>5, <1>6, <1>8, Largest
<1>10. M \in Nat /\ \A k \in ks : val(k) <= M
  BY <1>5, <1>9
<1>11. \A k \in ks : minCommit'[k] <= M
  <2> SUFFICES ASSUME NEW k \in ks PROVE minCommit'[k] <= M
    OBVIOUS
  <2>1. minCommit'[k] \in Nat /\ val(k) \in Nat /\ minCommit'[k] <= val(k) /\ val(k) <= M
    BY <1>1, <1>3, <1>10
  <2> QED
    BY <1>10, <2>1, SMTT(20)
<1>12. M # 0
  <2>1. PICK k \in ks : TRUE
    OBVIOUS
  <2>2. 0 < minCommit'[k] /\ minCommit'[k] <= M /\ minCommit'[k] \in Nat
    BY <1>3, <1>11
  <2> QED
    BY <1>10, <2>2, SMTT(20)
<1> QED
  BY <1>1, <1>7, <1>9, <1>10, <1>11, <1>12

\* The larger of two timestamps.
LEMMA MaxOfTwo ==
  ASSUME NEW a \in Nat, NEW b \in Nat
  PROVE  Max({a, b}) \in {a, b} /\ a <= Max({a, b}) /\ b <= Max({a, b})
<1>1. \E x \in {a, b} : \A y \in {a, b} : x >= y
  BY SMTT(20)
<1>2. Max({a, b}) \in {a, b} /\ \A y \in {a, b} : Max({a, b}) >= y
  BY <1>1 DEF Max
<1>3. Max({a, b}) >= a /\ Max({a, b}) >= b /\ Max({a, b}) \in Nat
  BY <1>2
<1> QED
  BY <1>2, <1>3, SMTT(20)

\* The answer of a prewritten region keeps the invariant.
LEMMA AsyncPrewriteOk ==
  ASSUME AsyncAssumption, AsyncShards, AsyncInv, NEW r \in ShardRegions, PrewriteOk(r),
         UNCHANGED <<readerVars, gcVars>>
  PROVE  AsyncInv'
<1>1. TypeOK /\ TikvTypeOK /\ CommitterTypeOK /\ LocksInv /\ ClockInv /\ AsyncClientInv /\ clock \in Nat
  BY DEF AsyncInv, TypeOK, CommitterTypeOK
<1>2. /\ UNCHANGED <<msgs, clock, mode, status, cpc, result, calls, commitTs, acked>>
      /\ cpc = "prewrite" /\ replied' = replied \cup {r}
      /\ Prewrite(Shard(r), "async")
      /\ minReply' = Max({minReply, MinCommitReply(Shard(r), "async")})
      /\ onePcReply' = Max({onePcReply, OnePcReply(Shard(r), "async")})
  BY AsyncShardRequest DEF PrewriteOk
<1>3. CommitKeys = Keys /\ Shard(r) \in SUBSET CommitKeys /\ Shard(r) # {} /\ CommitShard(r) = Shard(r)
      /\ Shard(r) \cap CommitKeys = Shard(r)
  BY <1>1, ShardFacts DEF AsyncAssumption, CommitKeys, Shard, ShardRegions, CommitShard
<1>4. Sent("prewrite") # {} /\ UNCHANGED <<status, Sent("prewrite")>>
  BY <1>1, <1>2 DEF AsyncClientInv, Sent
<1>5. /\ LocksStep /\ UNCHANGED <<conflict, maxTs>>
      /\ \A k \in Shard(r) : 0 < minCommit'[k] /\ (k \in locked' \/ write'[k] > 0)
  BY <1>1, <1>2, <1>3, <1>4, PrewriteLocks
<1>6. TikvTypeOK' /\ LocksInv' /\ (clock \in Nat)'
  <2>1. TikvTypeOK'
    BY <1>1, <1>2, <1>5, AsyncTikvTypes DEF TikvTypeOK
  <2> QED
    BY <1>1, <1>2, <1>5, <2>1 DEF LocksStep
<1>7. ClockInv'
  <2>1. clock' \in Nat /\ clock <= clock' /\ clock' <= SafeWindow
    BY <1>1, <1>2, SMTT(20) DEF ClockInv
  <2>2. (\A s \in Regions : maxTs'[s] <= clock') /\ \A i \in Readers : readTs'[i] <= clock'
    BY <1>1, <1>2, <1>5 DEF ClockInv, readerVars
  <2> QED
    BY <1>1, <1>5, <2>1, <2>2, AsyncClock
<1>8. onePcReply' = 0
  <2>1. OnePcReply(Shard(r), "async") = 0 /\ onePcReply = 0
    BY <1>1 DEF OnePcReply, AsyncClientInv
  <2> QED
    BY <1>2, <2>1, MaxOfSame
<1>9. PICK ks : ks = Shard(r)
  OBVIOUS
<1>10. PICK M : M = MinCommitReply(Shard(r), "async")
  OBVIOUS
<1>11. M = Max({0} \cup {IF k \in locked' THEN minCommit'[k] ELSE write'[k] : k \in ks})
  <2>1. \A k \in ks : k \in asyncLocked' \/ write'[k] > 0
    BY <1>5, <1>6, <1>9 DEF LocksInv
  <2> QED
    BY <1>3, <1>9, <1>10, <2>1 DEF MinCommitReply
<1>12. /\ M \in Nat /\ \A k \in ks : minCommit'[k] <= M
       /\ \E j \in CommitKeys : 0 < minCommit'[j] /\ minCommit'[j] = M
  <2>1. \A k \in ks : 0 < minCommit'[k] /\ (k \in locked' \/ write'[k] > 0)
    BY <1>5, <1>9
  <2>2. ks \in SUBSET CommitKeys /\ ks # {}
    BY <1>3, <1>9
  <2> QED
    BY <1>6, <1>7, <1>11, <2>1, <2>2, ReplyOf
<1>13. minReply \in Nat /\ minReply' = Max({minReply, M})
  BY <1>1, <1>2, <1>10 DEF CommitterTypeOK
<1>14. minReply' \in {minReply, M} /\ minReply <= minReply' /\ M <= minReply'
  BY <1>12, <1>13, MaxOfTwo
<1>15. minReply' \in Nat
  BY <1>12, <1>13, <1>14
<1>16. \A k \in CommitKeys : 0 < minCommit[k] => minCommit'[k] = minCommit[k]
  BY <1>5 DEF LocksStep, KeysStay
<1>17. \A k \in CommitKeys : minCommit[k] \in Nat /\ minCommit'[k] \in Nat
  BY <1>1, <1>5, KeyTypes DEF LocksStep
<1>18. \A s \in replied' : \A k \in CommitShard(s) : 0 < minCommit'[k] /\ minCommit'[k] <= minReply'
  <2> SUFFICES ASSUME NEW s \in replied', NEW k \in CommitShard(s)
               PROVE  0 < minCommit'[k] /\ minCommit'[k] <= minReply'
    OBVIOUS
  <2>1. k \in CommitKeys
    BY DEF CommitShard
  <2>2. CASE s = r
    <3>1. 0 < minCommit'[k] /\ minCommit'[k] <= M
      BY <1>3, <1>5, <1>9, <1>12, <2>2
    <3> QED
      BY <1>12, <1>14, <1>15, <1>17, <2>1, <3>1, SMTT(20)
  <2>3. CASE s \in replied
    <3>1. 0 < minCommit[k] /\ minCommit[k] <= minReply
      BY <1>1, <1>2, <2>3 DEF AsyncClientInv
    <3>2. minCommit'[k] = minCommit[k]
      BY <1>16, <2>1, <3>1
    <3> QED
      BY <1>13, <1>14, <1>15, <1>17, <2>1, <3>1, <3>2, SMTT(20)
  <2> QED
    BY <1>2, <2>2, <2>3
<1>19. \E k \in CommitKeys : 0 < minCommit'[k] /\ minCommit'[k] = minReply'
  <2>1. CASE minReply' = M
    BY <1>12, <2>1
  <2>2. CASE minReply' = minReply /\ replied # {}
    BY <1>1, <1>2, <1>16, <2>2 DEF AsyncClientInv
  <2>3. CASE minReply' = minReply /\ replied = {}
    <3>1. minReply = 0
      BY <1>1, <1>2, <2>3 DEF AsyncClientInv
    <3>2. M = 0
      BY <1>12, <1>14, <2>3, <3>1, SMTT(20)
    <3> QED
      BY <1>12, <2>3, <3>1, <3>2
  <2> QED
    BY <1>14, <2>1, <2>2, <2>3
<1>20. AsyncClientInv'
  <2>1. \A s : CommitShard(s)' = CommitShard(s)
    BY <1>5, ShardsStay DEF LocksStep
  <2>2. (acked > 0 => IsFinal(acked))'
    <3>1. PICK v : v = acked
      OBVIOUS
    <3>2. v > 0 => IsFinal(v)'
      BY <1>1, <1>5, <3>1, FinalStays DEF AsyncClientInv, LocksStep
    <3> QED
      BY <1>2, <3>1, <3>2
  <2>3. replied' # {}
    BY <1>2
  <2> QED
    BY <1>1, <1>2, <1>4, <1>8, <1>18, <1>19, <2>1, <2>2, <2>3 DEF AsyncClientInv
<1>21. msgs' \subseteq Requests /\ msgs' \ msgs = {}
  BY <1>1, <1>2 DEF TikvTypeOK
<1>22. CommitterTypeOK'
  <2>1. r \in Regions /\ 0 \in Nat
    BY <1>1, ShardFacts, SMTT(20)
  <2> QED
    BY <1>1, <1>2, <1>8, <1>15, <2>1 DEF CommitterTypeOK
<1> QED
  BY <1>2, <1>5, <1>20, <1>21, <1>22, AsyncClientStep

----------------------------------------------------------------------------
\* A tombstone on a key means that the transaction is lost.
LEMMA TombstoneLost ==
  ASSUME TikvTypeOK, LocksInv, NEW k \in CommitKeys, write[k] = Rollback
  PROVE  Lost
<1>1. write[k] # NoWrite /\ ~(0 < write[k])
  BY SMTT(20) DEF Rollback, NoWrite
<1>2. Decided(write[k]) /\ ~IsFinal(write[k])
  BY <1>1, FinalWins DEF LocksInv
<1> QED
  BY <1>2 DEF Decided

\* A key error of prewrite means that the transaction is lost.
LEMMA RefusedLost ==
  ASSUME AsyncAssumption, TikvTypeOK, LocksInv, NEW r, ~MayPrewrite(Shard(r))
  PROVE  Lost
<1>1. PICK k \in CommitKeys : k \in conflict \/ write[k] = Rollback
  BY DEF MayPrewrite, Shard, AsyncAssumption, CommitKeys
<1>2. CASE k \in conflict
  BY <1>1, <1>2 DEF LocksInv, Lost, Doomed
<1>3. CASE write[k] = Rollback
  BY <1>3, TombstoneLost
<1> QED
  BY <1>1, <1>2, <1>3

\* A call of rollback() keeps the invariant.
LEMMA AsyncCallRollback ==
  ASSUME AsyncAssumption, AsyncInv, CallRollback, UNCHANGED <<readerVars, gcVars>>
  PROVE  AsyncInv'
<1>1. TikvTypeOK /\ CommitterTypeOK /\ LocksInv /\ AsyncClientInv
  BY DEF AsyncInv, TypeOK
<1>2. /\ UNCHANGED <<regionOf, lockTable, conflict, maxTs, clock, mode, result, minReply,
                     onePcReply, commitTs, acked>>
      /\ calls' = calls + 1 /\ status' = "StartedRollback" /\ cpc' = "rollback" /\ replied' = {}
      /\ msgs' = msgs \cup {Request("rollback", CommitShard(r), 0, "") : r \in CommitRegions}
      /\ \/ cpc = "idle"
         \/ cpc = "returned" /\ (result \in RollbackAfter \/ status = "StartedRollback")
  BY DEF CallRollback
<1>3. \A r : /\ Request("rollback", CommitShard(r), 0, "") \in Requests
             /\ Request("rollback", CommitShard(r), 0, "").type = "rollback"
  <2>1. 0 \in Nat
    BY SMTT(20)
  <2> QED
    BY <1>1, <2>1, ShardFacts DEF Request, Requests
<1>4. \A m \in msgs' \ msgs : m \in Requests /\ m.type = "rollback"
  BY <1>2, <1>3
<1>5. UNCHANGED Sent("prewrite")
  BY <1>2, <1>4 DEF Sent
<1>6. Lost \/ Sent("prewrite") = {}
  BY <1>1, <1>2 DEF AsyncClientInv, AsyncAssumption, CallsAfterVerdict
<1>7. LocksStep
  BY <1>1, <1>2, <1>5, SameLocks DEF NeverSent
<1>8. Lost'
  BY <1>2, <1>5, <1>6, <1>7 DEF LocksStep, Lost, NeverSent
<1>9. msgs' \subseteq Requests /\ \A m \in msgs' \ msgs : Sendable(m)'
  BY <1>1, <1>2, <1>4, <1>8 DEF Sendable, TikvTypeOK
<1>10. CommitterTypeOK'
  <2>1. calls' \in Nat
    BY <1>1, <1>2, Successor DEF CommitterTypeOK
  <2> QED
    BY <1>1, <1>2, <2>1 DEF CommitterTypeOK, Statuses
<1>11. AsyncClientInv'
  BY <1>1, <1>2, <1>8 DEF AsyncClientInv, IsFinal, lockTable
<1> QED
  BY <1>2, <1>7, <1>9, <1>10, <1>11, AsyncClientStep

\* The answer of a region that is rolled back keeps the invariant.
LEMMA AsyncRollbackOk ==
  ASSUME AsyncInv, NEW r \in CommitRegions, RollbackOk(r), UNCHANGED <<readerVars, gcVars>>
  PROVE  AsyncInv'
<1>1. TikvTypeOK /\ CommitterTypeOK /\ LocksInv /\ AsyncClientInv
  BY DEF AsyncInv, TypeOK
<1>2. /\ UNCHANGED <<msgs, clock, mode, status, cpc, result, calls, minReply, onePcReply,
                     commitTs, acked>>
      /\ cpc = "rollback" /\ replied' = replied \cup {r} /\ BatchRollback(CommitShard(r))
      /\ UNCHANGED Sent("prewrite")
  BY DEF RollbackOk, Sent
<1>3. CommitShard(r) \in SUBSET CommitKeys /\ r \in Regions
  BY <1>1, ShardFacts
<1>4. Lost
  BY <1>1, <1>2 DEF AsyncClientInv
<1>5. LocksStep /\ \A k \in CommitShard(r) : write'[k] = Rollback
  BY <1>1, <1>2, <1>3, <1>4, RollbackLocks
<1>6. UNCHANGED <<conflict, maxTs>> /\ regionOf' = regionOf
  BY <1>2 DEF BatchRollback, Settle
<1>7. \A k \in CommitKeys : write[k] = Rollback => write'[k] = Rollback
  <2>1. Rollback # NoWrite
    BY SMTT(20) DEF Rollback, NoWrite
  <2> QED
    BY <1>5, <2>1 DEF LocksStep, KeysStay
<1>8. AsyncClientInv'
  <2>1. \A s : CommitShard(s)' = CommitShard(s) /\ CommitShard(s) \subseteq CommitKeys
    BY <1>1, <1>6, ShardsStay, ShardFacts
  <2>2. (\A s \in replied : \A k \in CommitShard(s) : write[k] = Rollback)'
    BY <1>1, <1>2, <1>5, <1>7, <2>1 DEF AsyncClientInv
  <2>3. (acked > 0 => IsFinal(acked))'
    <3>1. PICK v : v = acked
      OBVIOUS
    <3>2. v > 0 => IsFinal(v)'
      BY <1>1, <1>5, <3>1, FinalStays DEF AsyncClientInv, LocksStep
    <3> QED
      BY <1>2, <3>1, <3>2
  <2>4. Lost'
    BY <1>4, <1>5 DEF LocksStep
  <2>5. (status = "Rolledback" => \A k \in CommitKeys : write[k] = Rollback)'
    BY <1>1, <1>2, <1>7 DEF AsyncClientInv
  <2> QED
    BY <1>1, <1>2, <2>2, <2>3, <2>4, <2>5 DEF AsyncClientInv
<1>9. CommitterTypeOK' /\ msgs' \subseteq Requests /\ msgs' \ msgs = {}
  BY <1>1, <1>2, <1>3 DEF CommitterTypeOK, TikvTypeOK
<1> QED
  BY <1>2, <1>5, <1>6, <1>8, <1>9, AsyncClientStep

\* The end of rollback(), and a dropped transaction, keep the invariant.
LEMMA AsyncEnd ==
  ASSUME AsyncInv, RollbackDone \/ Drop, UNCHANGED <<readerVars, gcVars>>
  PROVE  AsyncInv'
<1>1. TikvTypeOK /\ CommitterTypeOK /\ LocksInv /\ AsyncClientInv
  BY DEF AsyncInv, TypeOK
<1>2. /\ UNCHANGED <<regionOf, lockTable, conflict, maxTs, msgs, clock, mode, calls, replied,
                     minReply, onePcReply, commitTs, acked>>
      /\ UNCHANGED <<locked, asyncLocked, minCommit, write>>
  BY DEF RollbackDone, Drop, tikvVars, lockTable
<1>3. /\ cpc' \in {"returned", "gone"} /\ status' \in {"Rolledback", "Dropped"}
      /\ result' \in Results /\ (cpc' = "returned" => result' = "rolledback")
  BY <1>1 DEF RollbackDone, Drop, Return, Results, CommitterTypeOK
<1>4. LocksStep
  BY <1>1, <1>2, <1>3, SameLocks DEF NeverSent, Sent
<1>5. status' = "Rolledback" => \A k \in CommitKeys : write[k] = Rollback
  <2>1. status' = "Rolledback" => cpc = "rollback" /\ replied = CommitRegions
    BY DEF RollbackDone, Drop
  <2> QED
    BY <1>1, <2>1, ShardFacts DEF AsyncClientInv
<1>6. AsyncClientInv'
  BY <1>1, <1>2, <1>3, <1>5 DEF AsyncClientInv, IsFinal
<1>7. CommitterTypeOK' /\ msgs' \subseteq Requests /\ msgs' \ msgs = {}
  BY <1>1, <1>2, <1>3 DEF CommitterTypeOK, TikvTypeOK, Statuses
<1> QED
  BY <1>2, <1>4, <1>6, <1>7, AsyncClientStep

\* Every step of commit() and rollback() keeps the invariant.
LEMMA AsyncCommitter ==
  ASSUME AsyncAssumption, AsyncShards, AsyncInv, CommitterStep, UNCHANGED <<readerVars, gcVars>>
  PROVE  AsyncInv'
<1>1. TikvTypeOK /\ LocksInv /\ AsyncClientInv
  BY DEF AsyncInv, TypeOK
<1>2. cpc \notin {"getTs", "commit"} /\ (cpc = "rollback" => Lost)
  BY <1>1 DEF AsyncClientInv
<1>3. CASE CallCommit
  BY <1>3, AsyncCallCommit
<1>4. ASSUME NEW r \in ShardRegions, PrewriteOk(r) PROVE AsyncInv'
  BY <1>4, AsyncPrewriteOk
<1>5. ASSUME NEW r \in ShardRegions, PrewriteRefused(r) PROVE AsyncInv'
  <2>1. Lost /\ Fail("refused") /\ "refused" \in Errors
    BY <1>1, <1>5, RefusedLost DEF PrewriteRefused, Errors
  <2> QED
    BY <2>1, AsyncFail
<1>6. CASE PrewriteFailed
  <2>1. Fail("failed") /\ "failed" \in Errors
    BY <1>6 DEF PrewriteFailed, Errors
  <2> QED
    BY <2>1, AsyncFail
<1>7. CASE PrewriteDone
  BY <1>7, AsyncPrewriteDone
<1>8. CASE CallRollback
  BY <1>8, AsyncCallRollback
<1>9. ASSUME NEW r \in CommitRegions, RollbackOk(r) PROVE AsyncInv'
  BY <1>9, AsyncRollbackOk
<1>10. CASE RollbackFailed
  <2>1. PICK res \in {"failed", "refused"} : Fail(res)
    BY <1>10 DEF RollbackFailed
  <2>2. cpc = "rollback" /\ res \in Errors /\ res # "lag"
    BY <1>10 DEF RollbackFailed, Errors
  <2> QED
    BY <1>2, <2>1, <2>2, AsyncFail
<1>11. CASE RollbackDone \/ Drop
  BY <1>11, AsyncEnd
<1>12. ~(FetchCommitTs \/ FetchCommitTsFailed \/ CommitPrimaryOk \/ CommitPrimaryRefused \/ CommitPrimaryFailed)
  BY <1>2 DEF FetchCommitTs, FetchCommitTsFailed, CommitPrimaryOk, CommitPrimaryRefused, CommitPrimaryFailed
<1> QED
  BY <1>3, <1>4, <1>5, <1>6, <1>7, <1>8, <1>9, <1>10, <1>11, <1>12 DEF CommitterStep

----------------------------------------------------------------------------
(* Async commit: the cluster and the readers                               *)

\* What remains to be shown of a step of the cluster, a reader or the garbage
\* collector.
LEMMA AsyncOtherStep ==
  ASSUME AsyncInv, LocksStep, UNCHANGED clientVars, msgs \subseteq msgs', msgs' \subseteq Requests,
         \A m \in msgs' \ msgs : m.type # "prewrite" /\ Sendable(m)',
         conflict' \subseteq Keys, maxTs' \in [Regions -> Nat],
         clock' \in Nat, clock <= clock', clock' <= SafeWindow,
         \A r \in Regions : maxTs'[r] <= clock', \A i \in Readers : readTs'[i] <= clock',
         ResolverTypeOK', AsyncReaderInv', AsyncGcInv'
  PROVE  AsyncInv'
<1>1. TypeOK /\ TikvTypeOK /\ CommitterTypeOK /\ ClockInv /\ AsyncMsgInv /\ AsyncClientInv
  BY DEF AsyncInv, TypeOK
<1>2. UNCHANGED Sent("prewrite")
  BY DEF Sent
<1>3. TikvTypeOK' /\ CommitterTypeOK'
  BY <1>1, AsyncTikvTypes DEF CommitterTypeOK, clientVars
<1>4. ClockInv'
  BY <1>1, AsyncClock
<1>5. AsyncMsgInv' /\ AsyncClientInv'
  BY <1>1, <1>2, AsyncMsgs, AsyncClient
<1> QED
  BY <1>3, <1>4, <1>5 DEF AsyncInv, TypeOK, LocksStep

\* The clock and the reads are what they were.
LEMMA AsyncTimes ==
  ASSUME AsyncInv
  PROVE  /\ clock \in Nat /\ clock <= clock /\ clock <= SafeWindow
         /\ \A r \in Regions : maxTs[r] <= clock
         /\ \A i \in Readers : readTs[i] <= clock /\ readTs[i] \in Nat
         /\ maxTs \in [Regions -> Nat] /\ conflict \subseteq Keys /\ msgs \subseteq Requests
<1>1. clock \in Nat
  BY DEF AsyncInv, TypeOK, CommitterTypeOK
<1>2. clock <= clock
  BY <1>1, SMTT(20)
<1> QED
  BY <1>1, <1>2 DEF AsyncInv, TypeOK, TikvTypeOK, ResolverTypeOK, ClockInv

\* A late delivery, or a newer version of a key, keeps the invariant.
LEMMA AsyncCluster ==
  ASSUME AsyncAssumption, AsyncInv, Cluster
  PROVE  AsyncInv'
<1>1. /\ UNCHANGED <<clock, clientVars, readerVars, gcVars>>
      /\ UNCHANGED <<status, readTs, rpc, rkey, rversion, seen>>
  BY DEF Cluster, clientVars, readerVars
<1>2. /\ TypeOK /\ TikvTypeOK /\ CommitterTypeOK /\ ResolverTypeOK /\ LocksInv
      /\ ClockInv /\ AsyncMsgInv /\ AsyncReaderInv /\ AsyncGcInv /\ clock \in Nat
  BY DEF AsyncInv, TypeOK, CommitterTypeOK
<1>3. LocksStep /\ conflict' \subseteq Keys /\ UNCHANGED <<maxTs, msgs>>
  <2>1. CASE LateDelivery
    <3>1. PICK m \in msgs : Execute(m) /\ UNCHANGED msgs
      BY <2>1 DEF LateDelivery
    <3>2. LocksStep /\ UNCHANGED <<conflict, maxTs>>
      BY <1>1, <1>2, <3>1, ExecuteLocks
    <3> QED
      BY <1>2, <3>1, <3>2 DEF TikvTypeOK
  <2>2. ASSUME NEW k \in Keys, NewerVersion(k) PROVE LocksStep /\ conflict' \subseteq Keys /\ UNCHANGED <<maxTs, msgs>>
    <3>1. /\ k \notin locked /\ write[k] = NoWrite /\ conflict' = conflict \cup {k}
          /\ UNCHANGED <<regionOf, locked, asyncLocked, minCommit, write, maxTs, msgs>>
          /\ k \in CommitKeys
      BY <2>2 DEF NewerVersion, lockTable, AsyncAssumption, CommitKeys
    <3>2. minCommit[k] = 0
      BY <1>2, <3>1, NeverLocked
    <3>3. KeysStay /\ UNCHANGED Sent("prewrite")
      BY <3>1 DEF KeysStay, Sent
    <3>4. Lost => Lost'
      BY <1>1, <3>1, <3>3, LostStays
    <3>5. \A j \in CommitKeys : write[j] # NoWrite => Decided(write[j]) /\ write'[j] = write[j]
      BY <1>2, <3>1 DEF LocksInv
    <3>6. (\A j \in CommitKeys : write[j] # NoWrite => Decided(write[j]))'
      BY <3>1, <3>3, <3>4, <3>5, FinalStays DEF Decided
    <3>7. LocksInv'
      BY <1>2, <3>1, <3>2, <3>3, <3>6 DEF LocksInv
    <3> QED
      BY <1>2, <3>1, <3>3, <3>4, <3>7 DEF LocksStep, TikvTypeOK
  <2> QED
    BY <2>1, <2>2 DEF Cluster
<1>4. AsyncReaderInv' /\ AsyncGcInv'
  BY <1>1, <1>2, <1>3, AsyncReaders, AsyncGc
<1>5. ResolverTypeOK'
  BY <1>1, <1>2 DEF ResolverTypeOK, gcVars
<1> QED
  BY <1>1, <1>3, <1>4, <1>5, AsyncTimes, AsyncOtherStep

\* A reader that begins keeps the invariant.
LEMMA AsyncStartRead ==
  ASSUME AsyncAssumption, AsyncInv, NEW i \in Readers, StartRead(i)
  PROVE  AsyncInv'
<1>1. /\ UNCHANGED <<tikvVars, clientVars, gcVars, rkey, rversion, seen>>
      /\ UNCHANGED <<regionOf, lockTable, locked, asyncLocked, minCommit, write, conflict, maxTs, msgs, status>>
      /\ rpc[i] = "idle" /\ clock < MaxTs /\ clock' = clock + 1
      /\ readTs' = [readTs EXCEPT ![i] = clock + 1] /\ rpc' = [rpc EXCEPT ![i] = "read"]
  BY DEF StartRead, tikvVars, lockTable, clientVars
<1>2. /\ TypeOK /\ TikvTypeOK /\ ResolverTypeOK /\ LocksInv /\ AsyncReaderInv /\ AsyncGcInv /\ clock \in Nat
  BY DEF AsyncInv, TypeOK, CommitterTypeOK
<1>3. LocksStep
  BY <1>1, <1>2, SameLocks DEF NeverSent, Sent
<1>4. MaxTs \in Nat /\ SafeWindow \in Nat /\ MaxTs <= SafeWindow
  BY CommitterAssumption DEF AsyncAssumption
<1>5. clock' \in Nat /\ clock <= clock' /\ clock' <= SafeWindow /\ 0 < clock' /\ clock' <= clock'
  BY <1>1, <1>2, <1>4, SMTT(20)
<1>6. \A r \in Regions : maxTs'[r] <= clock'
  <2> SUFFICES ASSUME NEW r \in Regions PROVE maxTs[r] <= clock'
    BY <1>1
  <2>1. maxTs[r] \in Nat /\ maxTs[r] <= clock
    BY AsyncTimes
  <2> QED
    BY <1>2, <1>5, <2>1, SMTT(20)
<1>7. \A j \in Readers : /\ j # i => readTs'[j] = readTs[j] /\ rpc'[j] = rpc[j]
                         /\ j = i => readTs'[j] = clock' /\ rpc'[j] = "read"
  BY <1>1, <1>2 DEF ResolverTypeOK
<1>8. \A j \in Readers : readTs'[j] <= clock'
  <2> SUFFICES ASSUME NEW j \in Readers, j # i PROVE readTs[j] <= clock'
    BY <1>5, <1>7
  <2>1. readTs[j] \in Nat /\ readTs[j] <= clock
    BY AsyncTimes
  <2> QED
    BY <1>2, <1>5, <2>1, SMTT(20)
<1>9. ResolverTypeOK'
  BY <1>1, <1>2, <1>5 DEF ResolverTypeOK, gcVars
<1>10. AsyncReaderInv'
  <2>1. \A k \in CommitKeys : seen[i][k] = "unread"
    BY <1>1, <1>2 DEF AsyncReaderInv
  <2>2. Lost => Lost'
    BY <1>3 DEF LocksStep
  <2>3. \A j \in Readers, k \in CommitKeys : j # i /\ Passed(j, k) => Passed(j, k)'
    BY <1>1, <1>7, <2>2 DEF Passed
  <2>4. \A j \in Readers, k \in CommitKeys :
          /\ seen'[j][k] = "new" => 0 < write'[k] /\ write'[k] <= readTs'[j]
          /\ seen'[j][k] = "old" => Passed(j, k)'
    <3> SUFFICES ASSUME NEW j \in Readers, NEW k \in CommitKeys
                 PROVE  /\ seen[j][k] = "new" => 0 < write[k] /\ write[k] <= readTs'[j]
                        /\ seen[j][k] = "old" => Passed(j, k)'
      BY <1>1
    <3>1. CASE j = i
      BY <2>1, <3>1
    <3>2. CASE j # i
      <4>1. seen[j][k] = "new" => 0 < write[k] /\ write[k] <= readTs[j]
        BY <1>2 DEF AsyncReaderInv
      <4>2. seen[j][k] = "old" => Passed(j, k)
        BY <1>2 DEF AsyncReaderInv
      <4> QED
        BY <1>7, <2>3, <3>2, <4>1, <4>2
    <3> QED
      BY <3>1, <3>2
  <2>5. \A j \in Readers : /\ rpc'[j] \in {"idle", "read"} /\ (rpc'[j] # "idle" => 0 < readTs'[j])
                           /\ rpc'[j] = "idle" => /\ readTs'[j] = 0
                                                  /\ \A k \in CommitKeys : seen'[j][k] = "unread"
    BY <1>1, <1>2, <1>5, <1>7 DEF AsyncReaderInv
  <2> QED
    BY <2>4, <2>5 DEF AsyncReaderInv
<1>11. AsyncGcInv'
  BY <1>1, <1>2, <1>3, AsyncGc
<1> QED
  BY <1>1, <1>3, <1>5, <1>6, <1>8, <1>9, <1>10, <1>11, AsyncTimes, AsyncOtherStep

\* What a read does to the region that serves it.
LEMMA AsyncServeRead ==
  ASSUME AsyncInv, NEW i \in Readers, NEW k \in CommitKeys, ServeRead(k, readTs[i]),
         UNCHANGED <<msgs, clock, clientVars, readTs>>
  PROVE  /\ LocksStep /\ maxTs' \in [Regions -> Nat]
         /\ \A r \in Regions : maxTs[r] <= maxTs'[r] /\ maxTs'[r] <= clock
         /\ readTs[i] <= maxTs'[regionOf[k]]
         /\ UNCHANGED <<regionOf, locked, asyncLocked, minCommit, write, conflict, status>>
<1>1. TikvTypeOK /\ LocksInv
  BY DEF AsyncInv, TypeOK
<1>2. /\ UNCHANGED <<regionOf, lockTable, conflict, status>>
      /\ UNCHANGED <<locked, asyncLocked, minCommit, write>>
  BY DEF ServeRead, lockTable, clientVars
<1>3. LocksStep
  BY <1>1, <1>2, SameLocks DEF NeverSent, Sent
<1>4. /\ regionOf[k] \in Regions /\ readTs[i] \in Nat /\ maxTs \in [Regions -> Nat] /\ clock \in Nat
      /\ maxTs[regionOf[k]] \in Nat /\ maxTs[regionOf[k]] <= clock /\ readTs[i] <= clock
  BY <1>1, KeyTypes, AsyncTimes
<1>5. PICK v : v = IF maxTs[regionOf[k]] > readTs[i] THEN maxTs[regionOf[k]] ELSE readTs[i]
  OBVIOUS
<1>6. maxTs' = [maxTs EXCEPT ![regionOf[k]] = v]
  BY <1>5 DEF ServeRead
<1>7. v \in Nat /\ maxTs[regionOf[k]] <= v /\ readTs[i] <= v /\ v <= clock
  BY <1>4, <1>5, SMTT(20)
<1>8. maxTs' \in [Regions -> Nat] /\ readTs[i] <= maxTs'[regionOf[k]]
  BY <1>4, <1>6, <1>7
<1>9. \A r \in Regions : maxTs[r] <= maxTs'[r] /\ maxTs'[r] <= clock
  <2> SUFFICES ASSUME NEW r \in Regions PROVE maxTs[r] <= maxTs'[r] /\ maxTs'[r] <= clock
    OBVIOUS
  <2>1. maxTs[r] \in Nat /\ maxTs[r] <= clock
    BY AsyncTimes
  <2>2. maxTs[r] <= maxTs[r]
    BY <2>1, SMTT(20)
  <2> QED
    BY <1>4, <1>6, <1>7, <2>1, <2>2
<1> QED
  BY <1>2, <1>3, <1>8, <1>9

\* A read keeps the invariant.
LEMMA AsyncRead ==
  ASSUME AsyncAssumption, AsyncInv, NEW i \in Readers, ReaderStep(i), UNCHANGED <<clock, clientVars>>
  PROVE  AsyncInv'
<1>1. /\ TypeOK /\ TikvTypeOK /\ ResolverTypeOK /\ LocksInv /\ AsyncReaderInv /\ AsyncGcInv /\ clock \in Nat
      /\ rpc[i] \notin {"cleanup", "resolve"}
  BY DEF AsyncInv, TypeOK, CommitterTypeOK, AsyncReaderInv
<1>2. PICK k \in CommitKeys : ReadKey(i, k) \/ ReadLocked(i, k)
  BY <1>1 DEF ReaderStep, CleanupOk, ResolveOk
<1>3. /\ rpc[i] = "read" /\ ServeRead(k, readTs[i])
      /\ UNCHANGED <<msgs, readTs, rversion, gcVars>>
      /\ rkey' \in [Readers -> CommitKeys] /\ rpc' = rpc
  <2>1. CASE ReadKey(i, k)
    BY <1>1, <2>1 DEF ReadKey, ResolverTypeOK
  <2>2. CASE ReadLocked(i, k)
    <3>1. rpc' = [rpc EXCEPT ![i] = "read"] /\ msgs' = msgs /\ rpc[i] = "read"
      BY <2>2 DEF ReadLocked, AsyncAssumption
    <3>2. rpc' = rpc
      BY <1>1, <3>1 DEF ResolverTypeOK
    <3> QED
      BY <1>1, <2>2, <3>1, <3>2 DEF ReadLocked, ResolverTypeOK
  <2> QED
    BY <1>2, <2>1, <2>2
<1>4. /\ LocksStep /\ maxTs' \in [Regions -> Nat]
      /\ \A r \in Regions : maxTs[r] <= maxTs'[r] /\ maxTs'[r] <= clock
      /\ readTs[i] <= maxTs'[regionOf[k]]
      /\ UNCHANGED <<regionOf, locked, asyncLocked, minCommit, write, conflict, status>>
  BY <1>3, AsyncServeRead
<1>5. \A j \in Readers : \A l \in CommitKeys : Passed(j, l) => Passed(j, l)'
  BY <1>1, <1>3, <1>4, PassedStays
<1>6. /\ seen' \in [Readers -> [CommitKeys -> {"unread", "old", "new"}]]
      /\ \A j \in Readers : \A l \in CommitKeys :
           \/ seen'[j][l] = seen[j][l]
           \/ j = i /\ l = k /\ ReadKey(i, k) /\ seen'[j][l] = IF write[k] > 0 /\ write[k] <= readTs[i] THEN "new" ELSE "old"
  <2>1. CASE ReadKey(i, k)
    BY <1>1, <2>1 DEF ReadKey, ResolverTypeOK
  <2>2. CASE ReadLocked(i, k)
    BY <1>1, <2>2 DEF ReadLocked, ResolverTypeOK
  <2> QED
    BY <1>2, <2>1, <2>2
<1>7. ASSUME ReadKey(i, k), ~(write[k] > 0 /\ write[k] <= readTs[i]) PROVE Passed(i, k)'
  <2>1. /\ minCommit[k] \in Nat /\ write[k] \in Nat \cup {NoWrite} /\ readTs[i] \in Nat
        /\ ~(k \in locked /\ minCommit[k] <= readTs[i])
    BY <1>1, <1>7, KeyTypes, AsyncTimes DEF ReadKey, Blocked
  <2>2. CASE k \in locked
    <3>1. readTs[i] < minCommit[k]
      BY <2>1, <2>2, SMTT(20)
    <3> QED
      BY <1>3, <1>4, <3>1 DEF Passed
  <2>3. CASE k \notin locked /\ write[k] = NoWrite
    <3>1. minCommit[k] = 0
      BY <1>1, <2>3, NeverLocked
    <3> QED
      BY <1>3, <1>4, <3>1 DEF Passed
  <2>4. CASE write[k] = Rollback
    <3>1. Lost'
      BY <1>1, <1>4, <2>4, TombstoneLost DEF LocksStep
    <3> QED
      BY <3>1 DEF Passed
  <2>5. CASE write[k] # NoWrite /\ write[k] # Rollback
    <3>1. readTs[i] < write[k]
      BY <1>7, <2>1, <2>5, SMTT(20) DEF NoWrite, Rollback
    <3> QED
      BY <1>3, <1>4, <3>1 DEF Passed
  <2> QED
    BY <2>2, <2>3, <2>4, <2>5
<1>8. ASSUME NEW j \in Readers, NEW l \in CommitKeys, seen'[j][l] = "old" PROVE Passed(j, l)'
  <2>1. CASE seen'[j][l] = seen[j][l]
    <3>1. seen[j][l] = "old"
      BY <1>8, <2>1
    <3>2. Passed(j, l)
      BY <1>1, <3>1 DEF AsyncReaderInv
    <3> QED
      BY <1>5, <3>2
  <2>2. ASSUME j = i, l = k, ReadKey(i, k), ~(write[k] > 0 /\ write[k] <= readTs[i]) PROVE Passed(j, l)'
    BY <1>7, <2>2
  <2> QED
    BY <1>6, <1>8, <2>1, <2>2
<1>9. ASSUME NEW j \in Readers, NEW l \in CommitKeys, seen'[j][l] = "new"
      PROVE  0 < write[l] /\ write[l] <= readTs[j]
  <2>1. CASE seen'[j][l] = seen[j][l]
    BY <1>1, <1>9, <2>1 DEF AsyncReaderInv
  <2>2. CASE j = i /\ l = k /\ write[k] > 0 /\ write[k] <= readTs[i]
    <3>1. write[k] \in Nat \cup {NoWrite}
      BY <1>1, KeyTypes
    <3>2. 0 < write[k]
      BY <2>2, <3>1, SMTT(20) DEF NoWrite
    <3> QED
      BY <2>2, <3>2
  <2> QED
    BY <1>6, <1>9, <2>1, <2>2
<1>10. AsyncReaderInv'
  <2>1. \A j \in Readers : rpc[j] = "idle" => j # i
    BY <1>3
  <2>2. \A j \in Readers : rpc[j] = "idle" => \A l \in CommitKeys : seen'[j][l] = "unread"
    <3>1. \A j \in Readers : rpc[j] = "idle" => \A l \in CommitKeys : seen[j][l] = "unread"
      BY <1>1 DEF AsyncReaderInv
    <3>2. ASSUME NEW j \in Readers, rpc[j] = "idle", NEW l \in CommitKeys PROVE seen'[j][l] = "unread"
      <4>1. seen'[j][l] = seen[j][l]
        BY <1>6, <2>1, <3>2
      <4> QED
        BY <3>1, <3>2, <4>1
    <3> QED
      BY <3>2
  <2> QED
    BY <1>1, <1>3, <1>4, <1>8, <1>9, <2>2 DEF AsyncReaderInv
<1>11. ResolverTypeOK' /\ AsyncGcInv'
  BY <1>1, <1>3, <1>4, <1>6, AsyncGc DEF ResolverTypeOK, gcVars
<1> QED
  BY <1>3, <1>4, <1>10, <1>11, AsyncTimes, AsyncOtherStep

----------------------------------------------------------------------------
(* Async commit: the garbage collector                                     *)

\* What remains to be shown of a step of the garbage collector in a region.
LEMMA AsyncGcStep ==
  ASSUME AsyncInv, LocksStep, NEW r \in Regions,
         UNCHANGED <<clientVars, clock, conflict, maxTs, readerVars>>,
         msgs \subseteq msgs', \A m \in msgs' \ msgs : m \in Requests /\ m.type # "prewrite" /\ Sendable(m)',
         ResolverTypeOK', (resolved # NotCached => Decided(resolved))', GcGood(r)',
         \A s \in Regions \ {r} : /\ gpc'[s] = gpc[s] /\ gcTs'[s] = gcTs[s]
                                  /\ gcChecked'[s] = gcChecked[s] /\ gcMissing'[s] = gcMissing[s]
                                  /\ gcPlain'[s] = gcPlain[s]
  PROVE  AsyncInv'
<1>1. TypeOK /\ AsyncReaderInv /\ AsyncGcInv /\ readTs' = readTs
  BY DEF AsyncInv, readerVars
<1>2. \A s \in Regions : GcGood(s)'
  <2> SUFFICES ASSUME NEW s \in Regions, s # r PROVE GcGood(s)'
    OBVIOUS
  <2>1. GcGood(s)
    BY <1>1 DEF AsyncGcInv
  <2> QED
    BY <1>1, <2>1, GcGoodStays
<1>3. AsyncGcInv' /\ AsyncReaderInv'
  BY <1>1, <1>2, AsyncReaders DEF AsyncGcInv
<1>4. msgs' \subseteq Requests
  BY AsyncTimes
<1> QED
  BY <1>1, <1>3, <1>4, AsyncTimes, AsyncOtherStep

\* The scan of a region keeps the invariant.
LEMMA AsyncGcScan ==
  ASSUME AsyncInv, NEW r \in Regions, GcScan(r), UNCHANGED <<clock, clientVars>>
  PROVE  AsyncInv'
<1>1. /\ TypeOK /\ TikvTypeOK /\ ResolverTypeOK /\ LocksInv /\ AsyncGcInv
  BY DEF AsyncInv, TypeOK
<1>2. /\ UNCHANGED <<regionOf, lockTable, conflict, maxTs, readerVars, resolved, gcTs, status>>
      /\ gpc' = [gpc EXCEPT ![r] = "status"]
      /\ gcChecked' = [gcChecked EXCEPT ![r] = {}]
      /\ gcMissing' = [gcMissing EXCEPT ![r] = {}]
      /\ gcPlain' = [gcPlain EXCEPT ![r] = FALSE]
      /\ msgs' = msgs \cup {Request("status", {Primary}, 0, "")}
  BY DEF GcScan, clientVars
<1>3. \A m \in msgs' \ msgs : m \in Requests /\ m.type = "status"
  <2>1. 0 \in Nat
    BY SMTT(20)
  <2>2. {Primary} \in SUBSET Keys
    BY DEF CommitKeys
  <2>3. /\ Request("status", {Primary}, 0, "") \in Requests
        /\ Request("status", {Primary}, 0, "").type = "status"
    BY <2>1, <2>2 DEF Request, Requests
  <2> QED
    BY <1>2, <2>3
<1>4. UNCHANGED Sent("prewrite")
  BY <1>2, <1>3 DEF Sent
<1>5. LocksStep
  BY <1>1, <1>2, <1>4, SameLocks DEF NeverSent
<1>6. ResolverTypeOK'
  BY <1>1, <1>2 DEF ResolverTypeOK, readerVars
<1>7. gpc'[r] = "status" /\ gcChecked'[r] = {} /\ gcMissing'[r] = {} /\ gcPlain'[r] = FALSE
  BY <1>1, <1>2 DEF ResolverTypeOK
<1>8. \A s \in Regions \ {r} : /\ gpc'[s] = gpc[s] /\ gcTs'[s] = gcTs[s]
                               /\ gcChecked'[s] = gcChecked[s] /\ gcMissing'[s] = gcMissing[s]
                               /\ gcPlain'[s] = gcPlain[s]
  BY <1>1, <1>2 DEF ResolverTypeOK
<1>9. GcGood(r)'
  BY <1>7 DEF GcGood
<1>10. (resolved # NotCached => Decided(resolved))'
  BY <1>1, <1>2, <1>5, CacheStays
<1>11. \A m \in msgs' \ msgs : m.type # "prewrite" /\ Sendable(m)'
  BY <1>3 DEF Sendable
<1> QED
  BY <1>2, <1>3, <1>5, <1>6, <1>8, <1>9, <1>10, <1>11, AsyncGcStep

\* A status from the cache keeps the invariant.
LEMMA AsyncGcCached ==
  ASSUME AsyncInv, NEW r \in Regions, GcCached(r), UNCHANGED <<clock, clientVars>>
  PROVE  AsyncInv'
<1>1. /\ TypeOK /\ TikvTypeOK /\ ResolverTypeOK /\ LocksInv /\ AsyncGcInv /\ GcGood(r)
  BY DEF AsyncInv, TypeOK, AsyncGcInv
<1>2. resolved # NotCached /\ Decided(resolved)
  BY <1>1 DEF GcCached, AsyncGcInv
<1>3. resolved \in Nat /\ resolved # CachedLocked
  <2>1. IsFinal(resolved) => resolved \in Nat
    BY <1>1, FinalWins
  <2>2. 0 \in Nat /\ CachedLocked \notin Nat
    BY SMTT(20) DEF CachedLocked
  <2> QED
    BY <1>2, <2>1, <2>2 DEF Decided
<1>4. /\ UNCHANGED <<tikvVars, readerVars, resolved, gcChecked, gcMissing, gcPlain>>
      /\ UNCHANGED <<regionOf, lockTable, conflict, maxTs, msgs, status>>
      /\ gpc' = [gpc EXCEPT ![r] = "resolve"] /\ gcTs' = [gcTs EXCEPT ![r] = resolved]
  BY <1>3 DEF GcCached, tikvVars, clientVars
<1>5. LocksStep
  BY <1>1, <1>4, SameLocks DEF NeverSent, Sent
<1>6. ResolverTypeOK'
  BY <1>1, <1>3, <1>4 DEF ResolverTypeOK, readerVars
<1>7. PICK v : v = resolved
  OBVIOUS
<1>8. gpc'[r] = "resolve" /\ gcTs'[r] = v /\ gcPlain'[r] = FALSE /\ Decided(v)'
  BY <1>1, <1>2, <1>4, <1>5, <1>7, DecidedStays DEF ResolverTypeOK, GcGood
<1>9. Decided(gcTs[r])'
  BY <1>8 DEF Decided, IsFinal
<1>10. GcGood(r)'
  BY <1>8, <1>9 DEF GcGood
<1>11. \A s \in Regions \ {r} : /\ gpc'[s] = gpc[s] /\ gcTs'[s] = gcTs[s]
                                /\ gcChecked'[s] = gcChecked[s] /\ gcMissing'[s] = gcMissing[s]
                                /\ gcPlain'[s] = gcPlain[s]
  BY <1>1, <1>4 DEF ResolverTypeOK
<1>12. (resolved # NotCached => Decided(resolved))'
  BY <1>1, <1>4, <1>5, CacheStays
<1> QED
  BY <1>4, <1>5, <1>6, <1>10, <1>11, <1>12, AsyncGcStep

\* The answer to CheckTxnStatus keeps the invariant.
LEMMA AsyncGcStatus ==
  ASSUME AsyncAssumption, AsyncInv, NEW r \in Regions, GcStatus(r), UNCHANGED <<clock, clientVars>>
  PROVE  AsyncInv'
<1>1. /\ TypeOK /\ TikvTypeOK /\ ResolverTypeOK /\ LocksInv /\ AsyncGcInv /\ GcGood(r)
  BY DEF AsyncInv, TypeOK, AsyncGcInv
<1>2. /\ gpc[r] = "status" /\ gcChecked[r] = {} /\ gcMissing[r] = {} /\ gcPlain[r] = FALSE
      /\ resolved = NotCached
  BY <1>1 DEF GcStatus, GcGood
<1>3. /\ UNCHANGED <<msgs, readerVars, gcChecked, gcMissing, gcPlain, status>> /\ UNCHANGED Sent("prewrite")
  BY DEF GcStatus, clientVars, Sent
<1>4. UNCHANGED <<conflict, maxTs>>
  BY DEF GcStatus, RollbackPrimary, Settle
<1>5. CASE Primary \in asyncLocked
  <2>1. /\ UNCHANGED <<regionOf, lockTable, conflict, maxTs, resolved>>
        /\ UNCHANGED <<locked, asyncLocked, minCommit, write>>
        /\ gpc' = [gpc EXCEPT ![r] = "secondaries"]
        /\ gcTs' = [gcTs EXCEPT ![r] = minCommit[Primary]]
    BY <1>2, <1>5 DEF GcStatus, AsyncAssumption, lockTable
  <2>2. LocksStep
    BY <1>1, <1>3, <2>1, SameLocks DEF NeverSent
  <2>3. Primary \in CommitKeys /\ minCommit[Primary] \in Nat /\ 0 < minCommit[Primary]
    BY <1>1, <1>5, KeyTypes DEF LocksInv
  <2>4. ResolverTypeOK'
    BY <1>1, <1>3, <2>1, <2>3 DEF ResolverTypeOK, readerVars
  <2>5. /\ gpc'[r] = "secondaries" /\ gcTs'[r] = minCommit'[Primary] /\ gcChecked'[r] = {}
        /\ gcMissing'[r] = {} /\ gcPlain'[r] = FALSE
    BY <1>1, <1>2, <1>3, <2>1 DEF ResolverTypeOK
  <2>6. minCommit'[Primary] <= minCommit'[Primary] /\ 0 < minCommit'[Primary]
    BY <2>1, <2>3, SMTT(20)
  <2>7. GcGood(r)'
    BY <2>3, <2>5, <2>6 DEF GcGood
  <2>8. \A s \in Regions \ {r} : /\ gpc'[s] = gpc[s] /\ gcTs'[s] = gcTs[s]
                                 /\ gcChecked'[s] = gcChecked[s] /\ gcMissing'[s] = gcMissing[s]
                                 /\ gcPlain'[s] = gcPlain[s]
    BY <1>1, <1>3, <2>1 DEF ResolverTypeOK
  <2>9. (resolved # NotCached => Decided(resolved))'
    BY <1>1, <2>1, <2>2, CacheStays
  <2> QED
    BY <1>3, <2>1, <2>2, <2>4, <2>7, <2>8, <2>9, AsyncGcStep
<1>6. CASE Primary \notin asyncLocked
  <2>1. /\ RollbackPrimary /\ resolved' = CommitVersion
        /\ gpc' = [gpc EXCEPT ![r] = "resolve"]
        /\ gcTs' = [gcTs EXCEPT ![r] = CommitVersion]
    BY <1>6 DEF GcStatus
  <2>2. PICK v \in Nat : v = CommitVersion /\ Decided(v)' /\ LocksStep
    BY <1>1, <1>3, <1>6, <2>1, StatusLocks
  <2>3. ResolverTypeOK'
    BY <1>1, <1>3, <2>1, <2>2 DEF ResolverTypeOK, readerVars
  <2>4. gpc'[r] = "resolve" /\ gcTs'[r] = v /\ gcPlain'[r] = FALSE /\ resolved' = v
    BY <1>1, <1>2, <1>3, <2>1, <2>2 DEF ResolverTypeOK
  <2>5. Decided(gcTs[r])' /\ Decided(resolved)'
    BY <2>2, <2>4 DEF Decided, IsFinal
  <2>6. GcGood(r)'
    BY <2>4, <2>5 DEF GcGood
  <2>7. \A s \in Regions \ {r} : /\ gpc'[s] = gpc[s] /\ gcTs'[s] = gcTs[s]
                                 /\ gcChecked'[s] = gcChecked[s] /\ gcMissing'[s] = gcMissing[s]
                                 /\ gcPlain'[s] = gcPlain[s]
    BY <1>1, <1>3, <2>1 DEF ResolverTypeOK
  <2> QED
    BY <1>3, <1>4, <2>2, <2>3, <2>5, <2>6, <2>7, AsyncGcStep
<1> QED
  BY <1>5, <1>6

\* A lock resolved in a region keeps the invariant.
LEMMA AsyncGcResolve ==
  ASSUME AsyncInv, NEW r \in Regions, GcResolve(r), UNCHANGED <<clock, clientVars>>
  PROVE  AsyncInv'
<1>1. /\ TypeOK /\ TikvTypeOK /\ ResolverTypeOK /\ LocksInv /\ AsyncGcInv /\ GcGood(r)
  BY DEF AsyncInv, TypeOK, AsyncGcInv
<1>2. PICK v \in Nat : v = gcTs[r]
  BY <1>1 DEF ResolverTypeOK
<1>3. gpc[r] = "resolve" /\ Decided(v)
  BY <1>1, <1>2 DEF GcResolve, GcGood
<1>4. /\ ResolveLock(CommitShard(r), v) /\ gpc' = [gpc EXCEPT ![r] = "done"]
      /\ msgs' = msgs \cup {Request("resolve", CommitShard(r), v, "")}
      /\ UNCHANGED <<readerVars, resolved, gcTs, gcChecked, gcMissing, gcPlain, status>>
  BY <1>2 DEF GcResolve, clientVars
<1>5. UNCHANGED <<conflict, maxTs>>
  BY <1>4 DEF ResolveLock, Settle
<1>6. \A m \in msgs' \ msgs : m \in Requests /\ m.type = "resolve" /\ m.ts = v
  <2>1. CommitShard(r) \in SUBSET Keys
    BY DEF CommitShard, CommitKeys
  <2>2. /\ Request("resolve", CommitShard(r), v, "") \in Requests
        /\ Request("resolve", CommitShard(r), v, "").type = "resolve"
        /\ Request("resolve", CommitShard(r), v, "").ts = v
    BY <2>1 DEF Request, Requests
  <2> QED
    BY <1>4, <2>2
<1>7. UNCHANGED Sent("prewrite")
  BY <1>4, <1>6 DEF Sent
<1>8. LocksStep
  BY <1>1, <1>3, <1>4, <1>7, ResolveLocks
<1>9. Decided(v)'
  BY <1>3, <1>8, DecidedStays
<1>10. \A m \in msgs' \ msgs : m.type # "prewrite" /\ Sendable(m)'
  <2> SUFFICES ASSUME NEW m \in msgs' \ msgs PROVE m.type # "prewrite" /\ Sendable(m)'
    OBVIOUS
  <2>1. m.type = "resolve" /\ m.ts = v
    BY <1>6
  <2>2. Decided(m.ts)'
    BY <1>9, <2>1
  <2> QED
    BY <2>1, <2>2 DEF Sendable
<1>11. ResolverTypeOK'
  BY <1>1, <1>4 DEF ResolverTypeOK, readerVars
<1>12. gpc'[r] = "done" /\ gcPlain'[r] = FALSE
  BY <1>1, <1>4 DEF ResolverTypeOK, GcGood
<1>13. GcGood(r)'
  BY <1>12 DEF GcGood
<1>14. \A s \in Regions \ {r} : /\ gpc'[s] = gpc[s] /\ gcTs'[s] = gcTs[s]
                                /\ gcChecked'[s] = gcChecked[s] /\ gcMissing'[s] = gcMissing[s]
                                /\ gcPlain'[s] = gcPlain[s]
  BY <1>1, <1>4 DEF ResolverTypeOK
<1>15. (resolved # NotCached => Decided(resolved))'
  BY <1>1, <1>4, <1>8, CacheStays
<1> QED
  BY <1>4, <1>5, <1>6, <1>8, <1>10, <1>11, <1>13, <1>14, <1>15, AsyncGcStep

----------------------------------------------------------------------------
\* The commit_ts of a response with missing locks is decided.
LEMMA MissingDecided ==
  ASSUME TikvTypeOK, LocksInv, LocksStep, NEW ks \in SUBSET CommitKeys,
         NEW j \in ks, j \notin locked, write[j] = NoWrite => Lost',
         NEW t, t = Max({0} \cup {write[k] : k \in ks})
  PROVE  t \in Nat /\ Decided(t)'
<1> DEFINE S == {0} \cup {write[k] : k \in ks}
<1>1. \A k \in ks : write[k] \in Nat \cup {NoWrite}
  BY KeyTypes
<1>2. S \subseteq Int
  BY <1>1, SMTT(20) DEF NoWrite
<1>3. t = Max(S) /\ 0 \in S /\ \A k \in ks : write[k] \in S
  OBVIOUS
<1>4. \A x \in S : x = 0 \/ \E k \in ks : x = write[k]
  OBVIOUS
<1> HIDE DEF S
<1>5. \A k \in ks : write[k] # NoWrite => Decided(write[k])
  BY DEF LocksInv
<1>6. 0 \in Nat
  BY SMTT(20)
<1>7. ASSUME NEW k \in ks, IsFinal(write[k]) PROVE t \in Nat /\ Decided(t)'
  <2>1. write[k] \in Nat /\ 0 < write[k] /\ ~Lost
    BY <1>7, FinalWins
  <2>2. \A y \in S : y = 0 \/ y = NoWrite \/ y = write[k]
    BY <1>4, <1>5, <1>7, FinalUnique DEF Decided
  <2>3. \A y \in S : y <= write[k]
    BY <2>1, <2>2, SMTT(20) DEF NoWrite
  <2>4. t = write[k]
    BY <1>2, <1>3, <2>3, MaxIs
  <2>5. Decided(t)
    BY <1>7, <2>4 DEF Decided
  <2> QED
    BY <2>1, <2>4, <2>5, DecidedStays
<1>8. ASSUME \A k \in ks : ~IsFinal(write[k]) PROVE t \in Nat /\ Decided(t)'
  <2>1. \A y \in S : y = 0 \/ y = NoWrite
    BY <1>4, <1>5, <1>8 DEF Decided
  <2>2. \A y \in S : y <= 0
    BY <2>1, SMTT(20) DEF NoWrite
  <2>3. t = 0
    BY <1>2, <1>3, <2>2, MaxIs
  <2>4. Lost'
    <3>1. write[j] # NoWrite => Lost
      BY <1>5, <1>8 DEF Decided
    <3> QED
      BY <3>1 DEF LocksStep
  <2> QED
    BY <1>6, <2>3, <2>4 DEF Decided
<1> QED
  BY <1>7, <1>8

\* The answer to CheckSecondaryLocks keeps the invariant.
LEMMA AsyncGcSecondary ==
  ASSUME AsyncInv, NEW r \in Regions, NEW s \in CommitRegions, GcSecondary(r, s),
         UNCHANGED <<clock, clientVars>>
  PROVE  AsyncInv'
<1>1. /\ TypeOK /\ TikvTypeOK /\ ResolverTypeOK /\ LocksInv /\ ClockInv /\ AsyncGcInv /\ GcGood(r)
      /\ clock \in Nat
  BY DEF AsyncInv, TypeOK, AsyncGcInv, CommitterTypeOK
<1>2. PICK ks : ks = Secondaries(s)
  OBVIOUS
<1>3. /\ gpc[r] = "secondaries" /\ CheckSecondaryLocks(ks)
      /\ msgs' = msgs \cup SecondaryRequests
      /\ gcChecked' = [gcChecked EXCEPT ![r] = @ \cup {s}]
      /\ UNCHANGED <<gpc, readerVars, resolved, status>>
      /\ IF ks \subseteq locked
         THEN /\ gcPlain' = [gcPlain EXCEPT ![r] = @ \/ ~(ks \subseteq asyncLocked)]
              /\ gcTs' = [gcTs EXCEPT ![r] = Max({@} \cup {minCommit[k] : k \in ks})]
              /\ UNCHANGED gcMissing
         ELSE /\ gcMissing' = [gcMissing EXCEPT ![r] = @ \cup {Max({0} \cup {write[k] : k \in ks})}]
              /\ UNCHANGED <<gcPlain, gcTs>>
  BY <1>2 DEF GcSecondary, clientVars
<1>4. UNCHANGED <<conflict, maxTs, minCommit>>
  BY <1>3 DEF CheckSecondaryLocks, Settle
<1>5. ks \in SUBSET CommitKeys /\ s \in Regions
  BY <1>1, <1>2, ShardFacts DEF Secondaries, CommitShard
<1>6. \A m \in msgs' \ msgs : m \in Requests /\ m.type = "secondaries"
  <2>1. 0 \in Nat
    BY SMTT(20)
  <2>2. \A x : Secondaries(x) \in SUBSET Keys
    BY DEF Secondaries, CommitShard, CommitKeys
  <2>3. \A x : /\ Request("secondaries", Secondaries(x), 0, "") \in Requests
               /\ Request("secondaries", Secondaries(x), 0, "").type = "secondaries"
    BY <2>1, <2>2 DEF Request, Requests
  <2> QED
    BY <1>3, <2>3 DEF SecondaryRequests
<1>7. UNCHANGED Sent("prewrite")
  BY <1>3, <1>6 DEF Sent
<1>8. LocksStep /\ ((\E k \in ks : k \notin locked /\ write[k] = NoWrite) => Lost')
  BY <1>1, <1>3, <1>5, <1>7, SecondaryLocks
<1>9. \A m \in msgs' \ msgs : m.type # "prewrite" /\ Sendable(m)'
  BY <1>6 DEF Sendable
<1>10. (resolved # NotCached => Decided(resolved))'
  BY <1>1, <1>3, <1>8, CacheStays
<1>11. /\ 0 < minCommit[Primary] /\ minCommit[Primary] <= gcTs[r]
       /\ \E k \in CommitKeys : minCommit[k] = gcTs[r]
       /\ \A ts \in gcMissing[r] : Decided(ts)
       /\ gcMissing[r] = {} => \A x \in gcChecked[r] : \A k \in Secondaries(x) :
                                 0 < minCommit[k] /\ minCommit[k] <= gcTs[r]
       /\ gcPlain[r] = FALSE /\ gcTs[r] \in Nat
  BY <1>1, <1>3 DEF GcGood, ResolverTypeOK
<1>12. gpc'[r] = "secondaries" /\ gcChecked'[r] = gcChecked[r] \cup {s} /\ gcChecked' \in [Regions -> SUBSET Regions]
  BY <1>1, <1>3, <1>5 DEF ResolverTypeOK
<1>13. \A x : Secondaries(x)' = Secondaries(x)
  BY <1>8, ShardsStay DEF LocksStep
<1>14. \A k \in CommitKeys : minCommit[k] \in Nat /\ minCommit[k] <= clock + 1
  BY <1>1, KeyTypes DEF ClockInv
<1>15. CASE ks \subseteq locked
  <2> DEFINE S == {gcTs[r]} \cup {minCommit[k] : k \in ks}
  <2>1. S \subseteq Nat /\ S # {} /\ gcTs[r] \in S /\ \A k \in ks : minCommit[k] \in S
    BY <1>5, <1>11, <1>14
  <2>2. \A x \in S : x <= clock + 1
    BY <1>5, <1>11, <1>14
  <2>3. \A x \in S : \E k \in CommitKeys : minCommit[k] = x
    BY <1>5, <1>11
  <2>4. gcTs' = [gcTs EXCEPT ![r] = Max(S)]
    BY <1>3, <1>15
  <2> HIDE DEF S
  <2>5. clock + 1 \in Nat
    BY <1>1, Successor
  <2>6. PICK M : M = Max(S)
    OBVIOUS
  <2>7. M \in S /\ \A y \in S : y <= M
    BY <2>1, <2>2, <2>5, <2>6, Largest
  <2>8. M \in Nat /\ gcTs[r] <= M /\ (\A k \in ks : minCommit[k] <= M) /\ \E k \in CommitKeys : minCommit[k] = M
    BY <2>1, <2>3, <2>7
  <2>9. /\ gcTs'[r] = M /\ gcPlain'[r] = FALSE /\ gcMissing' = gcMissing
        /\ gcTs' \in [Regions -> Nat] /\ gcPlain' \in [Regions -> BOOLEAN]
    <3>1. ks \subseteq asyncLocked
      BY <1>1, <1>15 DEF LocksInv
    <3>2. gcPlain' = [gcPlain EXCEPT ![r] = FALSE]
      BY <1>3, <1>11, <1>15, <3>1
    <3> QED
      BY <1>1, <1>3, <1>15, <2>4, <2>6, <2>8, <3>2 DEF ResolverTypeOK
  <2>10. \A k \in CommitKeys : minCommit[k] <= gcTs[r] => minCommit[k] <= M
    BY <1>11, <1>14, <2>8, SMTT(20)
  <2>11. Primary \in CommitKeys /\ \A x : Secondaries(x) \subseteq CommitKeys
    BY DEF Secondaries, CommitShard
  <2>12. gcMissing[r] = {} => \A x \in gcChecked'[r] : \A k \in Secondaries(x) :
                                 0 < minCommit[k] /\ minCommit[k] <= M
    <3> SUFFICES ASSUME gcMissing[r] = {}, NEW x \in gcChecked'[r], NEW k \in Secondaries(x)
                 PROVE  0 < minCommit[k] /\ minCommit[k] <= M
      OBVIOUS
    <3>1. CASE x = s
      BY <1>1, <1>2, <1>15, <2>8, <3>1 DEF LocksInv
    <3>2. CASE x \in gcChecked[r]
      BY <1>11, <2>10, <2>11, <3>2
    <3> QED
      BY <1>12, <3>1, <3>2
  <2>13. \A ts \in gcMissing[r] : Decided(ts)'
    BY <1>8, <1>11, DecidedStays
  <2>14. GcGood(r)'
    BY <1>4, <1>11, <1>12, <1>13, <2>8, <2>9, <2>10, <2>11, <2>12, <2>13 DEF GcGood
  <2>15. ResolverTypeOK'
    BY <1>1, <1>3, <1>12, <2>9 DEF ResolverTypeOK, readerVars
  <2>16. \A x \in Regions \ {r} : /\ gpc'[x] = gpc[x] /\ gcTs'[x] = gcTs[x]
                                  /\ gcChecked'[x] = gcChecked[x] /\ gcMissing'[x] = gcMissing[x]
                                  /\ gcPlain'[x] = gcPlain[x]
    BY <1>1, <1>3, <1>15 DEF ResolverTypeOK
  <2> QED
    BY <1>3, <1>4, <1>6, <1>8, <1>9, <1>10, <2>14, <2>15, <2>16, AsyncGcStep
<1>16. CASE ~(ks \subseteq locked)
  <2>1. PICK t : t = Max({0} \cup {write[k] : k \in ks})
    OBVIOUS
  <2>2. PICK j \in ks : j \notin locked
    BY <1>16
  <2>3. t \in Nat /\ Decided(t)'
    BY <1>1, <1>5, <1>8, <2>1, <2>2, MissingDecided
  <2>4. gcMissing' = [gcMissing EXCEPT ![r] = @ \cup {t}] /\ UNCHANGED <<gcPlain, gcTs>>
    BY <1>3, <1>16, <2>1
  <2>5. gcMissing'[r] = gcMissing[r] \cup {t} /\ gcMissing' \in [Regions -> SUBSET Nat]
    BY <1>1, <2>3, <2>4 DEF ResolverTypeOK
  <2>6. \A ts \in gcMissing'[r] : Decided(ts)'
    BY <1>8, <1>11, <2>3, <2>5, DecidedStays
  <2>7. GcGood(r)'
    BY <1>4, <1>11, <1>12, <2>4, <2>5, <2>6 DEF GcGood
  <2>8. ResolverTypeOK'
    BY <1>1, <1>3, <1>12, <2>4, <2>5 DEF ResolverTypeOK, readerVars
  <2>9. \A x \in Regions \ {r} : /\ gpc'[x] = gpc[x] /\ gcTs'[x] = gcTs[x]
                                 /\ gcChecked'[x] = gcChecked[x] /\ gcMissing'[x] = gcMissing[x]
                                 /\ gcPlain'[x] = gcPlain[x]
    BY <1>1, <1>3, <2>4 DEF ResolverTypeOK
  <2> QED
    BY <1>3, <1>4, <1>6, <1>8, <1>9, <1>10, <2>7, <2>8, <2>9, AsyncGcStep
<1> QED
  BY <1>15, <1>16
============================================================================
