-------------------------- MODULE TwoPhaseProofs ---------------------------
(***************************************************************************)
(* The safety properties of TxnSystem for plain two-phase commit, proved   *)
(* for every set of keys, regions and readers and every bound; and that    *)
(* the invariant of one-phase commit is inductive, where a single request  *)
(* commits every key or none.                                              *)
(*                                                                         *)
(* The argument for plain locks: the primary key decides.  A commit        *)
(* timestamp is taken only when every key has been prewritten, and a retry *)
(* of commit() takes another one only when no Commit was sent before or    *)
(* the primary is already rolled back.  So there is at most one commit     *)
(* timestamp that can ever take effect, every other request either follows *)
(* the primary's record or comes from a rollback() after which no Commit   *)
(* can succeed, and a reader that was served before the commit timestamp   *)
(* was taken has a smaller timestamp.                                      *)
(*                                                                         *)
(* StoreStep says what any step does to the locks and records.  Each       *)
(* action is first shown to be a StoreStep; the frame lemmas then give     *)
(* every part of the invariant the action does not touch.                  *)
(***************************************************************************)
EXTENDS TxnInvariants, TLAPS

\* What any step does to the locks and records.
StoreStep ==
  /\ regionOf' = regionOf
  /\ locked' \subseteq CommitKeys /\ asyncLocked' = {}
  /\ minCommit' \in [Keys -> Nat] /\ write' \in [Keys -> Nat \cup {NoWrite}]
  /\ \A k \in locked' : write'[k] = NoWrite /\ minCommit'[k] = StartTs + 1
  /\ \A k \in CommitKeys : write'[k] > 0 => write'[k] = write'[Primary]
  /\ \A k \in CommitKeys :
       write'[k] = Rollback => write'[Primary] = Rollback \/ Sent("rollback") # {}
  /\ write'[Primary] > 0 => \E m \in Sent("commit") : m.ts = write'[Primary]
  /\ \A k \in CommitKeys : write[k] # NoWrite => write'[k] = write[k]
  /\ \A k \in CommitKeys : Secured(k) => Secured(k)'

\* Zenon proves a leaf, and the SMT solver one that cites SMTT: arithmetic
\* and sequences.
USE TikvAssumption, ZenonT(30)

\* A step that leaves the lock table alone is a store step.
LEMMA SameStore ==
  ASSUME TikvTypeOK, StoreInv, asyncLocked = {}, UNCHANGED <<regionOf, lockTable>>
  PROVE  StoreStep
BY DEF TikvTypeOK, StoreInv, StoreStep, lockTable, Secured, Sent, Dead, CommitKeys, NoWrite

\* A two-phase Prewrite request is a store step; it secures its keys, and it
\* is refused on a rolled back primary.
LEMMA PrewriteStore ==
  ASSUME TikvTypeOK, StoreInv, asyncLocked = {}, NEW ks \in SUBSET Keys, Prewrite(ks, "2pc")
  PROVE  /\ StoreStep
         /\ \A k \in ks \cap CommitKeys : Secured(k)'
         /\ Primary \in ks => ~Dead
BY SMTT(20) DEF TikvTypeOK, StoreInv, StoreStep, lockTable, Secured, Sent, Dead, CommitKeys, NoWrite,
       Prewrite, MayPrewrite, StartTs, Rollback

\* Settling locks is a store step if the primary is settled alone, by a commit
\* that was sent, and every other key follows the primary or a sent rollback.
LEMMA SettleStore ==
  ASSUME TikvTypeOK, StoreInv, asyncLocked = {},
         NEW ks \in SUBSET CommitKeys, NEW ts \in Nat, Settle(ks, ts),
         \A k \in ks : write[k] = NoWrite \/ (write[k] = Rollback /\ ts = Rollback),
         Primary \notin ks => (write[Primary] = ts \/ (ts = Rollback /\ Sent("rollback") # {})),
         Primary \in ks => \/ ts = Rollback 
                           \/ ks = {Primary} /\ \E m \in Sent("commit") : m.ts = ts
  PROVE  StoreStep
BY SMTT(20) DEF TikvTypeOK, StoreInv, StoreStep, lockTable, Secured, Sent, Dead, CommitKeys, NoWrite,
       Settle, StartTs, Rollback

\* A Commit request that was sent is a store step.
LEMMA CommitStore ==
  ASSUME TikvTypeOK, StoreInv, MsgInv, asyncLocked = {},
         NEW m \in Sent("commit"), Commit(m.keys, m.ts)
  PROVE  StoreStep
<1>1. m \in Requests
  BY DEF TikvTypeOK, Sent
<1>2. m.keys \in SUBSET Keys /\ m.ts \in Nat
  BY <1>1 DEF Requests
<1>3. Settle(m.keys \cap locked, m.ts) /\ m.keys \cap locked \subseteq CommitKeys
  BY DEF Commit, TikvTypeOK
<1>4. \A k \in m.keys \cap locked : write[k] = NoWrite
  BY DEF StoreInv
<1>5. m.keys = {Primary} \/ (Primary \notin m.keys /\ write[Primary] = m.ts)
  BY DEF MsgInv
<1>6. CASE m.keys = {Primary} /\ Primary \notin locked
  <2>1. m.keys \cap locked = {}
    BY <1>6
  <2> QED
    BY <2>1, <1>3, SameStore DEF Settle, TikvTypeOK, lockTable
<1>7. CASE m.keys = {Primary} /\ Primary \in locked
  <2>1. m.keys \cap locked = {Primary}
    BY <1>7
  <2> QED
    BY <2>1, <1>2, <1>3, <1>4, SettleStore
<1>8. CASE Primary \notin m.keys /\ write[Primary] = m.ts
  BY <1>8, <1>2, <1>3, <1>4, SettleStore
<1> QED
  BY <1>5, <1>6, <1>7, <1>8

\* BatchRollback is a store step once a rollback has been sent.
LEMMA RollbackStore ==
  ASSUME TikvTypeOK, StoreInv, asyncLocked = {},
         NEW ks \in SUBSET CommitKeys, Sent("rollback") # {}, BatchRollback(ks)
  PROVE  StoreStep
BY SettleStore, SMTT(20) DEF BatchRollback, MayRollback, TikvTypeOK, Rollback, CommitKeys, NoWrite

\* Cleanup and CheckTxnStatus are store steps, and the version they answer is
\* what the primary has afterwards.
LEMMA RollbackPrimaryStore ==
  ASSUME TikvTypeOK, StoreInv, asyncLocked = {}, RollbackPrimary
  PROVE  StoreStep /\ write'[Primary] = CommitVersion
<1>1. write[Primary] \in Nat \cup {NoWrite} /\ Primary \in CommitKeys
  BY DEF TikvTypeOK, CommitKeys
<1>2. CASE write[Primary] = NoWrite
  <2>1. Settle({Primary}, Rollback)
    <3>1. {k \in {Primary} : write[k] = NoWrite} = {Primary}
      BY <1>2
    <3> QED
      BY <3>1 DEF RollbackPrimary
  <2>2. StoreStep
    BY <1>1, <1>2, <2>1, SettleStore, SMTT(20) DEF Rollback
  <2> QED
    BY <1>1, <1>2, <2>1, <2>2, SMTT(20) DEF Settle, CommitVersion, Rollback, NoWrite, CommitKeys
<1>3. CASE write[Primary] # NoWrite
  <2>1. Settle({}, Rollback)
    <3>1. {k \in {Primary} : write[k] = NoWrite} = {}
      BY <1>3
    <3> QED
      BY <3>1 DEF RollbackPrimary
  <2>2. UNCHANGED <<regionOf, lockTable>>
    BY <2>1 DEF Settle, lockTable, TikvTypeOK
  <2> QED
    BY <1>1, <1>3, <2>2, SameStore, SMTT(20) DEF lockTable, CommitVersion, NoWrite
<1> QED
  BY <1>2, <1>3

\* ResolveLock with the primary's version is a store step.
LEMMA ResolveStore ==
  ASSUME TikvTypeOK, StoreInv, asyncLocked = {},
         NEW ks, NEW ts \in Nat, write[Primary] = ts, ResolveLock(ks, ts)
  PROVE  StoreStep
<1>1. Settle(ks \cap locked, ts) /\ ks \cap locked \subseteq CommitKeys
  BY DEF ResolveLock, TikvTypeOK
<1>2. \A k \in ks \cap locked : write[k] = NoWrite
  BY DEF StoreInv
<1>3. Primary \notin ks \cap locked
  BY <1>2, SMTT(20) DEF NoWrite
<1> QED
  BY <1>1, <1>2, <1>3, SettleStore

\* Whatever request of the network is executed, late or again, the step is a
\* store step.
LEMMA ExecuteStore ==
  ASSUME TikvTypeOK, StoreInv, MsgInv, ModeInv, NEW m \in msgs, Execute(m)
  PROVE  StoreStep
<1>1. m \in Requests /\ asyncLocked = {}
  BY DEF TikvTypeOK, ModeInv
<1>2. m.keys \in SUBSET Keys /\ m.ts \in Nat
  BY <1>1 DEF Requests
<1>3. CASE m.type = "prewrite" /\ Prewrite(m.keys, m.mode)
  BY <1>1, <1>2, <1>3, PrewriteStore DEF ModeInv, Sent
<1>4. CASE m.type = "commit" /\ Commit(m.keys, m.ts)
  BY <1>1, <1>4, CommitStore DEF Sent
<1>5. CASE m.type = "rollback" /\ BatchRollback(m.keys)
  <2>1. m.keys \in SUBSET CommitKeys /\ Sent("rollback") # {}
    BY <1>5 DEF MsgInv, Sent
  <2> QED
    BY <1>1, <1>5, <2>1, RollbackStore
<1>6. CASE m.type \in {"cleanup", "status"} /\ RollbackPrimary
  BY <1>1, <1>6, RollbackPrimaryStore
<1>7. CASE m.type = "resolve" /\ ResolveLock(m.keys, m.ts)
  <2>1. write[Primary] = m.ts
    BY <1>7 DEF MsgInv, Sent
  <2> QED
    BY <1>1, <1>2, <1>7, <2>1, ResolveStore
<1>8. m.type # "secondaries"
  BY DEF ModeInv, Sent
<1> QED
  BY <1>3, <1>4, <1>5, <1>6, <1>7, <1>8 DEF Execute
----------------------------------------------------------------------------
(* Frames: what a part of the invariant needs of a step of another part.   *)

\* A store step keeps the invariant of the lock table.
LEMMA StoreFrame ==
  ASSUME StoreStep, msgs \subseteq msgs'
  PROVE  StoreInv'
BY DEF StoreStep, StoreInv, Sent, Dead

\* A store step that sends no Commit or BatchRollback keeps the invariant of
\* the requests.
LEMMA MsgFrame ==
  ASSUME TikvTypeOK, MsgInv, StoreStep, clock \in Nat, clock' \in Nat, clock <= clock',
         msgs \subseteq msgs',
         \A m \in msgs' \ msgs : \/ m.type \in {"prewrite", "cleanup", "status"}
                                 \/ m.type = "resolve" /\ m.ts = write'[Primary]
  PROVE  /\ MsgInv'
         /\ Sent("commit")' = Sent("commit") /\ Sent("rollback")' = Sent("rollback")
<1>1. Sent("commit")' = Sent("commit") /\ Sent("rollback")' = Sent("rollback")
  BY DEF Sent
<1>2. \A m \in Sent("commit") : m.ts \in Nat
  BY DEF TikvTypeOK, Sent, Requests
<1>3. \A m \in Sent("resolve") : m.ts \in Nat
  BY DEF TikvTypeOK, Sent, Requests
<1>4. Primary \in CommitKeys /\ (write[Primary] # NoWrite => write'[Primary] = write[Primary])
  BY DEF StoreStep, CommitKeys
<1>5. \A m \in Sent("resolve")' : m.ts = write'[Primary]
  <2> SUFFICES ASSUME NEW m \in Sent("resolve")' PROVE m.ts = write'[Primary]
    OBVIOUS
  <2>1. CASE m \in msgs
    BY <2>1, <1>3, <1>4, SMTT(20) DEF MsgInv, Sent, NoWrite
  <2>2. CASE m \notin msgs
    BY <2>2 DEF Sent
  <2> QED
    BY <2>1, <2>2
<1>6. \A m \in Sent("commit") :
        m.keys = {Primary} \/ (Primary \notin m.keys /\ write'[Primary] = m.ts)
  BY <1>2, <1>4, SMTT(20) DEF MsgInv, NoWrite
<1>7. Sent("commit") # {} => \A k \in CommitKeys : Secured(k)'
  BY DEF MsgInv, StoreStep
<1>8. Dead => Dead'
  BY <1>4, SMTT(20) DEF Dead, Rollback, NoWrite
<1> QED
  BY <1>1, <1>2, <1>5, <1>6, <1>7, <1>8, SMTT(20) DEF MsgInv, StartTs

\* An acknowledged commit stays on the primary.
LEMMA AckedFrame ==
  ASSUME ClientInv, StoreStep, acked \in Nat
  PROVE  acked > 0 => write'[Primary] = acked
<1>1. acked > 0 => write[Primary] = acked
  BY DEF ClientInv
<1>2. write[Primary] # NoWrite => write'[Primary] = write[Primary]
  BY DEF StoreStep, CommitKeys
<1> QED
  BY <1>1, <1>2, SMTT(20) DEF NoWrite

\* A store step of somebody else keeps the invariant of the client.
LEMMA ClientFrame ==
  ASSUME TikvTypeOK, ClientInv, StoreStep, UNCHANGED clientVars, msgs \subseteq msgs', acked \in Nat,
         Sent("commit")' = Sent("commit"), Sent("rollback")' = Sent("rollback")
  PROVE  ClientInv'
<1>1. Primary \in CommitKeys /\ (Dead => Dead')
  BY SMTT(20) DEF StoreStep, CommitKeys, Dead, Rollback, NoWrite
<1>2. /\ \A r : CommitShard(r)' = CommitShard(r)
      /\ ShardRegions' = ShardRegions
      /\ regionOf' = regionOf
      /\ \A r : CommitShard(r) \subseteq CommitKeys
  BY DEF StoreStep, CommitShard, ShardRegions
<1>3. \A k \in CommitKeys : /\ Secured(k) => Secured(k)'
                            /\ write[k] = Rollback => write'[k] = Rollback
  BY SMTT(20) DEF StoreStep, NoWrite, Rollback
<1>4. acked > 0 => write'[Primary] = acked
  BY AckedFrame
<1>5. UNCHANGED <<status, cpc, result, replied, commitTs, acked>>
  BY DEF clientVars
<1> QED
  BY <1>1, <1>2, <1>3, <1>4, <1>5 DEF ClientInv, Request

\* A store step that is not of a reader keeps the invariant of the readers,
\* provided a new Commit is later than every reader's timestamp.
LEMMA ReaderFrame ==
  ASSUME TypeOK, ReaderInv, StoreStep, UNCHANGED readerVars,
         clock' \in Nat, clock <= clock',
         \A m \in Sent("commit")' : m.ts \in Nat,
         \A m \in Sent("commit")' \ Sent("commit") :
            m.ts > clock \/ \E n \in Sent("commit") : n.ts = m.ts
  PROVE  ReaderInv'
<1>1. Primary \in CommitKeys
  BY DEF CommitKeys
<1>2. \A k \in CommitKeys : write[k] # NoWrite => write'[k] = write[k]
  BY DEF StoreStep
<1>3. UNCHANGED <<readTs, rpc, rkey, rversion, seen>>
  BY DEF readerVars
<1>0. \A i \in Readers : readTs[i] \in Nat /\ rversion[i] \in Nat
  BY DEF TypeOK, ResolverTypeOK
<1>4. \A i \in Readers : rpc[i] = "resolve" => rversion[i] = write'[Primary]
  BY <1>0, <1>1, <1>2, SMTT(20) DEF ReaderInv, NoWrite
<1>7. Dead => Dead'
  BY <1>1, <1>2, SMTT(20) DEF Dead, NoWrite, Rollback
<1>8. \A i \in Readers : readTs[i] <= clock'
  BY <1>0, SMTT(20) DEF ReaderInv, TypeOK, CommitterTypeOK
<1>9. \A i \in Readers : \A k \in CommitKeys :
        seen[i][k] = "new" => write'[k] > 0 /\ write'[k] <= readTs[i]
  BY <1>2, SMTT(20) DEF ReaderInv, NoWrite
<1>10. \A i \in Readers : \A k \in CommitKeys :
        seen[i][k] = "old" => Dead' \/ \A m \in Sent("commit")' : readTs[i] < m.ts
  <2> SUFFICES ASSUME NEW i \in Readers, NEW k \in CommitKeys, seen[i][k] = "old", ~Dead,
                      NEW m \in Sent("commit")'
               PROVE  readTs[i] < m.ts
    BY <1>7
  <2>1. \A n \in Sent("commit") : readTs[i] < n.ts
    BY DEF ReaderInv
  <2>2. CASE m \in Sent("commit") \/ \E n \in Sent("commit") : n.ts = m.ts
    BY <2>1, <2>2
  <2>3. CASE m.ts > clock
    <3>1. readTs[i] <= clock /\ readTs[i] \in Nat /\ clock \in Nat
      BY <1>0 DEF ReaderInv, TypeOK, CommitterTypeOK
    <3>2. m.ts \in Nat
      OBVIOUS
    <3> QED
      BY <2>3, <3>1, <3>2, SMTT(20)
  <2> QED
    BY <2>2, <2>3
<1> QED
  BY <1>3, <1>4, <1>7, <1>8, <1>9, <1>10, SMTT(20) DEF ReaderInv, TypeOK, CommitterTypeOK, StartTs

\* A store step that is not of the garbage collector keeps its invariant.
LEMMA GcFrame ==
  ASSUME TypeOK, GcInv, StoreStep, UNCHANGED gcVars
  PROVE  GcInv'
<1>1. write[Primary] # NoWrite => write'[Primary] = write[Primary]
  BY DEF StoreStep, CommitKeys
<1>2. \A r \in Regions : gcTs[r] \in Nat
  BY DEF TypeOK, ResolverTypeOK
<1>3. UNCHANGED <<gpc, resolved, gcTs>>
  BY DEF gcVars
<1> QED
  BY <1>1, <1>2, <1>3, SMTT(20) DEF GcInv, NoWrite, NotCached

\* A store step keeps the types of the cluster's variables.
LEMMA TikvTypeFrame ==
  ASSUME TikvTypeOK, StoreStep, conflict' \subseteq Keys, maxTs' \in [Regions -> Nat],
         msgs' \subseteq Requests
  PROVE  TikvTypeOK'
BY DEF TikvTypeOK, StoreStep, CommitKeys, Requests

\* How the regions are prewritten does not change.
LEMMA PlainStays ==
  ASSUME PlainShards, regionOf' = regionOf, mode' = mode
  PROVE  PlainShards'
BY DEF PlainShards, ShardRegions, ShardMode, Shard

\* What remains to be shown of a step of the committer.
LEMMA ClientStepInv ==
  ASSUME TwoPhaseInv, StoreStep,
         UNCHANGED <<conflict, maxTs, mode, minReply, onePcReply, readerVars, gcVars>>,
         clock' \in Nat, clock <= clock', msgs \subseteq msgs', msgs' \subseteq Requests,
         \A m \in msgs' \ msgs :
            /\ m.type \in {"prewrite", "commit", "rollback"}
            /\ m.type = "prewrite" => m.mode = "2pc"
            /\ m.type = "commit" => m.ts > clock \/ \E n \in Sent("commit") : n.ts = m.ts,
         CommitterTypeOK', MsgInv', ClientInv'
  PROVE  TwoPhaseInv'
<1>1. TypeOK /\ ModeInv /\ ReaderInv /\ GcInv
  BY DEF TwoPhaseInv
<1>2. StoreInv'
  BY StoreFrame
<1>3. TikvTypeOK'
  BY <1>1, TikvTypeFrame DEF TypeOK, TikvTypeOK
<1>4. ResolverTypeOK'
  BY <1>1 DEF TypeOK, ResolverTypeOK, readerVars, gcVars
<1>5. ModeInv'
  <2>1. UNCHANGED <<resolved, gpc>>
    BY DEF gcVars
  <2>2. Sent("secondaries")' = {} /\ \A m \in Sent("prewrite")' : m.mode = "2pc"
    BY <1>1, SMTT(20) DEF ModeInv, Sent
  <2>3. asyncLocked' = {} /\ PlainShards'
    BY <1>1, PlainStays DEF StoreStep, ModeInv
  <2> QED
    BY <1>1, <2>1, <2>2, <2>3 DEF ModeInv
<1>6. ReaderInv'
  <2>1. \A m \in Sent("commit")' : m.ts \in Nat
    BY DEF Sent, Requests
  <2>2. \A m \in Sent("commit")' \ Sent("commit") :
          m.ts > clock \/ \E n \in Sent("commit") : n.ts = m.ts
    BY DEF Sent
  <2> QED
    BY <1>1, <2>1, <2>2, ReaderFrame
<1>7. GcInv'
  BY <1>1, GcFrame
<1> QED
  BY <1>2, <1>3, <1>4, <1>5, <1>6, <1>7 DEF TwoPhaseInv, TypeOK

\* What remains to be shown of a step of a reader or the garbage collector.
LEMMA ResolverStepInv ==
  ASSUME TwoPhaseInv, StoreStep, UNCHANGED clientVars,
         conflict' \subseteq Keys, maxTs' \in [Regions -> Nat],
         clock' \in Nat, clock <= clock', msgs \subseteq msgs', msgs' \subseteq Requests,
         \A m \in msgs' \ msgs : \/ m.type \in {"cleanup", "status"}
                                 \/ m.type = "resolve" /\ m.ts = write'[Primary],
         resolved' # CachedLocked,
         \A r \in Regions : gpc'[r] \in {"scan", "status", "resolve", "done"},
         ResolverTypeOK', ReaderInv', GcInv'
  PROVE  TwoPhaseInv'
<1>1. TypeOK /\ TikvTypeOK /\ CommitterTypeOK /\ ModeInv /\ MsgInv /\ ClientInv
  BY DEF TwoPhaseInv, TypeOK
<1>2. StoreInv'
  BY StoreFrame
<1>3. TikvTypeOK'
  BY <1>1, TikvTypeFrame
<1>4. CommitterTypeOK'
  BY <1>1 DEF CommitterTypeOK, clientVars
<1>5. /\ MsgInv'
      /\ Sent("commit")' = Sent("commit") /\ Sent("rollback")' = Sent("rollback")
  BY <1>1, MsgFrame DEF CommitterTypeOK
<1>6. ClientInv'
  BY <1>1, <1>5, ClientFrame DEF CommitterTypeOK
<1>7. ModeInv'
  <2>1. UNCHANGED <<mode, minReply, onePcReply>>
    BY DEF clientVars
  <2>2. Sent("secondaries")' = {} /\ \A m \in Sent("prewrite")' : m.mode = "2pc"
    BY <1>1 DEF ModeInv, Sent
  <2>3. asyncLocked' = {} /\ PlainShards'
    BY <1>1, <2>1, PlainStays DEF StoreStep, ModeInv
  <2> QED
    BY <1>1, <2>1, <2>2, <2>3 DEF ModeInv
<1> QED
  BY <1>2, <1>3, <1>4, <1>5, <1>6, <1>7 DEF TwoPhaseInv, TypeOK

----------------------------------------------------------------------------
(* The readers                                                             *)

\* Taking a read timestamp keeps the invariant.
LEMMA StartReadInv ==
  ASSUME TwoPhaseInv, NEW i \in Readers, StartRead(i)
  PROVE  TwoPhaseInv'
<1>1. /\ TypeOK /\ TikvTypeOK /\ CommitterTypeOK /\ ResolverTypeOK
      /\ ModeInv /\ StoreInv /\ ReaderInv /\ GcInv
  BY DEF TwoPhaseInv, TypeOK
<1>2. clock' \in Nat /\ clock' = clock + 1 /\ clock \in Nat
  BY <1>1, SMTT(20) DEF StartRead, CommitterTypeOK
<1>3. UNCHANGED <<tikvVars, clientVars, gcVars, rkey, rversion, seen>>
  BY DEF StartRead
<1>4. StoreStep
  BY <1>1, <1>3, SameStore DEF tikvVars, ModeInv
<1>5. /\ readTs' = [readTs EXCEPT ![i] = clock + 1] /\ rpc' = [rpc EXCEPT ![i] = "read"]
      /\ rpc[i] = "idle"
  BY DEF StartRead
<1>6. ResolverTypeOK'
  BY <1>1, <1>2, <1>3, <1>5 DEF ResolverTypeOK, gcVars
<1>7. GcInv'
  BY <1>1, <1>3, <1>4, GcFrame
<1>8. ReaderInv'
  <2>1. \A j \in Readers : readTs[j] \in Nat
    BY <1>1 DEF ResolverTypeOK
  <2>2. UNCHANGED <<write, seen, rversion, msgs>>
    BY <1>3 DEF tikvVars, lockTable
  <2>3. \A k \in CommitKeys : seen[i][k] = "unread"
    BY <1>1, <1>5 DEF ReaderInv
  <2> QED
    BY <1>1, <1>2, <1>5, <2>1, <2>2, <2>3, SMTT(20) DEF ReaderInv, ResolverTypeOK, Sent, Dead, StartTs
<1> QED
  BY <1>1, <1>2, <1>3, <1>4, <1>6, <1>7, <1>8, ResolverStepInv, SMTT(20)
     DEF tikvVars, gcVars, ModeInv, TikvTypeOK

\* A read keeps the invariant: what is read as old is not committed at or
\* below the read timestamp later on.
LEMMA ReadKeyInv ==
  ASSUME TwoPhaseInv, NEW i \in Readers, NEW k \in CommitKeys, ReadKey(i, k),
         UNCHANGED <<clock, clientVars>>
  PROVE  TwoPhaseInv'
<1>1. /\ TypeOK /\ TikvTypeOK /\ CommitterTypeOK /\ ResolverTypeOK
      /\ ModeInv /\ StoreInv /\ MsgInv /\ ReaderInv /\ GcInv
  BY DEF TwoPhaseInv, TypeOK
<1>2. UNCHANGED <<regionOf, lockTable, conflict, msgs, readTs, rpc, rkey, rversion, gcVars>>
  BY DEF ReadKey, ServeRead
<1>3. StoreStep
  BY <1>1, <1>2, SameStore DEF ModeInv
<1>4. clock \in Nat /\ clock' = clock
  BY <1>1 DEF CommitterTypeOK
<1>5. GcInv'
  BY <1>1, <1>2, <1>3, GcFrame
<1>6. readTs[i] \in Nat /\ maxTs' \in [Regions -> Nat]
  BY <1>1 DEF ResolverTypeOK, TikvTypeOK, ReadKey, ServeRead
<1>7. /\ rpc[i] = "read" /\ ~Blocked(k, readTs[i])
      /\ seen' = [seen EXCEPT ![i][k] =
                    IF write[k] > 0 /\ write[k] <= readTs[i] THEN "new" ELSE "old"]
  BY DEF ReadKey
<1>8. ResolverTypeOK'
  BY <1>1, <1>2, <1>7 DEF ResolverTypeOK, gcVars
<1>9. ReaderInv'
  <2>1. UNCHANGED <<write, msgs, readTs, rpc, rversion, clock>>
    BY <1>2, <1>4 DEF lockTable
  <2>2. ASSUME ~(write[k] > 0 /\ write[k] <= readTs[i]), ~Dead, NEW m \in Sent("commit")
        PROVE  readTs[i] < m.ts
    <3>1. m.ts \in Nat /\ write[k] \in Nat \cup {NoWrite}
      BY <1>1 DEF TikvTypeOK, Sent, Requests, CommitKeys
    <3>2. Secured(k) /\ Sent("rollback") = {}
      BY <1>1, <2>2 DEF MsgInv
    <3>3. k \notin locked
      <4>1. StartTs < readTs[i]
        BY <1>1, <1>7 DEF ReaderInv
      <4>2. k \in locked => minCommit[k] = StartTs + 1
        BY <1>1 DEF StoreInv
      <4> QED
        BY <1>6, <1>7, <4>1, <4>2, SMTT(20) DEF Blocked, StartTs
    <3>4. write[k] # NoWrite /\ write[k] # Rollback
      BY <1>1, <2>2, <3>2, <3>3 DEF Secured, StoreInv
    <3>5. write[k] > 0 /\ write[k] = write[Primary]
      BY <1>1, <3>1, <3>4, SMTT(20) DEF StoreInv, NoWrite, Rollback
    <3>6. m.ts = write[k]
      BY <1>1, <3>5 DEF StoreInv, MsgInv
    <3> QED
      BY <1>6, <2>2, <3>1, <3>5, <3>6, SMTT(20)
  <2>3. seen \in [Readers -> [CommitKeys -> {"unread", "old", "new"}]]
    BY <1>1 DEF ResolverTypeOK
  <2>4. \A j \in Readers : \A l \in CommitKeys :
           seen'[j][l] = "new" => write[l] > 0 /\ write[l] <= readTs[j]
    BY <1>1, <1>7, <2>3 DEF ReaderInv
  <2>5. \A j \in Readers : \A l \in CommitKeys :
           seen'[j][l] = "old" => Dead \/ \A m \in Sent("commit") : readTs[j] < m.ts
    BY <1>1, <1>7, <2>2, <2>3 DEF ReaderInv
  <2>6. \A j \in Readers : rpc[j] = "idle" => \A l \in CommitKeys : seen'[j][l] = "unread"
    BY <1>1, <1>7, <2>3 DEF ReaderInv
  <2> QED
    BY <1>1, <2>1, <2>4, <2>5, <2>6 DEF ReaderInv, Sent, Dead
<1> QED
  BY <1>1, <1>2, <1>3, <1>4, <1>5, <1>6, <1>8, <1>9, ResolverStepInv, SMTT(20)
     DEF gcVars, ModeInv, TikvTypeOK

\* A read that meets a lock keeps the invariant.
LEMMA ReadLockedInv ==
  ASSUME TwoPhaseInv, NEW i \in Readers, NEW k \in CommitKeys, ReadLocked(i, k),
         UNCHANGED <<clock, clientVars>>
  PROVE  TwoPhaseInv'
<1>1. /\ TypeOK /\ TikvTypeOK /\ CommitterTypeOK /\ ResolverTypeOK
      /\ ModeInv /\ StoreInv /\ ReaderInv /\ GcInv
  BY DEF TwoPhaseInv, TypeOK
<1>2. UNCHANGED <<regionOf, lockTable, conflict, readTs, rversion, seen, gcVars>>
  BY DEF ReadLocked, ServeRead
<1>3. StoreStep
  BY <1>1, <1>2, SameStore DEF ModeInv
<1>4. clock \in Nat /\ clock' = clock
  BY <1>1 DEF CommitterTypeOK
<1>5. GcInv'
  BY <1>1, <1>2, <1>3, GcFrame
<1>6. readTs[i] \in Nat /\ maxTs' \in [Regions -> Nat]
  BY <1>1 DEF ResolverTypeOK, TikvTypeOK, ReadLocked, ServeRead
<1>7. /\ rpc[i] = "read" /\ rkey' = [rkey EXCEPT ![i] = k]
      /\ \E next \in {"cleanup", "read"} : rpc' = [rpc EXCEPT ![i] = next]
  BY DEF ReadLocked
<1>8. ResolverTypeOK'
  BY <1>1, <1>2, <1>7 DEF ResolverTypeOK, gcVars
<1>9. msgs \subseteq msgs' /\ \A m \in msgs' \ msgs : m = Request("cleanup", {Primary}, 0, "")
  BY DEF ReadLocked
<1>10. /\ Request("cleanup", {Primary}, 0, "") \in Requests
       /\ Request("cleanup", {Primary}, 0, "").type = "cleanup"
  BY DEF Request, Requests, CommitKeys
<1>11. ReaderInv'
  <2>1. UNCHANGED <<write, readTs, rversion, seen, clock>> /\ Sent("commit")' = Sent("commit")
    BY <1>2, <1>4, <1>9, <1>10 DEF lockTable, Sent
  <2>2. \A j \in Readers : /\ rpc'[j] = "resolve" => rpc[j] = "resolve"
                           /\ rpc'[j] = "idle" <=> rpc[j] = "idle"
    BY <1>1, <1>7 DEF ResolverTypeOK
  <2> QED
    BY <1>1, <2>1, <2>2 DEF ReaderInv, Dead
<1>12. msgs \subseteq msgs' /\ msgs' \subseteq Requests /\ \A m \in msgs' \ msgs : m.type \in {"cleanup", "status"}
  BY <1>1, <1>9, <1>10 DEF TikvTypeOK
<1>13. /\ resolved' # CachedLocked /\ conflict' \subseteq Keys
       /\ \A r \in Regions : gpc'[r] \in {"scan", "status", "resolve", "done"}
  BY <1>1, <1>2 DEF gcVars, ModeInv, TikvTypeOK
<1> QED
  BY <1>3, <1>4, <1>5, <1>6, <1>8, <1>11, <1>12, <1>13, ResolverStepInv, SMTT(20)

\* resolve_locks: the answer of Cleanup keeps the invariant.
LEMMA CleanupOkInv ==
  ASSUME TwoPhaseInv, NEW i \in Readers, CleanupOk(i), UNCHANGED <<clock, clientVars>>
  PROVE  TwoPhaseInv'
<1>1. /\ TypeOK /\ TikvTypeOK /\ CommitterTypeOK /\ ResolverTypeOK
      /\ ModeInv /\ StoreInv /\ ReaderInv /\ GcInv
  BY DEF TwoPhaseInv, TypeOK
<1>2. StoreStep /\ write'[Primary] = CommitVersion
  BY <1>1, RollbackPrimaryStore DEF CleanupOk, ModeInv
<1>3. UNCHANGED <<conflict, maxTs, readTs, rkey, seen, gcVars>>
  BY DEF CleanupOk, RollbackPrimary, Settle
<1>4. clock \in Nat /\ clock' = clock
  BY <1>1 DEF CommitterTypeOK
<1>5. GcInv'
  BY <1>1, <1>2, <1>3, GcFrame
<1>6. CommitVersion \in Nat
  BY <1>1, SMTT(20) DEF CommitVersion, TikvTypeOK, CommitKeys, NoWrite
<1>7. /\ rpc[i] = "cleanup" /\ rpc' = [rpc EXCEPT ![i] = "resolve"]
      /\ rversion' = [rversion EXCEPT ![i] = CommitVersion]
  BY DEF CleanupOk
<1>8. ResolverTypeOK'
  BY <1>1, <1>3, <1>6, <1>7 DEF ResolverTypeOK, gcVars
<1> DEFINE new == Request("resolve", CommitShard(regionOf[rkey[i]]), CommitVersion, "")
<1>9. msgs' = msgs \cup {new} /\ new.type = "resolve" /\ new.ts = CommitVersion
  BY DEF CleanupOk, Request
<1>10. new \in Requests
  BY <1>6 DEF Request, Requests, CommitShard, CommitKeys
<1>11. msgs' \subseteq Requests /\ msgs \subseteq msgs'
  BY <1>1, <1>9, <1>10 DEF TikvTypeOK
<1>12. \A m \in msgs' \ msgs : m.type = "resolve" /\ m.ts = write'[Primary]
  BY <1>2, <1>9
<1>13. ReaderInv'
  <2>1. Sent("commit")' = Sent("commit")
    BY <1>9 DEF Sent
  <2>2. \A k \in CommitKeys : write[k] # NoWrite => write'[k] = write[k]
    BY <1>2 DEF StoreStep
  <2>3. Primary \in CommitKeys /\ (Dead => Dead')
    BY <2>2, SMTT(20) DEF CommitKeys, Dead, NoWrite, Rollback
  <2>4. \A j \in Readers : rpc'[j] = "resolve" => rversion'[j] = write'[Primary]
    <3> SUFFICES ASSUME NEW j \in Readers, rpc'[j] = "resolve"
                 PROVE  rversion'[j] = write'[Primary]
      OBVIOUS
    <3>1. CASE j = i
      BY <1>1, <1>2, <1>7, <3>1 DEF ResolverTypeOK
    <3>2. CASE j # i
      <4>1. rpc[j] = "resolve" /\ rversion'[j] = rversion[j] /\ rversion[j] \in Nat
        BY <1>1, <1>7, <3>2 DEF ResolverTypeOK
      <4>2. write[Primary] = rversion[j]
        BY <1>1, <4>1 DEF ReaderInv
      <4> QED
        BY <2>2, <2>3, <4>1, <4>2, SMTT(20) DEF NoWrite
    <3> QED
      BY <3>1, <3>2
  <2>5. \A j \in Readers : rpc'[j] = "idle" <=> rpc[j] = "idle"
    BY <1>1, <1>7 DEF ResolverTypeOK
  <2>6. \A j \in Readers : \A k \in CommitKeys :
          seen[j][k] = "new" => write'[k] > 0 /\ write'[k] <= readTs[j]
    BY <1>1, <2>2, SMTT(20) DEF ReaderInv, NoWrite
  <2> QED
    BY <1>1, <1>3, <1>4, <2>1, <2>3, <2>4, <2>5, <2>6 DEF ReaderInv
<1>14. /\ resolved' # CachedLocked /\ conflict' \subseteq Keys /\ maxTs' \in [Regions -> Nat]
       /\ \A r \in Regions : gpc'[r] \in {"scan", "status", "resolve", "done"}
  BY <1>1, <1>3 DEF gcVars, ModeInv, TikvTypeOK
<1> QED
  BY <1>2, <1>4, <1>5, <1>8, <1>11, <1>12, <1>13, <1>14, ResolverStepInv, SMTT(20)

\* resolve_locks: ResolveLock keeps the invariant.
LEMMA ResolveOkInv ==
  ASSUME TwoPhaseInv, NEW i \in Readers, ResolveOk(i), UNCHANGED <<clock, clientVars>>
  PROVE  TwoPhaseInv'
<1>1. /\ TypeOK /\ TikvTypeOK /\ CommitterTypeOK /\ ResolverTypeOK
      /\ ModeInv /\ StoreInv /\ ReaderInv /\ GcInv
  BY DEF TwoPhaseInv, TypeOK
<1>2. rversion[i] \in Nat /\ write[Primary] = rversion[i]
  BY <1>1 DEF ResolveOk, ReaderInv, ResolverTypeOK
<1>3. StoreStep
  BY <1>1, <1>2, ResolveStore DEF ResolveOk, ModeInv
<1>4. UNCHANGED <<conflict, maxTs, msgs, readTs, rkey, rversion, seen, gcVars>>
  BY DEF ResolveOk, ResolveLock, Settle
<1>5. clock \in Nat /\ clock' = clock
  BY <1>1 DEF CommitterTypeOK
<1>6. GcInv'
  BY <1>1, <1>3, <1>4, GcFrame
<1>7. rpc[i] = "resolve" /\ rpc' = [rpc EXCEPT ![i] = "read"]
  BY DEF ResolveOk
<1>8. ResolverTypeOK'
  BY <1>1, <1>4, <1>7 DEF ResolverTypeOK, gcVars
<1>9. ReaderInv'
  <2>1. \A k \in CommitKeys : write[k] # NoWrite => write'[k] = write[k]
    BY <1>3 DEF StoreStep
  <2>2. Primary \in CommitKeys /\ (Dead => Dead') /\ write'[Primary] = write[Primary]
    BY <1>2, <2>1, SMTT(20) DEF CommitKeys, Dead, NoWrite
  <2>3. \A j \in Readers : /\ rpc'[j] = "resolve" => rpc[j] = "resolve"
                           /\ rpc'[j] = "idle" <=> rpc[j] = "idle"
    BY <1>1, <1>7 DEF ResolverTypeOK
  <2>4. \A j \in Readers : \A k \in CommitKeys :
          seen[j][k] = "new" => write'[k] > 0 /\ write'[k] <= readTs[j]
    BY <1>1, <2>1, SMTT(20) DEF ReaderInv, NoWrite
  <2> QED
    BY <1>1, <1>4, <1>5, <2>2, <2>3, <2>4 DEF ReaderInv, Sent
<1>10. /\ resolved' # CachedLocked /\ conflict' \subseteq Keys /\ maxTs' \in [Regions -> Nat]
       /\ \A r \in Regions : gpc'[r] \in {"scan", "status", "resolve", "done"}
       /\ msgs' \subseteq Requests
  BY <1>1, <1>4 DEF gcVars, ModeInv, TikvTypeOK
<1> QED
  BY <1>3, <1>4, <1>5, <1>6, <1>8, <1>9, <1>10, ResolverStepInv, SMTT(20)

----------------------------------------------------------------------------
(* The garbage collector and the cluster                                   *)

\* cleanup_locks: a scan that finds locks keeps the invariant.
LEMMA GcScanInv ==
  ASSUME TwoPhaseInv, NEW r \in Regions, GcScan(r), UNCHANGED <<clock, clientVars>>
  PROVE  TwoPhaseInv'
<1>1. /\ TypeOK /\ TikvTypeOK /\ CommitterTypeOK /\ ResolverTypeOK
      /\ ModeInv /\ StoreInv /\ ReaderInv /\ GcInv
  BY DEF TwoPhaseInv, TypeOK
<1>2. /\ UNCHANGED <<regionOf, lockTable, conflict, maxTs, readerVars>>
      /\ UNCHANGED <<resolved, gcTs>> /\ gpc' = [gpc EXCEPT ![r] = "status"]
      /\ gcChecked' = [gcChecked EXCEPT ![r] = {}] /\ gcMissing' = [gcMissing EXCEPT ![r] = {}]
      /\ gcPlain' = [gcPlain EXCEPT ![r] = FALSE]
  BY DEF GcScan
<1>3. StoreStep /\ write' = write
  BY <1>1, <1>2, SameStore DEF ModeInv, lockTable
<1>4. clock \in Nat /\ clock' = clock
  BY <1>1 DEF CommitterTypeOK
<1> DEFINE new == Request("status", {Primary}, 0, "")
<1>5. msgs' = msgs \cup {new} /\ new.type = "status" /\ new \in Requests
  BY DEF GcScan, Request, Requests, CommitKeys
<1>6. /\ msgs \subseteq msgs' /\ msgs' \subseteq Requests
      /\ \A m \in msgs' \ msgs : m.type \in {"cleanup", "status"}
      /\ Sent("commit")' = Sent("commit")
  BY <1>1, <1>5 DEF TikvTypeOK, Sent
<1>7. ResolverTypeOK'
  BY <1>1, <1>2 DEF ResolverTypeOK, readerVars
<1>8. ReaderInv'
  <2>1. \A m \in Sent("commit") : m.ts \in Nat
    BY <1>1 DEF TikvTypeOK, Sent, Requests
  <2> QED
    BY <1>1, <1>2, <1>3, <1>4, <1>6, <2>1, ReaderFrame, SMTT(20)
<1>9. GcInv'
  BY <1>1, <1>2, <1>3 DEF GcInv, ResolverTypeOK
<1>10. /\ resolved' # CachedLocked /\ conflict' \subseteq Keys /\ maxTs' \in [Regions -> Nat]
       /\ \A s \in Regions : gpc'[s] \in {"scan", "status", "resolve", "done"}
  BY <1>1, <1>2 DEF ModeInv, TikvTypeOK, ResolverTypeOK
<1> QED
  BY <1>3, <1>4, <1>6, <1>7, <1>8, <1>9, <1>10, ResolverStepInv, SMTT(20)

\* cleanup_locks: a cached transaction status keeps the invariant.
LEMMA GcCachedInv ==
  ASSUME TwoPhaseInv, NEW r \in Regions, GcCached(r), UNCHANGED <<clock, clientVars>>
  PROVE  TwoPhaseInv'
<1>1. /\ TypeOK /\ TikvTypeOK /\ CommitterTypeOK /\ ResolverTypeOK
      /\ ModeInv /\ StoreInv /\ ReaderInv /\ GcInv
  BY DEF TwoPhaseInv, TypeOK
<1>2. /\ UNCHANGED <<tikvVars, readerVars, resolved, gcChecked, gcMissing, gcPlain>>
      /\ gpc' = [gpc EXCEPT ![r] = "resolve"] /\ gcTs' = [gcTs EXCEPT ![r] = resolved]
      /\ resolved \in Nat /\ resolved = write[Primary]
  BY <1>1 DEF GcCached, ModeInv, GcInv, ResolverTypeOK
<1>3. StoreStep /\ UNCHANGED <<write, conflict, maxTs, msgs>>
  BY <1>1, <1>2, SameStore DEF ModeInv, tikvVars, lockTable
<1>4. clock \in Nat /\ clock' = clock
  BY <1>1 DEF CommitterTypeOK
<1>5. ResolverTypeOK'
  BY <1>1, <1>2 DEF ResolverTypeOK, readerVars
<1>6. ReaderInv'
  <2>1. Sent("commit")' = Sent("commit") /\ \A m \in Sent("commit") : m.ts \in Nat
    BY <1>1, <1>3 DEF TikvTypeOK, Sent, Requests
  <2> QED
    BY <1>1, <1>2, <1>3, <1>4, <2>1, ReaderFrame, SMTT(20)
<1>7. GcInv'
  BY <1>1, <1>2, <1>3 DEF GcInv, ResolverTypeOK
<1>8. /\ resolved' # CachedLocked /\ conflict' \subseteq Keys /\ maxTs' \in [Regions -> Nat]
      /\ \A s \in Regions : gpc'[s] \in {"scan", "status", "resolve", "done"}
      /\ msgs' \subseteq Requests
  BY <1>1, <1>2, <1>3 DEF ModeInv, TikvTypeOK, ResolverTypeOK
<1> QED
  BY <1>3, <1>4, <1>5, <1>6, <1>7, <1>8, ResolverStepInv, SMTT(20)

\* cleanup_locks: the answer of CheckTxnStatus keeps the invariant.
LEMMA GcStatusInv ==
  ASSUME TwoPhaseInv, NEW r \in Regions, GcStatus(r), UNCHANGED <<clock, clientVars>>
  PROVE  TwoPhaseInv'
<1>1. /\ TypeOK /\ TikvTypeOK /\ CommitterTypeOK /\ ResolverTypeOK
      /\ ModeInv /\ StoreInv /\ ReaderInv /\ GcInv
  BY DEF TwoPhaseInv, TypeOK
<1>2. /\ RollbackPrimary /\ UNCHANGED <<msgs, readerVars, gcChecked, gcMissing, gcPlain>>
      /\ gpc' = [gpc EXCEPT ![r] = "resolve"] /\ gcTs' = [gcTs EXCEPT ![r] = CommitVersion]
      /\ resolved' = CommitVersion
  BY <1>1 DEF GcStatus, ModeInv
<1>3. StoreStep /\ write'[Primary] = CommitVersion
  BY <1>1, <1>2, RollbackPrimaryStore DEF ModeInv
<1>4. clock \in Nat /\ clock' = clock /\ UNCHANGED <<conflict, maxTs>>
  BY <1>1, <1>2 DEF CommitterTypeOK, RollbackPrimary, Settle
<1>5. CommitVersion \in Nat
  BY <1>1, SMTT(20) DEF CommitVersion, TikvTypeOK, CommitKeys, NoWrite
<1>6. ResolverTypeOK'
  BY <1>1, <1>2, <1>5 DEF ResolverTypeOK, readerVars
<1>7. ReaderInv'
  <2>1. Sent("commit")' = Sent("commit") /\ \A m \in Sent("commit") : m.ts \in Nat
    BY <1>1, <1>2 DEF TikvTypeOK, Sent, Requests
  <2> QED
    BY <1>1, <1>2, <1>3, <1>4, <2>1, ReaderFrame, SMTT(20)
<1>8. GcInv'
  <2>1. \A s \in Regions : gpc[s] = "resolve" => gcTs[s] = write'[Primary]
    <3>1. write[Primary] # NoWrite => write'[Primary] = write[Primary]
      BY <1>3 DEF StoreStep, CommitKeys
    <3>2. \A s \in Regions : gcTs[s] \in Nat
      BY <1>1 DEF ResolverTypeOK
    <3> QED
      BY <1>1, <3>1, <3>2, SMTT(20) DEF GcInv, NoWrite
  <2> QED
    BY <1>1, <1>2, <1>3, <2>1 DEF GcInv, ResolverTypeOK
<1>9. /\ resolved' # CachedLocked /\ conflict' \subseteq Keys /\ maxTs' \in [Regions -> Nat]
      /\ \A s \in Regions : gpc'[s] \in {"scan", "status", "resolve", "done"}
      /\ msgs' \subseteq Requests
  BY <1>1, <1>2, <1>4, <1>5, SMTT(20) DEF ModeInv, TikvTypeOK, ResolverTypeOK, CachedLocked
<1> QED
  BY <1>2, <1>3, <1>4, <1>6, <1>7, <1>8, <1>9, ResolverStepInv, SMTT(20)

\* cleanup_locks: batch_resolve_locks keeps the invariant.
LEMMA GcResolveInv ==
  ASSUME TwoPhaseInv, NEW r \in Regions, GcResolve(r), UNCHANGED <<clock, clientVars>>
  PROVE  TwoPhaseInv'
<1>1. /\ TypeOK /\ TikvTypeOK /\ CommitterTypeOK /\ ResolverTypeOK
      /\ ModeInv /\ StoreInv /\ ReaderInv /\ GcInv
  BY DEF TwoPhaseInv, TypeOK
<1>2. /\ gpc[r] = "resolve" /\ gcTs[r] \in Nat /\ write[Primary] = gcTs[r]
      /\ UNCHANGED <<readerVars, resolved, gcTs, gcChecked, gcMissing, gcPlain>>
      /\ gpc' = [gpc EXCEPT ![r] = "done"]
  BY <1>1 DEF GcResolve, GcInv, ResolverTypeOK
<1>3. StoreStep
  BY <1>1, <1>2, ResolveStore DEF GcResolve, ModeInv
<1>4. write'[Primary] = write[Primary]
  BY <1>2, <1>3, SMTT(20) DEF StoreStep, NoWrite, CommitKeys
<1>5. clock \in Nat /\ clock' = clock /\ UNCHANGED <<conflict, maxTs>>
  BY <1>1 DEF CommitterTypeOK, GcResolve, ResolveLock, Settle
<1> DEFINE new == Request("resolve", CommitShard(r), gcTs[r], "")
<1>6. msgs' = msgs \cup {new} /\ new.type = "resolve" /\ new.ts = gcTs[r]
  BY DEF GcResolve, Request
<1>7. new \in Requests
  BY <1>2 DEF Request, Requests, CommitShard, CommitKeys
<1>8. /\ msgs \subseteq msgs' /\ msgs' \subseteq Requests
      /\ \A m \in msgs' \ msgs : m.type = "resolve" /\ m.ts = write'[Primary]
      /\ Sent("commit")' = Sent("commit")
  BY <1>1, <1>2, <1>4, <1>6, <1>7 DEF TikvTypeOK, Sent
<1>9. ResolverTypeOK'
  BY <1>1, <1>2 DEF ResolverTypeOK, readerVars
<1>10. ReaderInv'
  <2>1. \A m \in Sent("commit") : m.ts \in Nat
    BY <1>1 DEF TikvTypeOK, Sent, Requests
  <2> QED
    BY <1>1, <1>2, <1>3, <1>5, <1>8, <2>1, ReaderFrame, SMTT(20)
<1>11. GcInv'
  BY <1>1, <1>2, <1>4 DEF GcInv, ResolverTypeOK
<1>12. /\ resolved' # CachedLocked /\ conflict' \subseteq Keys /\ maxTs' \in [Regions -> Nat]
       /\ \A s \in Regions : gpc'[s] \in {"scan", "status", "resolve", "done"}
  BY <1>1, <1>2, <1>5 DEF ModeInv, TikvTypeOK, ResolverTypeOK
<1> QED
  BY <1>3, <1>5, <1>8, <1>9, <1>10, <1>11, <1>12, ResolverStepInv, SMTT(20)

\* A late delivery and a write of another transaction keep the invariant.
LEMMA ClusterInv ==
  ASSUME TwoPhaseInv, Cluster
  PROVE  TwoPhaseInv'
<1>1. /\ TypeOK /\ TikvTypeOK /\ CommitterTypeOK /\ ResolverTypeOK
      /\ ModeInv /\ StoreInv /\ MsgInv /\ ReaderInv /\ GcInv
  BY DEF TwoPhaseInv, TypeOK
<1>2. UNCHANGED <<msgs, clock, clientVars, readerVars, gcVars>>
  BY DEF Cluster, LateDelivery, NewerVersion
<1>3. StoreStep /\ conflict' \subseteq Keys /\ maxTs' = maxTs
  <2>1. CASE LateDelivery
    <3>1. PICK m \in msgs : Execute(m)
      BY <2>1 DEF LateDelivery
    <3>2. UNCHANGED <<conflict, maxTs>>
      BY <3>1 DEF Execute, Prewrite, Commit, BatchRollback, RollbackPrimary, ResolveLock,
                  CheckSecondaryLocks, Settle
    <3> QED
      BY <1>1, <3>1, <3>2, ExecuteStore DEF TikvTypeOK
  <2>2. ASSUME NEW k \in Keys, NewerVersion(k)
        PROVE  StoreStep /\ conflict' \subseteq Keys /\ maxTs' = maxTs
    BY <1>1, <2>2, SameStore DEF NewerVersion, TikvTypeOK, ModeInv
  <2> QED
    BY <2>1, <2>2 DEF Cluster
<1>4. clock \in Nat /\ clock' = clock
  BY <1>1, <1>2 DEF CommitterTypeOK
<1>5. ReaderInv'
  <2>1. Sent("commit")' = Sent("commit") /\ \A m \in Sent("commit") : m.ts \in Nat
    BY <1>1, <1>2 DEF TikvTypeOK, Sent, Requests
  <2> QED
    BY <1>1, <1>2, <1>3, <1>4, <2>1, ReaderFrame, SMTT(20)
<1>6. GcInv'
  BY <1>1, <1>2, <1>3, GcFrame
<1>7. ResolverTypeOK'
  BY <1>1, <1>2 DEF ResolverTypeOK, readerVars, gcVars
<1>8. /\ resolved' # CachedLocked /\ maxTs' \in [Regions -> Nat]
      /\ \A s \in Regions : gpc'[s] \in {"scan", "status", "resolve", "done"}
      /\ msgs' \subseteq Requests
  BY <1>1, <1>2, <1>3 DEF ModeInv, TikvTypeOK, gcVars
<1> QED
  BY <1>2, <1>3, <1>4, <1>5, <1>6, <1>7, <1>8, ResolverStepInv, SMTT(20)

----------------------------------------------------------------------------
(* commit(), the steps that go forward                                     *)

(* The transaction.                                                        *)

\* Every shard is prewritten in two-phase mode.
LEMMA PrewriteShardType ==
  ASSUME TypeOK, ModeInv, NEW r \in ShardRegions
  PROVE  /\ PrewriteShard(r) \in Requests /\ PrewriteShard(r).type = "prewrite"
         /\ PrewriteShard(r).mode = "2pc" /\ PrewriteShard(r).keys = Shard(r)
<1>1. ShardMode(r) = "2pc"
  BY DEF ModeInv, PlainShards
<1> QED
  BY <1>1 DEF PrewriteShard, Request, Requests, Shard

\* How keys, shards and regions relate.
LEMMA RegionFacts ==
  ASSUME TikvTypeOK
  PROVE  /\ Primary \in CommitKeys /\ CommitKeys \subseteq Keys
         /\ regionOf[Primary] \in ShardRegions /\ regionOf[Primary] \in CommitRegions
         /\ ShardRegions \subseteq Regions /\ CommitRegions \subseteq Regions
         /\ \A k \in CommitKeys : /\ regionOf[k] \in CommitRegions /\ regionOf[k] \in ShardRegions
                                  /\ k \in CommitShard(regionOf[k])
         /\ \A r : /\ CommitShard(r) = Shard(r) \cap CommitKeys
                   /\ Shard(r) \in SUBSET Keys /\ CommitShard(r) \in SUBSET CommitKeys
BY DEF TikvTypeOK, CommitKeys, ShardRegions, CommitRegions, CommitShard, Shard

\* A call that fails keeps the invariant, provided a verdict that lets the
\* caller retry or roll back means no commit can take effect any more.
LEMMA FailInv ==
  ASSUME TwoPhaseInv, NEW res \in Errors, Fail(res), cpc \notin {"idle", "returned", "gone"},
         UNCHANGED <<readerVars, gcVars>>,
         res \in {"refused", "lag"} /\ Sent("commit") # {} => Dead
  PROVE  TwoPhaseInv'
<1>1. /\ TypeOK /\ TikvTypeOK /\ CommitterTypeOK /\ ModeInv /\ StoreInv /\ MsgInv /\ ClientInv
  BY DEF TwoPhaseInv, TypeOK
<1>2. /\ UNCHANGED <<regionOf, lockTable, conflict, maxTs, msgs, clock, mode, status, calls>>
      /\ UNCHANGED <<replied, minReply, onePcReply, commitTs, acked>>
      /\ cpc' = "returned" /\ result' = res
  BY DEF Fail, Return, tikvVars
<1>3. StoreStep
  BY <1>1, <1>2, SameStore DEF ModeInv
<1>4. CommitterTypeOK' /\ msgs \subseteq Requests /\ clock \in Nat
  BY <1>1, <1>2 DEF CommitterTypeOK, Results, TikvTypeOK
<1>5. /\ MsgInv'
      /\ Sent("commit")' = Sent("commit") /\ Sent("rollback")' = Sent("rollback")
  BY <1>1, <1>2, <1>3, <1>4, MsgFrame, SMTT(20)
<1>6. ClientInv'
  BY <1>1, <1>2, <1>5 DEF ClientInv, lockTable, Dead
<1> QED
  BY <1>2, <1>3, <1>4, <1>5, <1>6, ClientStepInv, SMTT(20)

\* A call of commit(), the first or a retry, keeps the invariant.
LEMMA CallCommitInv ==
  ASSUME CallsAfterVerdict, TwoPhaseInv, CallCommit, UNCHANGED <<readerVars, gcVars>>
  PROVE  TwoPhaseInv'
<1>1. /\ TypeOK /\ TikvTypeOK /\ CommitterTypeOK /\ ModeInv /\ StoreInv /\ MsgInv /\ ClientInv
  BY DEF TwoPhaseInv, TypeOK
<1>2. /\ UNCHANGED <<regionOf, lockTable, conflict, maxTs, clock, mode, result, commitTs, acked>>
      /\ status \in {"Active", "StartedCommit"} /\ status' = "StartedCommit" /\ cpc' = "prewrite"
      /\ replied' = {} /\ minReply' = 0 /\ onePcReply' = 0 /\ calls' = calls + 1
      /\ cpc = "idle" \/ (cpc = "returned" /\ result \in {"refused", "lag"})
  BY DEF CallCommit, CallsAfterVerdict
<1>3. StoreStep
  BY <1>1, <1>2, SameStore DEF ModeInv
<1>4. /\ msgs \subseteq msgs'
      /\ \A m \in msgs' \ msgs : m \in Requests /\ m.type = "prewrite" /\ m.mode = "2pc"
  BY <1>1, PrewriteShardType DEF CallCommit
<1>5. msgs' \subseteq Requests /\ clock \in Nat /\ CommitterTypeOK'
  BY <1>1, <1>2, <1>4, SMTT(20) DEF TikvTypeOK, CommitterTypeOK, Statuses
<1>6. /\ MsgInv'
      /\ Sent("commit")' = Sent("commit") /\ Sent("rollback")' = Sent("rollback")
  BY <1>1, <1>2, <1>3, <1>4, <1>5, MsgFrame, SMTT(20)
<1>7. ClientInv'
  <2>1. write' = write /\ (Sent("commit") # {} => Dead)
    BY <1>1, <1>2 DEF lockTable, ClientInv
  <2>2. Sent("rollback") = {}
    BY <1>1, <1>2 DEF ClientInv
  <2> QED
    BY <1>1, <1>2, <1>6, <2>1, <2>2 DEF ClientInv, Dead
<1>8. UNCHANGED <<minReply, onePcReply>>
  BY <1>1, <1>2 DEF ModeInv
<1> QED
  BY <1>2, <1>3, <1>4, <1>5, <1>6, <1>7, <1>8, ClientStepInv, SMTT(20)

\* The maximum that prewrite takes over timestamps that are all 0.
LEMMA MaxZero == Max({0, 0}) = 0
BY SMTT(20) DEF Max

\* The answer of a prewritten region keeps the invariant.
LEMMA PrewriteOkInv ==
  ASSUME TwoPhaseInv, NEW r \in ShardRegions, PrewriteOk(r), UNCHANGED <<readerVars, gcVars>>
  PROVE  TwoPhaseInv'
<1>1. /\ TypeOK /\ TikvTypeOK /\ CommitterTypeOK /\ ModeInv /\ StoreInv /\ MsgInv /\ ClientInv
  BY DEF TwoPhaseInv, TypeOK
<1>2. /\ UNCHANGED <<msgs, clock, mode, status, cpc, result, calls, commitTs, acked>>
      /\ cpc = "prewrite" /\ replied' = replied \cup {r}
      /\ Prewrite(Shard(r), "2pc")
  BY <1>1, PrewriteShardType DEF PrewriteOk
<1>3. /\ StoreStep
      /\ \A k \in Shard(r) \cap CommitKeys : Secured(k)'
      /\ Primary \in Shard(r) => ~Dead
  BY <1>1, <1>2, RegionFacts, PrewriteStore DEF ModeInv
<1>4. UNCHANGED <<conflict, maxTs>>
  BY <1>2 DEF Prewrite
<1>5. UNCHANGED <<minReply, onePcReply>>
  <2>1. /\ MinCommitReply(PrewriteShard(r).keys, PrewriteShard(r).mode) = 0
        /\ OnePcReply(PrewriteShard(r).keys, PrewriteShard(r).mode) = 0
    BY <1>1, PrewriteShardType DEF MinCommitReply, OnePcReply
  <2> QED
    BY <1>1, <2>1, MaxZero DEF PrewriteOk, ModeInv
<1>6. msgs' \subseteq Requests /\ clock \in Nat /\ CommitterTypeOK'
  BY <1>1, <1>2, <1>5, RegionFacts DEF TikvTypeOK, CommitterTypeOK
<1>7. /\ MsgInv'
      /\ Sent("commit")' = Sent("commit") /\ Sent("rollback")' = Sent("rollback")
  <2>1. clock' \in Nat /\ clock <= clock'
    BY <1>2, <1>6, SMTT(20)
  <2>2. msgs \subseteq msgs' /\ msgs' \ msgs = {}
    BY <1>2
  <2> QED
    BY <1>1, <1>3, <1>6, <2>1, <2>2, MsgFrame
<1>8. ClientInv'
  <2>1. \A s \in replied' : \A k \in CommitShard(s)' : Secured(k)'
    <3>1. \A s : CommitShard(s)' = CommitShard(s)
      BY <1>3 DEF StoreStep, CommitShard
    <3>2. \A s \in replied : \A k \in CommitShard(s) : Secured(k)'
      BY <1>1, <1>2, <1>3, RegionFacts DEF ClientInv, StoreStep
    <3> QED
      BY <1>1, <1>2, <1>3, <3>1, <3>2, RegionFacts
  <2>2. Sent("commit") # {} => Dead' /\ regionOf'[Primary] \notin replied'
    <3>1. Sent("commit") # {} => Dead /\ regionOf[Primary] \notin replied
      BY <1>1, <1>2 DEF ClientInv
    <3>2. Dead => Dead' /\ r # regionOf[Primary]
      BY <1>1, <1>3, RegionFacts, SMTT(20) DEF StoreStep, Dead, Rollback, NoWrite, Shard
    <3> QED
      BY <1>2, <1>3, <3>1, <3>2 DEF StoreStep
  <2>3. acked > 0 => write'[Primary] = acked
    BY <1>1, <1>3, AckedFrame DEF CommitterTypeOK
  <2> QED
    BY <1>1, <1>2, <1>7, <2>1, <2>2, <2>3 DEF ClientInv
<1> QED
  BY <1>2, <1>3, <1>4, <1>5, <1>6, <1>7, <1>8, ClientStepInv, SMTT(20)

\* The end of the prewrite phase keeps the invariant.
LEMMA PrewriteDoneInv ==
  ASSUME TwoPhaseInv, PrewriteDone, UNCHANGED <<readerVars, gcVars>>
  PROVE  TwoPhaseInv'
<1>1. /\ TypeOK /\ TikvTypeOK /\ CommitterTypeOK /\ ModeInv /\ StoreInv /\ MsgInv /\ ClientInv
  BY DEF TwoPhaseInv, TypeOK
<1>2. /\ UNCHANGED <<regionOf, lockTable, conflict, maxTs, clock, mode, calls, replied>>
      /\ UNCHANGED <<minReply, onePcReply, msgs, status, result, commitTs, acked>>
      /\ cpc = "prewrite" /\ replied = ShardRegions /\ cpc' = "getTs"
  BY <1>1, SMTT(20) DEF PrewriteDone, ModeInv
<1>3. StoreStep
  BY <1>1, <1>2, SameStore DEF ModeInv
<1>4. msgs' \subseteq Requests /\ clock \in Nat /\ CommitterTypeOK'
  BY <1>1, <1>2 DEF TikvTypeOK, CommitterTypeOK
<1>5. /\ MsgInv'
      /\ Sent("commit")' = Sent("commit") /\ Sent("rollback")' = Sent("rollback")
  <2>1. clock' \in Nat /\ clock <= clock'
    BY <1>2, <1>4, SMTT(20)
  <2>2. msgs \subseteq msgs' /\ msgs' \ msgs = {}
    BY <1>2
  <2> QED
    BY <1>1, <1>3, <1>4, <2>1, <2>2, MsgFrame
<1>6. ClientInv'
  <2>1. Sent("commit") = {}
    BY <1>1, <1>2, RegionFacts DEF ClientInv
  <2>2. ShardRegions' = ShardRegions
    BY <1>2 DEF ShardRegions
  <2>3. \A s \in replied : \A k \in CommitShard(s) : Secured(k)'
    BY <1>1, <1>2, <1>3, RegionFacts DEF ClientInv, StoreStep
  <2>4. \A s : CommitShard(s)' = CommitShard(s)
    BY <1>2 DEF CommitShard
  <2> QED
    BY <1>1, <1>2, <1>5, <2>1, <2>2, <2>3, <2>4 DEF ClientInv, lockTable
<1> QED
  BY <1>2, <1>3, <1>4, <1>5, <1>6, ClientStepInv, SMTT(20)

\* Taking the commit timestamp and sending the primary's Commit keeps the
\* invariant: it is later than every read so far and the only one sent, since a
\* retry gets this far only if no Commit was sent before.
LEMMA FetchCommitTsInv ==
  ASSUME TwoPhaseInv, FetchCommitTs, UNCHANGED <<readerVars, gcVars>>
  PROVE  TwoPhaseInv'
<1>1. /\ TypeOK /\ TikvTypeOK /\ CommitterTypeOK /\ ModeInv /\ StoreInv /\ MsgInv /\ ClientInv
      /\ ReaderInv
  BY DEF TwoPhaseInv, TypeOK
<1>2. /\ UNCHANGED <<regionOf, lockTable, conflict, maxTs, mode, status, result, calls>>
      /\ UNCHANGED <<replied, minReply, onePcReply, acked>>
      /\ cpc = "getTs" /\ cpc' = "commit" /\ commitTs' = clock + 1 /\ clock' = clock + 1
  BY DEF FetchCommitTs
<1>3. StoreStep
  BY <1>1, <1>2, SameStore DEF ModeInv
<1>4. clock \in Nat /\ StartTs <= clock
  BY <1>1 DEF CommitterTypeOK, ReaderInv
<1>5. PICK ts \in Nat : ts = clock + 1
  BY <1>4, SMTT(20)
<1>6. clock' = ts /\ commitTs' = ts /\ StartTs < ts /\ clock < ts
  BY <1>2, <1>4, <1>5, SMTT(20) DEF StartTs
<1>7. clock' \in Nat /\ clock <= clock'
  BY <1>4, <1>6, SMTT(20)
<1> DEFINE new == Request("commit", {Primary}, ts, "")
<1>8. /\ msgs' = msgs \cup {new} /\ new \in Requests
      /\ new.type = "commit" /\ new.ts = ts /\ new.keys = {Primary}
      /\ Request("commit", {Primary}, commitTs', "") = new
  <2>1. msgs' = msgs \cup {new}
    BY <1>5 DEF FetchCommitTs
  <2>2. /\ new \in Requests /\ new.type = "commit" /\ new.ts = ts /\ new.keys = {Primary}
    BY DEF Request, Requests, CommitKeys
  <2> QED
    BY <1>6, <2>1, <2>2
<1> HIDE DEF new
<1>9. msgs \subseteq msgs' /\ msgs' \subseteq Requests /\ CommitterTypeOK'
  <2>1. msgs \subseteq Requests
    BY <1>1 DEF TikvTypeOK
  <2>2. CommitterTypeOK'
    BY <1>1, <1>2, <1>6 DEF CommitterTypeOK
  <2> QED
    BY <1>8, <2>1, <2>2
<1>10. Sent("commit") = {} /\ replied = ShardRegions /\ Sent("rollback") = {}
  BY <1>1, <1>2 DEF ClientInv
<1>11. /\ Sent("commit")' = {new} /\ Sent("rollback")' = {}
       /\ Sent("resolve")' = Sent("resolve")
  BY <1>8, <1>10 DEF Sent
<1>12. MsgInv'
  <2>1. \A k \in CommitKeys : Secured(k)'
    <3>1. \A s \in ShardRegions : \A k \in CommitShard(s) : Secured(k)
      BY <1>1, <1>2, <1>10 DEF ClientInv
    <3>2. \A k \in CommitKeys : regionOf[k] \in ShardRegions /\ k \in CommitShard(regionOf[k])
      BY <1>1, RegionFacts
    <3>3. \A k \in CommitKeys : Secured(k) => Secured(k)'
      BY <1>3 DEF StoreStep
    <3> QED
      BY <3>1, <3>2, <3>3
  <2>2. write' = write /\ \A m \in Sent("resolve") : m.ts = write[Primary]
    BY <1>1, <1>2 DEF lockTable, MsgInv
  <2>3. StartTs < ts /\ ts <= clock'
    BY <1>6, SMTT(20)
  <2>4. new.ts = ts /\ new.keys = {Primary}
    BY <1>8
  <2> QED
    BY <1>11, <2>1, <2>2, <2>3, <2>4 DEF MsgInv
<1>13. ClientInv'
  <2>1. Request("commit", {Primary}, commitTs', "") \in msgs'
    BY <1>8
  <2>2. /\ status = "StartedCommit"
        /\ acked > 0 => write'[Primary] = acked
    BY <1>1, <1>2 DEF ClientInv, lockTable
  <2> QED
    BY <1>2, <1>11, <2>1, <2>2 DEF ClientInv, Request
<1>14. \A m \in msgs' \ msgs : m.type = "commit" /\ m.ts > clock
  BY <1>6, <1>8
<1> QED
  BY <1>2, <1>3, <1>9, <1>12, <1>13, <1>14, <1>7, ClientStepInv

\* The committed primary and the Commits of the secondaries keep the invariant.
LEMMA CommitPrimaryOkInv ==
  ASSUME TwoPhaseInv, CommitPrimaryOk, UNCHANGED <<readerVars, gcVars>>
  PROVE  TwoPhaseInv'
<1>1. /\ TypeOK /\ TikvTypeOK /\ CommitterTypeOK /\ ModeInv /\ StoreInv /\ MsgInv /\ ClientInv
  BY DEF TwoPhaseInv, TypeOK
<1> DEFINE old == Request("commit", {Primary}, commitTs, "")
<1>2. /\ UNCHANGED <<clock, mode, calls, replied, minReply, onePcReply>>
      /\ cpc = "commit" /\ cpc' = "returned" /\ result' = "ok"
      /\ status' = "Committed" /\ acked' = commitTs /\ commitTs' = commitTs
      /\ Commit({Primary}, commitTs)
  BY DEF CommitPrimaryOk, Succeed, Return
<1>3. /\ old \in Sent("commit") /\ old.keys = {Primary} /\ old.ts = commitTs /\ commitTs \in Nat
  BY <1>1, <1>2 DEF ClientInv, Sent, Request, CommitterTypeOK
<1>4. StartTs < commitTs /\ commitTs <= clock /\ clock \in Nat
  BY <1>1, <1>3 DEF MsgInv, CommitterTypeOK
<1>5. StoreStep
  BY <1>1, <1>2, <1>3, CommitStore DEF ModeInv
<1>6. write'[Primary] = commitTs
  <2>1. CASE Primary \in locked
    BY <1>1, <1>2, <2>1 DEF Commit, Settle, CommitKeys
  <2>2. CASE Primary \notin locked
    <3>1. write[Primary] > 0
      BY <1>2, <2>2 DEF Commit, MayCommit
    <3>2. write[Primary] = commitTs
      BY <1>1, <1>3, <3>1 DEF StoreInv, MsgInv
    <3> QED
      BY <1>5, <3>1, <3>2, SMTT(20) DEF StoreStep, NoWrite, CommitKeys
  <2> QED
    BY <2>1, <2>2
<1>7. UNCHANGED <<conflict, maxTs>>
  BY <1>2 DEF Commit, Settle
<1> DEFINE ks == CommitKeys \ {Primary}
<1> DEFINE new(r) == Request("commit", ks \cap CommitShard(r), commitTs, "")
<1>8. /\ msgs \subseteq msgs'
      /\ \A m \in msgs' \ msgs : \E r \in Regions : m = new(r)
  BY <1>1, RegionFacts DEF CommitPrimaryOk, Succeed
<1>9. \A r : /\ new(r) \in Requests /\ new(r).type = "commit" /\ new(r).ts = commitTs
             /\ Primary \notin new(r).keys
  BY <1>3 DEF Request, Requests, CommitKeys, CommitShard
<1>10. \A m \in msgs' \ msgs : /\ m \in Requests /\ m.type = "commit" /\ m.ts = commitTs
                               /\ Primary \notin m.keys
  BY <1>8, <1>9
<1> HIDE DEF old, new, ks
<1>11. msgs' \subseteq Requests /\ CommitterTypeOK'
  BY <1>1, <1>2, <1>3, <1>8, <1>10 DEF TikvTypeOK, CommitterTypeOK, Statuses, Results
<1>12. /\ Sent("rollback")' = Sent("rollback") /\ Sent("resolve")' = Sent("resolve")
       /\ Sent("commit") \subseteq Sent("commit")'
       /\ Sent("rollback") = {}
       /\ \A m \in Sent("commit")' \ Sent("commit") : m.ts = commitTs /\ Primary \notin m.keys
  <2>1. Sent("rollback") = {}
    BY <1>1, <1>2 DEF ClientInv
  <2> QED
    BY <1>8, <1>10, <2>1 DEF Sent
<1>13. \A m \in Sent("commit") : m.ts = commitTs
  BY <1>1, <1>3 DEF MsgInv
<1>14. MsgInv'
  <2>1. \A m \in Sent("commit")' :
           m.keys = {Primary} \/ (Primary \notin m.keys /\ write'[Primary] = m.ts)
    BY <1>1, <1>6, <1>12, <1>13 DEF MsgInv
  <2>2. \A m \in Sent("commit")' : m.ts = commitTs
    BY <1>12, <1>13
  <2>3. \A k \in CommitKeys : Secured(k)'
    BY <1>1, <1>3, <1>5 DEF MsgInv, StoreStep
  <2>4. \A m \in Sent("resolve") : m.ts = write'[Primary]
    <3>1. \A m \in Sent("resolve") : m.ts = write[Primary] /\ m.ts \in Nat
      BY <1>1 DEF MsgInv, TikvTypeOK, Sent, Requests
    <3>2. write[Primary] # NoWrite => write'[Primary] = write[Primary]
      BY <1>5 DEF StoreStep, CommitKeys
    <3> QED
      BY <3>1, <3>2, SMTT(20) DEF NoWrite
  <2> QED
    BY <1>2, <1>4, <1>12, <2>1, <2>2, <2>3, <2>4 DEF MsgInv
<1>15. ClientInv'
  BY <1>2, <1>6, <1>12 DEF ClientInv
<1>16. \A m \in msgs' \ msgs : m.type = "commit" /\ \E n \in Sent("commit") : n.ts = m.ts
  BY <1>3, <1>10
<1> QED
  BY <1>2, <1>4, <1>5, <1>7, <1>8, <1>11, <1>14, <1>15, <1>16, ClientStepInv, SMTT(20)

----------------------------------------------------------------------------
(* The error paths of commit(), and rollback()                             *)

\* A refused Commit of the primary keeps the invariant: the primary was rolled
\* back by a resolver, so the refusal is final.
LEMMA CommitPrimaryRefusedInv ==
  ASSUME TwoPhaseInv, CommitPrimaryRefused, UNCHANGED <<readerVars, gcVars>>
  PROVE  TwoPhaseInv'
<1>1. /\ TypeOK /\ TikvTypeOK /\ CommitterTypeOK /\ StoreInv /\ MsgInv /\ ClientInv
  BY DEF TwoPhaseInv, TypeOK
<1>2. cpc = "commit" /\ ~MayCommit({Primary}, commitTs) /\ Fail("refused")
  BY DEF CommitPrimaryRefused
<1> DEFINE old == Request("commit", {Primary}, commitTs, "")
<1>3. old \in Sent("commit") /\ old.ts = commitTs
  BY <1>1, <1>2 DEF ClientInv, Sent, Request
<1>4. StartTs < commitTs /\ commitTs \in Nat
  BY <1>1, <1>3 DEF MsgInv, CommitterTypeOK
<1>5. Primary \in CommitKeys /\ Secured(Primary)
  BY <1>1, <1>3 DEF MsgInv, CommitKeys
<1>6. Primary \notin locked
  BY <1>1, <1>2, <1>4, SMTT(20) DEF MayCommit, StoreInv, StartTs
<1>7. Dead
  <2>1. write[Primary] \in Nat \cup {NoWrite} /\ write[Primary] # NoWrite /\ ~(write[Primary] > 0)
    BY <1>1, <1>2, <1>5, <1>6 DEF Secured, MayCommit, TikvTypeOK, CommitKeys
  <2> QED
    BY <2>1, SMTT(20) DEF Dead, Rollback
<1> QED
  BY <1>2, <1>7, FailInv DEF Errors

\* The error paths of commit() and rollback() keep the invariant.
LEMMA FailuresInv ==
  ASSUME TwoPhaseInv, UNCHANGED <<readerVars, gcVars>>,
         \/ \E r \in ShardRegions : PrewriteRefused(r)
         \/ PrewriteFailed \/ FetchCommitTsFailed \/ CommitPrimaryFailed \/ RollbackFailed
  PROVE  TwoPhaseInv'
<1>1. MsgInv /\ ClientInv
  BY DEF TwoPhaseInv
<1>2. CASE \E r \in ShardRegions : PrewriteRefused(r)
  <2>1. cpc = "prewrite" /\ Fail("refused")
    BY <1>2 DEF PrewriteRefused
  <2>2. Sent("commit") # {} => Dead
    BY <1>1, <2>1 DEF ClientInv
  <2> QED
    BY <2>1, <2>2, FailInv DEF Errors
<1>3. CASE PrewriteFailed
  BY <1>3, FailInv DEF PrewriteFailed, Errors
<1>4. CASE FetchCommitTsFailed
  <2>1. cpc = "getTs" /\ Fail("lag") /\ Sent("commit") = {}
    BY <1>1, <1>4 DEF FetchCommitTsFailed, ClientInv
  <2> QED
    BY <2>1, FailInv DEF Errors
<1>5. CASE CommitPrimaryFailed
  <2>1. cpc = "commit" /\ (Fail("failed") \/ Fail("undetermined"))
    BY <1>5 DEF CommitPrimaryFailed
  <2> QED
    BY <2>1, FailInv DEF Errors
<1>6. CASE RollbackFailed
  <2>1. PICK res \in {"failed", "refused"} : cpc = "rollback" /\ Fail(res)
    BY <1>6 DEF RollbackFailed
  <2>2. Sent("commit") # {} => Dead
    BY <1>1, <2>1 DEF ClientInv, MsgInv
  <2> QED
    BY <2>1, <2>2, FailInv DEF Errors
<1> QED
  BY <1>2, <1>3, <1>4, <1>5, <1>6

\* A call of rollback() keeps the invariant: no Commit sent before it can
\* still take effect.
LEMMA CallRollbackInv ==
  ASSUME CallsAfterVerdict, TwoPhaseInv, CallRollback, UNCHANGED <<readerVars, gcVars>>
  PROVE  TwoPhaseInv'
<1>1. /\ TypeOK /\ TikvTypeOK /\ CommitterTypeOK /\ ModeInv /\ StoreInv /\ MsgInv /\ ClientInv
  BY DEF TwoPhaseInv, TypeOK
<1>2. /\ UNCHANGED <<regionOf, lockTable, conflict, maxTs, clock, mode, result, minReply>>
      /\ UNCHANGED <<onePcReply, commitTs, acked>>
      /\ status' = "StartedRollback" /\ cpc' = "rollback" /\ replied' = {} /\ calls' = calls + 1
      /\ \/ cpc = "idle"
         \/ cpc = "returned" /\ (result \in {"refused", "lag"} \/ status = "StartedRollback")
  BY DEF CallRollback, CallsAfterVerdict
<1>3. StoreStep
  BY <1>1, <1>2, SameStore DEF ModeInv
<1> DEFINE new(r) == Request("rollback", CommitShard(r), 0, "")
<1>4. \A r : /\ new(r) \in Requests /\ new(r).type = "rollback"
             /\ new(r).keys \subseteq CommitKeys
  BY DEF Request, Requests, CommitKeys, CommitShard
<1>5. msgs' = msgs \cup {new(r) : r \in CommitRegions}
  BY DEF CallRollback
<1>6. new(regionOf[Primary]) \in msgs'
  BY <1>1, <1>5, RegionFacts
<1>7. /\ msgs \subseteq msgs'
      /\ \A m \in msgs' \ msgs : /\ m \in Requests /\ m.type = "rollback"
                                 /\ m.keys \subseteq CommitKeys
  BY <1>4, <1>5
<1>8. Sent("rollback")' # {}
  BY <1>4, <1>6 DEF Sent
<1> HIDE DEF new
<1>9. msgs' \subseteq Requests /\ clock \in Nat /\ CommitterTypeOK'
  <2>1. CommitterTypeOK' /\ clock \in Nat
    BY <1>1, <1>2, SMTT(20) DEF CommitterTypeOK, Statuses
  <2> QED
    BY <1>1, <1>7, <2>1 DEF TikvTypeOK
<1>10. Sent("commit")' = Sent("commit") /\ Sent("resolve")' = Sent("resolve")
  BY <1>7 DEF Sent
<1>11. Sent("commit") # {} => Dead
  <2>1. CASE cpc = "idle"
    BY <1>1, <2>1 DEF ClientInv
  <2>2. CASE cpc = "returned" /\ result \in {"refused", "lag"}
    BY <1>1, <2>2 DEF ClientInv
  <2>3. CASE status = "StartedRollback"
    BY <1>1, <2>3 DEF ClientInv, MsgInv
  <2> QED
    BY <1>2, <2>1, <2>2, <2>3
<1>12. write' = write /\ locked' = locked
  BY <1>2 DEF lockTable
<1>13. MsgInv'
  <2>1. \A m \in Sent("rollback")' : m.keys \subseteq CommitKeys
    BY <1>1, <1>7 DEF MsgInv, Sent
  <2>2. clock' = clock
    BY <1>2
  <2> QED
    BY <1>1, <1>10, <1>11, <1>12, <2>1, <2>2 DEF MsgInv, Dead, Secured
<1>14. ClientInv'
  BY <1>1, <1>2, <1>8, <1>12 DEF ClientInv
<1> QED
  BY <1>2, <1>3, <1>7, <1>9, <1>13, <1>14, ClientStepInv, SMTT(20)

\* The answer of a rolled back region keeps the invariant.
LEMMA RollbackOkInv ==
  ASSUME TwoPhaseInv, NEW r \in CommitRegions, RollbackOk(r), UNCHANGED <<readerVars, gcVars>>
  PROVE  TwoPhaseInv'
<1>1. /\ TypeOK /\ TikvTypeOK /\ CommitterTypeOK /\ ModeInv /\ StoreInv /\ MsgInv /\ ClientInv
  BY DEF TwoPhaseInv, TypeOK
<1>2. /\ UNCHANGED <<msgs, clock, mode, status, cpc, result, calls, minReply, onePcReply>>
      /\ UNCHANGED <<commitTs, acked>>
      /\ cpc = "rollback" /\ replied' = replied \cup {r} /\ BatchRollback(CommitShard(r))
  BY DEF RollbackOk
<1>3. status = "StartedRollback" /\ Sent("rollback") # {}
  BY <1>1, <1>2 DEF ClientInv
<1>4. StoreStep
  BY <1>1, <1>2, <1>3, RegionFacts, RollbackStore DEF ModeInv
<1>5. UNCHANGED <<conflict, maxTs>>
  BY <1>2 DEF BatchRollback, Settle
<1>6. msgs' \subseteq Requests /\ clock \in Nat /\ CommitterTypeOK'
  <2>1. r \in Regions
    BY <1>1, RegionFacts
  <2> QED
    BY <1>1, <1>2, <2>1 DEF TikvTypeOK, CommitterTypeOK
<1>7. /\ MsgInv'
      /\ Sent("commit")' = Sent("commit") /\ Sent("rollback")' = Sent("rollback")
  <2>1. clock' \in Nat /\ clock <= clock' /\ msgs' = msgs
    BY <1>2, <1>6, SMTT(20)
  <2> QED
    BY <1>1, <1>4, <1>6, <2>1, MsgFrame
<1>8. ClientInv'
  <2>1. \A s : CommitShard(s)' = CommitShard(s)
    BY <1>4 DEF StoreStep, CommitShard
  <2>2. \A k \in CommitShard(r) : write'[k] = Rollback
    <3>1. CommitShard(r) \subseteq Keys
      BY <1>1, RegionFacts
    <3>2. write' = [k \in Keys |-> IF k \in CommitShard(r) THEN Rollback ELSE write[k]]
      BY <1>2 DEF BatchRollback, Settle
    <3> QED
      BY <3>1, <3>2
  <2>3. \A s \in replied : \A k \in CommitShard(s) : write'[k] = Rollback
    <3>1. \A s \in replied : \A k \in CommitShard(s) : write[k] = Rollback
      BY <1>1, <1>2 DEF ClientInv
    <3>2. \A s : CommitShard(s) \subseteq CommitKeys
      BY DEF CommitShard
    <3> QED
      BY <1>4, <3>1, <3>2, SMTT(20) DEF StoreStep, Rollback, NoWrite
  <2>4. acked > 0 => write'[Primary] = acked
    BY <1>1, <1>4, AckedFrame DEF CommitterTypeOK
  <2> QED
    BY <1>2, <1>3, <1>7, <2>1, <2>2, <2>3, <2>4 DEF ClientInv
<1> QED
  BY <1>2, <1>4, <1>5, <1>6, <1>7, <1>8, ClientStepInv, SMTT(20)

\* The end of rollback() keeps the invariant.
LEMMA RollbackDoneInv ==
  ASSUME TwoPhaseInv, RollbackDone, UNCHANGED <<readerVars, gcVars>>
  PROVE  TwoPhaseInv'
<1>1. /\ TypeOK /\ TikvTypeOK /\ CommitterTypeOK /\ ModeInv /\ StoreInv /\ MsgInv /\ ClientInv
  BY DEF TwoPhaseInv, TypeOK
<1>2. /\ UNCHANGED <<regionOf, lockTable, conflict, maxTs, msgs, clock, mode, calls, replied>>
      /\ UNCHANGED <<minReply, onePcReply, commitTs, acked>>
      /\ cpc = "rollback" /\ replied = CommitRegions
      /\ cpc' = "returned" /\ result' = "rolledback" /\ status' = "Rolledback"
  BY DEF RollbackDone, Return, tikvVars
<1>3. StoreStep
  BY <1>1, <1>2, SameStore DEF ModeInv
<1>4. msgs' \subseteq Requests /\ clock \in Nat /\ CommitterTypeOK'
  BY <1>1, <1>2 DEF TikvTypeOK, CommitterTypeOK, Statuses, Results
<1>5. /\ MsgInv'
      /\ Sent("commit")' = Sent("commit") /\ Sent("rollback")' = Sent("rollback")
  BY <1>1, <1>2, <1>3, <1>4, MsgFrame, SMTT(20)
<1>6. ClientInv'
  <2>1. \A k \in CommitKeys : write'[k] = Rollback
    BY <1>1, <1>2, RegionFacts DEF ClientInv, lockTable
  <2>2. acked > 0 => write'[Primary] = acked
    BY <1>1, <1>2 DEF ClientInv, lockTable
  <2> QED
    BY <1>2, <2>1, <2>2 DEF ClientInv
<1> QED
  BY <1>2, <1>3, <1>4, <1>5, <1>6, ClientStepInv, SMTT(20)

\* Dropping the transaction keeps the invariant.
LEMMA DropInv ==
  ASSUME TwoPhaseInv, Drop, UNCHANGED <<readerVars, gcVars>>
  PROVE  TwoPhaseInv'
<1>1. /\ TypeOK /\ TikvTypeOK /\ CommitterTypeOK /\ ModeInv /\ StoreInv /\ MsgInv /\ ClientInv
  BY DEF TwoPhaseInv, TypeOK
<1>2. /\ UNCHANGED <<regionOf, lockTable, conflict, maxTs, msgs, clock, mode, result, calls>>
      /\ UNCHANGED <<replied, minReply, onePcReply, commitTs, acked>>
      /\ cpc' = "gone" /\ status' = "Dropped"
  BY DEF Drop, tikvVars
<1>3. StoreStep
  BY <1>1, <1>2, SameStore DEF ModeInv
<1>4. msgs' \subseteq Requests /\ clock \in Nat /\ CommitterTypeOK'
  BY <1>1, <1>2 DEF TikvTypeOK, CommitterTypeOK, Statuses
<1>5. /\ MsgInv'
      /\ Sent("commit")' = Sent("commit") /\ Sent("rollback")' = Sent("rollback")
  BY <1>1, <1>2, <1>3, <1>4, MsgFrame, SMTT(20)
<1>6. ClientInv'
  BY <1>1, <1>2 DEF ClientInv, lockTable
<1> QED
  BY <1>2, <1>3, <1>4, <1>5, <1>6, ClientStepInv, SMTT(20)

----------------------------------------------------------------------------
(* Every step, and the theorems                                            *)

\* A step of the committer keeps the invariant.
LEMMA CommitterInv ==
  ASSUME CallsAfterVerdict, TwoPhaseInv, CommitterStep, UNCHANGED <<readerVars, gcVars>>
  PROVE  TwoPhaseInv'
<1>1. CASE \E r \in ShardRegions : PrewriteOk(r)
  BY <1>1, PrewriteOkInv
<1>2. CASE \E r \in CommitRegions : RollbackOk(r)
  BY <1>2, RollbackOkInv
<1>3. CASE \/ \E r \in ShardRegions : PrewriteRefused(r)
           \/ PrewriteFailed \/ FetchCommitTsFailed \/ CommitPrimaryFailed \/ RollbackFailed
  BY <1>3, FailuresInv
<1>4. CASE CallCommit \/ PrewriteDone \/ FetchCommitTs
  BY <1>4, CallCommitInv, PrewriteDoneInv, FetchCommitTsInv
<1>5. CASE CommitPrimaryOk \/ CommitPrimaryRefused
  BY <1>5, CommitPrimaryOkInv, CommitPrimaryRefusedInv
<1>6. CASE CallRollback \/ RollbackDone \/ Drop
  BY <1>6, CallRollbackInv, RollbackDoneInv, DropInv
<1> QED
  BY <1>1, <1>2, <1>3, <1>4, <1>5, <1>6 DEF CommitterStep

\* A step of the garbage collector keeps the invariant; without async commit
\* locks it never asks for the secondaries.
LEMMA GcStepInv ==
  ASSUME TwoPhaseInv, NEW r \in Regions, GcStep(r), UNCHANGED <<clock, clientVars>>
  PROVE  TwoPhaseInv'
<1>1. gpc[r] # "secondaries"
  BY DEF TwoPhaseInv, ModeInv
<1>2. ~GcDecide(r) /\ \A s : ~GcSecondary(r, s)
  BY <1>1 DEF GcDecide, GcSecondary
<1> QED
  BY <1>2, GcScanInv, GcCachedInv, GcStatusInv, GcResolveInv DEF GcStep

\* A step that changes nothing keeps the invariant.
LEMMA StutterInv ==
  ASSUME TwoPhaseInv, UNCHANGED vars
  PROVE  TwoPhaseInv'
<1>1. /\ TypeOK /\ TikvTypeOK /\ CommitterTypeOK /\ ModeInv /\ StoreInv /\ MsgInv /\ ClientInv
  BY DEF TwoPhaseInv, TypeOK
<1>2. /\ UNCHANGED <<regionOf, lockTable, conflict, maxTs, msgs, clock>>
      /\ UNCHANGED <<clientVars, readerVars, gcVars>>
  BY DEF vars, tikvVars
<1>3. StoreStep
  BY <1>1, <1>2, SameStore DEF ModeInv
<1>4. UNCHANGED <<mode, status, cpc, result, calls, replied, minReply, onePcReply, commitTs, acked>>
  BY <1>2 DEF clientVars
<1>5. msgs' \subseteq Requests /\ clock \in Nat /\ CommitterTypeOK'
  BY <1>1, <1>2, <1>4 DEF TikvTypeOK, CommitterTypeOK
<1>6. MsgInv' /\ Sent("commit")' = Sent("commit") /\ Sent("rollback")' = Sent("rollback")
  BY <1>1, <1>2, <1>3, <1>5, MsgFrame, SMTT(20)
<1>7. acked \in Nat
  BY <1>1 DEF CommitterTypeOK
<1>8. ClientInv'
  BY <1>1, <1>2, <1>3, <1>6, <1>7, ClientFrame
<1> QED
  BY <1>2, <1>3, <1>4, <1>5, <1>6, <1>8, ClientStepInv, SMTT(20)

\* Every step of a plain two-phase commit transaction keeps the invariant.
LEMMA NextInv ==
  ASSUME CallsAfterVerdict, TwoPhaseInv, [Next]_vars
  PROVE  TwoPhaseInv'
<1>1. CASE CommitterStep /\ UNCHANGED <<readerVars, gcVars>>
  BY <1>1, CommitterInv
<1>2. CASE \E i \in Readers : StartRead(i)
  BY <1>2, StartReadInv
<1>3. ASSUME NEW i \in Readers, ReaderStep(i), UNCHANGED <<clock, clientVars>>
      PROVE  TwoPhaseInv'
  BY <1>3, ReadKeyInv, ReadLockedInv, CleanupOkInv, ResolveOkInv DEF ReaderStep
<1>4. CASE \E r \in Regions : GcStep(r) /\ UNCHANGED <<clock, clientVars>>
  BY <1>4, GcStepInv
<1>5. CASE Cluster
  BY <1>5, ClusterInv
<1>6. CASE UNCHANGED vars
  BY <1>6, StutterInv
<1> QED
  BY <1>1, <1>2, <1>3, <1>4, <1>5, <1>6 DEF Next

\* The invariant holds before the transaction has sent anything.
LEMMA InitInv ==
  ASSUME PlainShards, Init
  PROVE  TwoPhaseInv
<1>1. TikvInit /\ CommitterInit /\ ResolverInit
  BY DEF Init
<1>2. TikvTypeOK
  BY <1>1 DEF TikvInit, TikvTypeOK, NoWrite
<1>3. CommitterTypeOK
  BY <1>1, SMTT(20) DEF CommitterInit, CommitterTypeOK, Statuses, Results, StartTs
<1>4. ResolverTypeOK
  BY <1>1 DEF ResolverInit, ResolverTypeOK, CommitKeys, NotCached
<1>5. \A type : Sent(type) = {}
  BY <1>1 DEF TikvInit, Sent
<1>6. ModeInv
  BY <1>1, <1>5, SMTT(20) DEF TikvInit, CommitterInit, ResolverInit, ModeInv, NotCached,
                    CachedLocked
<1>7. StoreInv /\ MsgInv
  BY <1>1, <1>5, SMTT(20) DEF TikvInit, StoreInv, MsgInv, CommitKeys, NoWrite, Rollback
<1>8. ClientInv
  BY <1>1, <1>5, SMTT(20) DEF CommitterInit, ClientInv
<1>9. ReaderInv /\ GcInv
  BY <1>1, SMTT(20) DEF CommitterInit, ResolverInit, ReaderInv, GcInv, StartTs
<1> QED
  BY <1>2, <1>3, <1>4, <1>6, <1>7, <1>8, <1>9 DEF TwoPhaseInv, TypeOK
----------------------------------------------------------------------------
\* The invariant holds in every state of a plain two-phase commit transaction,
\* for any keys, regions, readers, retries and number of messages.
THEOREM TwoPhaseInvariant == TwoPhaseOnly => (Spec => []TwoPhaseInv)
<1> SUFFICES ASSUME TwoPhaseOnly PROVE Spec => []TwoPhaseInv
  OBVIOUS
<1>1. Init => TwoPhaseInv
  <2> SUFFICES ASSUME Init PROVE TwoPhaseInv
    OBVIOUS
  <2>1. mode = "2pc"
    BY DEF Init, CommitterInit, TwoPhaseOnly
  <2>2. PlainShards
    BY <2>1 DEF PlainShards, ShardMode
  <2> QED
    BY <2>2, InitInv
<1>2. TwoPhaseInv /\ [Next]_vars => TwoPhaseInv'
  BY NextInv DEF TwoPhaseOnly
<1> QED
  BY <1>1, <1>2, PTL DEF Spec
----------------------------------------------------------------------------
(* What the invariant says of the records                                 *)

\* The values that the state of a transaction takes.
LEMMA Values ==
  ASSUME TypeOK
  PROVE  /\ \A k \in CommitKeys : write[k] \in Nat \cup {NoWrite} /\ write[k] \in Int
         /\ \A k \in CommitKeys : write[k] \in {NoWrite, Rollback} \/ 0 < write[k]
         /\ acked \in Nat /\ clock \in Nat /\ \A i \in Readers : readTs[i] \in Nat
         /\ Primary \in CommitKeys
<1>1. \A k \in CommitKeys : write[k] \in Nat \cup {NoWrite}
  BY DEF TypeOK, TikvTypeOK, CommitKeys
<1>2. \A k \in CommitKeys : write[k] \in Int /\ (write[k] \in {NoWrite, Rollback} \/ 0 < write[k])
  BY <1>1, SMTT(20) DEF NoWrite, Rollback
<1>3. acked \in Nat /\ clock \in Nat /\ \A i \in Readers : readTs[i] \in Nat
  BY DEF TypeOK, CommitterTypeOK, ResolverTypeOK
<1> QED
  BY <1>1, <1>2, <1>3

\* Plain two-phase commit: a known commit is that of a Commit request, and the
\* primary is committed at it.
LEMMA PlainCommit ==
  ASSUME TwoPhaseInv, NEW t, CommittedAt(t)
  PROVE  /\ write[Primary] = t /\ ~Dead /\ Sent("rollback") = {}
         /\ \E m \in Sent("commit") : m.ts = t
         /\ t \in Nat /\ StartTs < t /\ t <= clock
<1>1. StoreInv /\ MsgInv /\ ClientInv /\ TypeOK
  BY DEF TwoPhaseInv
<1>2. write[Primary] = t /\ write[Primary] > 0
  <2>1. CASE t = acked
    <3>1. acked > 0
      BY <1>1, <2>1, Values, SMTT(20) DEF CommittedAt
    <3> QED
      BY <1>1, <2>1, <3>1 DEF ClientInv
  <2>2. CASE \E k \in CommitKeys : write[k] = t
    <3>1. PICK k \in CommitKeys : write[k] = t
      BY <2>2
    <3>2. write[k] > 0
      BY <1>1, <3>1, Values, SMTT(20) DEF CommittedAt
    <3> QED
      BY <1>1, <3>1, <3>2 DEF StoreInv
  <2> QED
    BY <2>1, <2>2 DEF CommittedAt
<1>3. ~Dead
  BY <1>2, SMTT(20) DEF Dead, Rollback
<1>4. PICK m \in Sent("commit") : m.ts = t
  BY <1>1, <1>2 DEF StoreInv
<1>5. Sent("rollback") = {} /\ StartTs < t /\ t <= clock
  BY <1>1, <1>3, <1>4 DEF MsgInv
<1>6. t \in Nat
  BY <1>1, <1>2, Values, SMTT(20) DEF NoWrite
<1> QED
  BY <1>2, <1>3, <1>4, <1>5, <1>6

\* A committed transaction has every key committed or locked: every key was
\* secured before the first Commit, and no rollback was sent.
LEMMA PlainKeys ==
  ASSUME TwoPhaseInv, NEW t, CommittedAt(t), NEW k \in CommitKeys
  PROVE  write[k] = t \/ (write[k] = NoWrite /\ k \in locked)
<1>1. StoreInv /\ MsgInv /\ TypeOK
  BY DEF TwoPhaseInv
<1>2. write[Primary] = t /\ ~Dead /\ Sent("rollback") = {} /\ Sent("commit") # {}
  BY PlainCommit
<1>3. write[k] # Rollback /\ Secured(k)
  BY <1>1, <1>2 DEF StoreInv, MsgInv
<1>4. CASE write[k] = NoWrite
  BY <1>3, <1>4 DEF Secured
<1>5. CASE write[k] # NoWrite
  <2>1. write[k] > 0
    BY <1>1, <1>3, <1>5, Values, SMTT(20)
  <2> QED
    BY <1>1, <1>2, <2>1 DEF StoreInv
<1> QED
  BY <1>4, <1>5

\* A known commit timestamp, from a record or from the answer.
LEMMA KnownCommit ==
  ASSUME TypeOK
  PROVE  /\ \A k \in CommitKeys : write[k] > 0 => CommittedAt(write[k])
         /\ acked > 0 => CommittedAt(acked)
<1>1. \A k \in CommitKeys : write[k] > 0 => 0 < write[k]
  BY Values, SMTT(20)
<1>2. acked > 0 => 0 < acked
  BY Values, SMTT(20)
<1> QED
  BY <1>1, <1>2 DEF CommittedAt

\* The invariant of plain two-phase commit.
LEMMA PlainRecorded == TwoPhaseInv => Recorded
<1> SUFFICES ASSUME TwoPhaseInv PROVE Recorded
  OBVIOUS
<1>1. StoreInv /\ MsgInv /\ ClientInv /\ ReaderInv /\ TypeOK
  BY DEF TwoPhaseInv
<1>2. Atomicity /\ AckedIsDurable
  BY <1>1, PlainKeys, KnownCommit DEF Atomicity, AckedIsDurable
<1>3. ASSUME NEW i \in Readers, NEW k \in CommitKeys, seen[i][k] = "new"
      PROVE  0 < write[k] /\ write[k] <= readTs[i]
  <2>1. write[k] > 0 /\ write[k] <= readTs[i]
    BY <1>1, <1>3 DEF ReaderInv
  <2> QED
    BY <1>1, <2>1, Values, SMTT(20)
<1>4. ASSUME NEW i \in Readers, NEW k \in CommitKeys, seen[i][k] = "old", NEW t, CommittedAt(t)
      PROVE  readTs[i] < t
  BY <1>1, <1>4, PlainCommit DEF ReaderInv
<1>5. ASSUME NEW i \in Readers, rpc[i] = "read" PROVE 0 < readTs[i]
  <2>1. StartTs < readTs[i]
    BY <1>1, <1>5 DEF ReaderInv
  <2> QED
    BY <1>1, <2>1, Values, SMTT(20) DEF StartTs
<1>6. ASSUME NEW k \in locked, NEW t, CommittedAt(t) PROVE minCommit[k] <= t
  <2>1. minCommit[k] = StartTs + 1 /\ StartTs < t /\ t \in Nat
    BY <1>1, <1>6, PlainCommit DEF StoreInv
  <2> QED
    BY <2>1, SMTT(20) DEF StartTs
<1>7. ASSUME cpc = "commit" PROVE 0 < commitTs
  <2>1. Request("commit", {Primary}, commitTs, "") \in Sent("commit")
    BY <1>1, <1>7 DEF ClientInv, Sent, Request
  <2>2. StartTs < commitTs /\ commitTs \in Nat
    BY <1>1, <2>1 DEF MsgInv, TypeOK, CommitterTypeOK, Request
  <2> QED
    BY <2>2, SMTT(20) DEF StartTs
<1>8. acked <= clock + 1
  <2>1. acked > 0 => acked <= clock
    BY <1>1, KnownCommit, PlainCommit
  <2> QED
    BY <1>1, <2>1, Values, SMTT(20)
<1> QED
  BY <1>1, <1>2, <1>3, <1>4, <1>5, <1>6, <1>7, <1>8 DEF Recorded, ReadsAgree, StoreInv
----------------------------------------------------------------------------
(* Safety                                                                  *)

\* A reader of a recorded transaction sees all of its writes or none.
LEMMA RecordedVisible == Recorded => AtomicVisibility
<1> SUFFICES ASSUME Recorded, NEW i \in Readers, NEW j \in CommitKeys, NEW k \in CommitKeys,
                    seen[i][j] = "old", seen[i][k] = "new"
             PROVE  FALSE
  BY DEF AtomicVisibility
<1>1. 0 < write[k] /\ write[k] <= readTs[i] /\ TypeOK
  BY DEF Recorded, ReadsAgree
<1>2. readTs[i] < write[k]
  BY <1>1 DEF Recorded, ReadsAgree, CommittedAt
<1> QED
  BY <1>1, <1>2, Values, SMTT(20)

\* commit() that reports a key error has committed nothing.
LEMMA PlainRefused == TwoPhaseInv => RefusedIsUncommitted
<1> SUFFICES ASSUME TwoPhaseInv, cpc = "returned", result = "refused",
                    NEW k \in CommitKeys, write[k] > 0
             PROVE  FALSE
  <2>1. TwoPhaseInv => \A k \in CommitKeys : write[k] \in Int
    BY Values DEF TwoPhaseInv
  <2> QED
    BY <2>1, SMTT(20) DEF RefusedIsUncommitted
<1>1. Sent("commit") # {} /\ ~Dead
  BY KnownCommit, PlainCommit DEF TwoPhaseInv
<1> QED
  BY <1>1 DEF TwoPhaseInv, ClientInv

\* rollback() that succeeded leaves neither a lock nor a commit record.
LEMMA PlainRolledBack == TwoPhaseInv => RolledBackIsDiscarded
<1> SUFFICES ASSUME TwoPhaseInv, status = "Rolledback", NEW k \in CommitKeys
             PROVE  write[k] = Rollback /\ k \notin locked
  BY DEF RolledBackIsDiscarded
<1>1. write[k] = Rollback /\ (k \in locked => write[k] = NoWrite)
  BY DEF TwoPhaseInv, ClientInv, StoreInv
<1> QED
  BY <1>1, SMTT(20) DEF Rollback, NoWrite

\* Every variable keeps its type in a plain two-phase commit transaction.
THEOREM TypeCorrect == TwoPhaseOnly => (Spec => []TypeOK)
<1>1. TwoPhaseInv => TypeOK
  BY DEF TwoPhaseInv
<1> QED
  BY <1>1, TwoPhaseInvariant, PTL

\* Atomicity of two-phase commit: once one key is committed, no retry, rollback
\* after a refused commit, resolver or late request can give another key a
\* different outcome.
THEOREM TwoPhaseAtomic == TwoPhaseOnly => (Spec => []Atomicity)
<1>1. TwoPhaseInv => Atomicity
  BY PlainRecorded DEF Recorded
<1> QED
  BY <1>1, TwoPhaseInvariant, PTL

\* A reader of a two-phase commit transaction sees all of its writes or none.
THEOREM TwoPhaseVisible == TwoPhaseOnly => (Spec => []AtomicVisibility)
BY PlainRecorded, RecordedVisible, TwoPhaseInvariant, PTL

\* commit() that returned success in two-phase commit is never undone.
THEOREM TwoPhaseDurable == TwoPhaseOnly => (Spec => []AckedIsDurable)
<1>1. TwoPhaseInv => AckedIsDurable
  BY PlainRecorded DEF Recorded
<1> QED
  BY <1>1, TwoPhaseInvariant, PTL

\* commit() of a two-phase commit transaction that reports a key error has
\* committed nothing.
THEOREM TwoPhaseRefused == TwoPhaseOnly => (Spec => []RefusedIsUncommitted)
BY PlainRefused, TwoPhaseInvariant, PTL

\* rollback() of a two-phase commit transaction that succeeded leaves neither
\* a lock nor a commit record, whatever is still in the network.
THEOREM TwoPhaseRolledBack == TwoPhaseOnly => (Spec => []RolledBackIsDiscarded)
BY PlainRolledBack, TwoPhaseInvariant, PTL
----------------------------------------------------------------------------
(***************************************************************************)
(* The transaction, with its readers, the garbage collector and the        *)
(* cluster, implements AtomicTxn.                                          *)
(*                                                                         *)
(* The records decide: what a key has once been given it keeps, so Outcome *)
(* leaves Undecided once.  That step is Decide, and the step that answers  *)
(* the caller is Decide or Acknowledge; a read that no lock blocks is      *)
(* Observe, because the lock of a key that is not committed yet has a      *)
(* min_commit_ts at or below the commit timestamp.                         *)
(***************************************************************************)

\* A key keeps the record it has.
RecordsStay == \A k \in CommitKeys : write[k] # NoWrite => write'[k] = write[k]

\* Nothing commits the transaction so far.
Open == \A t : ~CommittedAt(t)
----------------------------------------------------------------------------
(* The outcome                                                             *)

\* The largest element of a singleton.
LEMMA MaxOfOne ==
  ASSUME NEW n \in Nat
  PROVE  Max({n}) = n
BY SMTT(20) DEF Max

\* The outcome of a committed transaction is its commit timestamp.
LEMMA OutcomeCommitted ==
  ASSUME Recorded, NEW t, CommittedAt(t)
  PROVE  Outcome = t /\ t \in Nat /\ t # NoWrite
<1> DEFINE committed == {write[k] : k \in CommitKeys} \ {NoWrite, Rollback}
<1>1. TypeOK /\ Atomicity /\ AckedIsDurable
  BY DEF Recorded
<1>2. Outcome = IF committed # {} THEN Max(committed)
                ELSE IF acked > 0 THEN acked
                ELSE IF \E k \in CommitKeys : write[k] = Rollback THEN 0 ELSE NoWrite
  BY DEF Outcome
<1>3. t \in Nat /\ t > 0 /\ t \notin {NoWrite, Rollback}
  <2>1. t \in Int /\ 0 < t
    BY <1>1, Values, SMTT(20) DEF CommittedAt
  <2> QED
    BY <2>1, SMTT(20) DEF NoWrite, Rollback
<1>4. \A k \in CommitKeys : write[k] = t \/ write[k] = NoWrite
  BY <1>1, <1>3 DEF CommittedAt, Atomicity, AckedIsDurable
<1>5. CASE \E k \in CommitKeys : write[k] = t
  <2>1. committed = {t}
    BY <1>3, <1>4, <1>5
  <2>2. Max(committed) = t
    BY <1>3, <2>1, MaxOfOne
  <2> QED
    BY <1>2, <1>3, <2>1, <2>2
<1>6. CASE ~\E k \in CommitKeys : write[k] = t
  <2>1. committed = {} /\ acked = t
    BY <1>4, <1>6 DEF CommittedAt
  <2> QED
    BY <1>2, <1>3, <2>1
<1> QED
  BY <1>5, <1>6

\* The outcome of any other transaction is the tombstones'.
LEMMA OutcomeOpen ==
  ASSUME Recorded, Open
  PROVE  Outcome = IF \E k \in CommitKeys : write[k] = Rollback THEN 0 ELSE NoWrite
<1>1. TypeOK
  BY DEF Recorded
<1>2. ~(acked > 0) /\ \A k \in CommitKeys : write[k] \in {NoWrite, Rollback}
  BY <1>1, KnownCommit, Values DEF Open, CommittedAt
<1>3. {write[k] : k \in CommitKeys} \ {NoWrite, Rollback} = {}
  BY <1>2
<1> QED
  BY <1>2, <1>3 DEF Outcome

\* A committed transaction has no tombstone.
LEMMA NoTombstone ==
  ASSUME Recorded, NEW t, CommittedAt(t), NEW k \in CommitKeys
  PROVE  write[k] # Rollback
<1>1. t \in Nat /\ 0 < t
  BY OutcomeCommitted DEF CommittedAt
<1>2. t > 0 /\ t # Rollback /\ Rollback # NoWrite
  BY <1>1, SMTT(20) DEF Rollback, NoWrite
<1>3. write[k] = t \/ write[k] = NoWrite
  BY <1>2 DEF CommittedAt, Recorded, Atomicity, AckedIsDurable
<1> QED
  BY <1>2, <1>3

\* What the records and the answer say of the outcome.
OneOutcome ==
  /\ \A t : CommittedAt(t) => Outcome = t /\ t \in Nat /\ t # NoWrite
  /\ \A t : CommittedAt(t) => \A k \in CommitKeys : write[k] # Rollback
  /\ Open => Outcome = IF \E k \in CommitKeys : write[k] = Rollback THEN 0 ELSE NoWrite
  /\ acked > 0 => Outcome = acked /\ ~Open

\* The records and the answer tell one outcome.
LEMMA OutcomeIs == Recorded => OneOutcome
BY OutcomeCommitted, NoTombstone, OutcomeOpen, KnownCommit DEF Recorded, Open, OneOutcome
----------------------------------------------------------------------------
(* Records                                                                 *)

\* Settling keys that have no record, or the same one, changes no record.
LEMMA SettleStays ==
  ASSUME TikvTypeOK, NEW ks, NEW ts, Settle(ks, ts),
         \A k \in ks \cap CommitKeys : write[k] = NoWrite \/ write[k] = ts
  PROVE  RecordsStay
BY DEF Settle, RecordsStay, CommitKeys

\* A prewrite changes no record.
LEMMA PrewriteStays ==
  ASSUME NEW ks, NEW md, Prewrite(ks, md)
  PROVE  RecordsStay
BY DEF Prewrite, RecordsStay, CommitKeys

\* Nor does a request that finds locks, or rolls back.
LEMMA RequestsStay ==
  ASSUME Recorded
  PROVE  /\ \A ks, ts : Commit(ks, ts) \/ ResolveLock(ks, ts) => RecordsStay
         /\ \A ks : BatchRollback(ks) \/ CheckSecondaryLocks(ks) => RecordsStay
         /\ RollbackPrimary => RecordsStay
<1>1. TikvTypeOK /\ \A k \in locked : write[k] = NoWrite
  BY DEF Recorded, TypeOK
<1>2. ASSUME NEW ks, NEW ts, Commit(ks, ts) \/ ResolveLock(ks, ts) PROVE RecordsStay
  BY <1>1, <1>2, SettleStays DEF Commit, ResolveLock
<1>3. ASSUME NEW ks, BatchRollback(ks) PROVE RecordsStay
  <2>1. Settle(ks, Rollback) /\ \A k \in ks : write[k] <= 0
    BY <1>3 DEF BatchRollback, MayRollback
  <2>2. \A k \in ks \cap CommitKeys : write[k] = NoWrite \/ write[k] = Rollback
    BY <1>1, <2>1, SMTT(20) DEF TikvTypeOK, CommitKeys, NoWrite, Rollback
  <2> QED
    BY <1>1, <2>1, <2>2, SettleStays
<1>4. ASSUME NEW ks, CheckSecondaryLocks(ks) PROVE RecordsStay
  BY <1>1, <1>4, SettleStays DEF CheckSecondaryLocks
<1>5. RollbackPrimary => RecordsStay
  BY <1>1, SettleStays DEF RollbackPrimary
<1> QED
  BY <1>2, <1>3, <1>4, <1>5

\* What every step but a read and its beginning leaves alone.
Quiet ==
  /\ RecordsStay /\ UNCHANGED <<readTs, seen>>
  /\ acked' = acked \/ (acked = 0 /\ acked' > 0)

\* A step that leaves the records alone.
LEMMA SameRecords ==
  ASSUME UNCHANGED write
  PROVE  RecordsStay
BY DEF RecordsStay

\* The committer is quiet; it answers the caller with a timestamp.
LEMMA CommitterQuiet ==
  ASSUME Recorded, HistoryInv, CommitterStep, UNCHANGED <<readerVars, gcVars>>
  PROVE  Quiet
<1>1. UNCHANGED <<readTs, seen>>
  BY DEF readerVars
<1>2. CASE \E r \in ShardRegions : PrewriteOk(r)
  BY <1>1, <1>2, PrewriteStays DEF PrewriteOk, Quiet
<1>3. CASE \E r \in CommitRegions : RollbackOk(r)
  BY <1>1, <1>3, RequestsStay DEF RollbackOk, Quiet
<1>4. CASE \/ \E r \in ShardRegions : PrewriteRefused(r)
           \/ PrewriteFailed \/ FetchCommitTsFailed \/ CommitPrimaryFailed \/ RollbackFailed
           \/ CommitPrimaryRefused
  <2>1. UNCHANGED <<tikvVars, acked>>
    BY <1>4 DEF PrewriteRefused, PrewriteFailed, FetchCommitTsFailed, CommitPrimaryFailed,
                RollbackFailed, CommitPrimaryRefused, Fail
  <2> QED
    BY <1>1, <2>1, SameRecords DEF tikvVars, lockTable, Quiet
<1>5. CASE CallCommit \/ FetchCommitTs \/ CallRollback \/ RollbackDone \/ Drop
  <2>1. UNCHANGED <<lockTable, acked>>
    BY <1>5 DEF CallCommit, FetchCommitTs, CallRollback, RollbackDone, Drop, tikvVars
  <2> QED
    BY <1>1, <2>1, SameRecords DEF lockTable, Quiet
<1>6. CASE PrewriteDone
  <2>1. UNCHANGED lockTable /\ (acked' = acked \/ acked' > 0)
    BY <1>6 DEF PrewriteDone, Succeed
  <2>2. acked = 0
    BY <1>6 DEF PrewriteDone, HistoryInv
  <2> QED
    BY <1>1, <2>1, <2>2, SameRecords DEF lockTable, Quiet
<1>7. CASE CommitPrimaryOk
  <2>1. cpc = "commit" /\ Commit({Primary}, commitTs) /\ acked' = commitTs
    BY <1>7 DEF CommitPrimaryOk, Succeed
  <2>2. 0 < commitTs /\ commitTs \in Nat
    BY <2>1 DEF Recorded, TypeOK, CommitterTypeOK
  <2>3. acked' > 0
    BY <2>1, <2>2, SMTT(20)
  <2>4. acked = 0
    BY <2>1 DEF HistoryInv
  <2> QED
    BY <1>1, <2>1, <2>3, <2>4, RequestsStay DEF Quiet
<1> QED
  BY <1>2, <1>3, <1>4, <1>5, <1>6, <1>7 DEF CommitterStep

\* A reader that resolves a lock, the garbage collector and the cluster are quiet.
LEMMA OthersQuiet ==
  ASSUME Recorded, UNCHANGED clientVars,
         \/ \E i \in Readers : \E k \in CommitKeys : ReadLocked(i, k)
         \/ \E i \in Readers : CleanupOk(i) \/ ResolveOk(i)
         \/ \E r \in Regions : GcStep(r)
         \/ Cluster
  PROVE  Quiet
<1>1. acked' = acked
  BY DEF clientVars
<1>2. ASSUME NEW i \in Readers, NEW k \in CommitKeys, ReadLocked(i, k) PROVE Quiet
  BY <1>1, <1>2, SameRecords DEF ReadLocked, ServeRead, lockTable, Quiet
<1>3. ASSUME NEW i \in Readers, CleanupOk(i) PROVE Quiet
  BY <1>1, <1>3, RequestsStay DEF CleanupOk, Quiet
<1>4. ASSUME NEW i \in Readers, ResolveOk(i) PROVE Quiet
  BY <1>1, <1>4, RequestsStay DEF ResolveOk, Quiet
<1>5. ASSUME NEW r \in Regions, GcStep(r) PROVE Quiet
  <2>1. UNCHANGED <<readTs, seen>>
    BY <1>5 DEF GcStep, GcScan, GcCached, GcStatus, GcDecide, GcResolve, GcSecondary, readerVars
  <2>2. RecordsStay
    <3>1. CASE GcScan(r) \/ GcCached(r) \/ GcDecide(r)
      BY <3>1, SameRecords DEF GcScan, GcCached, GcDecide, tikvVars, lockTable
    <3>2. CASE GcStatus(r)
      BY <3>2, SameRecords, RequestsStay DEF GcStatus, lockTable
    <3>3. CASE GcResolve(r)
      BY <3>3, RequestsStay DEF GcResolve
    <3>4. CASE \E s \in CommitRegions : GcSecondary(r, s)
      BY <3>4, RequestsStay DEF GcSecondary
    <3> QED
      BY <1>5, <3>1, <3>2, <3>3, <3>4 DEF GcStep
  <2> QED
    BY <1>1, <2>1, <2>2 DEF Quiet
<1>6. CASE Cluster
  <2>1. UNCHANGED <<readTs, seen>>
    BY <1>6 DEF Cluster, readerVars
  <2>2. CASE LateDelivery
    BY <1>1, <2>1, <2>2, RequestsStay, PrewriteStays DEF LateDelivery, Execute, Quiet
  <2>3. CASE \E k \in Keys : NewerVersion(k)
    BY <1>1, <2>1, <2>3, SameRecords DEF NewerVersion, lockTable, Quiet
  <2> QED
    BY <1>6, <2>2, <2>3 DEF Cluster
<1> QED
  BY <1>2, <1>3, <1>4, <1>5, <1>6
----------------------------------------------------------------------------
(* The steps of AtomicTxn                                                  *)

\* A known commit stays known.
LEMMA CommitStays ==
  ASSUME Recorded, Quiet, NEW t, CommittedAt(t)
  PROVE  CommittedAt(t)'
<1>1. 0 < t /\ t # NoWrite /\ t # 0
  BY OutcomeCommitted, SMTT(20) DEF CommittedAt
<1>2. CASE \E k \in CommitKeys : write[k] = t
  BY <1>1, <1>2 DEF Quiet, RecordsStay, CommittedAt
<1>3. CASE t = acked
  BY <1>1, <1>3 DEF Quiet, CommittedAt
<1> QED
  BY <1>2, <1>3 DEF CommittedAt

\* A tombstone stays, and then no commit is known.
LEMMA TombstoneStays ==
  ASSUME Recorded, Recorded', Quiet, Open, \E k \in CommitKeys : write[k] = Rollback
  PROVE  Open' /\ \E k \in CommitKeys : write'[k] = Rollback
<1>1. PICK k \in CommitKeys : write[k] = Rollback
  OBVIOUS
<1>2. write'[k] = Rollback
  BY <1>1, SMTT(20) DEF Quiet, RecordsStay, NoWrite, Rollback
<1>3. (Recorded => OneOutcome)'
  BY OutcomeIs, PTL
<1> QED
  BY <1>2, <1>3 DEF Open, OneOutcome

\* A quiet step decides the transaction, answers the caller, does both or
\* neither.
LEMMA QuietRefines ==
  ASSUME Recorded, Recorded', Quiet
  PROVE  [Abstract!Next]_Abstract!vars
<1>1. OneOutcome
  BY OutcomeIs
<1>2. OneOutcome'
  <2>1. (Recorded => OneOutcome)'
    BY OutcomeIs, PTL
  <2> QED
    BY <2>1
<1>3. UNCHANGED <<readTs, seen>> /\ (acked' = acked \/ (acked = 0 /\ acked' > 0))
  BY DEF Quiet
<1>4. ASSUME NEW t, CommittedAt(t) PROVE [Abstract!Next]_Abstract!vars
  <2>1. Outcome' = t /\ Outcome = t /\ Outcome > 0
    <3>1. Outcome' = t /\ Outcome = t /\ t \in Nat /\ 0 < t
      BY <1>1, <1>2, <1>4, CommitStays DEF CommittedAt, OneOutcome
    <3> QED
      BY <3>1, SMTT(20)
  <2>2. CASE acked' = acked
    BY <1>3, <2>1, <2>2 DEF Abstract!vars
  <2>3. CASE acked' > 0
    <3>1. acked' = Outcome'
      BY <1>2, <2>3 DEF OneOutcome
    <3> QED
      BY <1>3, <2>1, <3>1 DEF Abstract!Next, Abstract!Acknowledge
  <2> QED
    BY <1>3, <2>2, <2>3
<1>5. CASE Open /\ Open'
  <2>1. acked' = acked
    BY <1>2, <1>3, <1>5 DEF OneOutcome
  <2>2. Outcome \in {0, NoWrite} /\ Outcome' \in {0, NoWrite}
    BY <1>1, <1>2, <1>5 DEF OneOutcome
  <2>3. Outcome = 0 => Outcome' = 0
    <3>1. 0 # NoWrite
      BY SMTT(20) DEF NoWrite
    <3> QED
      BY <1>1, <1>2, <1>5, <3>1, TombstoneStays DEF OneOutcome
  <2>4. CASE Outcome' = Outcome
    BY <1>3, <2>1, <2>4 DEF Abstract!vars
  <2>5. CASE Outcome = NoWrite /\ Outcome' = 0
    <3>1. 0 \in Nat /\ ~(0 > 0)
      BY SMTT(20)
    <3> QED
      BY <1>3, <2>1, <2>5, <3>1 DEF Abstract!Next, Abstract!Decide, Abstract!Undecided, NoWrite
  <2> QED
    BY <2>2, <2>3, <2>4, <2>5
<1>6. ASSUME Open, NEW t, CommittedAt(t)' PROVE [Abstract!Next]_Abstract!vars
  <2>1. Outcome' = t /\ t \in Nat /\ Outcome = NoWrite
    BY <1>1, <1>2, <1>6, TombstoneStays DEF Open, OneOutcome
  <2>2. \A i \in Readers : \A k \in CommitKeys : seen[i][k] = "old" => readTs[i] < t
    <3>1. ReadsAgree'
      BY DEF Recorded
    <3> QED
      BY <1>3, <1>6, <3>1 DEF ReadsAgree
  <2>3. acked' \in {acked, Outcome'}
    BY <1>2, <1>3 DEF OneOutcome
  <2> QED
    BY <1>3, <2>1, <2>2, <2>3 DEF Abstract!Next, Abstract!Decide, Abstract!Undecided, NoWrite
<1> QED
  BY <1>4, <1>5, <1>6 DEF Open

\* A reader that takes its timestamp begins after every answer to the caller.
LEMMA StartReadRefines ==
  ASSUME Recorded, HistoryInv, NEW i \in Readers, StartRead(i)
  PROVE  [Abstract!Next]_Abstract!vars
<1>1. /\ rpc[i] = "idle" /\ readTs' = [readTs EXCEPT ![i] = clock + 1]
      /\ UNCHANGED <<write, acked, seen>>
  BY DEF StartRead, tikvVars, lockTable, clientVars
<1>2. Outcome' = Outcome
  BY <1>1 DEF Outcome
<1>3. /\ readTs[i] = 0 /\ clock \in Nat /\ acked \in Nat /\ readTs'[i] = clock + 1
      /\ acked <= clock + 1
  BY <1>1 DEF HistoryInv, Recorded, TypeOK, CommitterTypeOK, ResolverTypeOK
<1>4. readTs'[i] \in Nat /\ readTs'[i] > 0 /\ readTs'[i] >= acked
  BY <1>3, SMTT(20)
<1>5. readTs' = [readTs EXCEPT ![i] = readTs'[i]]
  BY <1>1, <1>3
<1> QED
  BY <1>1, <1>2, <1>3, <1>4, <1>5 DEF Abstract!Next, Abstract!Begin

\* A read that no lock blocks sees what the outcome says.
LEMMA ReadKeyRefines ==
  ASSUME Recorded, UNCHANGED clientVars, NEW i \in Readers, NEW k \in CommitKeys, ReadKey(i, k)
  PROVE  [Abstract!Next]_Abstract!vars
<1>1. /\ rpc[i] = "read" /\ seen[i][k] = "unread" /\ ~Blocked(k, readTs[i])
      /\ seen' = [seen EXCEPT ![i][k] = IF write[k] > 0 /\ write[k] <= readTs[i] THEN "new" ELSE "old"]
      /\ UNCHANGED <<write, acked, readTs>>
  BY DEF ReadKey, ServeRead, lockTable, clientVars
<1>2. Outcome' = Outcome /\ TypeOK
  BY <1>1 DEF Outcome, Recorded
<1>3. readTs[i] \in Nat /\ 0 < readTs[i] /\ write[k] \in Int
  BY <1>1, <1>2, Values DEF Recorded, ReadsAgree
<1>4. readTs[i] > 0
  BY <1>3, SMTT(20)
<1>5. (write[k] > 0 /\ write[k] <= readTs[i]) <=> (0 < Outcome /\ Outcome <= readTs[i])
  <2>1. CASE write[k] > 0
    <3>1. Outcome = write[k]
      BY <1>2, <2>1, KnownCommit, OutcomeCommitted
    <3> QED
      BY <1>3, <3>1, SMTT(20)
  <2>2. ASSUME ~(write[k] > 0), 0 < Outcome, Outcome <= readTs[i] PROVE FALSE
    <3>1. PICK t : CommittedAt(t)
      <4>1. CASE Open
        <5>1. Outcome \in {0, NoWrite}
          BY <4>1, OutcomeOpen
        <5> QED
          BY <2>2, <5>1, SMTT(20) DEF NoWrite
      <4> QED
        BY <4>1 DEF Open
    <3>2. Outcome = t /\ t \in Nat /\ 0 < t
      BY <3>1, OutcomeCommitted DEF CommittedAt
    <3>3. t > 0
      BY <3>2, SMTT(20)
    <3>4. write[k] = t \/ k \in locked
      BY <3>1, <3>3 DEF CommittedAt, Recorded, Atomicity, AckedIsDurable
    <3>5. minCommit[k] <= t
      BY <2>2, <3>1, <3>3, <3>4 DEF Recorded
    <3>6. minCommit[k] \in Nat
      BY <1>2 DEF TypeOK, TikvTypeOK, CommitKeys
    <3>7. minCommit[k] <= readTs[i]
      BY <1>3, <2>2, <3>2, <3>5, <3>6, SMTT(20)
    <3> QED
      BY <1>1, <2>2, <3>3, <3>4, <3>7 DEF Blocked
  <2> QED
    BY <2>1, <2>2
<1>6. Abstract!Observe(i, k)
  BY <1>1, <1>2, <1>4, <1>5 DEF Abstract!Observe
<1> QED
  BY <1>6 DEF Abstract!Next
----------------------------------------------------------------------------
\* No step takes a reader back to where it has no timestamp, or answers the
\* caller again.
LEMMA NextHistory ==
  ASSUME TypeOK, HistoryInv, [Next]_vars
  PROVE  HistoryInv'
<1> DEFINE Idle == \A j \in Readers : rpc[j] = "idle" => readTs[j] = 0
           Answered == /\ cpc \in {"prewrite", "getTs", "commit"} => status = "StartedCommit"
                       /\ cpc = "rollback" => status = "StartedRollback"
                       /\ acked # 0 => status \in {"Committed", "Dropped"}
<1>1. rpc \in [Readers -> {"idle", "read", "cleanup", "resolve"}] /\ readTs \in [Readers -> Nat]
  BY DEF TypeOK, ResolverTypeOK
<1>2. CASE UNCHANGED readerVars
  <2>1. Idle'
    BY <1>2 DEF readerVars, HistoryInv
  <2>2. CASE UNCHANGED clientVars
    BY <2>1, <2>2 DEF clientVars, HistoryInv
  <2>3. CASE CommitterStep
    <3>1. CASE CallCommit \/ CallRollback \/ FetchCommitTs \/ RollbackDone \/ Drop
      BY <2>1, <3>1 DEF CallCommit, CallRollback, FetchCommitTs, RollbackDone, Drop, Return, HistoryInv
    <3>2. CASE \/ \E r \in ShardRegions : PrewriteRefused(r)
               \/ PrewriteFailed \/ FetchCommitTsFailed \/ CommitPrimaryFailed \/ RollbackFailed
               \/ CommitPrimaryRefused
      BY <2>1, <3>2 DEF PrewriteRefused, PrewriteFailed, FetchCommitTsFailed, CommitPrimaryFailed,
                        RollbackFailed, CommitPrimaryRefused, Fail, Return, HistoryInv
    <3>3. CASE (\E r \in ShardRegions : PrewriteOk(r)) \/ \E r \in CommitRegions : RollbackOk(r)
      BY <2>1, <3>3 DEF PrewriteOk, RollbackOk, HistoryInv
    <3>4. CASE PrewriteDone \/ CommitPrimaryOk
      BY <2>1, <3>4 DEF PrewriteDone, CommitPrimaryOk, Succeed, Return, HistoryInv
    <3> QED
      BY <2>3, <3>1, <3>2, <3>3, <3>4 DEF CommitterStep
  <2>4. CASE \E r \in Regions : GcStep(r) /\ UNCHANGED <<clock, clientVars>>
    BY <2>2, <2>4
  <2> QED
    BY <1>2, <2>2, <2>3, <2>4 DEF Next, Cluster, StartRead, ReaderStep, vars
<1>3. ASSUME NEW i \in Readers, StartRead(i) PROVE HistoryInv'
  BY <1>1, <1>3 DEF StartRead, HistoryInv, clientVars
<1>4. ASSUME NEW i \in Readers, ReaderStep(i), UNCHANGED clientVars PROVE HistoryInv'
  <2>1. /\ UNCHANGED readTs
        /\ rpc' = rpc \/ \E s \in {"read", "cleanup", "resolve"} : rpc' = [rpc EXCEPT ![i] = s]
    BY <1>4 DEF ReaderStep, ReadKey, ReadLocked, CleanupOk, ResolveOk
  <2>2. \A j \in Readers : rpc'[j] = "idle" => rpc[j] = "idle"
    BY <1>1, <2>1
  <2> QED
    BY <1>4, <2>1, <2>2 DEF HistoryInv, clientVars
<1>5. CASE \E r \in Regions : GcStep(r)
  BY <1>2, <1>5 DEF GcStep, GcScan, GcCached, GcStatus, GcDecide, GcResolve, GcSecondary
<1>6. CASE UNCHANGED vars
  BY <1>2, <1>6 DEF vars
<1> QED
  BY <1>2, <1>3, <1>4, <1>5, <1>6 DEF Next, Cluster

\* Every step of a transaction whose records tell one outcome is a step of
\* AtomicTxn, or one that AtomicTxn does not see.
LEMMA NextRefines ==
  ASSUME Recorded, Recorded', HistoryInv, [Next]_vars
  PROVE  [Abstract!Next]_Abstract!vars
<1>1. CASE CommitterStep /\ UNCHANGED <<readerVars, gcVars>>
  BY <1>1, CommitterQuiet, QuietRefines
<1>2. CASE \E i \in Readers : StartRead(i)
  BY <1>2, StartReadRefines
<1>3. ASSUME NEW i \in Readers, ReaderStep(i), UNCHANGED <<clock, clientVars>>
      PROVE  [Abstract!Next]_Abstract!vars
  <2>1. CASE \E k \in CommitKeys : ReadKey(i, k)
    BY <1>3, <2>1, ReadKeyRefines
  <2>2. CASE (\E k \in CommitKeys : ReadLocked(i, k)) \/ CleanupOk(i) \/ ResolveOk(i)
    BY <1>3, <2>2, OthersQuiet, QuietRefines
  <2> QED
    BY <1>3, <2>1, <2>2 DEF ReaderStep
<1>4. CASE \E r \in Regions : GcStep(r) /\ UNCHANGED <<clock, clientVars>>
  BY <1>4, OthersQuiet, QuietRefines
<1>5. CASE Cluster
  <2>1. UNCHANGED clientVars
    BY <1>5 DEF Cluster
  <2> QED
    BY <1>5, <2>1, OthersQuiet, QuietRefines
<1>6. CASE UNCHANGED vars
  <2>1. UNCHANGED <<write, acked, readTs, seen>>
    BY <1>6 DEF vars, tikvVars, lockTable, clientVars, readerVars
  <2>2. Outcome' = Outcome
    BY <2>1 DEF Outcome
  <2> QED
    BY <2>1, <2>2 DEF Abstract!vars
<1> QED
  BY <1>1, <1>2, <1>3, <1>4, <1>5, <1>6 DEF Next

\* The transaction starts undecided, with nobody having read anything.
LEMMA InitRefines ==
  ASSUME Init
  PROVE  Abstract!Init /\ HistoryInv
<1>1. TikvInit /\ CommitterInit /\ ResolverInit
  BY DEF Init
<1>2. /\ acked = 0 /\ readTs = [i \in Readers |-> 0] /\ cpc = "idle"
      /\ seen = [i \in Readers |-> [k \in CommitKeys |-> "unread"]]
      /\ \A k \in CommitKeys : write[k] = NoWrite
  BY <1>1 DEF TikvInit, CommitterInit, ResolverInit, CommitKeys
<1>3. ~(acked > 0) /\ NoWrite # Rollback
  BY <1>2, SMTT(20) DEF NoWrite, Rollback
<1>4. {write[k] : k \in CommitKeys} \ {NoWrite, Rollback} = {}
  BY <1>2
<1>5. Outcome = NoWrite
  BY <1>2, <1>3, <1>4 DEF Outcome
<1> QED
  BY <1>2, <1>5 DEF Abstract!Init, Abstract!Undecided, NoWrite, HistoryInv

\* A two-phase commit transaction implements AtomicTxn: it is decided once, the
\* caller and every reader learn that decision, and a read begun after commit()
\* returned sees the writes, for any keys, regions, readers, retries, lost,
\* late and repeated requests.
THEOREM TwoPhaseImplements == TwoPhaseOnly => (Spec => ImplementsAtomicTxn)
<1> SUFFICES ASSUME TwoPhaseOnly PROVE Spec => ImplementsAtomicTxn
  OBVIOUS
<1>1. Spec => []TwoPhaseInv
  BY TwoPhaseInvariant
<1>2. TwoPhaseInv => Recorded /\ TypeOK
  BY PlainRecorded DEF Recorded
<1>3. Init => Abstract!Init /\ HistoryInv
  BY InitRefines
<1>4. TypeOK /\ HistoryInv /\ [Next]_vars => HistoryInv'
  BY NextHistory
<1>5. Recorded /\ Recorded' /\ HistoryInv /\ [Next]_vars => [Abstract!Next]_Abstract!vars
  BY NextRefines
<1> QED
  BY <1>1, <1>2, <1>3, <1>4, <1>5, PTL DEF Spec, ImplementsAtomicTxn, Abstract!Spec
----------------------------------------------------------------------------
(* One-phase commit                                                        *)

\* The values that the state of a key takes.
LEMMA OneKeyTypes ==
  ASSUME TikvTypeOK
  PROVE  /\ Primary \in CommitKeys /\ CommitKeys \subseteq Keys
         /\ \A k \in CommitKeys : /\ minCommit[k] \in Nat /\ write[k] \in Nat \cup {NoWrite}
                                  /\ regionOf[k] \in Regions /\ maxTs[regionOf[k]] \in Nat
BY DEF TikvTypeOK, CommitKeys

\* An element that is not below any other is the largest.
LEMMA MaxOf ==
  ASSUME NEW S, S \subseteq Int, NEW x \in S, \A y \in S : y <= x
  PROVE  Max(S) = x
<1>1. \A y \in S : x >= y
  BY SMTT(20)
<1>2. Max(S) \in S /\ \A y \in S : Max(S) >= y
  BY <1>1 DEF Max
<1>3. Max(S) >= x /\ Max(S) <= x /\ Max(S) \in Int /\ x \in Int
  BY <1>2
<1> QED
  BY <1>3, SMTT(20)

\* The timestamp after t.
LEMMA NextTime ==
  ASSUME NEW t \in Nat
  PROVE  0 \in Nat /\ t + 1 \in Nat /\ 0 <= t + 1
BY SMTT(20)

\* The one region.
LEMMA OneShardFacts ==
  ASSUME AsyncAssumption, OneShard, TikvTypeOK
  PROVE  /\ CommitKeys = Keys /\ OnePcResponse /\ CommitRegions = ShardRegions
         /\ ShardRegions # {} /\ ShardRegions \subseteq Regions
         /\ \A r \in ShardRegions : /\ CommitShard(r) = CommitKeys /\ Shard(r) = CommitKeys
                                    /\ ShardMode(r) = "1pc"
<1>1. OnePcResponse /\ CommitKeys = Keys /\ \A r \in ShardRegions : Shard(r) = CommitKeys
  BY DEF OneShard, AsyncAssumption, CommitKeys
<1>2. CommitRegions = ShardRegions
  BY <1>1 DEF CommitRegions, ShardRegions
<1>3. \A r \in ShardRegions : CommitShard(r) = CommitKeys
  BY <1>1, RegionFacts
<1> QED
  BY <1>1, <1>2, <1>3, RegionFacts DEF OneShard

\* The commit timestamp that the region computes is later than every read it
\* has served, and not far ahead of PD.
LEMMA OneComputed ==
  ASSUME AsyncAssumption, OneShard, TikvTypeOK, ClockInv, clock \in Nat
  PROVE  /\ ComputedTs(CommitKeys) \in Nat /\ 0 < ComputedTs(CommitKeys)
         /\ ComputedTs(CommitKeys) <= clock + 1 /\ ComputedTs(CommitKeys) <= StartTs + SafeWindow
         /\ \A k \in CommitKeys : maxTs[regionOf[k]] < ComputedTs(CommitKeys)
<1>1. PICK x : x = regionOf[Primary]
  OBVIOUS
<1>2. x \in Regions /\ \A k \in CommitKeys : regionOf[k] = x
  <2>1. x \in ShardRegions /\ Shard(x) = CommitKeys
    BY <1>1, OneShardFacts, RegionFacts
  <2> QED
    BY <2>1, RegionFacts DEF Shard
<1>3. maxTs[x] \in Nat /\ maxTs[x] <= clock /\ StartTs <= clock /\ clock <= SafeWindow /\ SafeWindow \in Nat
  BY <1>2 DEF TikvTypeOK, ClockInv
<1>4. {StartTs} \cup {maxTs[regionOf[k]] : k \in CommitKeys} = {StartTs, maxTs[x]}
  <2>1. {maxTs[regionOf[k]] : k \in CommitKeys} = {maxTs[x]}
    BY <1>2
  <2> QED
    BY <2>1
<1>5. ComputedTs(CommitKeys) = 1 + Max({StartTs, maxTs[x]})
  BY <1>4 DEF ComputedTs
<1>6. PICK M : M = Max({StartTs, maxTs[x]})
  OBVIOUS
<1>7. M \in Nat /\ maxTs[x] <= M /\ M <= clock
  <2>1. StartTs \in Int /\ maxTs[x] \in Int
    BY <1>3, SMTT(20) DEF StartTs
  <2>2. CASE maxTs[x] <= StartTs
    <3>1. {StartTs, maxTs[x]} \subseteq Int /\ \A y \in {StartTs, maxTs[x]} : y <= StartTs
      BY <2>1, <2>2, SMTT(20)
    <3>2. M = StartTs
      BY <1>6, <3>1, MaxOf
    <3> QED
      BY <1>3, <2>2, <3>2, SMTT(20) DEF StartTs
  <2>3. CASE StartTs <= maxTs[x]
    <3>1. {StartTs, maxTs[x]} \subseteq Int /\ \A y \in {StartTs, maxTs[x]} : y <= maxTs[x]
      BY <2>1, <2>3, SMTT(20)
    <3>2. M = maxTs[x]
      BY <1>6, <3>1, MaxOf
    <3> QED
      BY <1>3, <3>2, SMTT(20)
  <2> QED
    BY <2>1, <2>2, <2>3, SMTT(20)
<1>8. /\ 1 + M \in Nat /\ 0 < 1 + M /\ 1 + M <= clock + 1 /\ 1 + M <= StartTs + SafeWindow
      /\ maxTs[x] < 1 + M
  BY <1>3, <1>7, SMTT(20) DEF StartTs
<1> QED
  BY <1>2, <1>5, <1>6, <1>8
----------------------------------------------------------------------------
(* One-phase commit: the records                                           *)

\* What any step does to the records.  Keys are committed later than every
\* read their region has served.
OneStep ==
  /\ regionOf' = regionOf /\ OneStoreInv' /\ (Lost => Lost')
  /\ minCommit' = minCommit /\ write' \in [Keys -> Nat \cup {NoWrite}]
  /\ \A k \in CommitKeys :
       /\ write[k] # NoWrite => write'[k] = write[k]
       /\ \/ write'[k] = write[k] \/ write'[k] = Rollback
          \/ maxTs[regionOf[k]] < write'[k] /\ write'[k] <= clock + 1

\* A step that leaves the records alone.
LEMMA OneSame ==
  ASSUME TikvTypeOK, OneStoreInv, UNCHANGED <<regionOf, lockTable, conflict>>,
         NeverSent => NeverSent', msgs \subseteq msgs'
  PROVE  OneStep
<1>1. UNCHANGED <<regionOf, locked, asyncLocked, minCommit, write, conflict>>
  BY DEF lockTable
<1>2. Doomed' <=> Doomed
  BY <1>1 DEF Doomed
<1>3. Sent("prewrite")' = {} => Sent("prewrite") = {}
  BY DEF Sent
<1>4. OneStoreInv'
  BY <1>1, <1>2, <1>3 DEF OneStoreInv, Uncommitted
<1> QED
  BY <1>1, <1>2, <1>4 DEF OneStep, Lost, TikvTypeOK

\* The one Prewrite commits every key at one timestamp.
LEMMA OnePrewrite ==
  ASSUME AsyncAssumption, OneShard, TikvTypeOK, OneStoreInv, ClockInv, clock \in Nat,
         UNCHANGED <<status, Sent("prewrite")>>, Sent("prewrite") # {},
         Prewrite(CommitKeys, "1pc")
  PROVE  /\ OneStep /\ UNCHANGED <<conflict, maxTs>>
         /\ \E w \in Nat : 0 < w /\ \A k \in CommitKeys : write'[k] = w
<1> DEFINE new == {k \in CommitKeys \cap CommitKeys : write[k] = NoWrite /\ k \notin locked}
<1> DEFINE ts == ComputedTs(CommitKeys)
<1>1. /\ ts \in Nat /\ 0 < ts /\ ts <= clock + 1 /\ ts <= StartTs + SafeWindow
      /\ \A k \in CommitKeys : maxTs[regionOf[k]] < ts
  BY OneComputed
<1>2. /\ write' = [k \in Keys |-> IF k \in new THEN ts ELSE write[k]]
      /\ UNCHANGED <<locked, asyncLocked, minCommit, regionOf, conflict, maxTs>>
      /\ MayPrewrite(CommitKeys)
  BY <1>1 DEF Prewrite
<1>3. \A k \in CommitKeys : k \in new <=> write[k] = NoWrite
  BY DEF OneStoreInv
<1> HIDE DEF new, ts
<1>4. \A k \in CommitKeys : write'[k] = IF write[k] = NoWrite THEN ts ELSE write[k]
  BY <1>2, <1>3, OneKeyTypes
<1>5. \A k \in CommitKeys : k \notin conflict /\ write[k] # Rollback
  BY <1>2 DEF MayPrewrite
<1>6. \E w \in Nat : 0 < w /\ \A k \in CommitKeys : write'[k] = w
  <2>1. CASE \A k \in CommitKeys : write[k] = NoWrite
    BY <1>1, <1>4, <2>1
  <2>2. ASSUME NEW j \in CommitKeys, write[j] # NoWrite
        PROVE  \E w \in Nat : 0 < w /\ \A k \in CommitKeys : write'[k] = w
    <3>1. write[j] \in Nat \cup {NoWrite} /\ write[j] # Rollback
      BY <1>5, OneKeyTypes
    <3>2. write[j] \in Nat /\ 0 < write[j]
      BY <2>2, <3>1, SMTT(20) DEF NoWrite, Rollback
    <3>3. \A k \in CommitKeys : write[k] = write[j]
      BY <3>2 DEF OneStoreInv
    <3> QED
      BY <1>4, <2>2, <3>2, <3>3
  <2> QED
    BY <2>1, <2>2
<1>7. ~Doomed' /\ Sent("prewrite")' # {}
  <2>1. PICK w \in Nat : 0 < w /\ \A k \in CommitKeys : write'[k] = w
    BY <1>6
  <2>2. w # Rollback
    BY <2>1, SMTT(20) DEF Rollback
  <2> QED
    BY <1>2, <1>5, <2>1, <2>2 DEF Doomed
<1>8. OneStoreInv'
  BY <1>2, <1>6, <1>7 DEF OneStoreInv
<1>9. ~Lost
  BY <1>5 DEF Lost, Doomed, NeverSent
<1>10. write' \in [Keys -> Nat \cup {NoWrite}]
  BY <1>1, <1>2 DEF TikvTypeOK
<1>11. OneStep
  BY <1>1, <1>2, <1>4, <1>8, <1>9, <1>10 DEF OneStep
<1> QED
  BY <1>2, <1>6, <1>11

\* The one BatchRollback of a lost transaction rolls back every key.
LEMMA OneRollback ==
  ASSUME TikvTypeOK, OneStoreInv, UNCHANGED <<status, Sent("prewrite")>>, Lost,
         BatchRollback(CommitKeys)
  PROVE  OneStep /\ UNCHANGED <<conflict, maxTs>> /\ \A k \in CommitKeys : write'[k] = Rollback
<1>1. /\ write' = [k \in Keys |-> IF k \in CommitKeys THEN Rollback ELSE write[k]]
      /\ locked' = locked \ CommitKeys /\ asyncLocked' = asyncLocked \ CommitKeys
      /\ UNCHANGED <<regionOf, minCommit, conflict, maxTs>>
      /\ \A k \in CommitKeys : write[k] <= 0
  BY DEF BatchRollback, Settle, MayRollback
<1>2. CommitKeys \subseteq Keys /\ \A k \in CommitKeys : write[k] \in Nat \cup {NoWrite}
  BY OneKeyTypes
<1>3. \A k \in CommitKeys : write'[k] = Rollback
  BY <1>1, <1>2
<1>4. ~(0 < Rollback) /\ Rollback <= 0 /\ Rollback \in Nat
  BY SMTT(20) DEF Rollback
<1>5. \A k \in CommitKeys : write[k] # NoWrite => write[k] = Rollback
  BY <1>1, <1>2, SMTT(20) DEF NoWrite, Rollback
<1>6. OneStoreInv'
  BY <1>1, <1>3, <1>4 DEF OneStoreInv, Uncommitted
<1>7. Lost'
  BY <1>1, <1>3 DEF Lost, Doomed, NeverSent
<1>8. write' \in [Keys -> Nat \cup {NoWrite}]
  BY <1>1, <1>4 DEF TikvTypeOK
<1> QED
  BY <1>1, <1>3, <1>5, <1>6, <1>7, <1>8 DEF OneStep

\* What remains to be shown of a step.
LEMMA OneAnyStep ==
  ASSUME OnePcInv, OneStep, conflict' \subseteq Keys, maxTs' \in [Regions -> Nat],
         msgs' \subseteq Requests, clock' \in Nat, clock <= clock', clock' <= SafeWindow,
         \A r \in Regions : maxTs'[r] <= clock', \A i \in Readers : readTs'[i] <= clock',
         OneMsgInv', OneClientInv', OneReaderInv', CommitterTypeOK', ResolverTypeOK', gpc' = gpc
  PROVE  OnePcInv'
<1>1. /\ TikvTypeOK /\ CommitterTypeOK /\ ClockInv /\ clock \in Nat
      /\ \A k \in CommitKeys : write[k] <= clock + 1 /\ minCommit[k] = 0
  BY DEF OnePcInv, TypeOK, CommitterTypeOK, OneStoreInv
<1>2. TikvTypeOK'
  <2>1. /\ locked' = {} /\ asyncLocked' = {} /\ regionOf' = regionOf /\ minCommit' = minCommit
        /\ write' \in [Keys -> Nat \cup {NoWrite}]
    BY DEF OneStep, OneStoreInv
  <2> QED
    BY <1>1, <2>1 DEF TikvTypeOK
<1>3. StartTs <= clock' /\ 0 <= clock' + 1
  <2>1. StartTs <= clock
    BY <1>1 DEF ClockInv
  <2>2. StartTs <= clock'
    BY <1>1, <2>1, SMTT(20) DEF StartTs
  <2> QED
    BY <2>2, NextTime
<1>4. ClockInv'
  BY <1>1, <1>3 DEF ClockInv, OneStep
<1>5. ASSUME NEW k \in CommitKeys PROVE write'[k] <= clock' + 1
  <2>1. write[k] \in Nat \cup {NoWrite} /\ write'[k] \in Nat \cup {NoWrite} /\ write[k] <= clock + 1
    BY <1>1, OneKeyTypes DEF OneStep
  <2>2. write'[k] = write[k] \/ write'[k] = Rollback \/ write'[k] <= clock + 1
    BY DEF OneStep
  <2> QED
    BY <1>1, <2>1, <2>2, SMTT(20) DEF NoWrite, Rollback
<1> QED
  BY <1>2, <1>4, <1>5 DEF OnePcInv, TypeOK, OneStep

\* The clock, the reads and the requests are what they were.
LEMMA OneTimes ==
  ASSUME OnePcInv
  PROVE  /\ clock \in Nat /\ clock <= clock /\ clock <= SafeWindow
         /\ \A r \in Regions : maxTs[r] <= clock
         /\ \A i \in Readers : readTs[i] <= clock /\ readTs[i] \in Nat
         /\ maxTs \in [Regions -> Nat] /\ conflict \subseteq Keys /\ msgs \subseteq Requests
<1>1. clock \in Nat
  BY DEF OnePcInv, TypeOK, CommitterTypeOK
<1>2. clock <= clock
  BY <1>1, SMTT(20)
<1> QED
  BY <1>1, <1>2 DEF OnePcInv, TypeOK, TikvTypeOK, ResolverTypeOK, ClockInv

\* The requests that were sent stay as they should be.
LEMMA OneMsgs ==
  ASSUME OneMsgInv, OneStep,
         \A m \in msgs' \ msgs : /\ m.keys = CommitKeys
                                 /\ \/ m.type = "prewrite" /\ m.mode = "1pc"
                                    \/ m.type = "rollback" /\ Lost'
  PROVE  OneMsgInv'
<1>1. Sent("rollback")' # {} => Lost'
  BY DEF OneMsgInv, Sent, OneStep
<1> QED
  BY <1>1 DEF OneMsgInv

\* What the committer knows of the records stays true.
LEMMA OneRecords ==
  ASSUME OneStep
  PROVE  /\ \A t : 0 < t /\ (\A k \in CommitKeys : write[k] = t) => \A k \in CommitKeys : write'[k] = t
         /\ (\A k \in CommitKeys : write[k] = Rollback) => \A k \in CommitKeys : write'[k] = Rollback
<1>1. Rollback # NoWrite /\ \A t : 0 < t => t # NoWrite
  BY SMTT(20) DEF Rollback, NoWrite
<1> QED
  BY <1>1 DEF OneStep

\* A step of somebody else keeps the invariant of the committer.
LEMMA OneClient ==
  ASSUME OneClientInv, CommitterTypeOK, OneStep, UNCHANGED <<clientVars, Sent("prewrite")>>
  PROVE  OneClientInv'
<1>1. UNCHANGED <<mode, status, cpc, result, replied, minReply, onePcReply, commitTs, acked>>
  BY DEF clientVars
<1>2. acked > 0 => 0 < acked
  BY SMTT(20) DEF CommitterTypeOK
<1>3. acked > 0 => \A k \in CommitKeys : write'[k] = acked
  BY <1>2, OneRecords DEF OneClientInv
<1>4. cpc = "prewrite" /\ replied # {} => 0 < onePcReply /\ \A k \in CommitKeys : write'[k] = onePcReply
  BY OneRecords DEF OneClientInv
<1>5. /\ cpc = "rollback" /\ replied # {} => \A k \in CommitKeys : write'[k] = Rollback
      /\ status = "Rolledback" => \A k \in CommitKeys : write'[k] = Rollback
  BY OneRecords DEF OneClientInv
<1>6. Lost => Lost'
  BY DEF OneStep
<1> QED
  BY <1>1, <1>3, <1>4, <1>5, <1>6 DEF OneClientInv

\* A read that passed a key has passed it for good.
LEMMA OneSeenStays ==
  ASSUME TypeOK, OneStep, NEW i \in Readers, NEW k \in CommitKeys, OneSeen(i, k),
         seen'[i][k] = seen[i][k], readTs'[i] = readTs[i],
         maxTs' \in [Regions -> Nat], \A r \in Regions : maxTs[r] <= maxTs'[r]
  PROVE  OneSeen(i, k)'
<1>1. /\ write[k] \in Nat \cup {NoWrite} /\ write'[k] \in Nat \cup {NoWrite} /\ readTs[i] \in Nat
      /\ regionOf[k] \in Regions /\ maxTs[regionOf[k]] \in Nat /\ maxTs'[regionOf[k]] \in Nat
      /\ maxTs[regionOf[k]] <= maxTs'[regionOf[k]] /\ regionOf' = regionOf
  BY OneKeyTypes DEF TypeOK, ResolverTypeOK, OneStep
<1>2. /\ write[k] # NoWrite => write'[k] = write[k]
      /\ \/ write'[k] = write[k] \/ write'[k] = Rollback
         \/ maxTs[regionOf[k]] < write'[k] /\ write'[k] <= clock + 1
  BY DEF OneStep
<1>3. 0 < write[k] /\ write[k] <= readTs[i] => 0 < write'[k] /\ write'[k] <= readTs[i]
  BY <1>1, <1>2, SMTT(20) DEF NoWrite
<1>4. (write[k] <= 0 /\ readTs[i] <= maxTs[regionOf[k]]) \/ readTs[i] < write[k] =>
        (write'[k] <= 0 /\ readTs[i] <= maxTs'[regionOf[k]]) \/ readTs[i] < write'[k]
  BY <1>1, <1>2, SMTT(20) DEF NoWrite, Rollback
<1> QED
  BY <1>1, <1>3, <1>4 DEF OneSeen

\* A step of somebody else keeps the invariant of the readers.
LEMMA OneReaders ==
  ASSUME TypeOK, OneReaderInv, OneStep, UNCHANGED <<readerVars, maxTs>>
  PROVE  OneReaderInv'
<1>1. UNCHANGED <<readTs, rpc, rkey, rversion, seen>> /\ maxTs' \in [Regions -> Nat]
  BY DEF readerVars, TypeOK, TikvTypeOK
<1>2. \A r \in Regions : maxTs[r] <= maxTs'[r]
  BY SMTT(20) DEF TypeOK, TikvTypeOK
<1>3. \A i \in Readers : \A k \in CommitKeys : OneSeen(i, k)
  BY DEF OneReaderInv
<1>4. \A i \in Readers : \A k \in CommitKeys : OneSeen(i, k)'
  BY <1>1, <1>2, <1>3, OneSeenStays
<1> QED
  BY <1>1, <1>4 DEF OneReaderInv

----------------------------------------------------------------------------
(* One-phase commit: the steps                                             *)

\* What remains to be shown of a step of the committer.
LEMMA OneClientStep ==
  ASSUME OnePcInv, OneStep, UNCHANGED <<conflict, maxTs, clock, readerVars, gcVars>>,
         msgs' \subseteq Requests,
         \A m \in msgs' \ msgs : /\ m.keys = CommitKeys
                                 /\ \/ m.type = "prewrite" /\ m.mode = "1pc"
                                    \/ m.type = "rollback" /\ Lost',
         CommitterTypeOK', OneClientInv'
  PROVE  OnePcInv'
<1>1. TypeOK /\ ResolverTypeOK /\ OneMsgInv /\ OneReaderInv
  BY DEF OnePcInv, TypeOK
<1>2. ResolverTypeOK' /\ UNCHANGED <<readTs, gpc>>
  BY <1>1 DEF ResolverTypeOK, readerVars, gcVars
<1>3. OneMsgInv' /\ OneReaderInv'
  BY <1>1, OneMsgs, OneReaders
<1> QED
  BY <1>2, <1>3, OneTimes, OneAnyStep

\* A call that fails.
LEMMA OneFail ==
  ASSUME OnePcInv, NEW res \in Errors, Fail(res), UNCHANGED <<readerVars, gcVars>>,
         res # "lag", res = "refused" => Lost
  PROVE  OnePcInv'
<1>1. TikvTypeOK /\ CommitterTypeOK /\ OneStoreInv /\ OneClientInv
  BY DEF OnePcInv, TypeOK
<1>2. /\ UNCHANGED <<regionOf, lockTable, write, conflict, maxTs, msgs, clock, mode, status, calls>>
      /\ UNCHANGED <<replied, minReply, onePcReply, commitTs, acked>>
      /\ cpc' = "returned" /\ result' = res
  BY DEF Fail, Return, tikvVars, lockTable
<1>3. OneStep
  BY <1>1, <1>2, OneSame DEF NeverSent, Sent
<1>4. CommitterTypeOK' /\ msgs' \subseteq Requests /\ msgs' \ msgs = {}
  BY <1>1, <1>2 DEF CommitterTypeOK, Results, TikvTypeOK
<1>5. OneClientInv'
  BY <1>1, <1>2, <1>3 DEF OneClientInv, OneStep
<1> QED
  BY <1>2, <1>3, <1>4, <1>5, OneClientStep

\* A call of commit() keeps the invariant.
LEMMA OneCallCommit ==
  ASSUME AsyncAssumption, OneShard, OnePcInv, CallCommit, UNCHANGED <<readerVars, gcVars>>
  PROVE  OnePcInv'
<1>1. TikvTypeOK /\ CommitterTypeOK /\ OneStoreInv /\ OneClientInv
  BY DEF OnePcInv, TypeOK
<1>2. /\ UNCHANGED <<regionOf, lockTable, write, conflict, maxTs, clock, mode, result, commitTs, acked>>
      /\ status \in {"Active", "StartedCommit"} /\ status' = "StartedCommit" /\ cpc' = "prewrite"
      /\ replied' = {} /\ minReply' = 0 /\ onePcReply' = 0 /\ calls' = calls + 1
      /\ msgs' = msgs \cup {PrewriteShard(r) : r \in ShardRegions}
  BY DEF CallCommit, lockTable
<1>3. \A r \in ShardRegions : /\ PrewriteShard(r) \in Requests /\ PrewriteShard(r).keys = CommitKeys
                              /\ PrewriteShard(r).type = "prewrite" /\ PrewriteShard(r).mode = "1pc"
  <2>1. 0 \in Nat
    BY SMTT(20)
  <2>2. \A r \in ShardRegions : PrewriteShard(r) = Request("prewrite", CommitKeys, 0, "1pc")
    BY <1>1, OneShardFacts DEF PrewriteShard
  <2>3. LET m == Request("prewrite", CommitKeys, 0, "1pc") IN
          m \in Requests /\ m.keys = CommitKeys /\ m.type = "prewrite" /\ m.mode = "1pc"
    BY <2>1 DEF Request, Requests, CommitKeys
  <2> QED
    BY <2>2, <2>3
<1>4. /\ msgs \subseteq msgs'
      /\ \A m \in msgs' \ msgs : m \in Requests /\ m.type = "prewrite" /\ m.mode = "1pc" /\ m.keys = CommitKeys
  BY <1>2, <1>3
<1>5. Sent("prewrite")' # {}
  BY <1>1, <1>2, <1>3, OneShardFacts DEF Sent
<1>6. OneStep
  BY <1>1, <1>2, <1>4, OneSame DEF NeverSent
<1>7. msgs' \subseteq Requests /\ CommitterTypeOK'
  <2>1. calls' \in Nat /\ 0 \in Nat
    BY <1>1, <1>2, NextTime DEF CommitterTypeOK
  <2> QED
    BY <1>1, <1>2, <1>4, <2>1 DEF TikvTypeOK, CommitterTypeOK, Statuses
<1>8. OneClientInv'
  BY <1>1, <1>2, <1>5 DEF OneClientInv
<1> QED
  BY <1>2, <1>4, <1>6, <1>7, <1>8, OneClientStep

\* The answer of the prewritten region keeps the invariant.
LEMMA OnePrewriteOk ==
  ASSUME AsyncAssumption, OneShard, OnePcInv, NEW r \in ShardRegions, PrewriteOk(r),
         UNCHANGED <<readerVars, gcVars>>
  PROVE  OnePcInv'
<1>1. TikvTypeOK /\ CommitterTypeOK /\ OneStoreInv /\ ClockInv /\ OneClientInv /\ clock \in Nat
  BY DEF OnePcInv, TypeOK, CommitterTypeOK
<1>2. Shard(r) = CommitKeys /\ ShardMode(r) = "1pc" /\ r \in Regions
  BY <1>1, OneShardFacts
<1>3. /\ UNCHANGED <<msgs, clock, mode, status, cpc, result, calls, commitTs, acked>>
      /\ UNCHANGED Sent("prewrite")
      /\ cpc = "prewrite" /\ replied' = replied \cup {r}
      /\ Prewrite(CommitKeys, "1pc")
      /\ minReply' = Max({minReply, MinCommitReply(CommitKeys, "1pc")})
      /\ onePcReply' = Max({onePcReply, OnePcReply(CommitKeys, "1pc")})
  BY <1>2 DEF PrewriteOk, PrewriteShard, Request, Sent
<1>4. Sent("prewrite") # {} /\ minReply = 0
  BY <1>1, <1>3 DEF OneClientInv
<1>5. OneStep /\ UNCHANGED <<conflict, maxTs>>
  BY <1>1, <1>3, <1>4, OnePrewrite
<1>6. PICK w \in Nat : 0 < w /\ \A k \in CommitKeys : write'[k] = w
  BY <1>1, <1>3, <1>4, OnePrewrite
<1>7. minReply' = 0
  <2>1. MinCommitReply(CommitKeys, "1pc") = 0
    BY DEF MinCommitReply
  <2> QED
    BY <1>3, <1>4, <2>1, MaxZero
<1>8. OnePcReply(CommitKeys, "1pc") = w
  <2>1. \A k \in CommitKeys \cap CommitKeys : write'[k] > 0
    <3>1. w > 0
      BY <1>6, SMTT(20)
    <3> QED
      BY <1>6, <3>1
  <2>2. OnePcReply(CommitKeys, "1pc") = Max({0} \cup {write'[k] : k \in CommitKeys \cap CommitKeys})
    BY <2>1 DEF OnePcReply
  <2>3. {0} \cup {write'[k] : k \in CommitKeys \cap CommitKeys} = {0, w}
    <3>1. PICK k \in CommitKeys : TRUE
      BY <1>1, RegionFacts
    <3>2. {write'[j] : j \in CommitKeys \cap CommitKeys} = {w}
      BY <1>6, <3>1
    <3> QED
      BY <3>2
  <2>4. {0, w} \subseteq Int /\ \A y \in {0, w} : y <= w
    BY <1>6, SMTT(20)
  <2>5. Max({0, w}) = w
    BY <2>4, MaxOf
  <2> QED
    BY <2>2, <2>3, <2>5
<1>9. onePcReply \in {0, w}
  <2>1. CASE replied = {}
    BY <1>1, <1>3, <2>1 DEF OneClientInv
  <2>2. CASE replied # {}
    BY <1>1, <1>3, <1>5, <1>6, <2>2, OneRecords, RegionFacts DEF OneClientInv
  <2> QED
    BY <2>1, <2>2
<1>10. onePcReply' = w
  <2>1. {onePcReply, w} \subseteq Int /\ \A y \in {onePcReply, w} : y <= w
    BY <1>6, <1>9, SMTT(20)
  <2> QED
    BY <1>3, <1>8, <2>1, MaxOf
<1>11. OneClientInv'
  <2>1. replied' # {}
    BY <1>3
  <2>2. acked > 0 => 0 < acked
    BY <1>1, SMTT(20) DEF CommitterTypeOK
  <2>3. acked > 0 => \A k \in CommitKeys : write'[k] = acked
    BY <1>1, <1>5, <2>2, OneRecords DEF OneClientInv
  <2> QED
    BY <1>1, <1>3, <1>4, <1>6, <1>7, <1>10, <2>1, <2>3 DEF OneClientInv
<1>12. CommitterTypeOK'
  <2>1. 0 \in Nat
    BY SMTT(20)
  <2> QED
    BY <1>1, <1>2, <1>3, <1>6, <1>7, <1>10, <2>1 DEF CommitterTypeOK
<1>13. msgs' \subseteq Requests /\ msgs' \ msgs = {}
  BY <1>1, <1>3 DEF TikvTypeOK
<1> QED
  BY <1>3, <1>5, <1>11, <1>12, <1>13, OneClientStep

\* The end of prewrite keeps the invariant.
LEMMA OnePrewriteDone ==
  ASSUME AsyncAssumption, OneShard, OnePcInv, PrewriteDone, UNCHANGED <<readerVars, gcVars>>
  PROVE  OnePcInv'
<1>1. TikvTypeOK /\ CommitterTypeOK /\ OneStoreInv /\ OneClientInv
  BY DEF OnePcInv, TypeOK
<1>2. cpc = "prewrite" /\ replied # {} /\ OnePcResponse
  BY <1>1, OneShardFacts DEF PrewriteDone
<1>3. 0 < onePcReply /\ (\A k \in CommitKeys : write[k] = onePcReply) /\ onePcReply \in Nat
  BY <1>1, <1>2 DEF OneClientInv, CommitterTypeOK
<1>4. onePcReply > 0 /\ onePcReply # 0
  BY <1>3, SMTT(20)
<1>5. /\ UNCHANGED <<regionOf, lockTable, write, conflict, maxTs, clock, mode, calls, replied,
                     minReply, onePcReply>>
      /\ Succeed(onePcReply, {})
  BY <1>2, <1>4 DEF PrewriteDone, lockTable
<1>6. /\ cpc' = "returned" /\ result' = "ok" /\ status' = "Committed"
      /\ acked' = onePcReply /\ commitTs' = onePcReply /\ msgs' = msgs
  BY <1>5 DEF Succeed, Return
<1>7. OneStep
  <2>1. Sent("prewrite") # {}
    BY <1>1, <1>2 DEF OneClientInv
  <2> QED
    BY <1>1, <1>5, <1>6, <2>1, OneSame DEF NeverSent
<1>8. CommitterTypeOK' /\ msgs' \subseteq Requests /\ msgs' \ msgs = {}
  BY <1>1, <1>3, <1>5, <1>6 DEF CommitterTypeOK, TikvTypeOK, Statuses, Results
<1>9. OneClientInv'
  BY <1>1, <1>3, <1>5, <1>6 DEF OneClientInv
<1> QED
  BY <1>5, <1>7, <1>8, <1>9, OneClientStep

\* A call of rollback() keeps the invariant.
LEMMA OneCallRollback ==
  ASSUME AsyncAssumption, OneShard, OnePcInv, CallRollback, UNCHANGED <<readerVars, gcVars>>
  PROVE  OnePcInv'
<1>1. TikvTypeOK /\ CommitterTypeOK /\ OneStoreInv /\ OneClientInv
  BY DEF OnePcInv, TypeOK
<1>2. /\ UNCHANGED <<regionOf, lockTable, write, conflict, maxTs, clock, mode, result, minReply,
                     onePcReply, commitTs, acked>>
      /\ calls' = calls + 1 /\ status' = "StartedRollback" /\ cpc' = "rollback" /\ replied' = {}
      /\ msgs' = msgs \cup {Request("rollback", CommitShard(r), 0, "") : r \in CommitRegions}
      /\ \/ cpc = "idle"
         \/ cpc = "returned" /\ (result \in RollbackAfter \/ status = "StartedRollback")
  BY DEF CallRollback, lockTable
<1>3. \A m \in msgs' \ msgs : m \in Requests /\ m.type = "rollback" /\ m.keys = CommitKeys
  <2>1. 0 \in Nat
    BY SMTT(20)
  <2>2. \A r \in CommitRegions : CommitShard(r) = CommitKeys
    BY <1>1, OneShardFacts
  <2>3. LET m == Request("rollback", CommitKeys, 0, "") IN
          m \in Requests /\ m.keys = CommitKeys /\ m.type = "rollback"
    BY <2>1 DEF Request, Requests, CommitKeys
  <2> QED
    BY <1>2, <2>2, <2>3
<1>4. UNCHANGED Sent("prewrite") /\ msgs \subseteq msgs'
  BY <1>2, <1>3 DEF Sent
<1>5. Lost \/ Sent("prewrite") = {}
  BY <1>1, <1>2 DEF OneClientInv, AsyncAssumption, CallsAfterVerdict
<1>6. OneStep
  BY <1>1, <1>2, <1>4, OneSame DEF NeverSent
<1>7. Lost'
  BY <1>2, <1>4, <1>5, <1>6 DEF OneStep, Lost, NeverSent
<1>8. CommitterTypeOK' /\ msgs' \subseteq Requests
  <2>1. calls' \in Nat
    BY <1>1, <1>2, NextTime DEF CommitterTypeOK
  <2> QED
    BY <1>1, <1>2, <1>3, <2>1 DEF CommitterTypeOK, Statuses, TikvTypeOK
<1>9. OneClientInv'
  BY <1>1, <1>2, <1>7 DEF OneClientInv
<1> QED
  BY <1>2, <1>3, <1>6, <1>7, <1>8, <1>9, OneClientStep

\* The answer of the region that is rolled back keeps the invariant.
LEMMA OneRollbackOk ==
  ASSUME AsyncAssumption, OneShard, OnePcInv, NEW r \in CommitRegions, RollbackOk(r),
         UNCHANGED <<readerVars, gcVars>>
  PROVE  OnePcInv'
<1>1. TikvTypeOK /\ CommitterTypeOK /\ OneStoreInv /\ OneClientInv
  BY DEF OnePcInv, TypeOK
<1>2. CommitShard(r) = CommitKeys /\ r \in Regions
  BY <1>1, OneShardFacts
<1>3. /\ UNCHANGED <<msgs, clock, mode, status, cpc, result, calls, minReply, onePcReply,
                     commitTs, acked>>
      /\ cpc = "rollback" /\ replied' = replied \cup {r} /\ BatchRollback(CommitKeys)
      /\ UNCHANGED Sent("prewrite")
  BY <1>2 DEF RollbackOk, Sent
<1>4. Lost
  BY <1>1, <1>3 DEF OneClientInv
<1>5. OneStep /\ UNCHANGED <<conflict, maxTs>> /\ \A k \in CommitKeys : write'[k] = Rollback
  BY <1>1, <1>3, <1>4, OneRollback
<1>6. OneClientInv'
  <2>1. acked > 0 => 0 < acked
    BY <1>1, SMTT(20) DEF CommitterTypeOK
  <2>2. acked > 0 => \A k \in CommitKeys : write'[k] = acked
    BY <1>1, <1>5, <2>1, OneRecords DEF OneClientInv
  <2>3. Lost'
    BY <1>4, <1>5 DEF OneStep
  <2> QED
    BY <1>1, <1>3, <1>5, <2>2, <2>3 DEF OneClientInv
<1>7. CommitterTypeOK' /\ msgs' \subseteq Requests /\ msgs' \ msgs = {}
  BY <1>1, <1>2, <1>3 DEF CommitterTypeOK, TikvTypeOK
<1> QED
  BY <1>3, <1>5, <1>6, <1>7, OneClientStep

\* The end of rollback(), and a dropped transaction, keep the invariant.
LEMMA OneEnd ==
  ASSUME AsyncAssumption, OneShard, OnePcInv, RollbackDone \/ Drop, UNCHANGED <<readerVars, gcVars>>
  PROVE  OnePcInv'
<1>1. TikvTypeOK /\ CommitterTypeOK /\ OneStoreInv /\ OneClientInv
  BY DEF OnePcInv, TypeOK
<1>2. UNCHANGED <<regionOf, lockTable, write, conflict, maxTs, msgs, clock, mode, calls, replied,
                  minReply, onePcReply, commitTs, acked>>
  BY DEF RollbackDone, Drop, tikvVars, lockTable
<1>3. /\ cpc' \in {"returned", "gone"} /\ status' \in {"Rolledback", "Dropped"}
      /\ result' \in Results /\ (cpc' = "returned" => result' = "rolledback")
  BY <1>1 DEF RollbackDone, Drop, Return, Results, CommitterTypeOK
<1>4. OneStep
  BY <1>1, <1>2, <1>3, OneSame DEF NeverSent, Sent
<1>5. status' = "Rolledback" => \A k \in CommitKeys : write[k] = Rollback
  <2>1. status' = "Rolledback" => cpc = "rollback" /\ replied = CommitRegions
    BY DEF RollbackDone, Drop
  <2> QED
    BY <1>1, <2>1, OneShardFacts DEF OneClientInv
<1>6. OneClientInv'
  BY <1>1, <1>2, <1>3, <1>5 DEF OneClientInv
<1>7. CommitterTypeOK' /\ msgs' \subseteq Requests /\ msgs' \ msgs = {}
  BY <1>1, <1>2, <1>3 DEF CommitterTypeOK, TikvTypeOK, Statuses
<1> QED
  BY <1>2, <1>4, <1>6, <1>7, OneClientStep

----------------------------------------------------------------------------
\* Every step of commit() and rollback() keeps the invariant.
LEMMA OneCommitter ==
  ASSUME AsyncAssumption, OneShard, OnePcInv, CommitterStep, UNCHANGED <<readerVars, gcVars>>
  PROVE  OnePcInv'
<1>1. TikvTypeOK /\ OneStoreInv /\ OneClientInv
  BY DEF OnePcInv, TypeOK
<1>2. cpc \notin {"getTs", "commit"} /\ (cpc = "rollback" => Lost)
  BY <1>1 DEF OneClientInv
<1>3. CASE CallCommit
  BY <1>3, OneCallCommit
<1>4. ASSUME NEW r \in ShardRegions, PrewriteOk(r) PROVE OnePcInv'
  BY <1>4, OnePrewriteOk
<1>5. ASSUME NEW r \in ShardRegions, PrewriteRefused(r) PROVE OnePcInv'
  <2>1. Fail("refused") /\ "refused" \in Errors /\ ~MayPrewrite(Shard(r)) /\ Shard(r) = CommitKeys
    BY <1>1, <1>5, OneShardFacts DEF PrewriteRefused, Errors
  <2>2. Lost
    BY <1>1, <2>1 DEF MayPrewrite, Lost, Doomed, OneStoreInv
  <2> QED
    BY <2>1, <2>2, OneFail
<1>6. CASE PrewriteFailed
  <2>1. Fail("failed") /\ "failed" \in Errors
    BY <1>6 DEF PrewriteFailed, Errors
  <2> QED
    BY <2>1, OneFail
<1>7. CASE PrewriteDone
  BY <1>7, OnePrewriteDone
<1>8. CASE CallRollback
  BY <1>8, OneCallRollback
<1>9. ASSUME NEW r \in CommitRegions, RollbackOk(r) PROVE OnePcInv'
  BY <1>9, OneRollbackOk
<1>10. CASE RollbackFailed
  <2>1. PICK res \in {"failed", "refused"} : Fail(res)
    BY <1>10 DEF RollbackFailed
  <2>2. cpc = "rollback" /\ res \in Errors /\ res # "lag"
    BY <1>10 DEF RollbackFailed, Errors
  <2> QED
    BY <1>2, <2>1, <2>2, OneFail
<1>11. CASE RollbackDone \/ Drop
  BY <1>11, OneEnd
<1>12. ~(FetchCommitTs \/ FetchCommitTsFailed \/ CommitPrimaryOk \/ CommitPrimaryRefused \/ CommitPrimaryFailed)
  BY <1>2 DEF FetchCommitTs, FetchCommitTsFailed, CommitPrimaryOk, CommitPrimaryRefused, CommitPrimaryFailed
<1> QED
  BY <1>3, <1>4, <1>5, <1>6, <1>7, <1>8, <1>9, <1>10, <1>11, <1>12 DEF CommitterStep

\* A late delivery, or a newer version of a key, keeps the invariant.
LEMMA OneCluster ==
  ASSUME AsyncAssumption, OneShard, OnePcInv, Cluster
  PROVE  OnePcInv'
<1>1. /\ UNCHANGED <<clock, clientVars, readerVars, gcVars>>
      /\ UNCHANGED <<status, readTs, rpc, rkey, rversion, seen, gpc>>
  BY DEF Cluster, clientVars, readerVars, gcVars
<1>2. /\ TypeOK /\ TikvTypeOK /\ CommitterTypeOK /\ ResolverTypeOK /\ OneStoreInv
      /\ ClockInv /\ OneMsgInv /\ OneClientInv /\ OneReaderInv /\ clock \in Nat
  BY DEF OnePcInv, TypeOK, CommitterTypeOK
<1>3. OneStep /\ conflict' \subseteq Keys /\ UNCHANGED <<maxTs, msgs>>
  <2>1. CASE LateDelivery
    <3>1. PICK m \in msgs : Execute(m) /\ UNCHANGED msgs
      BY <2>1 DEF LateDelivery
    <3>2. m.keys = CommitKeys /\ m.type \in {"prewrite", "rollback"} /\ (m.type = "prewrite" => m.mode = "1pc")
      BY <1>2, <3>1 DEF OneMsgInv
    <3>3. UNCHANGED Sent("prewrite")
      BY <3>1 DEF Sent
    <3>4. CASE m.type = "prewrite"
      <4>1. Prewrite(CommitKeys, "1pc") /\ Sent("prewrite") # {}
        BY <3>1, <3>2, <3>4 DEF Execute, Sent
      <4>2. OneStep /\ UNCHANGED <<conflict, maxTs>>
        BY <1>1, <1>2, <3>3, <4>1, OnePrewrite
      <4> QED
        BY <1>2, <3>1, <4>2 DEF TikvTypeOK
    <3>5. CASE m.type = "rollback"
      <4>1. BatchRollback(CommitKeys) /\ Lost
        BY <1>2, <3>1, <3>2, <3>5 DEF Execute, Sent, OneMsgInv
      <4>2. OneStep /\ UNCHANGED <<conflict, maxTs>>
        BY <1>1, <1>2, <3>3, <4>1, OneRollback
      <4> QED
        BY <1>2, <3>1, <4>2 DEF TikvTypeOK
    <3> QED
      BY <3>2, <3>4, <3>5
  <2>2. ASSUME NEW k \in Keys, NewerVersion(k) PROVE OneStep /\ conflict' \subseteq Keys /\ UNCHANGED <<maxTs, msgs>>
    <3>1. /\ write[k] = NoWrite /\ conflict' = conflict \cup {k}
          /\ UNCHANGED <<regionOf, locked, asyncLocked, minCommit, write, maxTs, msgs>>
          /\ k \in CommitKeys
      BY <2>2 DEF NewerVersion, lockTable, AsyncAssumption, CommitKeys
    <3>2. Uncommitted
      <4> SUFFICES ASSUME NEW j \in CommitKeys PROVE write[j] <= 0
        BY DEF Uncommitted
      <4>1. write[j] \in Nat \cup {NoWrite} /\ (0 < write[j] => write[j] = NoWrite)
        BY <1>2, <3>1, OneKeyTypes DEF OneStoreInv
      <4> QED
        BY <4>1, SMTT(20) DEF NoWrite
    <3>3. UNCHANGED Sent("prewrite")
      BY <3>1 DEF Sent
    <3>4. OneStoreInv'
      BY <1>2, <3>1, <3>2 DEF OneStoreInv, Uncommitted
    <3>5. Lost => Lost'
      BY <1>1, <3>1, <3>3 DEF Lost, Doomed, NeverSent
    <3> QED
      BY <1>2, <3>1, <3>4, <3>5 DEF OneStep, TikvTypeOK
  <2> QED
    BY <2>1, <2>2 DEF Cluster
<1>4. UNCHANGED Sent("prewrite") /\ msgs' \ msgs = {}
  BY <1>3 DEF Sent
<1>5. OneMsgInv' /\ OneClientInv' /\ OneReaderInv'
  BY <1>1, <1>2, <1>3, <1>4, OneMsgs, OneClient, OneReaders
<1>6. ResolverTypeOK' /\ CommitterTypeOK'
  BY <1>1, <1>2 DEF ResolverTypeOK, CommitterTypeOK, gcVars, clientVars
<1> QED
  BY <1>1, <1>3, <1>5, <1>6, OneTimes, OneAnyStep

\* A reader that begins keeps the invariant.
LEMMA OneStartRead ==
  ASSUME AsyncAssumption, OnePcInv, NEW i \in Readers, StartRead(i)
  PROVE  OnePcInv'
<1>1. /\ UNCHANGED <<tikvVars, clientVars, gcVars, rkey, rversion, seen>>
      /\ UNCHANGED <<regionOf, lockTable, write, conflict, maxTs, msgs, status, gpc>>
      /\ rpc[i] = "idle" /\ clock < MaxTs /\ clock' = clock + 1
      /\ readTs' = [readTs EXCEPT ![i] = clock + 1] /\ rpc' = [rpc EXCEPT ![i] = "read"]
  BY DEF StartRead, tikvVars, lockTable, clientVars, gcVars
<1>2. /\ TypeOK /\ TikvTypeOK /\ CommitterTypeOK /\ ResolverTypeOK /\ OneStoreInv /\ OneMsgInv
      /\ OneClientInv /\ OneReaderInv /\ clock \in Nat
  BY DEF OnePcInv, TypeOK, CommitterTypeOK
<1>3. OneStep /\ UNCHANGED Sent("prewrite") /\ msgs' \ msgs = {}
  BY <1>1, <1>2, OneSame DEF NeverSent, Sent
<1>4. MaxTs \in Nat /\ SafeWindow \in Nat /\ MaxTs <= SafeWindow
  BY CommitterAssumption DEF AsyncAssumption
<1>5. clock' \in Nat /\ clock <= clock' /\ clock' <= SafeWindow /\ 0 < clock' /\ clock' <= clock'
  BY <1>1, <1>2, <1>4, SMTT(20)
<1>6. /\ \A r \in Regions : maxTs'[r] <= clock'
      /\ \A r \in Regions : maxTs[r] <= maxTs'[r] /\ maxTs' \in [Regions -> Nat]
  <2> SUFFICES ASSUME NEW r \in Regions PROVE maxTs[r] <= clock' /\ maxTs[r] <= maxTs[r]
    BY <1>1, <1>2 DEF TikvTypeOK
  <2>1. maxTs[r] \in Nat /\ maxTs[r] <= clock
    BY OneTimes
  <2> QED
    BY <1>2, <1>5, <2>1, SMTT(20)
<1>7. \A j \in Readers : /\ j # i => readTs'[j] = readTs[j] /\ rpc'[j] = rpc[j]
                         /\ j = i => readTs'[j] = clock' /\ rpc'[j] = "read"
  BY <1>1, <1>2 DEF ResolverTypeOK
<1>8. \A j \in Readers : readTs'[j] <= clock'
  <2> SUFFICES ASSUME NEW j \in Readers, j # i PROVE readTs[j] <= clock'
    BY <1>5, <1>7
  <2>1. readTs[j] \in Nat /\ readTs[j] <= clock
    BY OneTimes
  <2> QED
    BY <1>2, <1>5, <2>1, SMTT(20)
<1>9. ResolverTypeOK' /\ CommitterTypeOK'
  BY <1>1, <1>2, <1>5 DEF ResolverTypeOK, CommitterTypeOK, gcVars, clientVars
<1>10. OneReaderInv'
  <2>1. \A k \in CommitKeys : seen[i][k] = "unread"
    BY <1>1, <1>2 DEF OneReaderInv
  <2>2. ASSUME NEW j \in Readers, NEW k \in CommitKeys PROVE OneSeen(j, k)'
    <3>1. CASE j = i
      BY <1>1, <2>1, <3>1 DEF OneSeen
    <3>2. CASE j # i
      <4>1. OneSeen(j, k)
        BY <1>2 DEF OneReaderInv
      <4>2. readTs'[j] = readTs[j] /\ seen'[j][k] = seen[j][k] /\ maxTs' \in [Regions -> Nat]
        BY <1>1, <1>2, <1>7, <3>2 DEF TikvTypeOK
      <4> QED
        BY <1>2, <1>3, <1>6, <4>1, <4>2, OneSeenStays
    <3> QED
      BY <3>1, <3>2
  <2>3. \A j \in Readers : /\ rpc'[j] \in {"idle", "read"} /\ (rpc'[j] # "idle" => 0 < readTs'[j])
                           /\ rpc'[j] = "idle" => /\ readTs'[j] = 0
                                                  /\ \A k \in CommitKeys : seen'[j][k] = "unread"
    BY <1>1, <1>2, <1>5, <1>7 DEF OneReaderInv
  <2> QED
    BY <2>2, <2>3 DEF OneReaderInv
<1>11. OneMsgInv' /\ OneClientInv'
  BY <1>1, <1>2, <1>3, OneMsgs, OneClient
<1> QED
  BY <1>1, <1>3, <1>5, <1>6, <1>8, <1>9, <1>10, <1>11, OneTimes, OneAnyStep

\* A read keeps the invariant; it meets no lock.
LEMMA OneRead ==
  ASSUME OnePcInv, NEW i \in Readers, ReaderStep(i), UNCHANGED <<clock, clientVars>>
  PROVE  OnePcInv'
<1>1. /\ TypeOK /\ TikvTypeOK /\ CommitterTypeOK /\ ResolverTypeOK /\ OneStoreInv /\ OneMsgInv
      /\ OneClientInv /\ OneReaderInv /\ clock \in Nat
      /\ rpc[i] \notin {"cleanup", "resolve"} /\ locked = {}
  BY DEF OnePcInv, TypeOK, CommitterTypeOK, OneReaderInv, OneStoreInv
<1>2. PICK k \in CommitKeys : ReadKey(i, k)
  BY <1>1 DEF ReaderStep, CleanupOk, ResolveOk, ReadLocked, Blocked
<1>3. /\ rpc[i] = "read" /\ seen[i][k] = "unread" /\ UNCHANGED <<msgs, readTs, rpc, rkey, rversion, gcVars, gpc, status>>
      /\ UNCHANGED <<regionOf, lockTable, write, conflict>>
      /\ maxTs' = [maxTs EXCEPT ![regionOf[k]] = IF maxTs[regionOf[k]] > readTs[i] THEN maxTs[regionOf[k]] ELSE readTs[i]]
      /\ seen' = [seen EXCEPT ![i][k] = IF write[k] > 0 /\ write[k] <= readTs[i] THEN "new" ELSE "old"]
  BY <1>2 DEF ReadKey, ServeRead, gcVars, clientVars, lockTable
<1>4. OneStep /\ UNCHANGED Sent("prewrite") /\ msgs' \ msgs = {}
  BY <1>1, <1>3, OneSame DEF NeverSent, Sent
<1>5. /\ regionOf[k] \in Regions /\ readTs[i] \in Nat /\ maxTs \in [Regions -> Nat]
      /\ maxTs[regionOf[k]] \in Nat /\ maxTs[regionOf[k]] <= clock /\ readTs[i] <= clock
  BY <1>1, OneKeyTypes, OneTimes
<1>6. PICK v : v = IF maxTs[regionOf[k]] > readTs[i] THEN maxTs[regionOf[k]] ELSE readTs[i]
  OBVIOUS
<1>7. v \in Nat /\ maxTs[regionOf[k]] <= v /\ readTs[i] <= v /\ v <= clock
  BY <1>1, <1>5, <1>6, SMTT(20)
<1>8. maxTs' = [maxTs EXCEPT ![regionOf[k]] = v]
  BY <1>3, <1>6
<1>9. maxTs' \in [Regions -> Nat] /\ readTs[i] <= maxTs'[regionOf[k]]
  BY <1>5, <1>7, <1>8
<1>10. \A r \in Regions : maxTs[r] <= maxTs'[r] /\ maxTs'[r] <= clock
  <2> SUFFICES ASSUME NEW r \in Regions PROVE maxTs[r] <= maxTs'[r] /\ maxTs'[r] <= clock
    OBVIOUS
  <2>1. maxTs[r] \in Nat /\ maxTs[r] <= clock
    BY OneTimes
  <2>2. maxTs[r] <= maxTs[r]
    BY <2>1, SMTT(20)
  <2> QED
    BY <1>5, <1>7, <1>8, <2>1, <2>2
<1>11. /\ seen' \in [Readers -> [CommitKeys -> {"unread", "old", "new"}]]
       /\ \A j \in Readers : \A l \in CommitKeys :
            \/ seen'[j][l] = seen[j][l]
            \/ j = i /\ l = k /\ seen'[j][l] = IF write[k] > 0 /\ write[k] <= readTs[i] THEN "new" ELSE "old"
  BY <1>1, <1>3 DEF ResolverTypeOK
<1>12. ASSUME NEW j \in Readers, NEW l \in CommitKeys PROVE OneSeen(j, l)'
  <2>1. CASE seen'[j][l] = seen[j][l]
    <3>1. OneSeen(j, l) /\ readTs'[j] = readTs[j]
      BY <1>1, <1>3 DEF OneReaderInv
    <3> QED
      BY <1>1, <1>4, <1>9, <1>10, <2>1, <3>1, OneSeenStays
  <2>2. CASE j = i /\ l = k /\ seen'[j][l] = IF write[k] > 0 /\ write[k] <= readTs[i] THEN "new" ELSE "old"
    <3>1. write[k] \in Nat \cup {NoWrite}
      BY <1>1, OneKeyTypes
    <3>2. write[k] > 0 => 0 < write[k]
      BY <3>1, SMTT(20) DEF NoWrite
    <3>3. ~(write[k] > 0 /\ write[k] <= readTs[i]) => write[k] <= 0 \/ readTs[i] < write[k]
      BY <1>5, <3>1, SMTT(20) DEF NoWrite
    <3>4. write'[k] = write[k] /\ readTs'[i] = readTs[i] /\ regionOf'[k] = regionOf[k]
      BY <1>3
    <3>5. CASE write[k] > 0 /\ write[k] <= readTs[i]
      BY <2>2, <3>2, <3>4, <3>5 DEF OneSeen
    <3>6. CASE ~(write[k] > 0 /\ write[k] <= readTs[i])
      <4>1. seen'[j][l] = "old"
        BY <2>2, <3>6
      <4> QED
        BY <1>9, <2>2, <3>3, <3>4, <3>6, <4>1 DEF OneSeen
    <3> QED
      BY <3>5, <3>6
  <2> QED
    BY <1>11, <2>1, <2>2
<1>13. OneReaderInv'
  <2>1. ASSUME NEW j \in Readers, rpc[j] = "idle", NEW l \in CommitKeys PROVE seen'[j][l] = "unread"
    <3>1. seen'[j][l] = seen[j][l]
      BY <1>3, <1>11, <2>1
    <3>2. seen[j][l] = "unread"
      BY <1>1, <2>1 DEF OneReaderInv
    <3> QED
      BY <3>1, <3>2
  <2> QED
    BY <1>1, <1>3, <1>12, <2>1 DEF OneReaderInv
<1>14. ResolverTypeOK' /\ CommitterTypeOK' /\ OneMsgInv' /\ OneClientInv'
  BY <1>1, <1>3, <1>4, <1>11, OneMsgs, OneClient DEF ResolverTypeOK, CommitterTypeOK, gcVars, clientVars
<1> QED
  BY <1>3, <1>4, <1>9, <1>10, <1>13, <1>14, OneTimes, OneAnyStep

\* Every step keeps the invariant; the garbage collector finds no lock.
LEMMA OneNext ==
  ASSUME AsyncAssumption, OneShard, OnePcInv, [Next]_vars
  PROVE  OnePcInv'
<1>1. CASE CommitterStep /\ UNCHANGED <<readerVars, gcVars>>
  BY <1>1, OneCommitter
<1>2. ASSUME NEW i \in Readers, StartRead(i) PROVE OnePcInv'
  BY <1>2, OneStartRead
<1>3. ASSUME NEW i \in Readers, ReaderStep(i), UNCHANGED <<clock, clientVars>> PROVE OnePcInv'
  BY <1>3, OneRead
<1>4. ASSUME NEW r \in Regions, GcStep(r) PROVE OnePcInv'
  <2>1. gpc[r] = "scan" /\ locked = {}
    BY DEF OnePcInv, OneStoreInv
  <2> QED
    BY <1>4, <2>1 DEF GcStep, GcScan, GcCached, GcStatus, GcDecide, GcResolve, GcSecondary
<1>5. CASE Cluster
  BY <1>5, OneCluster
<1>6. CASE UNCHANGED vars
  <2>1. /\ UNCHANGED <<regionOf, lockTable, conflict, maxTs, msgs, clock, clientVars, readerVars, gcVars, status>>
        /\ TypeOK /\ TikvTypeOK /\ CommitterTypeOK /\ OneStoreInv /\ OneClientInv
    BY <1>6 DEF vars, tikvVars, clientVars, OnePcInv, TypeOK
  <2>2. OneStep /\ UNCHANGED Sent("prewrite") /\ msgs' \ msgs = {}
    BY <2>1, OneSame DEF NeverSent, Sent
  <2>3. OneClientInv' /\ CommitterTypeOK'
    BY <2>1, <2>2, OneClient DEF CommitterTypeOK, clientVars
  <2> QED
    BY <2>1, <2>2, <2>3, OneTimes, OneClientStep
<1> QED
  BY <1>1, <1>2, <1>3, <1>4, <1>5, <1>6 DEF Next

\* The invariant holds initially.
LEMMA OneInit ==
  ASSUME AsyncAssumption, Init
  PROVE  OnePcInv
<1>1. /\ 0 \in Nat /\ StartTs \in Nat /\ StartTs <= StartTs /\ StartTs <= SafeWindow /\ 0 <= StartTs + 1
      /\ 0 <= StartTs /\ ~(0 < 0) /\ NoWrite <= StartTs + 1 /\ ~(0 < NoWrite) /\ NoWrite <= 0 /\ ~(0 > 0)
  BY SMTT(20) DEF StartTs, AsyncAssumption, NoWrite
<1>2. CommitKeys \subseteq Keys /\ Primary \in CommitKeys
  BY DEF CommitKeys
<1>3. TypeOK
  BY <1>1, <1>2 DEF Init, TikvInit, CommitterInit, ResolverInit, TypeOK, TikvTypeOK, CommitterTypeOK, ResolverTypeOK,
     Statuses, Results
<1>4. OneStoreInv /\ \A k \in CommitKeys : write[k] <= clock + 1
  BY <1>1, <1>2 DEF Init, TikvInit, CommitterInit, OneStoreInv, Uncommitted
<1>5. ClockInv
  BY <1>1, <1>2 DEF Init, TikvInit, CommitterInit, ResolverInit, ClockInv
<1>6. OneMsgInv
  BY DEF Init, TikvInit, OneMsgInv, Sent
<1>7. OneClientInv
  BY <1>1 DEF Init, TikvInit, CommitterInit, OneClientInv, Sent
<1>8. OneReaderInv
  BY DEF Init, ResolverInit, OneReaderInv, OneSeen
<1> QED
  BY <1>3, <1>4, <1>5, <1>6, <1>7, <1>8 DEF OnePcInv, Init, ResolverInit
============================================================================
