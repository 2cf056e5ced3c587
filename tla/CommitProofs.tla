---------------------------- MODULE CommitProofs ----------------------------
(***************************************************************************)
(* A commit() that returned Ok has committed every write of the            *)
(* transaction.  The invariant CommitInv of TransactionProofs follows each *)
(* write from the buffer, through the flush that carries it, to a lock and *)
(* a record: one lemma per action shows that the step keeps it.  Second, a *)
(* rollback() that returned Ok leaves no lock behind: CleanInv says where  *)
(* locks can still be, and who is to release them.                         *)
(***************************************************************************)
EXTENDS TransactionProofs

USE ZenonT(30)
----------------------------------------------------------------------------
(* What is known of a live transaction after a step that keeps its buffer. *)
LEMMA LiveParts ==
  ASSUME CommitInv, Live
  PROVE  /\ StoreInv /\ PlainInv /\ FlushInv /\ FlushedInv /\ LostAnswerInv /\ ReadyInv
         /\ WrittenInv /\ StageInv /\ ShapeInv
  BY DEF CommitInv, LiveInv

(* The call that is awaited. *)
LEMMA IdleName == Idle.name = "idle"
  BY DEF Idle

(* A call that waits for an answer notes what it waits for. *)
LEMMA AwaitName ==
  ASSUME NEW name, NEW primary, Await(name, primary)
  PROVE  op'.name = name /\ op'.first = primary
  BY DEF Await, Idle

(* A transaction that is over keeps the invariant. *)
LEMMA OverStep ==
  ASSUME CommitInv, UNCHANGED <<kind, buf, mine>>, StageInv', ShapeInv', ~Live'
  PROVE  CommitInv'
<1>1. WrittenInv'
  BY DEF CommitInv, WrittenInv, Written, pessimistic
<1> QED
  BY <1>1 DEF CommitInv

(* Rolling back and dropping. *)
LEMMA RollbackCallCommit ==
  ASSUME CommitInv, RollbackCall
  PROVE  CommitInv'
<1>1. /\ StageInv /\ ShapeInv /\ op = Idle /\ UNCHANGED <<resolving, kind, buf, secondaries, mine>>
  BY DEF CommitInv, RollbackCall, Call
<1>2. CASE kind = "pipelined"
  <2>1. /\ Cancel /\ op'.name = "cancelled" /\ status' = "StartedRollback"
    BY <1>2 DEF RollbackCall, Await, Idle
  <2>2. ShapeInv'
    BY <1>1, <2>1 DEF Cancel, ShapeInv, PipeFields, FlushFields
  <2>3. StageInv' /\ ~Live'
    BY <1>1, <1>2, <2>1 DEF StageInv, Live
  <2> QED
    BY <1>1, <2>2, <2>3, OverStep
<1>3. CASE kind # "pipelined"
  <2>1. /\ UNCHANGED <<pipe, late>>
        /\ \/ status' = "Rolledback" /\ op'.name = "idle"
           \/ status' = "StartedRollback" /\ op'.name = "rollback"
    BY <1>1, <1>3, IdleName, AwaitName DEF RollbackCall
  <2>2. ShapeInv'
    BY <1>1, <2>1 DEF ShapeInv
  <2>3. StageInv' /\ ~Live'
    BY <1>1, <1>3, <2>1 DEF StageInv, Live, Idle
  <2> QED
    BY <1>1, <2>2, <2>3, OverStep
<1> QED
  BY <1>2, <1>3

(* rollback(), and the answers of its requests: no longer live. *)
LEMMA RollbackCommit ==
  ASSUME CommitInv,
         RollbackPipelined \/ RollbackDone \/ (\E regions : RollbackFails(regions)) \/ DropTxn
  PROVE  CommitInv'
<1>1. StageInv /\ ShapeInv
  BY DEF CommitInv
<1>2. CASE RollbackPipelined
  <2>1. /\ op.name = "cancelled" /\ pipe' = [pipe EXCEPT !.flushing = NoFlush]
        /\ op' = Idle /\ status' = "Rolledback"
        /\ UNCHANGED <<late, secondaries, kind, buf, mine>> /\ SpawnResolve(FALSE)
    BY <1>2 DEF RollbackPipelined, Calling
  <2>2. ShapeInv'
    BY <1>1, <2>1 DEF ShapeInv, PipeFields, FlushFields, NoFlush, SpawnResolve
  <2>3. StageInv' /\ ~Live'
    BY <1>1, <2>1 DEF StageInv, Live, Idle
  <2> QED
    BY <2>1, <2>2, <2>3, OverStep
<1>3. CASE RollbackDone \/ (\E regions : RollbackFails(regions)) \/ DropTxn
  <2>1. /\ op'.name = "idle" /\ status' \in {"Rolledback", "StartedRollback", "Dropped"}
        /\ UNCHANGED <<pipe, late, resolving, kind, buf, mine>>
    <3>1. CASE RollbackDone
      BY <3>1, IdleName DEF RollbackDone, Calling, pipeVars
    <3>2. CASE \E regions : RollbackFails(regions)
      BY <1>1, <3>2, IdleName DEF RollbackFails, Calling, pipeVars, StageInv
    <3>3. CASE DropTxn
      BY <3>3, IdleName DEF DropTxn, Calling, pipeVars
    <3> QED
      BY <1>3, <3>1, <3>2, <3>3
  <2>2. ShapeInv'
    BY <1>1, <2>1 DEF ShapeInv
  <2>3. StageInv' /\ ~Live'
    BY <1>1, <2>1 DEF StageInv, Live
  <2> QED
    BY <2>1, <2>2, <2>3, OverStep
<1> QED
  BY <1>2, <1>3

(* A failed flush and the late requests it leaves. *)
LEMMA LateCommit ==
  ASSUME CommitInv,
         \/ FlushFails
         \/ \E f \in late, r \in RegionsOf(Keys) : LateFlush(f, r),
         UNCHANGED <<txnVars, scenario>>
  PROVE  CommitInv'
<1>1. /\ StageInv /\ ShapeInv
      /\ UNCHANGED <<kind, status, buf, op, secondaries, mine, strays, resolving>>
  BY DEF CommitInv, txnVars, FlushFails, LateFlush
<1>2. CASE FlushFails
  <2> DEFINE f == [pipe.flushing EXCEPT !.stage = "failed"]
  <2>1. /\ pipe.flushing.stage = "running"
        /\ pipe' = [pipe EXCEPT !.flushing = f, !.failed = TRUE, !.abandoned = TRUE]
    BY <1>2 DEF FlushFails
  <2>2. DOMAIN f = DOMAIN pipe.flushing
    OBVIOUS
  <2> HIDE DEF f
  <2>3. ShapeInv' /\ pipe'.failed
    BY <1>1, <2>1, <2>2 DEF ShapeInv, PipeFields, FlushFields
  <2>4. StageInv' /\ ~Live'
    BY <1>1, <2>1, <2>3 DEF StageInv, Live, Sound
  <2> QED
    BY <1>1, <2>3, <2>4, OverStep
<1>3. CASE \E f \in late, r \in RegionsOf(Keys) : LateFlush(f, r)
  <2>1. late # {} /\ pipe' = pipe
    BY <1>3 DEF LateFlush
  <2>2. ~Live
    BY <2>1, LiveParts DEF Live, StageInv, FlushInv, Flushes, ReadyInv, Ready
  <2>3. ~Live'
    BY <1>1, <2>1, <2>2 DEF Live, Sound
  <2>4. ShapeInv' /\ StageInv'
    BY <1>1, <2>1 DEF ShapeInv, StageInv
  <2> QED
    BY <1>1, <2>3, <2>4, OverStep
<1> QED
  BY <1>2, <1>3

----------------------------------------------------------------------------
(* Committing locks keeps what is settled. *)
LEMMA SettledCommit ==
  ASSUME buf \in Buffers, StoreInv, SettledInv, NEW ks, Commit(ks), UNCHANGED <<buf, mine, snap>>
  PROVE  /\ StoreInv' /\ SettledInv'
         /\ \A k \in Keys : Committed(k) => Committed(k)'
<1> DEFINE q == CommitPrimary(buf)
<1>1. /\ StoreInv'
      /\ \A k \in Keys :
           IF k \in ks /\ lock[k].type # "none"
           THEN /\ lock'[k] = NoLock /\ Committed(k)'
                /\ record'[k].op = lock[k].op /\ record'[k].value = lock[k].value
           ELSE lock'[k] = lock[k] /\ record'[k] = record[k] /\ (Committed(k)' <=> Committed(k))
  BY CommitOK
<1>2. NoLock.type = "none"
  BY DEF NoLock
<1>3. CommitKeys(buf) \subseteq Keys
  BY CommitKeysAre
<1>4. \A k \in Keys : record[k] = RolledBack => record'[k] = RolledBack
  BY <1>1 DEF StoreInv
<1>5. ASSUME NEW k \in CommitKeys(buf), Written(k), q \in Keys
      PROVE  Settled(k, CommitPrimary(buf))'
  <2>1. /\ lock[k].type # "none" => lock[k].type = "write" /\ Right(lock[k], k)
        /\ Committed(k) => Right(record[k], k)
        /\ \/ Committed(k)
           \/ lock[k].type = "write"
           \/ record[k] = RolledBack /\ record[q] = RolledBack
    BY <1>5 DEF SettledInv, Settled
  <2>2. k \in Keys
    BY <1>3
  <2>3. CASE k \in ks /\ lock[k].type # "none"
    <3>1. /\ lock'[k] = NoLock /\ Committed(k)'
          /\ record'[k].op = lock[k].op /\ record'[k].value = lock[k].value
      BY <1>1, <2>2, <2>3
    <3> QED
      BY <1>2, <2>1, <2>3, <3>1 DEF Settled, Right, Written
  <2>4. CASE ~(k \in ks /\ lock[k].type # "none")
    <3>1. lock'[k] = lock[k] /\ record'[k] = record[k] /\ (Committed(k)' <=> Committed(k))
      BY <1>1, <2>2, <2>4
    <3>2. record[q] = RolledBack => record'[q] = RolledBack
      BY <1>4, <1>5
    <3> QED
      BY <2>1, <3>1, <3>2 DEF Settled, Right, Written, RolledBack
  <2> QED
    BY <2>3, <2>4
<1>6. ASSUME NEW k \in CommitKeys(buf)
      PROVE  q \in Keys
  <2>1. MutatedKeys(buf) # {}
    BY <1>6 DEF CommitKeys
  <2> QED
    BY <2>1, PrimaryIsKey
<1>7. \A k \in Keys : lock'[k].type # "none" => lock'[k] = lock[k]
  BY <1>1, <1>2
<1>8. \A k \in Keys : lock[k].type = "none" => lock'[k] = lock[k] /\ (Committed(k)' <=> Committed(k))
  BY <1>1
<1>9. SettledInv'
  <2>1. \A k \in CommitKeys(buf) : Written(k)' => Settled(k, CommitPrimary(buf))'
    BY <1>5, <1>6 DEF Written
  <2>2. /\ \A k \in CommitKeys(buf) : lock'[k].type # "none" => lock'[k].primary = CommitPrimary(buf)
        /\ \A k \in Keys \ CommitKeys(buf) : lock'[k].type # "none" =>
             lock'[k].primary = CommitPrimary(buf) \/ lock'[k].primary \notin CommitKeys(buf)
    BY <1>3, <1>7 DEF SettledInv
  <2>3. \A k \in Keys : buf.entries[k].kind = "check" =>
         snap'[k] = Absent /\ lock'[k].type = "none" /\ ~Committed(k)'
    BY <1>8 DEF SettledInv
  <2> QED
    BY <2>1, <2>2, <2>3 DEF SettledInv
<1> QED
  BY <1>1, <1>9

(* A resolver keeps what is settled: it rolls back no committed key unless   *)
(* it rolls back the primary. *)
LEMMA SettledResolve ==
  ASSUME buf \in Buffers, StoreInv, SettledInv, NEW i \in Keys, NEW alive,
         ResolverMeets(i, alive), UNCHANGED <<buf, mine>>
  PROVE  /\ StoreInv' /\ SettledInv'
         /\ \A k \in Keys : Committed(k) => Committed(k)'
<1> DEFINE p == lock[i].primary
           q == CommitPrimary(buf)
<1>1. /\ lock[i].type # "none" /\ p \in Keys /\ snap' = snap
      /\ Committed(p) => Commit({i})
      /\ ~Committed(p) => Rollback({p, i})
  BY DEF ResolverMeets, StoreInv
<1>2. CASE Committed(p)
  BY <1>1, <1>2, SettledCommit
<1>3. CASE ~Committed(p)
  <2>1. /\ StoreInv'
        /\ \A k \in Keys :
              /\ Committed(k)' <=> Committed(k)
              /\ IF k \in {p, i} /\ ~Committed(k)
                 THEN lock'[k] = NoLock /\ record'[k] = RolledBack
                 ELSE lock'[k] = lock[k] /\ record'[k] = record[k]
    <3>1. Rollback({p, i})
      BY <1>1, <1>3
    <3> QED
      BY <3>1, RollbackOK
  <2>2. NoLock.type = "none"
    BY DEF NoLock
  <2>3. CommitKeys(buf) \subseteq Keys
    BY CommitKeysAre
  <2>4. \A k \in Keys : record[k] = RolledBack => record'[k] = RolledBack
    BY <2>1
  <2>5. \A k \in Keys : lock'[k] = lock[k] \/ lock'[k] = NoLock
    BY <2>1
  <2>6. ASSUME NEW k \in CommitKeys(buf), Written(k)
        PROVE  Settled(k, CommitPrimary(buf))'
    <3>1. /\ lock[k].type # "none" => lock[k].type = "write" /\ Right(lock[k], k)
          /\ Committed(k) => Right(record[k], k)
          /\ \/ Committed(k)
             \/ lock[k].type = "write"
             \/ record[k] = RolledBack /\ record[q] = RolledBack
      BY <2>6 DEF SettledInv, Settled
    <3>2. k \in Keys /\ q \in Keys
      <4>1. MutatedKeys(buf) # {}
        BY <2>6 DEF CommitKeys
      <4> QED
        BY <2>3, <4>1, PrimaryIsKey
    <3>3. CASE k \in {p, i} /\ ~Committed(k)
      <4>1. p = q
        BY <1>1, <3>3 DEF SettledInv
      <4>2. record'[q] = RolledBack /\ record'[k] = RolledBack /\ lock'[k].type = "none"
        BY <1>3, <2>1, <2>2, <3>2, <3>3, <4>1
      <4>3. ~Committed(k)'
        <5>1. RolledBack.op = "rollback"
          BY DEF RolledBack
        <5> QED
          BY <4>2, <5>1 DEF Committed
      <4> QED
        BY <4>2, <4>3 DEF Settled, RolledBack
    <3>4. CASE ~(k \in {p, i} /\ ~Committed(k))
      <4>1. lock'[k] = lock[k] /\ record'[k] = record[k] /\ (Committed(k)' <=> Committed(k))
        BY <2>1, <3>2, <3>4
      <4>2. record[q] = RolledBack => record'[q] = RolledBack
        BY <2>4, <3>2
      <4> QED
        BY <3>1, <4>1, <4>2 DEF Settled, Right, Written, RolledBack
    <3> QED
      BY <3>3, <3>4
  <2>7. SettledInv'
    <3>1. \A k \in CommitKeys(buf) : Written(k)' => Settled(k, CommitPrimary(buf))'
      BY <2>6 DEF Written
    <3>2. /\ \A k \in CommitKeys(buf) : lock'[k].type # "none" => lock'[k].primary = CommitPrimary(buf)
          /\ \A k \in Keys \ CommitKeys(buf) : lock'[k].type # "none" =>
               lock'[k].primary = CommitPrimary(buf) \/ lock'[k].primary \notin CommitKeys(buf)
      BY <2>2, <2>3, <2>5 DEF SettledInv
    <3>3. \A k \in Keys : buf.entries[k].kind = "check" =>
           snap'[k] = Absent /\ lock'[k].type = "none" /\ ~Committed(k)'
      BY <1>1, <2>1, <2>2, <2>5 DEF SettledInv
    <3> QED
      BY <3>1, <3>2, <3>3 DEF SettledInv
  <2> QED
    BY <2>1, <2>7
<1> QED
  BY <1>2, <1>3

(* The tasks of a committed transaction. *)
LEMMA TasksCommit ==
  ASSUME IInv, CommitInv,
         \/ SecondariesCommitted
         \/ SecondariesFail
         \/ ResolveTask /\ UNCHANGED <<txnVars, scenario>>
  PROVE  CommitInv'
<1>1. /\ StageInv /\ ShapeInv /\ WrittenInv /\ buf \in Buffers
      /\ UNCHANGED <<kind, status, buf, op, mine, strays, snap, pipe, late>>
  BY DEF IInv, BufferInv, CommitInv, SecondariesCommitted, SecondariesFail, ResolveTask,
         ResolveRegion, ResolveFails, Calling, pipeVars, txnVars
<1>2. /\ secondaries' = {} \/ secondaries' = secondaries
      /\ \/ /\ secondaries # {} /\ resolving' = resolving
            /\ (\E ks : Commit(ks)) \/ UNCHANGED <<lock, record>>
         \/ /\ resolving.state = "running"
            /\ DOMAIN resolving' = DOMAIN resolving
            /\ resolving'.commit = resolving.commit
            /\ (resolving.commit => \E ks : Commit(ks)) \/ UNCHANGED <<lock, record>>
  <2>1. CASE SecondariesCommitted \/ SecondariesFail
    BY <2>1 DEF SecondariesCommitted, SecondariesFail, pipeVars
  <2>2. CASE ResolveFails /\ UNCHANGED txnVars
    BY <1>1, <2>2 DEF ResolveFails, txnVars, ShapeInv
  <2>3. CASE (\E r \in RegionsOf(Keys) : ResolveRegion(r)) /\ UNCHANGED txnVars
    <3>1. PICK r \in RegionsOf(Keys) : ResolveRegion(r)
      BY <2>3
    <3>2. resolving.commit => \E ks : Commit(ks)
      BY <3>1 DEF ResolveRegion, ResolveLocks
    <3> QED
      BY <1>1, <2>3, <3>1, <3>2 DEF ResolveRegion, txnVars, ShapeInv
  <2> QED
    BY <2>1, <2>2, <2>3 DEF ResolveTask
<1>3. /\ WrittenInv'
      /\ StageInv'
      /\ ShapeInv'
  <2>1. WrittenInv'
    BY <1>1 DEF WrittenInv, Written, pessimistic
  <2>2. StageInv'
    BY <1>1, <1>2 DEF StageInv
  <2>3. ShapeInv'
    BY <1>1, <1>2 DEF ShapeInv
  <2> QED
    BY <2>1, <2>2, <2>3
<1>4. ASSUME Live'
      PROVE  LiveInv'
  <2>1. Live
    BY <1>1, <1>4 DEF Live, Sound
  <2>2. status = "Committed"
    BY <1>2, <2>1, LiveParts DEF Live, StageInv, FlushInv, Flushes
  <2>3. /\ StoreInv /\ SettledInv
        /\ CommitKeys(buf) # {} => Committed(CommitPrimary(buf))
        /\ late = {} /\ pipe.flushing.stage = "none"
        /\ resolving.state = "running" => resolving.commit
    BY <2>1, <2>2, LiveParts DEF ReadyInv, Ready
  <2>4. (\E ks : Commit(ks)) \/ UNCHANGED <<lock, record>>
    BY <1>2, <2>3
  <2>5. /\ StoreInv' /\ SettledInv'
        /\ \A k \in Keys : Committed(k) => Committed(k)'
    <3>1. CASE \E ks : Commit(ks)
      BY <1>1, <2>3, <3>1, SettledCommit
    <3>2. CASE UNCHANGED <<lock, record>>
      BY <1>1, <2>3, <3>2 DEF StoreInv, SettledInv, Settled, Right, Written, Committed, RolledBack
    <3> QED
      BY <2>4, <3>1, <3>2
  <2>6. CommitKeys(buf) # {} => Committed(CommitPrimary(buf))'
    <3> SUFFICES ASSUME CommitKeys(buf) # {}
                 PROVE  Committed(CommitPrimary(buf))'
      OBVIOUS
    <3>1. MutatedKeys(buf) # {}
      BY DEF CommitKeys
    <3>2. CommitPrimary(buf) \in Keys /\ Committed(CommitPrimary(buf))
      BY <1>1, <2>3, <3>1, PrimaryIsKey
    <3>3. CommitPrimary(buf') = CommitPrimary(buf)
      BY <1>1
    <3> QED
      BY <2>5, <3>2, <3>3 DEF Committed
  <2>7. resolving'.state = "running" => resolving'.commit
    BY <1>2, <2>3
  <2>8. ReadyInv'
    BY <1>1, <2>3, <2>5, <2>6, <2>7 DEF ReadyInv
  <2> QED
    BY <1>1, <2>2, <2>5, <2>8 DEF LiveInv, PlainInv, FlushInv, FlushedInv, LostAnswerInv, Flushes
<1> QED
  BY <1>3, <1>4 DEF CommitInv

(* Somebody resolves a lock. *)
LEMMA ResolverCommit ==
  ASSUME IInv, CommitInv, NEW i \in Keys, NEW alive, ResolverMeets(i, alive),
         UNCHANGED <<pipeVars, txnVars>>
  PROVE  CommitInv'
<1> DEFINE p == lock[i].primary
<1>1. /\ StageInv /\ ShapeInv /\ WrittenInv /\ buf \in Buffers
      /\ UNCHANGED <<kind, status, buf, op, mine, strays, snap, pipe, late, resolving, secondaries>>
  BY DEF IInv, BufferInv, CommitInv, ResolverMeets, pipeVars, txnVars
<1>2. WrittenInv' /\ StageInv' /\ ShapeInv'
  BY <1>1 DEF WrittenInv, Written, pessimistic, StageInv, ShapeInv
<1>3. ASSUME Live'
      PROVE  LiveInv'
  <2>1. Live
    BY <1>1, <1>3 DEF Live, Sound
  <2>2. StoreInv /\ PlainInv /\ FlushInv /\ FlushedInv /\ LostAnswerInv /\ ReadyInv
    BY <2>1, LiveParts
  <2>3. /\ lock[i].type # "none" /\ p \in Keys
        /\ Committed(p) => Commit({i})
        /\ ~Committed(p) => Rollback({p, i})
    BY <2>2 DEF ResolverMeets, StoreInv
  <2>4. /\ StoreInv'
        /\ Committed(p) => \A k \in Keys :
             IF k = i
             THEN /\ lock'[k] = NoLock /\ Committed(k)'
                  /\ record'[k].op = lock[k].op /\ record'[k].value = lock[k].value
             ELSE lock'[k] = lock[k] /\ record'[k] = record[k] /\ (Committed(k)' <=> Committed(k))
        /\ ~Committed(p) => \A k \in Keys :
             /\ Committed(k)' <=> Committed(k)
             /\ IF k \in {p, i} /\ ~Committed(k)
                THEN lock'[k] = NoLock /\ record'[k] = RolledBack
                ELSE lock'[k] = lock[k] /\ record'[k] = record[k]
    <3>1. CASE Committed(p)
      <4>1. Commit({i})
        BY <2>3, <3>1
      <4>2. /\ StoreInv'
            /\ \A k \in Keys :
                  IF k \in {i} /\ lock[k].type # "none"
                  THEN /\ lock'[k] = NoLock /\ Committed(k)'
                       /\ record'[k].op = lock[k].op /\ record'[k].value = lock[k].value
                  ELSE lock'[k] = lock[k] /\ record'[k] = record[k]
                       /\ (Committed(k)' <=> Committed(k))
        BY <2>2, <4>1, CommitOK
      <4> QED
        BY <2>3, <3>1, <4>2
    <3>2. CASE ~Committed(p)
      <4>1. Rollback({p, i})
        BY <2>3, <3>2
      <4> QED
        BY <2>2, <3>2, <4>1, RollbackOK
    <3> QED
      BY <3>1, <3>2
  <2>5. NoLock.type = "none" /\ NoLock.gen = 0
    BY DEF NoLock
  <2>6. \A k \in Keys : lock'[k] = lock[k] \/ lock'[k] = NoLock
    BY <2>4
  <2>7. PlainInv'
    <3> SUFFICES ASSUME kind # "pipelined", status \in {"Active", "StartedCommit"}
                 PROVE  PlainInv'
      BY <1>1 DEF PlainInv
    <3>1. \A k \in Keys : ~Committed(k)
      BY <2>2 DEF PlainInv
    <3>2. \A k \in Keys : ~Committed(k)'
      BY <2>3, <2>4, <3>1
    <3>3. \A k \in Keys : /\ lock'[k].gen = 0
                          /\ lock'[k].type # "none" => lock'[k] = lock[k]
      BY <2>2, <2>5, <2>6 DEF PlainInv
    <3>4. \A k \in Keys : lock[k].type = "none" => lock'[k].type = "none"
      BY <2>5, <2>6
    <3> QED
      BY <1>1, <2>2, <3>2, <3>3, <3>4 DEF PlainInv, pessimistic
  <2>8. ReadyInv'
    <3> SUFFICES ASSUME Ready
                 PROVE  ReadyInv'
      BY <1>1 DEF ReadyInv, Ready
    <3>1. /\ SettledInv
          /\ status = "Committed" /\ CommitKeys(buf) # {} => Committed(CommitPrimary(buf))
          /\ late = {} /\ pipe.flushing.stage = "none"
          /\ resolving.state = "running" => resolving.commit
      BY <2>2 DEF ReadyInv
    <3>2. SettledInv' /\ \A k \in Keys : Committed(k) => Committed(k)'
      BY <1>1, <2>2, <3>1, SettledResolve
    <3>3. ASSUME CommitKeys(buf) # {}, status = "Committed"
          PROVE  Committed(CommitPrimary(buf))'
      <4>1. MutatedKeys(buf) # {}
        BY <3>3 DEF CommitKeys
      <4>2. CommitPrimary(buf) \in Keys /\ Committed(CommitPrimary(buf))
        BY <1>1, <3>1, <3>3, <4>1, PrimaryIsKey
      <4>3. CommitPrimary(buf') = CommitPrimary(buf)
        BY <1>1
      <4> QED
        BY <3>2, <4>2, <4>3 DEF Committed
    <3> QED
      BY <1>1, <3>1, <3>2, <3>3 DEF ReadyInv
  <2>9. FlushInv' /\ FlushedInv' /\ LostAnswerInv'
    <3> SUFFICES ASSUME Flushes
                 PROVE  FlushInv' /\ FlushedInv' /\ LostAnswerInv'
      BY <1>1 DEF FlushInv, FlushedInv, LostAnswerInv, Flushes
    <3>1. /\ p = buf.primary /\ lock[i].type = "write"
      BY <2>2, <2>3 DEF FlushInv
    <3>2. FlushInv'
      <4>1. pipe.generation \in Nat
        BY <2>2 DEF FlushInv
      <4>2. \A n \in Nat : 0 <= n
        BY SMTT(20)
      <4>3. \A k \in Keys : /\ lock'[k].gen <= pipe.generation
                            /\ lock'[k].type # "none" =>
                                 lock'[k].type = "write" /\ lock'[k].primary = buf.primary
        BY <2>2, <2>5, <2>6, <4>1, <4>2 DEF FlushInv
      <4> QED
        BY <1>1, <2>2, <4>3 DEF FlushInv, Flushes
    <3>3. ASSUME NEW k \in Keys, Settled(k, buf.primary)
          PROVE  Settled(k, buf.primary)'
      <4>1. /\ lock[k].type # "none" => lock[k].type = "write" /\ Right(lock[k], k)
            /\ Committed(k) => Right(record[k], k)
            /\ \/ Committed(k)
               \/ lock[k].type = "write"
               \/ record[k] = RolledBack /\ record[p] = RolledBack
        BY <3>1, <3>3 DEF Settled
      <4>2. CASE Committed(p)
        <5>1. CASE k = i
          <6>1. /\ lock'[k] = NoLock /\ Committed(k)'
                /\ record'[k].op = lock[k].op /\ record'[k].value = lock[k].value
            BY <2>4, <4>2, <5>1
          <6> QED
            BY <1>1, <2>3, <2>5, <4>1, <5>1, <6>1 DEF Settled, Right, Written
        <5>2. CASE k # i
          <6>1. lock'[k] = lock[k] /\ record'[k] = record[k] /\ (Committed(k)' <=> Committed(k))
            BY <2>4, <4>2, <5>2
          <6>2. record[p] # RolledBack
            <7>1. RolledBack.op = "rollback"
              BY DEF RolledBack
            <7> QED
              BY <4>2, <7>1 DEF Committed
          <6> QED
            BY <1>1, <4>1, <6>1, <6>2 DEF Settled, Right, Written
        <5> QED
          BY <5>1, <5>2
      <4>3. CASE ~Committed(p)
        <5>1. record'[p] = RolledBack
          BY <2>3, <2>4, <4>3
        <5>2. CASE k \in {p, i} /\ ~Committed(k)
          <6>1. lock'[k] = NoLock /\ record'[k] = RolledBack
            BY <2>4, <4>3, <5>2
          <6>2. ~Committed(k)'
            <7>1. RolledBack.op = "rollback"
              BY DEF RolledBack
            <7> QED
              BY <6>1, <7>1 DEF Committed
          <6> QED
            BY <1>1, <2>5, <3>1, <5>1, <6>1, <6>2 DEF Settled, RolledBack
        <5>3. CASE ~(k \in {p, i} /\ ~Committed(k))
          <6>1. lock'[k] = lock[k] /\ record'[k] = record[k] /\ (Committed(k)' <=> Committed(k))
            BY <2>4, <4>3, <5>3
          <6> QED
            BY <1>1, <3>1, <4>1, <5>1, <6>1 DEF Settled, Right, Written, RolledBack
        <5> QED
          BY <5>2, <5>3
      <4> QED
        BY <4>2, <4>3
    <3>4. FlushedInv'
      BY <1>1, <2>2, <3>3 DEF FlushedInv, Flushes, Written, Pending, Right
    <3>5. LostAnswerInv'
      <4>1. ASSUME NEW k \in Keys
            PROVE  /\ Committed(k)' => Committed(k) \/ Committed(p)
                   /\ lock'[k] = lock[k] \/ lock'[k] = NoLock
                   /\ Committed(k)' => \/ Committed(k) /\ record'[k] = record[k]
                                       \/ /\ lock[k].type # "none" /\ record'[k].op = lock[k].op
                                          /\ record'[k].value = lock[k].value
        BY <2>3, <2>4
      <4>2. (\E k \in Keys : Committed(k)') => \E k \in Keys : Committed(k)
        BY <2>3, <4>1
      <4>3. ASSUME \E k \in Keys : Committed(k), NEW k \in Keys
            PROVE  /\ status # "Active"
                   /\ Committed(k)' => Right(record[k], k)'
                   /\ lock'[k].type # "none" => Right(lock[k], k)'
                   /\ Pending(k)' => Right(pipe.flushing.muts[k], k)'
        <5>1. /\ status # "Active"
              /\ Committed(k) => Right(record[k], k)
              /\ lock[k].type # "none" => Right(lock[k], k)
              /\ Pending(k) => Right(pipe.flushing.muts[k], k)
          BY <2>2, <4>3 DEF LostAnswerInv
        <5> QED
          BY <1>1, <2>5, <4>1, <5>1 DEF Right, Written, Pending
      <4> QED
        BY <1>1, <4>2, <4>3 DEF LostAnswerInv
    <3> QED
      BY <3>2, <3>4, <3>5
  <2> QED
    BY <2>4, <2>7, <2>8, <2>9 DEF LiveInv
<1> QED
  BY <1>2, <1>3 DEF CommitInv

(* A rival's write and the end of the heartbeat change nothing of it. *)
LEMMA AsideCommit ==
  ASSUME CommitInv,
         \/ HeartbeatStops \/ HeartbeatFails
         \/ (\E k \in Keys : RivalWrites(k)) /\ UNCHANGED <<pipeVars, txnVars>>
         \/ UNCHANGED vars
  PROVE  CommitInv'
<1>1. UNCHANGED <<kind, status, op, mine, snap, lock, record, strays, secondaries, late, pipe,
                  resolving, buf>>
  BY DEF HeartbeatStops, HeartbeatFails, HeartbeatEnds, RivalWrites, pipeVars, txnVars, vars,
         storeVars
<1> QED
  BY <1>1, AlikeItself, AlikeStep

----------------------------------------------------------------------------
(* The flush task before it sends anything. *)
LEMMA FlushStages ==
  ASSUME CommitInv, FlushBegins \/ FlushSends, UNCHANGED txnVars
  PROVE  CommitInv'
<1>1. /\ StageInv /\ ShapeInv /\ WrittenInv
      /\ UNCHANGED <<kind, status, buf, op, mine, strays, snap, lock, record, late, resolving,
                     secondaries>>
  BY DEF CommitInv, FlushBegins, FlushSends, txnVars, storeVars
<1>2. PICK x : /\ pipe' = [pipe EXCEPT !.flushing = [pipe.flushing EXCEPT !.stage = x]]
               /\ x = "checked" \/ x = "running" \/ (pipe.cancelled /\ x = "done")
               /\ pipe.flushing.stage \in {"spawned", "checked"}
  BY DEF FlushBegins, FlushSends, SetFlush
<1> DEFINE f == [pipe.flushing EXCEPT !.stage = x]
<1>3. /\ DOMAIN f = DOMAIN pipe.flushing /\ f.stage = x /\ f.muts = pipe.flushing.muts
      /\ f.primary = pipe.flushing.primary /\ f.gen = pipe.flushing.gen
      /\ f.regions = pipe.flushing.regions
  BY <1>1 DEF ShapeInv, FlushFields
<1>4. pipe' = [pipe EXCEPT !.flushing = f]
  BY <1>2
<1> HIDE DEF f
<1>5. /\ DOMAIN pipe' = DOMAIN pipe /\ pipe'.flushing = f /\ pipe'.mutable = pipe.mutable
      /\ pipe'.generation = pipe.generation /\ pipe'.cancelled = pipe.cancelled
      /\ pipe'.failed = pipe.failed
  BY <1>1, <1>4 DEF ShapeInv, PipeFields
<1>6. WrittenInv' /\ StageInv' /\ ShapeInv'
  <2>1. WrittenInv'
    BY <1>1 DEF WrittenInv, Written, pessimistic
  <2>2. kind = "pipelined"
    BY <1>1, <1>2 DEF StageInv
  <2>3. StageInv' /\ ShapeInv'
    BY <1>1, <1>3, <1>5, <2>2 DEF StageInv, ShapeInv
  <2> QED
    BY <2>1, <2>3
<1>7. ASSUME Live'
      PROVE  LiveInv'
  <2>1. Live
    BY <1>1, <1>5, <1>7 DEF Live, Sound
  <2>2. StoreInv /\ PlainInv /\ FlushInv /\ FlushedInv /\ LostAnswerInv /\ ReadyInv
    BY <2>1, LiveParts
  <2>3. ~Ready /\ Flushes
    BY <1>1, <1>2, <2>1, <2>2 DEF ReadyInv, Ready, StageInv, Flushes, Live
  <2>4. StoreInv' /\ PlainInv' /\ ReadyInv'
    BY <1>1, <2>2, <2>3 DEF StoreInv, RolledBack, PlainInv, ReadyInv, Ready, Flushes
  <2>5. FlushInv'
    BY <1>1, <1>2, <1>3, <1>5, <2>2, <2>3 DEF FlushInv, Ready
  <2>6. FlushedInv' /\ LostAnswerInv'
    BY <1>1, <1>3, <1>5, <2>2
       DEF FlushedInv, LostAnswerInv, Flushes, Written, Pending, Right, Settled, Committed, RolledBack
  <2> QED
    BY <2>4, <2>5, <2>6 DEF LiveInv
<1> QED
  BY <1>6, <1>7 DEF CommitInv

(* A region writes the locks of a flush. *)
LEMMA FlushRegionCommit ==
  ASSUME CommitInv, NEW r, FlushRegion(r), UNCHANGED txnVars
  PROVE  CommitInv'
<1> DEFINE g == pipe.flushing
           ks == KeysOf(g, {r})
           rest == g.regions \ {r}
           f == [g EXCEPT !.regions = rest, !.stage = IF rest = {} THEN "done" ELSE @]
<1>1. /\ StageInv /\ ShapeInv /\ WrittenInv
      /\ UNCHANGED <<kind, status, buf, op, mine, strays, snap, record, late, resolving,
                     secondaries>>
      /\ g.stage = "running" /\ r \in g.regions /\ pipe' = [pipe EXCEPT !.flushing = f]
      /\ WriteLocks(g.muts, ks, g.primary, g.gen)
      /\ \A k \in ks : record[k] # RolledBack
  BY DEF CommitInv, FlushRegion, SetFlush, MayWrite, txnVars, storeVars
<1>2. /\ DOMAIN f = DOMAIN g /\ f.stage = (IF rest = {} THEN "done" ELSE "running")
      /\ f.muts = g.muts /\ f.primary = g.primary /\ f.gen = g.gen /\ f.regions = rest
  BY <1>1 DEF ShapeInv, FlushFields
<1> HIDE DEF f
<1>3. /\ DOMAIN pipe' = DOMAIN pipe /\ pipe'.flushing = f /\ pipe'.mutable = pipe.mutable
      /\ pipe'.generation = pipe.generation /\ pipe'.cancelled = pipe.cancelled
      /\ pipe'.failed = pipe.failed
  BY <1>1 DEF ShapeInv, PipeFields
<1>4. kind = "pipelined"
  BY <1>1 DEF StageInv
<1>5. WrittenInv' /\ StageInv' /\ ShapeInv'
  <2>1. WrittenInv'
    BY <1>1 DEF WrittenInv, Written, pessimistic
  <2>2. StageInv' /\ ShapeInv'
    BY <1>1, <1>2, <1>3, <1>4 DEF StageInv, ShapeInv
  <2> QED
    BY <2>1, <2>2
<1>6. ASSUME Live'
      PROVE  LiveInv'
  <2>1. Live
    BY <1>1, <1>3, <1>6 DEF Live, Sound
  <2>2. StoreInv /\ FlushInv /\ FlushedInv /\ LostAnswerInv /\ ReadyInv
    BY <2>1, LiveParts
  <2>3. ~Ready /\ Flushes
    BY <1>1, <1>4, <2>1, <2>2 DEF ReadyInv, Ready, Flushes, Live
  <2>4. /\ pipe.generation \in Nat /\ g.gen = pipe.generation /\ g.primary = buf.primary
        /\ buf.primary \in Keys /\ DOMAIN g.muts \subseteq Keys
        /\ \A k \in DOMAIN g.muts : g.muts[k] \in [op : Ops, value : Found]
        /\ \A k \in Keys : lock[k].gen <= pipe.generation
    BY <1>1, <2>2, <2>3 DEF FlushInv
  <2>5. /\ ks \subseteq Keys /\ WriteLocks(g.muts, ks, g.primary, g.gen)
        /\ \A k \in ks : record[k] # RolledBack
        /\ \A k \in ks : g.muts[k] \in [op : Ops, value : Found]
        /\ \A k : k \in ks <=> k \in Keys /\ k \in DOMAIN g.muts /\ RegionOf[k] = r
    BY <1>1, <2>4 DEF KeysOf, KeysIn
  <2> HIDE DEF ks
  <2>6. /\ StoreInv'
        /\ \A k \in Keys :
             IF k \in ks /\ g.muts[k].op # "CheckNotExists" /\ ~Committed(k)
             THEN /\ lock'[k].type = "write" /\ lock'[k].primary = buf.primary
                  /\ lock'[k].gen = pipe.generation
                  /\ lock'[k].op = g.muts[k].op /\ lock'[k].value = g.muts[k].value
             ELSE lock'[k] = lock[k]
    <3>1. /\ buf.primary \in Keys /\ pipe.generation \in Nat /\ ks \subseteq Keys
          /\ \A k \in ks : g.muts[k] \in [op : Ops, value : Found]
          /\ \A k \in ks : record[k] # RolledBack
          /\ \A k \in ks : lock[k].gen <= pipe.generation
          /\ WriteLocks(g.muts, ks, buf.primary, pipe.generation) /\ record' = record
      BY <1>1, <2>4, <2>5
    <3> QED
      BY <2>2, <3>1, WriteLocksOK
  <2>7. \A n \in Nat : n <= n
    BY SMTT(20)
  <2>8. FlushInv'
    <3>1. \A k \in Keys : /\ lock'[k].gen <= pipe.generation
                          /\ lock'[k].type # "none" =>
                               lock'[k].type = "write" /\ lock'[k].primary = buf.primary
      BY <2>2, <2>3, <2>4, <2>6, <2>7 DEF FlushInv
    <3> QED
      BY <1>1, <1>2, <1>3, <2>2, <2>3, <3>1 DEF FlushInv, Ready
  <2>9. \A k \in Keys : Pending(k)' <=> Pending(k) /\ k \notin ks
    BY <1>2, <1>3, <2>5 DEF Pending
  <2>10. \A k \in ks : Pending(k)
    BY <1>1, <2>5 DEF Pending
  <2>11. FlushedInv'
    <3> SUFFICES ASSUME NEW k \in Keys, Written(k), buf.entries[k].kind # "check",
                        k \notin pipe.mutable
                 PROVE  IF Pending(k)'
                        THEN /\ Right(pipe.flushing.muts[k], k)'
                             /\ pipe'.flushing.muts[k].op # "CheckNotExists"
                        ELSE Settled(k, buf.primary)'
      BY <1>1, <1>3 DEF FlushedInv, Flushes, Written
    <3>1. IF Pending(k) THEN Right(g.muts[k], k) /\ g.muts[k].op # "CheckNotExists"
          ELSE Settled(k, buf.primary)
      BY <2>2, <2>3 DEF FlushedInv
    <3>2. CASE Pending(k)'
      BY <1>1, <1>2, <1>3, <2>9, <3>1, <3>2 DEF Right, Written
    <3>3. CASE k \in ks
      <4>1. Right(g.muts[k], k) /\ g.muts[k].op # "CheckNotExists"
        BY <2>10, <3>1, <3>3
      <4>2. CASE Committed(k)
        <5>1. lock'[k] = lock[k] /\ Right(record[k], k) /\ (lock[k].type # "none" => Right(lock[k], k))
          BY <2>2, <2>3, <2>6, <4>2 DEF LostAnswerInv
        <5>2. lock[k].type # "none" => lock[k].type = "write"
          BY <2>2, <2>3 DEF FlushInv
        <5> QED
          BY <1>1, <2>9, <3>3, <4>2, <5>1, <5>2 DEF Settled, Right, Written, Committed
      <4>3. CASE ~Committed(k)
        <5>1. /\ lock'[k].type = "write"
              /\ lock'[k].op = g.muts[k].op /\ lock'[k].value = g.muts[k].value
          BY <2>6, <3>3, <4>1, <4>3
        <5> QED
          BY <1>1, <2>9, <3>3, <4>1, <4>3, <5>1 DEF Settled, Right, Written, Committed
      <4> QED
        BY <4>2, <4>3
    <3>4. CASE ~Pending(k) /\ k \notin ks
      BY <1>1, <2>6, <2>9, <3>1, <3>4 DEF Settled, Right, Written, Committed, RolledBack
    <3> QED
      BY <2>9, <3>2, <3>3, <3>4
  <2>12. LostAnswerInv'
    <3> SUFFICES ASSUME \E k \in Keys : Committed(k), NEW k \in Keys
                 PROVE  /\ status # "Active"
                        /\ Committed(k)' => Right(record[k], k)'
                        /\ lock'[k].type # "none" => Right(lock[k], k)'
                        /\ Pending(k)' => Right(pipe.flushing.muts[k], k)'
      BY <1>1 DEF LostAnswerInv, Committed
    <3>1. /\ status # "Active"
          /\ Committed(k) => Right(record[k], k)
          /\ lock[k].type # "none" => Right(lock[k], k)
          /\ Pending(k) => Right(g.muts[k], k)
      BY <2>2, <2>3 DEF LostAnswerInv
    <3>2. lock'[k].type # "none" => Right(lock[k], k)'
      BY <1>1, <2>6, <2>10, <3>1 DEF Right, Written
    <3> QED
      BY <1>1, <1>2, <1>3, <2>9, <3>1, <3>2 DEF Right, Written, Committed
  <2>13. PlainInv' /\ ReadyInv'
    BY <1>1, <1>4, <2>3 DEF PlainInv, ReadyInv, Ready
  <2> QED
    BY <2>6, <2>8, <2>11, <2>12, <2>13 DEF LiveInv
<1> QED
  BY <1>5, <1>6 DEF CommitInv

----------------------------------------------------------------------------
(* commit() begins. *)
LEMMA CommitCallCommit ==
  ASSUME IInv, CommitInv, CommitCall
  PROVE  CommitInv'
<1>1. /\ StageInv /\ ShapeInv /\ WrittenInv /\ op = Idle /\ status \in {"Active", "StartedCommit"}
      /\ UNCHANGED <<kind, buf, mine, strays, snap, lock, record, pipe, late, resolving,
                     secondaries>>
  BY DEF CommitInv, CommitCall, Call, storeVars, pipeVars
<1>2. \/ /\ MutatedKeys(buf) = {} /\ status' \in {"StartedCommit", "Panicked"}
         /\ op'.name = "idle"
      \/ /\ MutatedKeys(buf) # {} /\ status' = "StartedCommit"
         /\ op'.name = (IF kind = "pipelined" THEN "flush" ELSE "prewrite")
         /\ op'.first = CommitPrimary(buf)
  <2>1. CASE MutatedKeys(buf) = {}
    BY <1>1, <2>1, IdleName DEF CommitCall
  <2>2. CASE MutatedKeys(buf) # {}
    BY <2>2, AwaitName DEF CommitCall
  <2> QED
    BY <2>1, <2>2
<1>3. WrittenInv' /\ StageInv' /\ ShapeInv'
  <2>1. WrittenInv' /\ ShapeInv'
    BY <1>1 DEF WrittenInv, Written, pessimistic, ShapeInv
  <2>2. StageInv'
    BY <1>1, <1>2 DEF StageInv
  <2> QED
    BY <2>1, <2>2
<1>4. ASSUME Live'
      PROVE  LiveInv'
  <2>1. status' = "StartedCommit" /\ op.name = "idle" /\ op'.name \notin {"primary", "unlock"}
    BY <1>1, <1>2, <1>4, IdleName DEF Live
  <2>2. Live
    BY <1>1, <1>4, <2>1, AlikeItself, LiveBack
  <2>3. StoreInv /\ PlainInv /\ FlushInv /\ FlushedInv /\ LostAnswerInv
    BY <2>2, LiveParts
  <2>4. StoreInv'
    BY <1>1, <2>3 DEF StoreInv, RolledBack
  <2>5. PlainInv'
    BY <1>1, <2>1, <2>3 DEF PlainInv, pessimistic, Committed
  <2>6. FlushInv'
    BY <1>1, <2>1, <2>3 DEF FlushInv, Flushes
  <2>7. FlushedInv' /\ LostAnswerInv'
    BY <1>1, <2>1, <2>3
       DEF FlushedInv, LostAnswerInv, Flushes, Written, Pending, Right, Settled, Committed, RolledBack
  <2>8. ~Ready'
    BY <2>1 DEF Ready
  <2> QED
    BY <2>4, <2>5, <2>6, <2>7, <2>8 DEF LiveInv, ReadyInv
<1> QED
  BY <1>3, <1>4 DEF CommitInv

(* What a prewrite leaves, whether or not every region has executed it. *)
LEMMA PrewriteLocks ==
  ASSUME IInv, CommitInv, Live, op.name = "prewrite",
         NEW ks \in SUBSET MutatedKeys(buf), MayWrite(Mutations(buf), ks, pessimistic),
         WriteLocks(Mutations(buf), ks, op.first, 0), record' = record
  PROVE  /\ StoreInv' /\ op.first = CommitPrimary(buf)
         /\ \A k \in Keys :
              IF k \in ks /\ buf.entries[k].kind # "check"
              THEN /\ lock'[k].type = "write" /\ lock'[k].primary = op.first
                   /\ lock'[k].gen = 0 /\ Right(lock'[k], k)
              ELSE lock'[k] = lock[k]
<1> DEFINE muts == Mutations(buf)
<1>1. /\ StoreInv /\ PlainInv /\ StageInv /\ WrittenInv
  BY LiveParts
<1>2. /\ kind # "pipelined" /\ status = "StartedCommit" /\ op.first = CommitPrimary(buf)
      /\ MutatedKeys(buf) # {}
  BY <1>1 DEF StageInv
<1>3. op.first \in Keys /\ ks \subseteq Keys /\ 0 \in Nat
  BY <1>2, PrimaryIsKey, CommitKeysAre DEF IInv, BufferInv
<1>4. \A k \in ks : /\ muts[k] = Mutation(buf, k)
                    /\ muts[k] \in [op : Ops, value : Found]
                    /\ Right(muts[k], k)
                    /\ muts[k].op = "CheckNotExists" <=> buf.entries[k].kind = "check"
  <2>1. \A k \in ks : muts[k] = Mutation(buf, k)
    BY DEF Mutations
  <2>2. buf \in Buffers /\ \A k \in Keys : EntryOK(buf.entries[k], snap[k], mine[k])
    BY DEF IInv, BufferInv, Agree
  <2>3. \A k \in Keys : mine[k] # Unwritten =>
                          buf.entries[k].kind \in {"put", "del", "insert", "check"}
    BY <1>1 DEF WrittenInv, Written
  <2>4. ASSUME NEW k \in Keys
        PROVE  /\ Mutation(buf, k) \in [op : Ops, value : Found]
               /\ mine[k] # Unwritten => /\ Mutation(buf, k).op # "Lock"
                                         /\ Mutation(buf, k).value = mine[k]
               /\ Mutation(buf, k).op = "CheckNotExists" <=> buf.entries[k].kind = "check"
    BY <2>2, <2>3, MutationIsRight
  <2> HIDE DEF muts
  <2> QED
    BY <1>3, <2>1, <2>4 DEF Right, Written
<1>5. \A k \in ks : record[k] # RolledBack
  BY DEF MayWrite
<1>6. \A k \in ks : lock[k].gen <= 0
  <2>1. 0 <= 0
    BY SMTT(20)
  <2>2. \A k \in ks : lock[k].gen = 0
    BY <1>1, <1>2, <1>3 DEF PlainInv
  <2> QED
    BY <2>1, <2>2
<1>7. WriteLocks(muts, ks, op.first, 0)
  OBVIOUS
<1> HIDE DEF muts
<1>8. /\ StoreInv'
      /\ \A k \in Keys :
           IF k \in ks /\ muts[k].op # "CheckNotExists" /\ ~Committed(k)
           THEN /\ lock'[k].type = "write" /\ lock'[k].primary = op.first
                /\ lock'[k].gen = 0
                /\ lock'[k].op = muts[k].op /\ lock'[k].value = muts[k].value
           ELSE lock'[k] = lock[k]
  <2>1. /\ op.first \in Keys /\ 0 \in Nat /\ ks \subseteq Keys
        /\ \A k \in ks : muts[k] \in [op : Ops, value : Found]
        /\ \A k \in ks : record[k] # RolledBack
        /\ \A k \in ks : lock[k].gen <= 0
        /\ WriteLocks(muts, ks, op.first, 0) /\ record' = record
    BY <1>3, <1>4, <1>5, <1>6, <1>7
  <2> QED
    BY <1>1, <2>1, WriteLocksOK
<1>9. ASSUME NEW k \in Keys
      PROVE  IF k \in ks /\ buf.entries[k].kind # "check"
             THEN /\ lock'[k].type = "write" /\ lock'[k].primary = op.first
                  /\ lock'[k].gen = 0 /\ Right(lock'[k], k)
             ELSE lock'[k] = lock[k]
  <2>1. ~Committed(k)
    BY <1>1, <1>2 DEF PlainInv
  <2> QED
    BY <1>4, <1>8, <2>1 DEF Right
<1> QED
  BY <1>2, <1>8, <1>9

(* Prewriting keeps the relation of locks and primaries. *)
LEMMA PrewritePlain ==
  ASSUME IInv, CommitInv, Live, op.name = "prewrite",
         NEW ks \in SUBSET MutatedKeys(buf), MayWrite(Mutations(buf), ks, pessimistic),
         WriteLocks(Mutations(buf), ks, op.first, 0), op'.name # "unlock",
         UNCHANGED <<kind, status, buf, strays, record>>
  PROVE  PlainInv'
<1>1. /\ PlainInv /\ kind # "pipelined" /\ status = "StartedCommit" /\ op.first = CommitPrimary(buf)
  BY LiveParts DEF StageInv
<1>2. \A k \in Keys :
        IF k \in ks /\ buf.entries[k].kind # "check"
        THEN /\ lock'[k].type = "write" /\ lock'[k].primary = op.first
             /\ lock'[k].gen = 0 /\ Right(lock'[k], k)
        ELSE lock'[k] = lock[k]
  BY PrewriteLocks
<1>3. \A k \in Keys : ~Committed(k)' /\ lock'[k].gen = 0
  BY <1>1, <1>2 DEF PlainInv, Committed
<1>4. ~pessimistic => \A k \in Keys : buf.entries[k].kind = "check" => lock'[k].type = "none"
  BY <1>1, <1>2 DEF PlainInv
<1>5. \A k \in Keys : lock'[k].type # "none" =>
        \/ lock'[k].primary \in {buf.primary} \cup strays
        \/ lock'[k].primary = CommitPrimary(buf)
  BY <1>1, <1>2 DEF PlainInv
<1> QED
  BY <1>1, <1>3, <1>4, <1>5 DEF PlainInv, pessimistic

(* The prewrite, answered, failed or lost. *)
LEMMA PrewriteCommit ==
  ASSUME IInv, CommitInv, PrewriteDone \/ \E regions : PrewriteFails(regions)
  PROVE  CommitInv'
<1>1. /\ StageInv /\ ShapeInv /\ WrittenInv /\ op.name = "prewrite" /\ buf \in Buffers
      /\ kind # "pipelined" /\ status = "StartedCommit" /\ op.first = CommitPrimary(buf)
      /\ MutatedKeys(buf) # {}
      /\ UNCHANGED <<kind, buf, mine, strays, snap, record, pipe, late, resolving, secondaries>>
  BY DEF IInv, BufferInv, CommitInv, StageInv, PrewriteDone, PrewriteFails, Calling, pipeVars
<1>2. PICK ks \in SUBSET MutatedKeys(buf) :
        /\ MayWrite(Mutations(buf), ks, pessimistic)
        /\ WriteLocks(Mutations(buf), ks, op.first, 0)
        /\ \/ status' = status /\ op'.name = "idle"
           \/ /\ ks = MutatedKeys(buf)
              /\ \/ CommitKeys(buf) = {} /\ op'.name = "idle" /\ status' = "Committed"
                 \/ /\ CommitKeys(buf) # {} /\ op'.name = "primary" /\ op'.first = op.first
                    /\ status' = status
  <2>1. CASE PrewriteDone
    <3>1. op = [name |-> op.name, todo |-> op.todo, keys |-> op.keys, first |-> op.first]
      BY DEF IInv, BufferInv, OpOK
    <3>2. op' = [op EXCEPT !.name = "primary"] => op'.name = "primary" /\ op'.first = op.first
      BY <3>1
    <3> QED
      BY <2>1, <3>2, IdleName DEF PrewriteDone
  <2>2. CASE \E regions : PrewriteFails(regions)
    BY <2>2, IdleName DEF PrewriteFails
  <2> QED
    BY <2>1, <2>2
<1>3. WrittenInv' /\ StageInv' /\ ShapeInv'
  <2>1. WrittenInv' /\ ShapeInv'
    BY <1>1 DEF WrittenInv, Written, pessimistic, ShapeInv
  <2>2. StageInv'
    BY <1>1, <1>2 DEF StageInv
  <2> QED
    BY <2>1, <2>2
<1>4. ASSUME Live'
      PROVE  LiveInv'
  <2>1. Live
    BY <1>1, <1>2, <1>4, AlikeItself, LiveBack
  <2>2. StoreInv /\ PlainInv
    BY <2>1, LiveParts
  <2>3. /\ StoreInv'
        /\ \A k \in Keys :
              IF k \in ks /\ buf.entries[k].kind # "check"
              THEN /\ lock'[k].type = "write" /\ lock'[k].primary = op.first
                   /\ lock'[k].gen = 0 /\ Right(lock'[k], k)
              ELSE lock'[k] = lock[k]
    BY <1>1, <1>2, <2>1, PrewriteLocks
  <2>4. PlainInv'
    <3>1. CASE status' = "Committed"
      BY <3>1 DEF PlainInv
    <3>2. CASE status' = status
      BY <1>1, <1>2, <2>1, <3>2, PrewritePlain
    <3> QED
      BY <1>2, <3>1, <3>2
  <2>5. ~Flushes'
    BY <1>1 DEF Flushes
  <2>6. ASSUME Ready'
        PROVE  SettledInv'
    <3>1. ks = MutatedKeys(buf)
      BY <1>1, <1>2, <2>6 DEF Ready
    <3>2. \A k \in CommitKeys(buf) : k \in Keys /\ k \in ks /\ buf.entries[k].kind # "check"
      BY <3>1, CommitKeysAre DEF MutatedKeys
    <3>3. \A k \in CommitKeys(buf) : /\ lock'[k].type = "write" /\ lock'[k].primary = op.first
                                     /\ Right(lock'[k], k)
      BY <2>3, <3>2
    <3>4. \A k \in CommitKeys(buf) : Settled(k, CommitPrimary(buf))'
      <4>1. \A k \in CommitKeys(buf) : ~Committed(k)'
        BY <1>1, <2>2, <3>2 DEF PlainInv, Committed
      <4> QED
        BY <1>1, <3>3, <4>1 DEF Settled, Right, Written
    <3>5. \A k \in Keys : lock[k].type # "none" =>
            lock[k].primary = op.first \/ lock[k].primary \notin CommitKeys(buf)
      <4>1. \A k \in Keys : lock[k].type # "none" =>
              \/ lock[k].primary \in {buf.primary} \cup strays
              \/ lock[k].primary = op.first
        BY <1>1, <2>2 DEF PlainInv
      <4>2. \A p \in strays : p \in CommitKeys(buf) => p = op.first
        BY <1>1, <2>1 DEF Live, Sound
      <4>3. buf.primary \in CommitKeys(buf) => buf.primary = op.first
        BY <1>1, PrimaryIsKey
      <4> QED
        BY <4>1, <4>2, <4>3
    <3>6. ASSUME NEW k \in Keys, buf.entries[k].kind = "check"
          PROVE  snap[k] = Absent /\ lock'[k].type = "none" /\ ~Committed(k)
      <4>1. ~pessimistic
        BY <1>1, <3>6 DEF WrittenInv
      <4>2. lock[k].type = "none" /\ ~Committed(k) /\ lock'[k] = lock[k]
        BY <1>1, <2>2, <2>3, <3>6, <4>1 DEF PlainInv
      <4>3. k \in MutatedKeys(buf) /\ Mutations(buf)[k].op = "CheckNotExists"
        BY <3>6 DEF MutatedKeys, Mutations, Mutation, MutationOp
      <4>4. snap[k] = Absent
        BY <1>2, <3>1, <4>1, <4>3 DEF MayWrite
      <4> QED
        BY <4>2, <4>4
    <3>7. /\ \A k \in CommitKeys(buf) : lock'[k].type # "none" => lock'[k].primary = CommitPrimary(buf)
          /\ \A k \in Keys \ CommitKeys(buf) : lock'[k].type # "none" =>
               lock'[k].primary = CommitPrimary(buf) \/ lock'[k].primary \notin CommitKeys(buf)
      BY <1>1, <2>3, <3>3, <3>5
    <3> QED
      BY <1>1, <3>4, <3>6, <3>7 DEF SettledInv, Committed
  <2>7. ReadyInv'
    BY <1>1, <1>2, <2>6 DEF ReadyInv, StageInv
  <2> QED
    BY <2>3, <2>4, <2>5, <2>7 DEF LiveInv, FlushInv, FlushedInv, LostAnswerInv
<1> QED
  BY <1>3, <1>4 DEF CommitInv

(* Flushing all of it: what a live pipelined transaction commits. *)
LEMMA FlushPrimary ==
  ASSUME buf \in Buffers, WrittenInv, kind = "pipelined", buf.prewriteOnly = {},
         MutatedKeys(buf) # {}
  PROVE  /\ CommitKeys(buf) = MutatedKeys(buf) /\ CommitPrimary(buf) = buf.primary
         /\ buf.primary \in Keys
         /\ \A k \in Keys : buf.entries[k].kind # "check"
<1>1. \A k \in Keys : buf.entries[k].kind # "check"
  BY DEF WrittenInv
<1>2. \A k : k \in CommitKeys(buf) <=> k \in MutatedKeys(buf)
  BY <1>1, CommitKeysAre DEF MutatedKeys
<1>3. buf.primary \in MutatedKeys(buf)
  BY DEF WrittenInv, pessimistic
<1> QED
  BY <1>1, <1>2, <1>3, PrimaryIsKey, CommitKeysAre

(* flush_all awaits a flush, starts another or is done. *)
LEMMA FlushAwaitedCommit ==
  ASSUME IInv, CommitInv, FlushAwaited
  PROVE  CommitInv'
<1> DEFINE rest == [pipe EXCEPT !.flushing = NoFlush]
<1>1. /\ StageInv /\ ShapeInv /\ WrittenInv /\ op.name = "flush" /\ buf \in Buffers
      /\ kind = "pipelined" /\ status = "StartedCommit" /\ op.first = CommitPrimary(buf)
      /\ MutatedKeys(buf) # {}
      /\ UNCHANGED <<kind, buf, mine, strays, snap, lock, record, late, resolving, secondaries>>
  BY DEF IInv, BufferInv, CommitInv, StageInv, FlushAwaited, Calling, storeVars
<1>2. /\ DOMAIN rest = PipeFields /\ rest.mutable = pipe.mutable /\ rest.flushing = NoFlush
      /\ rest.generation = pipe.generation /\ rest.cancelled = pipe.cancelled
      /\ rest.failed = pipe.failed
  BY <1>1 DEF ShapeInv, PipeFields
<1>3. /\ DOMAIN NoFlush = FlushFields /\ NoFlush.stage = "none" /\ DOMAIN NoFlush.muts = {}
      /\ NoFlush.regions = {}
  <2>1. DOMAIN <<>> = {}
    BY SMTT(20)
  <2> QED
    BY <2>1 DEF NoFlush, FlushFields
<1>4. \/ /\ pipe' = rest /\ op'.name = "idle" /\ status' = status
         /\ pipe.flushing.stage = "failed"
      \/ /\ pipe' = StartFlush(rest, buf, op.first) /\ op' = op /\ status' = status
         /\ pipe.mutable # {} /\ pipe.flushing.stage \in {"none", "done"}
      \/ /\ pipe' = rest /\ pipe.mutable = {} /\ pipe.flushing.stage \in {"none", "done"}
         /\ \/ CommitKeys(buf) = {} /\ op'.name = "idle" /\ status' = "Committed"
            \/ /\ CommitKeys(buf) # {} /\ op'.name = "primary" /\ op'.first = op.first
               /\ status' = status
  <2>1. op = [name |-> op.name, todo |-> op.todo, keys |-> op.keys, first |-> op.first]
    BY DEF IInv, BufferInv, OpOK
  <2>2. op' = [op EXCEPT !.name = "primary"] => op'.name = "primary" /\ op'.first = op.first
    BY <2>1
  <2> QED
    BY <2>2, IdleName DEF FlushAwaited
<1> HIDE DEF rest
<1>5. pipe' # rest => Started(pipe', rest, buf, op.first)
  BY <1>2, <1>4, StartFlushOK
<1>6. WrittenInv' /\ StageInv' /\ ShapeInv'
  <2>1. WrittenInv'
    BY <1>1 DEF WrittenInv, Written, pessimistic
  <2>2. ShapeInv'
    BY <1>1, <1>2, <1>3, <1>5 DEF ShapeInv, Started
  <2>3. StageInv'
    BY <1>1, <1>4 DEF StageInv
  <2> QED
    BY <2>1, <2>2, <2>3
<1>7. pipe'.failed = pipe.failed
  BY <1>2, <1>5 DEF Started
<1>8. ASSUME Live'
      PROVE  LiveInv'
  <2>1. Live
    BY <1>1, <1>4, <1>7, <1>8, AlikeItself, LiveBack
  <2>2. StoreInv /\ FlushInv /\ FlushedInv /\ LostAnswerInv /\ Flushes
    BY <1>1, <2>1, LiveParts DEF Flushes
  <2>3. /\ CommitKeys(buf) = MutatedKeys(buf) /\ CommitPrimary(buf) = buf.primary
        /\ buf.primary \in Keys
        /\ \A k \in Keys : buf.entries[k].kind # "check"
    <3>1. buf.prewriteOnly = {}
      BY <1>1, <2>1 DEF Live, Sound
    <3> QED
      BY <1>1, <3>1, FlushPrimary
  <2>4. StoreInv' /\ PlainInv'
    BY <1>1, <2>2 DEF StoreInv, RolledBack, PlainInv
  <2>5. pipe.flushing.stage \in {"none", "done"} /\ \A k \in Keys : ~Pending(k)
    BY <1>4, <2>2 DEF FlushInv, Pending
  <2>6. \A k \in Keys : Written(k) /\ k \notin pipe.mutable => Settled(k, buf.primary)
    BY <2>2, <2>3, <2>5 DEF FlushedInv
  <2>7. CASE pipe' = StartFlush(rest, buf, op.first) /\ op' = op /\ status' = status
    <3>1. /\ pipe'.mutable = {} /\ pipe'.generation = pipe.generation + 1
          /\ pipe'.cancelled = pipe.cancelled
          /\ pipe'.flushing.stage = "spawned" /\ pipe'.flushing.primary = buf.primary
          /\ pipe'.flushing.gen = pipe'.generation
          /\ pipe'.flushing.regions = RegionsOf(pipe.mutable)
          /\ DOMAIN pipe'.flushing.muts = pipe.mutable
          /\ \A k \in pipe.mutable : pipe'.flushing.muts[k] = Mutation(buf, k)
      <4>1. Started(pipe', rest, buf, op.first)
        BY <1>2, <2>7, StartFlushOK
      <4> QED
        BY <1>1, <1>2, <2>3, <4>1 DEF Started
    <3>2. pipe.mutable \subseteq Keys
      BY <2>2 DEF FlushInv
    <3>3. \A k \in Keys :
            /\ Mutation(buf, k) \in [op : Ops, value : Found]
            /\ Right(Mutation(buf, k), k)
            /\ Mutation(buf, k).op # "CheckNotExists"
      <4>1. \A k \in Keys : EntryOK(buf.entries[k], snap[k], mine[k])
        BY DEF IInv, BufferInv, Agree
      <4>2. \A k \in Keys : mine[k] # Unwritten =>
                              buf.entries[k].kind \in {"put", "del", "insert", "check"}
        BY <1>1 DEF WrittenInv, Written
      <4>3. ASSUME NEW k \in Keys
            PROVE  /\ Mutation(buf, k) \in [op : Ops, value : Found]
                   /\ mine[k] # Unwritten => /\ Mutation(buf, k).op # "Lock"
                                             /\ Mutation(buf, k).value = mine[k]
                   /\ Mutation(buf, k).op = "CheckNotExists" <=> buf.entries[k].kind = "check"
        BY <1>1, <4>1, <4>2, MutationIsRight
      <4> QED
        BY <2>3, <4>3 DEF Right, Written
    <3>4. \A k \in Keys : k \in pipe.mutable <=> Pending(k)'
      BY <3>1, <3>2 DEF Pending, RegionsOf
    <3>5. FlushInv'
      <4>1. \A n, g \in Nat : n + 1 \in Nat /\ (g <= n => g <= n + 1)
        BY SMTT(20)
      <4>2. /\ pipe.generation \in Nat
            /\ \A k \in Keys : lock[k].gen \in Nat /\ lock[k].gen <= pipe.generation
        BY <2>2 DEF FlushInv, StoreInv, Locks
      <4>3. /\ pipe'.generation \in Nat
            /\ \A k \in Keys : lock'[k].gen <= pipe'.generation
        BY <1>1, <3>1, <4>1, <4>2
      <4>4. \A k \in Keys : lock'[k].type # "none" =>
                             lock'[k].type = "write" /\ lock'[k].primary = buf'.primary
        BY <1>1, <2>2 DEF FlushInv
      <4>5. /\ late' = {} /\ ~pipe'.cancelled /\ resolving'.state = "none" /\ op'.name # "primary"
            /\ buf'.primary \in Keys /\ buf'.primary = buf.primary
        BY <1>1, <2>2, <2>3, <2>7, <3>1 DEF FlushInv
      <4>6. \A k \in pipe.mutable : pipe'.flushing.muts[k] \in [op : Ops, value : Found]
        BY <3>1, <3>2, <3>3
      <4> QED
        BY <3>1, <3>2, <4>3, <4>4, <4>5, <4>6 DEF FlushInv
    <3>6. ASSUME NEW k \in Keys, Written(k)
          PROVE  IF Pending(k)'
                 THEN /\ Right(pipe.flushing.muts[k], k)'
                      /\ pipe'.flushing.muts[k].op # "CheckNotExists"
                 ELSE Settled(k, buf.primary)'
      <4>1. CASE k \in pipe.mutable
        <5>1. pipe'.flushing.muts[k] = Mutation(buf, k) /\ Pending(k)'
          BY <3>1, <3>4, <4>1
        <5> QED
          BY <1>1, <3>3, <5>1 DEF Right, Written
      <4>2. CASE k \notin pipe.mutable
        <5>1. Settled(k, buf.primary) /\ ~Pending(k)'
          BY <2>6, <3>4, <3>6, <4>2
        <5> QED
          BY <1>1, <5>1 DEF Settled, Right, Written, Committed, RolledBack
      <4> QED
        BY <4>1, <4>2
    <3>7. FlushedInv'
      BY <1>1, <3>6 DEF FlushedInv, Written
    <3>8. LostAnswerInv'
      <4>1. ASSUME NEW k \in Keys, Pending(k)'
            PROVE  Right(pipe.flushing.muts[k], k)'
        BY <3>6, <4>1, <1>1 DEF Right, Written
      <4> QED
        BY <1>1, <2>2, <2>7, <4>1 DEF LostAnswerInv, Right, Written, Committed
    <3>9. ~Ready'
      BY <1>1, <2>7 DEF Ready
    <3> QED
      BY <2>4, <3>5, <3>7, <3>8, <3>9 DEF LiveInv, ReadyInv
  <2>8. CASE /\ pipe' = rest /\ pipe.mutable = {} /\ CommitKeys(buf) # {}
             /\ op'.name = "primary" /\ status' = status
    <3>1. FlushInv'
      BY <1>1, <1>2, <1>3, <2>2, <2>8 DEF FlushInv, Flushes
    <3>2. \A k \in Keys : ~Pending(k)'
      BY <1>2, <1>3, <2>8 DEF Pending
    <3>3. \A k \in Keys : Written(k)' => Settled(k, buf.primary)'
      BY <1>1, <2>6, <2>8 DEF Settled, Right, Written, Committed, RolledBack
    <3>4. FlushedInv'
      BY <3>2, <3>3 DEF FlushedInv
    <3>5. LostAnswerInv'
      BY <1>1, <2>2, <2>8, <3>2 DEF LostAnswerInv, Right, Written, Committed
    <3>6. SettledInv'
      <4>1. \A k \in CommitKeys(buf) : Written(k)' => Settled(k, CommitPrimary(buf))'
        BY <1>1, <2>3, <3>3, CommitKeysAre DEF Settled
      <4>2. \A k \in Keys : lock'[k].type # "none" => lock'[k].primary = CommitPrimary(buf)
        BY <1>1, <2>2, <2>3 DEF FlushInv
      <4> QED
        BY <1>1, <2>3, <4>1, <4>2, CommitKeysAre DEF SettledInv
    <3>7. ReadyInv'
      BY <1>1, <1>2, <1>3, <2>2, <2>8, <3>6 DEF ReadyInv, FlushInv
    <3> QED
      BY <2>4, <3>1, <3>4, <3>5, <3>7 DEF LiveInv
  <2> QED
    BY <1>1, <1>4, <2>3, <2>5, <2>7, <2>8
<1> QED
  BY <1>6, <1>8 DEF CommitInv

----------------------------------------------------------------------------
(* The primary is committed, and commit() returns Ok. *)
LEMMA PrimaryCommittedCommit ==
  ASSUME IInv, CommitInv, PrimaryCommitted
  PROVE  CommitInv'
<1>1. /\ StageInv /\ ShapeInv /\ WrittenInv /\ op.name = "primary" /\ buf \in Buffers
      /\ status = "StartedCommit" /\ op.first = CommitPrimary(buf)
      /\ MutatedKeys(buf) # {} /\ CommitKeys(buf) # {}
      /\ lock[op.first].type = "write" \/ Committed(op.first)
      /\ Commit({op.first}) /\ op' = Idle /\ status' = "Committed"
      /\ UNCHANGED <<kind, buf, mine, strays, snap, pipe, late>>
  BY DEF IInv, BufferInv, CommitInv, StageInv, PrimaryCommitted, Calling
<1>2. \/ kind = "pipelined" /\ SpawnResolve(TRUE)
      \/ kind # "pipelined" /\ resolving' = resolving
  BY DEF PrimaryCommitted
<1>3. /\ DOMAIN resolving' = {"state", "commit", "regions"}
      /\ resolving' = resolving \/ resolving'.commit
      /\ kind # "pipelined" => resolving' = resolving
  <2>1. ASSUME SpawnResolve(TRUE)
        PROVE  \/ resolving' = resolving
               \/ resolving'.commit /\ DOMAIN resolving' = {"state", "commit", "regions"}
    <3> DEFINE new == [state |-> IF RangeRegions = {} THEN "done" ELSE "running",
                       commit |-> TRUE, regions |-> RangeRegions]
    <3>1. new.commit /\ DOMAIN new = {"state", "commit", "regions"}
      OBVIOUS
    <3>2. resolving' = resolving \/ resolving' = new
      BY <2>1 DEF SpawnResolve
    <3> HIDE DEF new
    <3> QED
      BY <3>1, <3>2
  <2> QED
    BY <1>1, <1>2, <2>1 DEF ShapeInv
<1>4. WrittenInv' /\ StageInv' /\ ShapeInv'
  <2>1. WrittenInv' /\ ShapeInv'
    BY <1>1, <1>3 DEF WrittenInv, Written, pessimistic, ShapeInv
  <2>2. StageInv'
    BY <1>1, <1>3, IdleName DEF StageInv
  <2> QED
    BY <2>1, <2>2
<1>5. ASSUME Live'
      PROVE  LiveInv'
  <2>1. Live
    BY <1>1, <1>5, AlikeItself, LiveBack
  <2>2. StoreInv /\ SettledInv /\ late = {} /\ pipe.flushing.stage = "none"
        /\ (resolving.state = "running" => resolving.commit)
    BY <1>1, <2>1, LiveParts DEF ReadyInv, Ready
  <2>3. StoreInv' /\ SettledInv'
    BY <1>1, <2>2, SettledCommit
  <2>4. Committed(CommitPrimary(buf))'
    <3>1. PICK q \in Keys : q = CommitPrimary(buf)
      BY <1>1, PrimaryIsKey
    <3>2. \A k \in Keys :
            IF k \in {q} /\ lock[k].type # "none"
            THEN /\ lock'[k] = NoLock /\ Committed(k)'
                 /\ record'[k].op = lock[k].op /\ record'[k].value = lock[k].value
            ELSE lock'[k] = lock[k] /\ record'[k] = record[k] /\ (Committed(k)' <=> Committed(k))
      BY <1>1, <2>2, <3>1, CommitOK
    <3>3. lock[q].type # "none" \/ Committed(q)
      BY <1>1, <3>1
    <3>4. Committed(q)' /\ CommitPrimary(buf') = q
      BY <1>1, <3>1, <3>2, <3>3
    <3> QED
      BY <3>4 DEF Committed
  <2>5. ReadyInv'
    BY <1>1, <1>3, <2>2, <2>3, <2>4 DEF ReadyInv
  <2> QED
    BY <1>1, <2>3, <2>5 DEF LiveInv, PlainInv, FlushInv, FlushedInv, LostAnswerInv, Flushes
<1> QED
  BY <1>4, <1>5 DEF CommitInv

(* The primary is not committed, or its answer is lost. *)
LEMMA PrimaryFailsCommit ==
  ASSUME IInv, CommitInv, PrimaryFails
  PROVE  CommitInv'
<1>1. /\ StageInv /\ ShapeInv /\ WrittenInv /\ op.name = "primary" /\ buf \in Buffers
      /\ status = "StartedCommit" /\ op.first = CommitPrimary(buf)
      /\ MutatedKeys(buf) # {} /\ op' = Idle
      /\ UNCHANGED <<kind, status, buf, mine, strays, snap, pipe, late, resolving, secondaries>>
  BY DEF IInv, BufferInv, CommitInv, StageInv, PrimaryFails, Calling, pipeVars
<1>2. \/ UNCHANGED <<lock, record>>
      \/ kind = "pipelined" /\ lock[op.first].type = "write" /\ Commit({op.first})
  BY DEF PrimaryFails
<1>3. op'.name = "idle"
  BY <1>1, IdleName
<1>4. WrittenInv' /\ StageInv' /\ ShapeInv'
  <2>1. WrittenInv' /\ ShapeInv'
    BY <1>1 DEF WrittenInv, Written, pessimistic, ShapeInv
  <2>2. StageInv'
    BY <1>1, <1>3 DEF StageInv
  <2> QED
    BY <2>1, <2>2
<1>5. ASSUME Live'
      PROVE  LiveInv'
  <2>1. Live
    BY <1>1, <1>5, AlikeItself, LiveBack
  <2>2. StoreInv /\ PlainInv /\ FlushInv /\ FlushedInv /\ LostAnswerInv
    BY <2>1, LiveParts
  <2>3. ~Ready'
    BY <1>1, <1>3 DEF Ready
  <2>4. CASE UNCHANGED <<lock, record>>
    <3>1. StoreInv'
      BY <2>2, <2>4 DEF StoreInv, RolledBack
    <3>2. PlainInv'
      BY <1>1, <1>3, <2>2, <2>4 DEF PlainInv, pessimistic, Committed
    <3>3. FlushInv'
      BY <1>1, <1>3, <2>2, <2>4 DEF FlushInv, Flushes
    <3>4. FlushedInv' /\ LostAnswerInv'
      BY <1>1, <2>2, <2>4
         DEF FlushedInv, LostAnswerInv, Flushes, Written, Pending, Right, Settled, Committed,
             RolledBack
    <3> QED
      BY <2>3, <3>1, <3>2, <3>3, <3>4 DEF LiveInv, ReadyInv
  <2>5. CASE kind = "pipelined" /\ lock[op.first].type = "write" /\ Commit({op.first})
    <3>1. PICK q \in Keys : q = CommitPrimary(buf)
      BY <1>1, PrimaryIsKey
    <3>2. /\ StoreInv'
          /\ \A k \in Keys :
               IF k = q
               THEN /\ lock'[k] = NoLock /\ Committed(k)'
                    /\ record'[k].op = lock[k].op /\ record'[k].value = lock[k].value
               ELSE lock'[k] = lock[k] /\ record'[k] = record[k] /\ (Committed(k)' <=> Committed(k))
      <4>1. Commit({q}) /\ lock[q].type # "none"
        BY <1>1, <2>5, <3>1
      <4>2. /\ StoreInv'
            /\ \A k \in Keys :
                 IF k \in {q} /\ lock[k].type # "none"
                 THEN /\ lock'[k] = NoLock /\ Committed(k)'
                      /\ record'[k].op = lock[k].op /\ record'[k].value = lock[k].value
                 ELSE lock'[k] = lock[k] /\ record'[k] = record[k] /\ (Committed(k)' <=> Committed(k))
        BY <2>2, <4>1, CommitOK
      <4> QED
        BY <4>1, <4>2
    <3>3. NoLock.type = "none" /\ NoLock.gen = 0
      BY DEF NoLock
    <3>4. Flushes /\ buf.prewriteOnly = {}
      BY <1>1, <2>1, <2>5 DEF Flushes, Live, Sound
    <3>5. /\ pipe.mutable = {} /\ \A k \in Keys : ~Pending(k)
      BY <1>1, <2>2, <3>4 DEF FlushInv, Pending
    <3>6. buf.primary \in Keys /\ \A k \in Keys : buf.entries[k].kind # "check"
      BY <1>1, <2>5, <3>4, FlushPrimary
    <3>7. \A k \in Keys : Written(k) => Settled(k, buf.primary)
      BY <2>2, <3>4, <3>5, <3>6 DEF FlushedInv
    <3>8. ASSUME NEW k \in Keys
          PROVE  /\ Written(k)' => Settled(k, buf.primary)'
                 /\ lock'[k].type # "none" => Right(lock[k], k)'
      <4>1. \A j \in Keys : record[j] = RolledBack => record'[j] = RolledBack
        <5>1. record[q] # RolledBack
          BY <1>1, <2>2, <2>5, <3>1 DEF StoreInv
        <5> QED
          BY <3>2, <5>1
      <4>2. Written(k) => /\ lock[k].type # "none" => lock[k].type = "write" /\ Right(lock[k], k)
                          /\ Committed(k) => Right(record[k], k)
                          /\ \/ Committed(k)
                             \/ lock[k].type = "write"
                             \/ record[k] = RolledBack /\ record[buf.primary] = RolledBack
        BY <3>7 DEF Settled
      <4>3. CASE k = q
        <5>1. /\ lock'[k] = NoLock /\ Committed(k)'
              /\ record'[k].op = lock[k].op /\ record'[k].value = lock[k].value
              /\ lock[k].type = "write"
          BY <1>1, <2>5, <3>1, <3>2, <4>3
        <5> QED
          BY <1>1, <3>3, <4>2, <5>1 DEF Settled, Right, Written
      <4>4. CASE k # q
        <5>1. lock'[k] = lock[k] /\ record'[k] = record[k] /\ (Committed(k)' <=> Committed(k))
          BY <3>2, <4>4
        <5> QED
          BY <1>1, <3>6, <4>1, <4>2, <5>1 DEF Settled, Right, Written, RolledBack
      <4> QED
        BY <4>3, <4>4
    <3>9. FlushInv'
      <4>1. pipe.generation \in Nat /\ \A n \in Nat : 0 <= n
        <5>1. \A n \in Nat : 0 <= n
          BY SMTT(20)
        <5> QED
          BY <2>2, <3>4, <5>1 DEF FlushInv
      <4>2. \A k \in Keys : /\ lock'[k].gen <= pipe.generation
                            /\ lock'[k].type # "none" =>
                                 lock'[k].type = "write" /\ lock'[k].primary = buf.primary
        BY <2>2, <3>2, <3>3, <3>4, <4>1 DEF FlushInv
      <4> QED
        BY <1>1, <1>3, <2>2, <3>4, <4>2 DEF FlushInv
    <3>10. \A k \in Keys : ~Pending(k)'
      BY <1>1, <3>5 DEF Pending
    <3>11. FlushedInv'
      BY <3>8, <3>10 DEF FlushedInv
    <3>12. LostAnswerInv'
      <4>1. ASSUME NEW k \in Keys, Committed(k)'
            PROVE  Right(record[k], k)'
        <5>1. CASE k = q
          <6>1. /\ record'[k].op = lock[k].op /\ record'[k].value = lock[k].value
                /\ lock[k].type = "write"
            BY <1>1, <2>5, <3>1, <3>2, <5>1
          <6>2. Right(lock[k], k)
            BY <3>7, <6>1 DEF Settled, Right
          <6> QED
            BY <1>1, <6>1, <6>2 DEF Right, Written
        <5>2. CASE k # q
          BY <1>1, <2>2, <3>2, <3>4, <4>1, <5>2 DEF LostAnswerInv, Right, Written
        <5> QED
          BY <5>1, <5>2
      <4> QED
        BY <1>1, <3>8, <3>10, <4>1 DEF LostAnswerInv
    <3>13. PlainInv'
      BY <1>1, <2>5 DEF PlainInv
    <3> QED
      BY <2>3, <3>2, <3>9, <3>11, <3>12, <3>13 DEF LiveInv, ReadyInv
  <2> QED
    BY <1>2, <2>4, <2>5
<1> QED
  BY <1>4, <1>5 DEF CommitInv

----------------------------------------------------------------------------
(* What the store needs of the steps of an active pessimistic transaction. *)
LEMMA LockingStep ==
  ASSUME CommitInv, pessimistic, status = "Active", op'.name \in {"idle", "lock", "unlock"},
         WrittenInv', UNCHANGED <<kind, status, secondaries, snap, record, pipe, late, resolving>>,
         Live => /\ lock' \in [Keys -> Locks]
                 /\ \A k \in Keys : lock'[k].type # "none" =>
                      /\ lock'[k].primary \in Keys /\ record[k] # RolledBack
                      /\ lock'[k].type # "write"
                      /\ \/ lock'[k].primary \in {buf'.primary} \cup strays'
                         \/ /\ op'.name = "unlock" /\ k \in op'.keys
                            /\ lock'[k].primary = op'.first /\ buf'.primary = NoKey
                 /\ \A k \in Keys : lock'[k].gen = 0
  PROVE  CommitInv'
<1>1. StageInv /\ ShapeInv /\ kind # "pipelined"
  BY DEF CommitInv, pessimistic
<1>2. StageInv' /\ ShapeInv'
  BY <1>1 DEF StageInv, ShapeInv
<1>3. ASSUME Live'
      PROVE  LiveInv'
  <2>1. Live
    BY <1>3 DEF Live, Sound
  <2>2. StoreInv /\ PlainInv
    BY <2>1, LiveParts
  <2>3. StoreInv'
    BY <2>1, <2>2 DEF StoreInv, RolledBack
  <2>4. \A k \in Keys : ~Committed(k)'
    BY <1>1, <2>2 DEF PlainInv, Committed
  <2>5. PlainInv'
    BY <1>1, <2>1, <2>4 DEF PlainInv, pessimistic
  <2>6. ~Ready' /\ ~Flushes'
    BY <1>1 DEF Ready, Flushes
  <2> QED
    BY <2>3, <2>5, <2>6 DEF LiveInv, FlushInv, FlushedInv, LostAnswerInv, ReadyInv
<1> QED
  BY <1>2, <1>3 DEF CommitInv

(* The store of a live transaction in pessimistic locking. *)
LEMMA LockingParts ==
  ASSUME CommitInv, Live, pessimistic, status = "Active"
  PROVE  /\ lock \in [Keys -> Locks]
         /\ \A k \in Keys : lock[k].type # "none" =>
              /\ lock[k].primary \in Keys /\ record[k] # RolledBack
              /\ lock[k].type # "write"
              /\ \/ lock[k].primary \in {buf.primary} \cup strays
                 \/ /\ op.name = "unlock" /\ k \in op.keys
                    /\ lock[k].primary = op.first /\ buf.primary = NoKey
         /\ \A k \in Keys : lock[k].gen = 0
<1>1. StoreInv /\ PlainInv /\ kind # "pipelined"
  BY LiveParts DEF pessimistic
<1>2. \A k \in Keys : lock[k].gen = 0 /\ lock[k].type # "write"
  BY <1>1 DEF PlainInv
<1>3. \A k \in Keys : lock[k].type # "none" =>
        \/ lock[k].primary \in {buf.primary} \cup strays
        \/ /\ op.name = "unlock" /\ k \in op.keys
           /\ lock[k].primary = op.first /\ buf.primary = NoKey
  BY <1>1 DEF PlainInv
<1> QED
  BY <1>1, <1>2, <1>3 DEF StoreInv

(* A locking call sends its request. *)
LEMMA LockCallCommit ==
  ASSUME CommitInv, NEW todo, NEW first, LockCall(todo, first)
  PROVE  CommitInv'
<1>1. /\ WrittenInv /\ op = Idle /\ status = "Active" /\ pessimistic
      /\ op' = [name |-> "lock", todo |-> todo, keys |-> DOMAIN todo, first |-> first]
      /\ UNCHANGED <<kind, status, buf, mine, strays, secondaries, snap, lock, record, pipe, late,
                     resolving>>
  BY DEF CommitInv, LockCall, Operation, Call, storeVars, pipeVars
<1>2. op'.name = "lock" /\ op.name = "idle"
  BY <1>1, IdleName
<1>3. WrittenInv'
  BY <1>1 DEF WrittenInv, Written, pessimistic
<1>4. Live => /\ lock' \in [Keys -> Locks]
              /\ \A k \in Keys : lock'[k].type # "none" =>
                   /\ lock'[k].primary \in Keys /\ record[k] # RolledBack
                   /\ lock'[k].type # "write"
                   /\ \/ lock'[k].primary \in {buf'.primary} \cup strays'
                      \/ /\ op'.name = "unlock" /\ k \in op'.keys
                         /\ lock'[k].primary = op'.first /\ buf'.primary = NoKey
              /\ \A k \in Keys : lock'[k].gen = 0
  BY <1>1, <1>2, LockingParts
<1> QED
  BY <1>1, <1>2, <1>3, <1>4, LockingStep

(* The locks that a lock request leaves. *)
LEMMA LocksTaken ==
  ASSUME NEW ks, NEW p \in Keys, lock \in [Keys -> Locks], PessimisticLocks(ks, p)
  PROVE  /\ lock' \in [Keys -> Locks]
         /\ \A k \in Keys :
              IF k \in ks /\ lock[k].type = "none"
              THEN lock'[k].type = "pessimistic" /\ lock'[k].primary = p /\ lock'[k].gen = 0
              ELSE lock'[k] = lock[k]
<1> DEFINE new == [NoLock EXCEPT !.type = "pessimistic", !.primary = p]
<1>1. /\ new \in Locks /\ new.type = "pessimistic" /\ new.primary = p /\ new.gen = 0
  BY DEF NoLock, Locks, Ops, Found
<1>2. lock' = [k \in Keys |-> IF k \in ks /\ lock[k].type = "none" THEN new ELSE lock[k]]
  BY DEF PessimisticLocks
<1> HIDE DEF new
<1>3. lock' \in [Keys -> Locks]
  BY <1>1, <1>2
<1> QED
  BY <1>1, <1>2, <1>3

(* The locks are granted, and the buffer notes them. *)
LEMMA LockGrantedCommit ==
  ASSUME IInv, CommitInv, LockGranted
  PROVE  CommitInv'
<1> DEFINE p == PrimaryKeyOr(buf, op.first).primary
<1>1. /\ BufferInv /\ WrittenInv /\ op.name = "lock" /\ status = "Active" /\ pessimistic
      /\ IsTodo(op.todo) /\ op.first \in DOMAIN op.todo /\ op.keys \subseteq Keys
      /\ buf \in Buffers /\ op.first \in Keys
      /\ PessimisticLocks(op.keys, p) /\ MayLock(op.keys)
      /\ buf' = AfterWrites(buf, op.todo, op.first, TRUE) /\ Wrote(op.todo) /\ op' = Idle
      /\ UNCHANGED <<kind, status, strays, secondaries, snap, record, pipe, late, resolving>>
  BY DEF IInv, BufferInv, OpOK, IsTodo, CommitInv, LockGranted, pipeVars
<1>2. p \in Keys /\ p = (IF buf.primary = NoKey THEN op.first ELSE buf.primary)
  BY <1>1, PrimaryKeyOrOK
<1> HIDE DEF p
<1>3. WrittenInv' /\ buf'.primary = p
  BY <1>1, <1>2, WritesWritten
<1>4. op'.name = "idle"
  BY <1>1, IdleName
<1>5. ASSUME Live
      PROVE  /\ lock' \in [Keys -> Locks]
             /\ \A k \in Keys : lock'[k].type # "none" =>
                  /\ lock'[k].primary \in Keys /\ record[k] # RolledBack
                  /\ lock'[k].type # "write"
                  /\ lock'[k].primary \in {buf'.primary} \cup strays'
             /\ \A k \in Keys : lock'[k].gen = 0
  <2>1. /\ lock \in [Keys -> Locks]
        /\ \A k \in Keys : lock[k].type # "none" =>
              /\ lock[k].primary \in Keys /\ record[k] # RolledBack
              /\ lock[k].type # "write"
              /\ lock[k].primary \in {buf.primary} \cup strays
        /\ \A k \in Keys : lock[k].gen = 0
    BY <1>1, <1>5, LockingParts
  <2>2. /\ lock' \in [Keys -> Locks]
        /\ \A k \in Keys :
              IF k \in op.keys /\ lock[k].type = "none"
              THEN lock'[k].type = "pessimistic" /\ lock'[k].primary = p /\ lock'[k].gen = 0
              ELSE lock'[k] = lock[k]
    BY <1>1, <1>2, <2>1, LocksTaken
  <2>3. \A k \in op.keys : record[k] # RolledBack
    BY <1>1 DEF MayLock
  <2>4. NoKey \notin Keys
    BY BufferAssumption
  <2>5. \A k \in Keys : lock'[k].gen = 0
    BY <2>1, <2>2
  <2>6. ASSUME NEW k \in Keys, lock'[k].type # "none"
        PROVE  /\ lock'[k].primary \in Keys /\ record[k] # RolledBack
               /\ lock'[k].type # "write"
               /\ lock'[k].primary \in {buf'.primary} \cup strays'
    <3>1. CASE k \in op.keys /\ lock[k].type = "none"
      BY <1>2, <1>3, <2>2, <2>3, <3>1
    <3>2. CASE ~(k \in op.keys /\ lock[k].type = "none")
      <4>1. lock'[k] = lock[k] /\ lock[k].type # "none"
        BY <2>2, <2>6, <3>2
      <4> QED
        BY <1>1, <1>2, <1>3, <2>1, <2>4, <4>1
    <3> QED
      BY <3>1, <3>2
  <2> QED
    BY <2>2, <2>5, <2>6
<1> QED
  BY <1>1, <1>3, <1>4, <1>5, LockingStep

(* A request for locks fails; a lock left behind has a stray primary. *)
LEMMA LockRefusedCommit ==
  ASSUME IInv, CommitInv, NEW ok, NEW lost, LockRefused(ok, lost)
  PROVE  CommitInv'
<1> DEFINE p == PrimaryKeyOr(buf, op.first).primary
           some == op.keys \cap KeysIn(ok \cup lost)
           known == op.keys \cap KeysIn(ok)
<1>1. /\ BufferInv /\ WrittenInv /\ op.name = "lock" /\ status = "Active" /\ pessimistic
      /\ buf \in Buffers /\ op.first \in Keys
      /\ PessimisticLocks(some, p) /\ MayLock(some)
      /\ op' = IF ok = {} THEN Idle ELSE [op EXCEPT !.name = "unlock", !.keys = known]
      /\ strays' = IF lost = {} THEN strays ELSE strays \cup {p}
      /\ UNCHANGED <<kind, status, buf, mine, secondaries, snap, record, pipe, late, resolving>>
  BY DEF IInv, BufferInv, OpOK, IsTodo, CommitInv, LockRefused, Strayed, pipeVars
<1>2. p \in Keys /\ p = (IF buf.primary = NoKey THEN op.first ELSE buf.primary)
  BY <1>1, PrimaryKeyOrOK
<1>3. WrittenInv'
  BY <1>1 DEF WrittenInv, Written, pessimistic
<1>4. IF ok = {} THEN op'.name = "idle"
      ELSE op'.name = "unlock" /\ op'.keys = known /\ op'.first = op.first
  <2>1. op = [name |-> op.name, todo |-> op.todo, keys |-> op.keys, first |-> op.first]
    BY <1>1 DEF BufferInv, OpOK
  <2>2. CASE ok = {}
    BY <1>1, <2>2, IdleName
  <2>3. CASE ok # {}
    <3>1. op' = [op EXCEPT !.name = "unlock", !.keys = known]
      BY <1>1, <2>3
    <3> QED
      BY <2>1, <2>3, <3>1
  <2> QED
    BY <2>2, <2>3
<1>5. \A k \in some : lost # {} \/ (k \in known /\ ok # {})
  BY DEF KeysIn
<1>6. \A k \in some : record[k] # RolledBack
  BY <1>1 DEF MayLock
<1> HIDE DEF p, some, known
<1>7. ASSUME Live
      PROVE  /\ lock' \in [Keys -> Locks]
             /\ \A k \in Keys : lock'[k].type # "none" =>
                   /\ lock'[k].primary \in Keys /\ record[k] # RolledBack
                   /\ lock'[k].type # "write"
                   /\ \/ lock'[k].primary \in {buf'.primary} \cup strays'
                      \/ /\ op'.name = "unlock" /\ k \in op'.keys
                         /\ lock'[k].primary = op'.first /\ buf'.primary = NoKey
             /\ \A k \in Keys : lock'[k].gen = 0
  <2>1. /\ lock \in [Keys -> Locks]
        /\ \A k \in Keys : lock[k].type # "none" =>
              /\ lock[k].primary \in Keys /\ record[k] # RolledBack
              /\ lock[k].type # "write"
              /\ lock[k].primary \in {buf.primary} \cup strays
        /\ \A k \in Keys : lock[k].gen = 0
    BY <1>1, <1>7, LockingParts
  <2>2. /\ lock' \in [Keys -> Locks]
        /\ \A k \in Keys :
              IF k \in some /\ lock[k].type = "none"
              THEN lock'[k].type = "pessimistic" /\ lock'[k].primary = p /\ lock'[k].gen = 0
              ELSE lock'[k] = lock[k]
    BY <1>1, <1>2, <2>1, LocksTaken
  <2>3. \A k \in Keys : lock'[k].gen = 0
    BY <2>1, <2>2
  <2>4. ASSUME NEW k \in Keys, lock'[k].type # "none"
        PROVE  /\ lock'[k].primary \in Keys /\ record[k] # RolledBack
               /\ lock'[k].type # "write"
               /\ \/ lock'[k].primary \in {buf'.primary} \cup strays'
                  \/ /\ op'.name = "unlock" /\ k \in op'.keys
                     /\ lock'[k].primary = op'.first /\ buf'.primary = NoKey
    <3>1. CASE k \in some /\ lock[k].type = "none"
      <4>1. lock'[k].type = "pessimistic" /\ lock'[k].primary = p /\ record[k] # RolledBack
        BY <1>6, <2>2, <3>1
      <4>2. \/ p = buf'.primary
            \/ p \in strays'
            \/ /\ op'.name = "unlock" /\ k \in op'.keys /\ p = op'.first /\ buf'.primary = NoKey
        BY <1>1, <1>2, <1>4, <1>5, <3>1
      <4> QED
        BY <1>2, <4>1, <4>2
    <3>2. CASE ~(k \in some /\ lock[k].type = "none")
      <4>1. lock'[k] = lock[k] /\ lock[k].type # "none"
        BY <2>2, <2>4, <3>2
      <4>2. strays \subseteq strays'
        BY <1>1
      <4> QED
        BY <1>1, <2>1, <4>1, <4>2
    <3> QED
      BY <3>1, <3>2
  <2> QED
    BY <2>2, <2>3, <2>4
<1>8. op'.name \in {"idle", "lock", "unlock"}
  BY <1>4
<1> QED
  BY <1>1, <1>3, <1>7, <1>8, LockingStep

(* Releasing locks leaves those of other keys. *)
LEMMA LocksReleased ==
  ASSUME NEW ks, lock \in [Keys -> Locks], PessimisticRollback(ks),
         \A k \in Keys : lock[k].type # "write" /\ lock[k].gen = 0
  PROVE  /\ lock' \in [Keys -> Locks]
         /\ \A k \in Keys : lock'[k].gen = 0
         /\ \A k \in Keys : lock'[k].type # "none" => k \notin ks /\ lock'[k] = lock[k]
<1>1. NoLock \in Locks /\ NoLock.type = "none" /\ NoLock.gen = 0
  BY DEF NoLock, Locks, Ops, Found
<1>2. lock' = [k \in Keys |-> IF k \in ks /\ lock[k].type = "pessimistic" THEN NoLock ELSE lock[k]]
  BY DEF PessimisticRollback
<1>3. lock' \in [Keys -> Locks]
  BY <1>1, <1>2
<1>4. \A k \in Keys : lock[k].type \in {"none", "pessimistic"}
  BY DEF Locks
<1> QED
  BY <1>1, <1>2, <1>3, <1>4

(* The locks of a failed call are released, or some are not. *)
LEMMA UnlockCommit ==
  ASSUME IInv, CommitInv, UnlockDone \/ \E regions : UnlockFails(regions)
  PROVE  CommitInv'
<1>1. /\ BufferInv /\ WrittenInv /\ op.name = "unlock" /\ status = "Active" /\ pessimistic
      /\ buf \in Buffers /\ op.first \in Keys /\ op.keys \subseteq Keys
      /\ op' = Idle /\ UNCHANGED <<kind, status, mine, secondaries, snap, record, pipe, late,
                                   resolving>>
  BY DEF IInv, BufferInv, OpOK, IsTodo, CommitInv, UnlockDone, UnlockFails, pipeVars
<1>2. op'.name = "idle"
  BY <1>1, IdleName
<1>3. WrittenInv' /\ buf'.primary = buf.primary
  <2>1. CASE buf' = buf
    BY <1>1, <2>1 DEF WrittenInv, Written, pessimistic
  <2>2. CASE buf' = Unlock(buf, op.keys)
    <3>1. /\ buf'.entries = [k \in Keys |-> IF k \in op.keys THEN UnlockedEntry(buf.entries[k])
                                            ELSE buf.entries[k]]
          /\ buf'.primary = buf.primary /\ buf'.prewriteOnly = buf.prewriteOnly
      BY <1>1, <2>2, BufferFields DEF Unlock, Buffers
    <3>2. \A e : /\ \A x \in {"put", "del", "insert", "check"} :
                      UnlockedEntry(e).kind = x <=> e.kind = x
                 /\ e.kind = "check" => UnlockedEntry(e) = e
      BY DEF UnlockedEntry, NoEntry, Entry
    <3>3. \A k \in Keys : \A x \in {"put", "del", "insert", "check"} :
            buf'.entries[k].kind = x <=> buf.entries[k].kind = x
      <4> SUFFICES ASSUME NEW k \in Keys, NEW x \in {"put", "del", "insert", "check"}
                   PROVE  buf'.entries[k].kind = x <=> buf.entries[k].kind = x
        OBVIOUS
      <4>1. UnlockedEntry(buf.entries[k]).kind = x <=> buf.entries[k].kind = x
        BY <3>2
      <4>2. \/ buf'.entries[k] = UnlockedEntry(buf.entries[k])
            \/ buf'.entries[k] = buf.entries[k]
        BY <3>1
      <4> QED
        BY <4>1, <4>2
    <3>4. \A k \in Keys : buf'.entries[k].kind = "check" => buf'.entries[k].value = Absent
      <4> SUFFICES ASSUME NEW k \in Keys, buf.entries[k].kind = "check"
                   PROVE  buf'.entries[k].value = Absent
        BY <3>3
      <4>1. UnlockedEntry(buf.entries[k]) = buf.entries[k]
        BY <3>2
      <4>2. buf'.entries[k] = buf.entries[k]
        BY <3>1, <4>1
      <4> QED
        BY <1>1, <4>2 DEF WrittenInv
    <3> QED
      BY <1>1, <3>1, <3>3, <3>4 DEF WrittenInv, Written, pessimistic
  <2> QED
    BY <2>1, <2>2 DEF UnlockDone, UnlockFails
<1>4. PICK done : /\ PessimisticRollback(done)
                  /\ strays \subseteq strays'
                  /\ op.keys \subseteq done \/ PrimaryKeyOr(buf, op.first).primary \in strays'
  <2>1. CASE UnlockDone
    BY <2>1 DEF UnlockDone
  <2>2. CASE \E regions : UnlockFails(regions)
    <3>1. PICK regions : UnlockFails(regions)
      BY <2>2
    <3> DEFINE d == op.keys \cap KeysIn(regions)
    <3>2. /\ PessimisticRollback(d)
          /\ strays' = IF op.keys \ d = {} THEN strays
                       ELSE strays \cup {PrimaryKeyOr(buf, op.first).primary}
      BY <3>1 DEF UnlockFails, Strayed
    <3> HIDE DEF d
    <3> QED
      BY <3>2
  <2> QED
    BY <2>1, <2>2
<1>5. ASSUME Live
      PROVE  /\ lock' \in [Keys -> Locks]
             /\ \A k \in Keys : lock'[k].type # "none" =>
                   /\ lock'[k].primary \in Keys /\ record[k] # RolledBack
                   /\ lock'[k].type # "write"
                   /\ lock'[k].primary \in {buf'.primary} \cup strays'
             /\ \A k \in Keys : lock'[k].gen = 0
  <2>1. /\ lock \in [Keys -> Locks]
        /\ \A k \in Keys : lock[k].type # "none" =>
              /\ lock[k].primary \in Keys /\ record[k] # RolledBack
              /\ lock[k].type # "write"
              /\ \/ lock[k].primary \in {buf.primary} \cup strays
                 \/ /\ op.name = "unlock" /\ k \in op.keys
                    /\ lock[k].primary = op.first /\ buf.primary = NoKey
        /\ \A k \in Keys : lock[k].gen = 0
    BY <1>1, <1>5, LockingParts
  <2>2. /\ lock' \in [Keys -> Locks]
        /\ \A k \in Keys : lock'[k].gen = 0
        /\ \A k \in Keys : lock'[k].type # "none" => k \notin done /\ lock'[k] = lock[k]
    <3>1. \A k \in Keys : lock[k].type # "write" /\ lock[k].gen = 0
      BY <2>1
    <3> QED
      BY <1>4, <2>1, <3>1, LocksReleased
  <2>3. buf.primary = NoKey => PrimaryKeyOr(buf, op.first).primary = op.first
    BY <1>1, PrimaryKeyOrOK
  <2>4. ASSUME NEW k \in Keys, lock'[k].type # "none"
        PROVE  /\ lock'[k].primary \in Keys /\ record[k] # RolledBack
               /\ lock'[k].type # "write"
               /\ lock'[k].primary \in {buf'.primary} \cup strays'
    <3>1. k \notin done /\ lock'[k] = lock[k]
      BY <2>2, <2>4
    <3> QED
      BY <1>3, <1>4, <2>1, <2>3, <2>4, <3>1
  <2> QED
    BY <2>2, <2>4
<1> QED
  BY <1>1, <1>2, <1>3, <1>5, LockingStep

----------------------------------------------------------------------------
(* The invariant holds before the first call. *)
LEMMA CommitInitially == Init => CommitInv
<1> SUFFICES ASSUME Init
             PROVE  CommitInv
  OBVIOUS
<1>1. /\ lock = [k \in Keys |-> NoLock] /\ record = [k \in Keys |-> NoRecord]
      /\ status = "Active" /\ buf = NewBuffer /\ op = Idle /\ secondaries = {} /\ late = {}
      /\ mine = [k \in Keys |-> Unwritten] /\ strays = {} /\ resolving = NoTask /\ PipeInit
  BY DEF Init, PipeInit
<1>2. /\ NoLock \in Locks /\ NoLock.type = "none" /\ NoLock.gen = 0
      /\ NoRecord \in Records /\ NoRecord.op = "none"
  BY DEF NoLock, Locks, Ops, Found, NoRecord, Records
<1>3. /\ NewBuffer.primary = NoKey /\ NewBuffer.prewriteOnly = {}
      /\ \A k \in Keys : NewBuffer.entries[k].kind = "none"
  BY DEF NewBuffer, NoEntry, Entry
<1>4. MutatedKeys(buf) = {}
  BY <1>1, <1>3 DEF MutatedKeys
<1>5. WrittenInv
  BY <1>1, <1>3, <1>4 DEF WrittenInv, Written
<1>6. /\ DOMAIN NoFlush = FlushFields /\ NoFlush.stage = "none" /\ NoFlush.regions = {}
      /\ DOMAIN NoFlush.muts = {}
  <2>1. DOMAIN <<>> = {}
    BY SMTT(20)
  <2> QED
    BY <2>1 DEF NoFlush, FlushFields
<1>7. /\ DOMAIN pipe = PipeFields /\ pipe.flushing = NoFlush /\ pipe.generation = 0
      /\ pipe.mutable = {} /\ ~pipe.cancelled /\ ~pipe.failed
  BY <1>1 DEF PipeInit, PipeFields
<1>8. DOMAIN resolving = {"state", "commit", "regions"} /\ resolving.state = "none"
  BY <1>1 DEF NoTask
<1>9. ShapeInv
  BY <1>6, <1>7, <1>8 DEF ShapeInv
<1>10. op.name = "idle"
  BY <1>1, IdleName
<1>11. StageInv
  BY <1>1, <1>6, <1>7, <1>8, <1>10 DEF StageInv
<1>12. \A k \in Keys : lock[k] = NoLock /\ ~Committed(k)
  BY <1>1, <1>2 DEF Committed
<1>13. StoreInv
  BY <1>1, <1>2 DEF StoreInv
<1>14. PlainInv
  BY <1>1, <1>2, <1>12 DEF PlainInv
<1>15. FlushInv
  <2>1. 0 \in Nat /\ 0 <= 0
    BY SMTT(20)
  <2>2. \A k \in Keys : lock[k].gen <= pipe.generation /\ lock[k].type = "none"
    BY <1>2, <1>7, <1>12, <2>1
  <2> QED
    BY <1>1, <1>6, <1>7, <1>8, <1>10, <2>1, <2>2 DEF FlushInv
<1>16. \A k \in Keys : ~Written(k)
  BY <1>1 DEF Written
<1>17. FlushedInv /\ LostAnswerInv /\ ReadyInv
  BY <1>1, <1>10, <1>12, <1>16 DEF FlushedInv, LostAnswerInv, ReadyInv, Ready
<1> QED
  BY <1>5, <1>9, <1>11, <1>13, <1>14, <1>15, <1>17 DEF CommitInv, LiveInv

(* Every step keeps the invariant. *)
LEMMA CommitInductive ==
  ASSUME IInv, IInv', CommitInv, [Next]_vars
  PROVE  CommitInv'
<1>1. CASE UNCHANGED vars
  BY <1>1, AsideCommit
<1>2. CASE UserCalls
  <2>1. CASE \E k \in Keys : GetKey(k) \/ Presume(k)
    BY <2>1, ReadsCommit, PresumeCommit
  <2>2. CASE \E ks \in SUBSET Keys : BatchGet(ks)
    BY <2>2, ReadsCommit
  <2>3. CASE \E range \in Ranges, limit \in ScanLimits, reverse \in BOOLEAN :
               Scan(range, limit, reverse)
    BY <2>3, ReadsCommit
  <2>4. CASE \E todo \in scenario.todos, k \in Keys : Write(todo, k) \/ LockCall(todo, k)
    BY <2>4, WriteCommit, LockCallCommit
  <2>5. CASE CommitCall \/ RollbackCall \/ DropTxn
    BY <2>5, CommitCallCommit, RollbackCallCommit, RollbackCommit
  <2> QED
    BY <1>2, <2>1, <2>2, <2>3, <2>4, <2>5 DEF UserCalls
<1>3. CASE Answers
  <2>1. CASE \/ LockGranted \/ UnlockDone
             \/ \E ok, lost \in SUBSET RegionsOf(op.keys) : LockRefused(ok, lost)
    BY <2>1, LockGrantedCommit, LockRefusedCommit, UnlockCommit
  <2>2. CASE \E regions \in SUBSET RegionsOf(Keys) :
               UnlockFails(regions) \/ PrewriteFails(regions) \/ RollbackFails(regions)
    BY <2>2, UnlockCommit, PrewriteCommit, RollbackCommit
  <2>3. CASE PrewriteDone \/ FlushAwaited \/ PrimaryCommitted \/ PrimaryFails
    BY <2>3, PrewriteCommit, FlushAwaitedCommit, PrimaryCommittedCommit, PrimaryFailsCommit
  <2>4. CASE RollbackPipelined \/ RollbackDone
    BY <2>4, RollbackCommit
  <2> QED
    BY <1>3, <2>1, <2>2, <2>3, <2>4 DEF Answers
<1>4. CASE SecondariesCommitted \/ SecondariesFail \/ Resolving
  BY <1>4, TasksCommit DEF Resolving
<1>5. CASE Flushing
  BY <1>5, FlushStages, FlushRegionCommit, LateCommit DEF Flushing, FlushTask, txnVars
<1>6. CASE HeartbeatStops \/ HeartbeatFails
  BY <1>6, AsideCommit
<1>7. CASE Others
  BY <1>7, AsideCommit, ResolverCommit, LateCommit DEF Others
<1> QED
  BY <1>1, <1>2, <1>3, <1>4, <1>5, <1>6, <1>7 DEF Next

(* What the invariant says of a commit() that returned Ok. *)
LEMMA CommitInvSays == IInv /\ CommitInv => NothingLost
<1> SUFFICES ASSUME IInv, CommitInv, status = "Committed", ~pipe.failed,
                    \A k \in buf.prewriteOnly :
                      kind # "pipelined" /\ buf.entries[k].kind # "insert",
                    \A p \in strays \cap CommitKeys(buf) : p = CommitPrimary(buf),
                    NEW k \in Keys, mine[k] # Unwritten
             PROVE  Effective(k) = mine[k]
  BY DEF NothingLost, CommittedAll
<1> DEFINE q == CommitPrimary(buf)
<1>1. buf \in Buffers /\ EntryOK(buf.entries[k], snap[k], mine[k])
  BY DEF IInv, BufferInv, Agree
<1>2. kind = "pipelined" => buf.prewriteOnly = {}
  OBVIOUS
<1>3. Live
  BY <1>2 DEF Live, Sound
<1>4. SettledInv /\ (CommitKeys(buf) # {} => Committed(q)) /\ StoreInv /\ WrittenInv
  BY <1>3, LiveParts DEF ReadyInv, Ready
<1>5. CASE buf.entries[k].kind = "check"
  <2>1. snap[k] = Absent /\ lock[k].type = "none" /\ ~Committed(k)
    BY <1>4, <1>5 DEF SettledInv
  <2>2. Effective(k) = snap[k]
    BY <2>1 DEF Effective
  <2>3. mine[k] = Absent
    BY <1>1, <1>4, <1>5 DEF EntryOK, Determined, WrittenInv
  <2> QED
    BY <2>1, <2>2, <2>3
<1>6. CASE buf.entries[k].kind # "check"
  <2>1. k \in CommitKeys(buf)
    BY <1>4, <1>6, CommitKeysAre DEF WrittenInv, Written
  <2>2. Committed(q) /\ Settled(k, q) /\ (lock[k].type # "none" => lock[k].primary = q)
    BY <1>4, <2>1 DEF SettledInv, Written
  <2>3. record[q] # RolledBack
    <3>1. RolledBack.op = "rollback"
      BY DEF RolledBack
    <3> QED
      BY <2>2, <3>1 DEF Committed
  <2>4. CASE Committed(k)
    <3>1. Effective(k) = Visible(record[k].op, record[k].value, k)
      BY <2>4 DEF Effective
    <3>2. record[k].op # "Lock" /\ record[k].value = mine[k]
      BY <2>2, <2>4 DEF Settled, Right, Written
    <3> QED
      BY <3>1, <3>2 DEF Visible
  <2>5. CASE ~Committed(k) /\ lock[k].type = "write"
    <3>1. lock[k].primary = q /\ Committed(q)
      BY <2>2, <2>5
    <3>2. Effective(k) = Visible(lock[k].op, lock[k].value, k)
      BY <2>5, <3>1 DEF Effective
    <3>3. lock[k].op # "Lock" /\ lock[k].value = mine[k]
      BY <2>2, <2>5 DEF Settled, Right, Written
    <3> QED
      BY <3>2, <3>3 DEF Visible
  <2> QED
    BY <2>2, <2>3, <2>4, <2>5 DEF Settled
<1> QED
  BY <1>5, <1>6

(* The invariant holds throughout. *)
LEMMA CommitInvariance == Spec => []CommitInv
<1>1. Init => IInv /\ CommitInv
  BY Initially, CommitInitially
<1>2. IInv /\ CommitInv /\ [Next]_vars => (IInv /\ CommitInv)'
  BY Inductive, CommitInductive
<1> QED
  BY <1>1, <1>2, PTL DEF Spec

(* A commit() that returned Ok has committed the last write of every key,    *)
(* whoever resolved its locks meanwhile and however its writes were spread   *)
(* over background flushes.                                                  *)
THEOREM CommitLosesNothing == Spec => []NothingLost
  BY Invariance, CommitInvariance, CommitInvSays, PTL
----------------------------------------------------------------------------
(* rollback(): every step keeps CleanInv.                                    *)

(* The new locks name the given primary. *)
Taken(primary) ==
  \A k \in Keys : \/ lock'[k] = lock[k]
                  \/ lock'[k].type \in {"pessimistic", "write"} /\ lock'[k].primary = primary

(* Optimistic and pessimistic transactions lock keys. *)
LEMMA LocksClean ==
  ASSUME CleanInv, kind # "pipelined", UNCHANGED <<kind, record, secondaries>>,
         status \in {"Active", "StartedCommit"}, status' # "Rolledback", NEW primary \in Keys,
         Taken(primary)
  PROVE  CleanInv'
<1>1. /\ secondaries = {}
      /\ \A k \in Keys : /\ ~Committed(k) /\ lock[k].type \in {"none", "pessimistic", "write"}
                         /\ HasLock(k) => lock[k].primary \in Keys
  BY DEF CleanInv, ReleasedInv
<1>2. \A k \in Keys : /\ ~Committed(k)' /\ lock'[k].type \in {"none", "pessimistic", "write"}
                      /\ HasLock(k)' => lock'[k].primary \in Keys
  BY <1>1 DEF Committed, HasLock, Taken
<1>3. LockInv'
  BY <1>2 DEF LockInv, HasLock, Committed
<1>4. ReleasedInv'
  <2>1. secondaries' = {}
    BY <1>1
  <2> QED
    BY <1>2, <2>1 DEF ReleasedInv, HasLock, Committed
<1>5. SpanInv' /\ ResolvedInv'
  BY DEF SpanInv, ResolvedInv
<1> QED
  BY <1>3, <1>4, <1>5 DEF CleanInv

(* Locks that are requested, and those that are prewritten. *)
LEMMA LockingClean ==
  ASSUME IInv, CommitInv, CleanInv,
         \/ LockGranted \/ (\E ok, lost : LockRefused(ok, lost))
         \/ PrewriteDone \/ (\E regions : PrewriteFails(regions))
  PROVE  CleanInv'
<1>1. StageInv /\ buf \in Buffers
  BY DEF IInv, BufferInv, CommitInv
<1>2. CASE LockGranted \/ \E ok, lost : LockRefused(ok, lost)
  <2> DEFINE p == PrimaryKeyOr(buf, op.first).primary
  <2>1. /\ op.name = "lock" /\ UNCHANGED <<kind, record, status, secondaries>>
        /\ \E ks : PessimisticLocks(ks, p)
    BY <1>2 DEF LockGranted, LockRefused
  <2>2. kind # "pipelined" /\ status = "Active" /\ op.first \in Keys
    BY <2>1 DEF IInv, BufferInv, OpOK, IsTodo, pessimistic
  <2>3. p \in Keys
    BY <1>1, <2>2, PrimaryKeyOrOK
  <2> HIDE DEF p
  <2>4. Taken(p)
    <3>1. PICK ks : PessimisticLocks(ks, p)
      BY <2>1
    <3>2. \A k \in Keys : \/ lock'[k] = lock[k]
                          \/ lock'[k].type = "pessimistic" /\ lock'[k].primary = p
      BY <3>1, PessimisticNew
    <3> QED
      BY <3>2 DEF Taken
  <2>5. status \in {"Active", "StartedCommit"} /\ status' # "Rolledback"
    BY <2>1, <2>2
  <2> QED
    BY <2>1, <2>2, <2>3, <2>4, <2>5, LocksClean
<1>3. CASE PrewriteDone \/ \E regions : PrewriteFails(regions)
  <2>1. /\ op.name = "prewrite" /\ UNCHANGED <<kind, record, secondaries>>
        /\ status' = status \/ status' = "Committed"
        /\ \E ks : WriteLocks(Mutations(buf), ks, op.first, 0)
    BY <1>3 DEF PrewriteDone, PrewriteFails, Calling
  <2>2. kind # "pipelined" /\ status = "StartedCommit" /\ op.first \in Keys
    BY <1>1, <2>1, PrimaryIsKey DEF StageInv
  <2>3. Taken(op.first)
    <3>1. PICK ks : WriteLocks(Mutations(buf), ks, op.first, 0)
      BY <2>1
    <3>2. \A k \in Keys : \/ lock'[k] = lock[k]
                          \/ lock'[k].type = "write" /\ lock'[k].primary = op.first
      <4>1. LockInv /\ record' = record
        BY <2>1 DEF CleanInv
      <4> QED
        BY <3>1, <4>1, WriteLocksNew
    <3> QED
      BY <3>2 DEF Taken
  <2>4. status \in {"Active", "StartedCommit"} /\ status' # "Rolledback"
    BY <2>1, <2>2
  <2>5. UNCHANGED <<kind, record, secondaries>>
    BY <2>1
  <2> QED
    BY <2>2, <2>3, <2>4, <2>5, LocksClean
<1> QED
  BY <1>2, <1>3
----------------------------------------------------------------------------
(* Calls and tasks that leave the locks alone. *)
LEMMA OtherClean ==
  ASSUME CleanInv,
         \/ Operation /\ Reads
         \/ (\E todo, first : LockCall(todo, first)) \/ CommitCall \/ DropTxn
         \/ SecondariesFail \/ HeartbeatStops \/ HeartbeatFails
         \/ (\E k \in Keys : RivalWrites(k)) /\ UNCHANGED <<pipeVars, txnVars>>
         \/ UNCHANGED vars
  PROVE  CleanInv'
<1>1. CASE (Operation /\ Reads) \/ \E todo, first : LockCall(todo, first)
  <2>1. /\ UNCHANGED <<kind, lock, record, pipe, late, resolving, secondaries, status>>
        /\ status = "Active"
    BY <1>1 DEF Operation, Reads, LockCall, storeVars, pipeVars
  <2> QED
    BY <2>1, AsideClean
<1>2. CASE CommitCall
  <2>1. /\ UNCHANGED <<kind, lock, record, pipe, late, resolving, secondaries>>
        /\ status \in {"Active", "StartedCommit"} /\ status' \in {"StartedCommit", "Panicked"}
    BY <1>2 DEF CommitCall, storeVars, pipeVars
  <2> QED
    BY <2>1, AsideClean
<1>3. CASE DropTxn
  <2>1. /\ UNCHANGED <<kind, lock, record, pipe, late, resolving, secondaries>>
        /\ status' = "Dropped"
    BY <1>3 DEF DropTxn, Calling, storeVars, pipeVars
  <2> QED
    BY <2>1, AsideClean
<1>4. CASE \/ SecondariesFail \/ HeartbeatStops \/ HeartbeatFails
           \/ (\E k \in Keys : RivalWrites(k)) /\ UNCHANGED <<pipeVars, txnVars>>
           \/ UNCHANGED vars
  <2>1. /\ UNCHANGED <<kind, lock, record, pipe, late, resolving, status, buf>>
        /\ secondaries' = {} \/ secondaries' = secondaries
    BY <1>4 DEF SecondariesFail, Calling, HeartbeatStops, HeartbeatFails, HeartbeatEnds,
                RivalWrites, pipeVars, txnVars, vars, storeVars
  <2> QED
    BY <2>1, AsideClean
<1> QED
  BY <1>1, <1>2, <1>3, <1>4

(* Locks that are released after a failed request, and those of a rollback() *)
(* that fails half way.                                                      *)
LEMMA ReleaseClean ==
  ASSUME IInv, CommitInv, CleanInv,
         \/ UnlockDone \/ \E regions : UnlockFails(regions) \/ RollbackFails(regions)
  PROVE  CleanInv'
<1>1. LockInv
  BY DEF CleanInv
<1>2. CASE UnlockDone \/ \E regions : UnlockFails(regions)
  <2>1. /\ op.name = "unlock" /\ UNCHANGED <<kind, record, pipe, late, status, secondaries>>
        /\ \E ks : PessimisticRollback(ks)
    BY <1>2 DEF UnlockDone, UnlockFails, pipeVars
  <2>2. status = "Active"
    BY <2>1 DEF IInv, BufferInv, OpOK
  <2>3. LockInv' /\ Fewer
    BY <1>1, <2>1, PessimisticFewer
  <2> QED
    BY <2>1, <2>2, <2>3, FewerClean DEF Committed
<1>3. CASE \E regions : RollbackFails(regions)
  <2>1. /\ op.name = "rollback" /\ UNCHANGED <<kind, pipe, late, status, secondaries>>
        /\ \E ks : ReleaseKeys(ks)
    BY <1>3 DEF RollbackFails, Calling, pipeVars
  <2>2. status = "StartedRollback"
    BY <2>1 DEF CommitInv, StageInv
  <2>3. LockInv' /\ Fewer /\ \A k \in Keys : Committed(k)' => Committed(k)
    <3>1. PICK ks : ReleaseKeys(ks)
      BY <2>1
    <3>2. CASE pessimistic
      <4>1. PessimisticRollback(ks) /\ record' = record
        BY <3>1, <3>2 DEF ReleaseKeys
      <4> QED
        BY <1>1, <4>1, PessimisticFewer DEF Committed
    <3>3. CASE ~pessimistic
      <4>1. Rollback(ks)
        BY <3>1, <3>3 DEF ReleaseKeys
      <4> QED
        BY <1>1, <4>1, RollbackFewer
    <3> QED
      BY <3>2, <3>3
  <2> QED
    BY <2>1, <2>2, <2>3, FewerClean
<1> QED
  BY <1>2, <1>3

(* The primary and the secondaries. *)
LEMMA CommittingClean ==
  ASSUME CommitInv, CleanInv, PrimaryCommitted \/ PrimaryFails \/ SecondariesCommitted
  PROVE  CleanInv'
<1>1. LockInv /\ StageInv
  BY DEF CleanInv, CommitInv
<1>2. CASE PrimaryCommitted
  <2>1. Commit({op.first}) /\ UNCHANGED <<kind, pipe, late>> /\ status' = "Committed"
    BY <1>2 DEF PrimaryCommitted, Calling
  <2>2. LockInv' /\ Fewer
    BY <1>1, <2>1, CommitFewer
  <2> QED
    BY <2>1, <2>2, FewerClean
<1>3. CASE PrimaryFails
  <2>1. /\ op.name = "primary" /\ UNCHANGED <<kind, pipe, late, resolving, status, secondaries>>
        /\ UNCHANGED <<lock, record>> \/ (kind = "pipelined" /\ Commit({op.first}))
    BY <1>3 DEF PrimaryFails, Calling, pipeVars
  <2>2. status = "StartedCommit"
    BY <1>1, <2>1 DEF StageInv
  <2>3. CASE UNCHANGED <<lock, record>>
    BY <2>1, <2>2, <2>3, AsideClean
  <2>4. CASE kind = "pipelined" /\ Commit({op.first})
    <3>1. LockInv' /\ Fewer
      BY <1>1, <2>4, CommitFewer
    <3> QED
      BY <2>1, <2>2, <2>4, <3>1, FewerClean
  <2> QED
    BY <2>1, <2>3, <2>4
<1>4. CASE SecondariesCommitted
  <2>1. /\ secondaries # {} /\ secondaries' = {} /\ Commit(secondaries)
        /\ UNCHANGED <<kind, pipe, late, resolving, status, buf>>
    BY <1>4 DEF SecondariesCommitted, Calling, pipeVars
  <2>2. LockInv' /\ Fewer
    BY <1>1, <2>1, CommitFewer
  <2>3. kind = "pipelined" \/ status \in {"Committed", "Dropped"}
    BY <2>1 DEF CleanInv, ReleasedInv
  <2> QED
    BY <2>1, <2>2, <2>3, FewerClean
<1> QED
  BY <1>2, <1>3, <1>4

(* Somebody settles a lock: none of a transaction that is not committed is   *)
(* turned into a record.                                                     *)
LEMMA ResolverClean ==
  ASSUME CleanInv, NEW i \in Keys, NEW alive, ResolverMeets(i, alive),
         UNCHANGED <<pipeVars, txnVars>>
  PROVE  CleanInv'
<1> DEFINE p == lock[i].primary
<1>1. /\ LockInv /\ HasLock(i)
      /\ UNCHANGED <<kind, pipe, late, resolving, status, buf, secondaries>>
      /\ IF Committed(p) THEN Commit({i}) ELSE Rollback({p, i})
  BY DEF CleanInv, ResolverMeets, HasLock, pipeVars, txnVars
<1>2. kind # "pipelined" /\ status \notin {"Committed", "Dropped"} => ~Committed(p)
  BY <1>1 DEF CleanInv, ReleasedInv
<1> HIDE DEF p
<1>3. CASE Committed(p)
  <2>1. LockInv' /\ Fewer
    BY <1>1, <1>3, CommitFewer
  <2> QED
    BY <1>1, <1>2, <1>3, <2>1, FewerClean
<1>4. CASE ~Committed(p)
  <2>1. LockInv' /\ Fewer /\ \A k \in Keys : Committed(k)' => Committed(k)
    BY <1>1, <1>4, RollbackFewer
  <2> QED
    BY <1>1, <2>1, FewerClean
<1> QED
  BY <1>3, <1>4
----------------------------------------------------------------------------
(* Nothing is locked at the beginning. *)
LEMMA CleanInitially == Init => CleanInv
<1> SUFFICES ASSUME Init
             PROVE  CleanInv
  OBVIOUS
<1>1. /\ lock = [k \in Keys |-> NoLock] /\ record = [k \in Keys |-> NoRecord]
      /\ status = "Active" /\ secondaries = {} /\ late = {} /\ PipeInit
  BY DEF Init, PipeInit
<1>2. NoLock.type = "none" /\ NoRecord.op = "none"
  BY DEF NoLock, NoRecord
<1>3. \A k \in Keys : ~HasLock(k) /\ lock[k].type = "none" /\ ~Committed(k)
  BY <1>1, <1>2 DEF HasLock, Committed
<1>4. /\ pipe.mutable = {} /\ pipe.flushing = NoFlush /\ pipe.start = NoKey /\ pipe.end = NoKey
  BY <1>1 DEF PipeInit
<1>5. NoKey \in Nat
  BY SMTT(20) DEF NoKey
<1>6. LockInv /\ ReleasedInv
  BY <1>1, <1>3 DEF LockInv, ReleasedInv
<1>7. SpanInv
  BY <1>1, <1>3, <1>4, <1>5, NoFlushIn, FS_EmptySet DEF SpanInv
<1>8. ResolvedInv
  BY <1>1 DEF ResolvedInv
<1> QED
  BY <1>6, <1>7, <1>8 DEF CleanInv

(* Every step keeps the invariant. *)
LEMMA CleanInductive ==
  ASSUME IInv, CommitInv, CleanInv, [Next]_vars
  PROVE  CleanInv'
<1>1. CASE UNCHANGED vars
  BY <1>1, OtherClean
<1>2. CASE UserCalls
  <2>1. CASE \E k \in Keys : GetKey(k) \/ Presume(k)
    BY <2>1, OtherClean, PresumeClean DEF GetKey
  <2>2. CASE \/ \E ks \in SUBSET Keys : BatchGet(ks)
             \/ \E range \in Ranges, limit \in ScanLimits, reverse \in BOOLEAN :
                  Scan(range, limit, reverse)
    BY <2>2, OtherClean DEF BatchGet, Scan
  <2>3. CASE \E todo \in scenario.todos, k \in Keys : Write(todo, k) \/ LockCall(todo, k)
    BY <2>3, WriteClean, OtherClean
  <2>4. CASE CommitCall \/ RollbackCall \/ DropTxn
    BY <2>4, OtherClean, RollbackCallClean
  <2> QED
    BY <1>2, <2>1, <2>2, <2>3, <2>4 DEF UserCalls
<1>3. CASE Answers
  <2>1. CASE \/ LockGranted \/ UnlockDone
             \/ \E ok, lost \in SUBSET RegionsOf(op.keys) : LockRefused(ok, lost)
    BY <2>1, LockingClean, ReleaseClean
  <2>2. CASE \E regions \in SUBSET RegionsOf(Keys) :
               UnlockFails(regions) \/ PrewriteFails(regions) \/ RollbackFails(regions)
    BY <2>2, LockingClean, ReleaseClean
  <2>3. CASE PrewriteDone \/ FlushAwaited \/ PrimaryCommitted \/ PrimaryFails
    BY <2>3, LockingClean, FlushAwaitedClean, CommittingClean
  <2>4. CASE RollbackPipelined \/ RollbackDone
    BY <2>4, RollbackPipelinedClean, RollbackDoneClean
  <2> QED
    BY <1>3, <2>1, <2>2, <2>3, <2>4 DEF Answers
<1>4. CASE SecondariesCommitted \/ SecondariesFail \/ HeartbeatStops \/ HeartbeatFails
  BY <1>4, CommittingClean, OtherClean
<1>5. CASE Flushing \/ Resolving
  BY <1>5, FlushStagesClean, FlushRegionClean, ResolveClean DEF Flushing, FlushTask, Resolving
<1>6. CASE Others
  BY <1>6, OtherClean, ResolverClean, LateFlushClean DEF Others
<1> QED
  BY <1>1, <1>2, <1>3, <1>4, <1>5, <1>6 DEF Next

(* What the invariant says of a rollback() that returned Ok. *)
LEMMA CleanInvSays == CleanInv => RollbackCleans
<1> SUFFICES ASSUME CleanInv, status = "Rolledback", resolving.state \in {"none", "done"},
                    ~pipe.abandoned, NEW k \in CommitKeys(buf)
             PROVE  lock[k].type = "none" \/ (pessimistic /\ lock[k].type = "write")
  BY DEF RollbackCleans
<1>1. k \in Keys
  BY CommitKeysAre
<1>2. CASE kind # "pipelined"
  BY <1>2 DEF CleanInv, ReleasedInv, HasLock
<1>3. CASE kind = "pipelined" /\ pipe.start = NoKey
  BY <1>1, <1>3 DEF CleanInv, SpanInv, InSpan, HasLock
<1>4. CASE kind = "pipelined" /\ pipe.start # NoKey
  BY <1>1, <1>4 DEF CleanInv, ResolvedInv, HasLock
<1> QED
  BY <1>2, <1>3, <1>4

(* The invariant holds throughout. *)
LEMMA CleanInvariance == Spec => []CleanInv
<1>1. Init => IInv /\ CommitInv /\ CleanInv
  BY Initially, CommitInitially, CleanInitially
<1>2. IInv /\ CommitInv /\ CleanInv /\ [Next]_vars => (IInv /\ CommitInv /\ CleanInv)'
  BY Inductive, CommitInductive, CleanInductive
<1> QED
  BY <1>1, <1>2, PTL DEF Spec

(* Once rollback() has returned Ok and its resolve task is done, no key that *)
(* the transaction would have committed is locked by it, unless the task     *)
(* failed, requests of an abandoned flush were under way, or the key of a    *)
(* pessimistic transaction was prewritten by a failed commit().              *)
THEOREM RollbackLeavesNoLocks == Spec => []RollbackCleans
<1>1. CleanInv => RollbackCleans
  BY CleanInvSays
<1> QED
  BY <1>1, CleanInvariance, PTL
=============================================================================
