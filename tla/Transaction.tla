---------------------------- MODULE Transaction ----------------------------
(***************************************************************************)
(* The Transaction object (transaction/transaction.rs) of an optimistic,   *)
(* pessimistic or pipelined transaction: reads and writes through its      *)
(* buffer, pessimistic locking, the heartbeat task, commit(), rollback()   *)
(* and drop.  Every call borrows the object, so one runs at a time; the    *)
(* background tasks and the other clients run beside it.                   *)
(***************************************************************************)
EXTENDS Pipelined

CONSTANTS Scenarios,    \* [kind, snap, todos, reads, calls, mishaps]
          ScanLimits    \* the limits scans are checked with

VARIABLES
  kind,        \* TransactionOptions: optimistic, pessimistic or pipelined
  status,      \* TransactionStatus; "Panicked" when commit() hit its assertion
  buf,         \* the buffer
  op,          \* the call in progress and what it awaits
  hb,          \* the heartbeat task: its state and the key it keeps alive
  secondaries, \* keys the task commit_secondary has to commit
  scenario,
  calls,       \* bound: calls the user may still make
  mine,        \* the value the user wrote last to each key
  surrendered, \* keys the transaction held when a failed lock request released them
  strays       \* the primaries named by locks that a failed lock request left behind

txnVars == <<kind, status, buf, op, hb, secondaries, calls, mine, surrendered,
             strays>>
vars == <<storeVars, pipeVars, txnVars, scenario>>

Unwritten == -1
Whats  == {"lock", "put", "insert", "delete"}
Writes == [what : Whats, value : Found]
Idle   == [name |-> "idle", todo |-> <<>>, keys |-> {}, first |-> NoKey]

(* A call names the keys it writes or locks (todo), in an order of which     *)
(* only the first matters.                                                   *)
IsTodo(todo) ==
  /\ DOMAIN todo \subseteq Keys /\ DOMAIN todo # {} /\ IsFiniteSet(DOMAIN todo)
  /\ \A k \in DOMAIN todo :
       todo[k] \in Writes /\ (todo[k].what \in {"put", "insert"} <=> todo[k].value # Absent)

ASSUME TransactionAssumption ==
  /\ Unwritten \notin Values
  /\ MinFlushKeys \in Nat \ {0} /\ ScanLimits \subseteq Nat
  /\ \A s \in Scenarios :
       /\ s.kind \in {"optimistic", "pessimistic", "pipelined"}
       /\ s.snap \in [Keys -> Found]
       /\ \A todo \in s.todos : IsTodo(todo)
       /\ s.calls \in Nat /\ s.mishaps \in Nat

pessimistic == kind = "pessimistic"
Held(b)     == MutatedKeys(b)

Init ==
  /\ scenario \in Scenarios
  /\ kind = scenario.kind /\ snap = scenario.snap
  /\ calls = scenario.calls /\ mishaps = scenario.mishaps
  /\ lock = [k \in Keys |-> NoLock] /\ record = [k \in Keys |-> NoRecord] /\ newer = {}
  /\ PipeInit
  /\ status = "Active" /\ buf = NewBuffer /\ op = Idle
  /\ hb = [state |-> "off", key |-> NoKey] /\ secondaries = {}
  /\ mine = [k \in Keys |-> Unwritten] /\ surrendered = {} /\ strays = {}

(* A call begins; get, put and the like only while the status allows them.   *)
Call == op = Idle /\ calls > 0 /\ calls' = calls - 1
Operation == Call /\ status = "Active"
----------------------------------------------------------------------------
(* Reads.  They go to TiKV for what the buffer does not know.                *)

Reads == UNCHANGED <<storeVars, pipeVars, kind, status, op, hb, secondaries, scenario, mine,
                     surrendered, strays>>

GetKey(k) ==
  /\ Operation /\ "get" \in scenario.reads
  /\ buf' = IF Determined(buf.entries[k]) THEN buf ELSE UpdateCache(buf, k, snap[k])
  /\ Reads

BatchGet(ks) ==
  /\ Operation /\ "batch_get" \in scenario.reads
  /\ buf' = AfterBatchGet(buf, ks, snap)
  /\ Reads

Scan(range, limit, reverse) ==
  /\ Operation /\ "scan" \in scenario.reads
  /\ buf' = AfterScan(buf, ScanKeys(buf, range, Fetched(buf, range, limit, reverse, snap)), snap)
  /\ Reads
----------------------------------------------------------------------------
(* Writes.                                                                   *)

(* One key of a call: a pessimistic transaction has locked it first.         *)
AfterWrite(b, k, w, locked) ==
  LET c == IF locked \/ w.what = "lock" THEN Lock(b, k) ELSE b
  IN CASE w.what = "put"    -> Put(c, k, w.value)
       [] w.what = "insert" -> Insert(c, k, w.value)
       [] w.what = "delete" -> Delete(c, k, locked)
       [] OTHER -> c

(* All keys of a call: they differ, so each finds its own entry.             *)
AfterWrites(b, todo, first, locked) ==
  LET one(k) == AfterWrite(b, k, todo[k], locked)
  IN [primary  |-> PrimaryKeyOr(b, first).primary,
      entries  |-> [k \in Keys |-> IF k \in DOMAIN todo THEN one(k).entries[k] ELSE b.entries[k]],
      presumed |-> b.presumed,
      prewriteOnly |-> {k \in Keys : IF k \in DOMAIN todo THEN k \in one(k).prewriteOnly
                                                          ELSE k \in b.prewriteOnly}]

Wrote(todo) ==
  mine' = [k \in Keys |-> IF k \in DOMAIN todo /\ todo[k].what # "lock" THEN todo[k].value
                          ELSE mine[k]]

(* insert() fails when the buffer knows a value of the key.                  *)
MayInsert(todo) ==
  \A k \in DOMAIN todo :
    todo[k].what = "insert" => ~(Determined(buf.entries[k]) /\ buf.entries[k].value # Absent)

(* put, insert, delete, batch_mutate and lock_keys without locking.          *)
Write(todo, first) ==
  /\ Operation /\ ~pessimistic
  /\ MayInsert(todo) /\ first \in DOMAIN todo
  /\ buf' = AfterWrites(buf, todo, first, FALSE)
  /\ pipe' = IF kind = "pipelined"
             THEN MaybeFlush(RecordMutations(pipe, buf', DOMAIN todo), buf') ELSE pipe
  /\ Wrote(todo)
  /\ UNCHANGED <<storeVars, late, resolving, kind, status, op, hb, secondaries, scenario,
                 surrendered, strays>>

(* update_key_flags with SetPresumeKeyNotExists: in every status.            *)
Presume(k) ==
  /\ Call /\ status # "Dropped" /\ "presume" \in scenario.reads /\ k \notin buf.presumed
  /\ buf' = PresumeNotExists(buf, k)
  /\ pipe' = IF kind = "pipelined" THEN RecordMutations(pipe, buf', {k}) ELSE pipe
  /\ UNCHANGED <<storeVars, late, resolving, kind, status, op, hb, secondaries, scenario, mine,
                 surrendered, strays>>
----------------------------------------------------------------------------
(* pessimistic_lock.  The primary of the request is the one of the buffer,   *)
(* or the first key, which the buffer takes only when all keys are locked.   *)

LockCall(todo, first) ==
  /\ Operation /\ pessimistic
  /\ MayInsert(todo) /\ first \in DOMAIN todo
  /\ op' = [name |-> "lock", todo |-> todo, keys |-> DOMAIN todo, first |-> first]
  /\ UNCHANGED <<storeVars, pipeVars, kind, status, buf, hb, secondaries, scenario, mine,
                 surrendered, strays>>

(* start_auto_heartbeat: at most one task, for the primary of that time.     *)
StartHeartbeat(primary) ==
  hb' = IF hb.state = "off" THEN [state |-> "on", key |-> primary] ELSE hb

MayLock(ks) ==
  \A k \in ks : /\ record[k] # RolledBack
                /\ op.todo[k].what = "insert" \/ k \in buf.presumed
                     => snap[k] = Absent \/ k \in newer

LockGranted ==
  /\ op.name = "lock" /\ MayLock(op.keys)
  /\ PessimisticLocks(op.keys, PrimaryKeyOr(buf, op.first).primary)
  /\ buf' = AfterWrites(buf, op.todo, op.first, TRUE)
  /\ StartHeartbeat(buf'.primary)
  /\ Wrote(op.todo)
  /\ op' = Idle
  /\ UNCHANGED <<snap, record, newer, mishaps, pipeVars, kind, status, secondaries, scenario,
                 calls, surrendered, strays>>

(* Locks of the request stay behind where nobody will release them.          *)
Strayed(left) ==
  strays' = IF left = {} THEN strays ELSE strays \cup {PrimaryKeyOr(buf, op.first).primary}

(* Mutant: the buffer holds the keys before the answers are known. *)
LockRefusedKept(ok, lost) ==
  LET keysOf(regions) == op.keys \cap KeysIn(regions)
  IN /\ op.name = "lock"
     /\ ok \cup lost \subseteq RegionsOf(op.keys) /\ ok # RegionsOf(op.keys)
     /\ MayLock(keysOf(ok \cup lost))
     /\ Mishap \/ (~MayLock(op.keys) /\ lost = {} /\ UNCHANGED mishaps)
     /\ PessimisticLocks(keysOf(ok \cup lost), PrimaryKeyOr(buf, op.first).primary)
     /\ op' = IF ok = {} THEN Idle ELSE [op EXCEPT !.name = "unlock", !.keys = keysOf(ok)]
     /\ buf' = AfterWrites(buf, op.todo, op.first, TRUE) /\ Wrote(op.todo) /\ Strayed(lost)
     /\ UNCHANGED <<snap, record, newer, pipeVars, kind, status, hb, secondaries, scenario, calls,
                    surrendered>>

(* Some regions lock their keys and say so (ok), some without an answer      *)
(* (lost), the others refuse.  The keys known to be locked are released.     *)
LockRefused(ok, lost) ==
  LET keysOf(regions) == op.keys \cap KeysIn(regions)
  IN /\ op.name = "lock"
     /\ ok \cup lost \subseteq RegionsOf(op.keys) /\ ok # RegionsOf(op.keys)
     /\ MayLock(keysOf(ok \cup lost))
     /\ Mishap \/ (~MayLock(op.keys) /\ lost = {} /\ UNCHANGED mishaps)
     /\ PessimisticLocks(keysOf(ok \cup lost), PrimaryKeyOr(buf, op.first).primary)
     /\ op' = IF ok = {} THEN Idle ELSE [op EXCEPT !.name = "unlock", !.keys = keysOf(ok)]
     /\ Strayed(lost)
     /\ UNCHANGED <<snap, record, newer, pipeVars, kind, status, buf, hb, secondaries, scenario,
                    calls, mine, surrendered>>

(* pessimistic_lock_rollback: a key that an earlier call locked is released  *)
(* with the others.                                                          *)
UnlockDone ==
  /\ op.name = "unlock"
  /\ PessimisticRollback(op.keys)
  /\ buf' = Unlock(buf, op.keys)
  /\ surrendered' = surrendered \cup (op.keys \cap Held(buf))
  /\ op' = Idle
  /\ UNCHANGED <<snap, record, newer, mishaps, pipeVars, kind, status, hb, secondaries, scenario,
                 calls, mine, strays>>

UnlockFails(regions) ==
  LET done == op.keys \cap KeysIn(regions)
  IN /\ op.name = "unlock" /\ regions \subseteq RegionsOf(op.keys)
     /\ Mishap
     /\ PessimisticRollback(done)
     /\ surrendered' = surrendered \cup (done \cap Held(buf))
     /\ Strayed(op.keys \ done)
     /\ op' = Idle
     /\ UNCHANGED <<snap, record, newer, pipeVars, kind, status, buf, hb, secondaries, scenario,
                    calls, mine>>
----------------------------------------------------------------------------
(* commit().  Latches, lost answers of the two phases and async commit are   *)
(* the matter of modules Latches and Committer.                              *)

Await(name, primary) == op' = [Idle EXCEPT !.name = name, !.first = primary]

CommitCall ==
  /\ Call /\ status \in {"Active", "StartedCommit"}
  /\ IF MutatedKeys(buf) = {}
     THEN /\ status' = IF buf.primary = NoKey THEN "StartedCommit" ELSE "Panicked"
          /\ UNCHANGED <<op, hb>>
     ELSE /\ status' = "StartedCommit"
          /\ Await(IF kind = "pipelined" THEN "flush" ELSE "prewrite", CommitPrimary(buf))
          /\ IF kind = "pipelined" \/ CommitKeys(buf) = {} THEN UNCHANGED hb
             ELSE StartHeartbeat(CommitPrimary(buf))
  /\ UNCHANGED <<storeVars, pipeVars, kind, buf, secondaries, scenario, mine, surrendered,
                 strays>>

Calling == UNCHANGED <<kind, buf, hb, scenario, calls, mine, surrendered, strays>>

PrewriteDone ==
  LET ks == MutatedKeys(buf)
  IN /\ op.name = "prewrite" /\ MayWrite(Mutations(buf), ks, pessimistic)
     /\ WriteLocks(Mutations(buf), ks, op.first, 0)
     /\ IF CommitKeys(buf) = {} THEN op' = Idle /\ status' = "Committed"
        ELSE op' = [op EXCEPT !.name = "primary"] /\ UNCHANGED status
     /\ UNCHANGED <<snap, record, newer, mishaps, pipeVars, secondaries>> /\ Calling

(* Some regions have prewritten their keys.                                  *)
PrewriteFails(regions) ==
  LET ks == MutatedKeys(buf) \cap KeysIn(regions)
  IN /\ op.name = "prewrite" /\ regions \subseteq RegionsOf(MutatedKeys(buf))
     /\ MayWrite(Mutations(buf), ks, pessimistic)
     /\ Mishap \/ (~MayWrite(Mutations(buf), MutatedKeys(buf), pessimistic) /\ UNCHANGED mishaps)
     /\ WriteLocks(Mutations(buf), ks, op.first, 0)
     /\ op' = Idle
     /\ UNCHANGED <<snap, record, newer, pipeVars, status, secondaries>> /\ Calling

(* Mutant: what was written during the last flush is not flushed. *)
FlushAwaitedOnce ==
  /\ op.name = "flush" /\ pipe.flushing.stage \in {"none", "done", "failed"}
  /\ pipe' = [pipe EXCEPT !.flushing = NoFlush]
  /\ op' = IF pipe.flushing.stage = "failed" THEN Idle ELSE [op EXCEPT !.name = "primary"]
  /\ UNCHANGED <<storeVars, late, resolving, status, secondaries>> /\ Calling

(* flush_all: awaits the flush that runs, then flushes what is left.  A      *)
(* failed flush ends commit() with its error; its mutations are gone.        *)
FlushAwaited ==
  LET rest == [pipe EXCEPT !.flushing = NoFlush]
      more == pipe.mutable # {}
  IN /\ op.name = "flush" /\ pipe.flushing.stage \in {"none", "done", "failed"}
     /\ IF pipe.flushing.stage = "failed"
        THEN pipe' = rest /\ op' = Idle /\ UNCHANGED status
        ELSE /\ pipe' = IF more THEN StartFlush(rest, buf, op.first) ELSE rest
             /\ IF more THEN UNCHANGED <<op, status>>
                ELSE IF CommitKeys(buf) = {} THEN op' = Idle /\ status' = "Committed"
                ELSE op' = [op EXCEPT !.name = "primary"] /\ UNCHANGED status
     /\ UNCHANGED <<storeVars, late, resolving, secondaries>> /\ Calling

(* The primary is committed; a task commits the secondaries or resolves the  *)
(* flushed range.                                                            *)
PrimaryCommitted ==
  /\ op.name = "primary"
  /\ lock[op.first].type = "write" \/ Committed(op.first)
  /\ Commit({op.first})
  /\ IF kind = "pipelined" THEN SpawnResolve(TRUE) /\ UNCHANGED secondaries
     ELSE secondaries' = CommitKeys(buf) \ {op.first} /\ UNCHANGED resolving
  /\ op' = Idle /\ status' = "Committed"
  /\ UNCHANGED <<snap, newer, mishaps, pipe, late>> /\ Calling

(* The request fails; that of a pipelined transaction may be executed.       *)
PrimaryFails ==
  /\ op.name = "primary"
  /\ \/ Mishap /\ UNCHANGED <<lock, record>>
     \/ Mishap /\ kind = "pipelined" /\ lock[op.first].type = "write" /\ Commit({op.first})
     \/ /\ lock[op.first].type # "write" /\ ~Committed(op.first)
        /\ UNCHANGED <<mishaps, lock, record>>
  /\ op' = Idle
  /\ UNCHANGED <<snap, newer, pipeVars, status, secondaries>> /\ Calling

SecondariesCommitted ==
  /\ secondaries # {}
  /\ Commit(secondaries) /\ secondaries' = {}
  /\ UNCHANGED <<snap, newer, mishaps, pipeVars, status, op>> /\ Calling

SecondariesFail ==
  /\ secondaries # {} /\ Mishap
  /\ secondaries' = {}
  /\ UNCHANGED <<snap, lock, record, newer, pipeVars, status, op>> /\ Calling
----------------------------------------------------------------------------
(* rollback().                                                               *)

RollbackCall ==
  /\ Call /\ status \in {"Active", "StartedCommit", "StartedRollback"}
  /\ IF kind = "pipelined" THEN Cancel /\ Await("cancelled", NoKey) /\ status' = "StartedRollback"
     ELSE /\ UNCHANGED <<pipe, late>>
          /\ IF CommitKeys(buf) = {} THEN status' = "Rolledback" /\ UNCHANGED op
             ELSE status' = "StartedRollback" /\ Await("rollback", NoKey)
  /\ UNCHANGED <<storeVars, resolving, kind, buf, hb, secondaries, scenario, mine, surrendered,
                 strays>>

(* rollback_pipelined: the error of a failed flush is ignored.               *)
RollbackPipelined ==
  /\ op.name = "cancelled" /\ pipe.flushing.stage \in {"none", "done", "failed"}
  /\ pipe' = [pipe EXCEPT !.flushing = NoFlush]
  /\ SpawnResolve(FALSE)
  /\ op' = Idle /\ status' = "Rolledback"
  /\ UNCHANGED <<storeVars, late, secondaries>> /\ Calling

(* PessimisticRollback or BatchRollback of the keys.                         *)
ReleaseKeys(ks) == IF pessimistic THEN PessimisticRollback(ks) /\ UNCHANGED record ELSE Rollback(ks)

RollbackDone ==
  /\ op.name = "rollback"
  /\ ReleaseKeys(CommitKeys(buf))
  /\ op' = Idle /\ status' = "Rolledback"
  /\ UNCHANGED <<snap, newer, mishaps, pipeVars, secondaries>> /\ Calling

RollbackFails(regions) ==
  /\ op.name = "rollback" /\ regions \subseteq RegionsOf(CommitKeys(buf))
  /\ Mishap
  /\ ReleaseKeys(CommitKeys(buf) \cap KeysIn(regions))
  /\ op' = Idle
  /\ UNCHANGED <<snap, newer, pipeVars, status, secondaries>> /\ Calling

(* Drop.  A flush task goes on without the object.                           *)
DropTxn ==
  /\ op = Idle /\ status \notin {"Dropped", "Panicked"}
  /\ status' = "Dropped"
  /\ UNCHANGED <<storeVars, pipeVars, op, secondaries>> /\ Calling
----------------------------------------------------------------------------
(* The heartbeat task: its next beat finds the transaction ended or TiKV     *)
(* without the lock, or fails.  It is never started again.                   *)

HeartbeatEnds == hb' = [hb EXCEPT !.state = "ended"]
             /\ UNCHANGED <<snap, lock, record, newer, pipeVars, kind, status, buf, op, secondaries,
                            scenario, calls, mine, surrendered, strays>>

(* Mutant: only a transaction that ended is noticed, not a dropped one. *)
HeartbeatStopsIfEnded ==
  /\ hb.state = "on"
  /\ status \in {"Rolledback", "Committed"} \/ lock[hb.key].type = "none"
  /\ UNCHANGED mishaps /\ HeartbeatEnds

HeartbeatStops ==
  /\ hb.state = "on"
  /\ status \in {"Rolledback", "Committed", "Dropped"} \/ lock[hb.key].type = "none"
  /\ UNCHANGED mishaps /\ HeartbeatEnds

HeartbeatFails == hb.state = "on" /\ Mishap /\ HeartbeatEnds

Alive == IF hb.state = "on" THEN hb.key ELSE NoKey
----------------------------------------------------------------------------
Ranges == {{k \in Keys : a <= k /\ k <= b} : a, b \in Keys} \ {{}}

UserCalls ==
  \/ \E k \in Keys : GetKey(k) \/ Presume(k)
  \/ \E ks \in SUBSET Keys : BatchGet(ks)
  \/ \E range \in Ranges, limit \in ScanLimits, reverse \in BOOLEAN : Scan(range, limit, reverse)
  \/ \E todo \in scenario.todos, k \in Keys : Write(todo, k) \/ LockCall(todo, k)
  \/ CommitCall
  \/ RollbackCall
  \/ DropTxn

Answers ==
  \/ LockGranted
  \/ \E ok, lost \in SUBSET RegionsOf(op.keys) : LockRefused(ok, lost)
  \/ UnlockDone
  \/ \E regions \in SUBSET RegionsOf(Keys) :
       UnlockFails(regions) \/ PrewriteFails(regions) \/ RollbackFails(regions)
  \/ PrewriteDone
  \/ FlushAwaited
  \/ PrimaryCommitted
  \/ PrimaryFails
  \/ RollbackPipelined
  \/ RollbackDone

Flushing  == FlushTask /\ UNCHANGED <<txnVars, scenario>>
Resolving == ResolveTask /\ UNCHANGED <<txnVars, scenario>>

Others ==
  /\ \/ (\E k \in Keys : RivalWrites(k) \/ ResolverMeets(k, Alive)) /\ UNCHANGED pipeVars
     \/ \E f \in late, r \in RegionsOf(Keys) : LateFlush(f, r)
  /\ UNCHANGED <<txnVars, scenario>>

Next ==
  \/ UserCalls
  \/ Answers
  \/ SecondariesCommitted
  \/ SecondariesFail
  \/ Flushing
  \/ Resolving
  \/ HeartbeatStops
  \/ HeartbeatFails
  \/ Others

Spec == Init /\ [][Next]_vars

(* Spawned tasks are polled by the runtime until they end.                   *)
FairSpec == Spec /\ WF_vars(Flushing) /\ WF_vars(Resolving) /\ WF_vars(HeartbeatStops)
----------------------------------------------------------------------------
(* What the user expects to read: their last write, or the snapshot.         *)
Expected(k) == IF mine[k] = Unwritten THEN snap[k] ELSE mine[k]

(* Read your writes: whatever was read, locked, inserted, deleted and        *)
(* released before, get() (buffer.rs get_or_else) returns the last value     *)
(* this transaction wrote or else the value of its snapshot.                 *)
GetsAgree == \A k \in Keys : Get(buf, k, snap) = Expected(k)

(* scan() and scan_reverse() (buffer.rs scan_and_fetch) return the first     *)
(* keys of the snapshot overlaid with the transaction's own writes, and the  *)
(* cached values never contradict them, in ranges that hold no key inserted  *)
(* by the transaction: those are left out of scans.                          *)
ScansAgree ==
  \A range \in Ranges, limit \in ScanLimits, reverse \in BOOLEAN :
    (\A k \in range : buf.entries[k].kind \notin {"insert", "check"}) =>
      LET ks == ScanKeys(buf, range, Fetched(buf, range, limit, reverse, snap))
          found == FirstOf(ks, limit, reverse)
      IN /\ found = FirstOf({k \in range : Expected(k) # Absent}, limit, reverse)
         /\ \A k \in found : ScanValue(buf, k, snap) = Expected(k)
         /\ ScanMismatches(buf, ks, snap) = {}

(* While a pessimistic transaction is active every key that its buffer holds *)
(* as locked or written is locked in TiKV, whatever requests failed half way *)
(* (pessimistic_lock), unless the lock expired and was rolled back or the    *)
(* key went down with a later lock request that failed; and the primary that *)
(* its locks name is such a key.                                             *)
LocksHeld ==
  pessimistic /\ status = "Active" =>
    /\ \A k \in Held(buf) :
         lock[k].type # "none" \/ record[k] = RolledBack \/ k \in surrendered
    /\ buf.primary # NoKey => buf.primary \in Held(buf) \cup surrendered

(* What others will read once all locks are settled.                         *)
Visible(op_, value, k) == IF op_ = "Lock" THEN snap[k] ELSE value
Effective(k) ==
  IF Committed(k) THEN Visible(record[k].op, record[k].value, k)
  ELSE IF lock[k].type = "write" /\ Committed(lock[k].primary)
       THEN Visible(lock[k].op, lock[k].value, k) ELSE snap[k]

CommittedAll ==
  status = "Committed" => \A k \in Keys : mine[k] # Unwritten => Effective(k) = mine[k]

(* A commit() that returns Ok has committed the last write of every key,     *)
(* however the writes were spread over background flushes and whoever        *)
(* resolved the locks meanwhile, provided that no flush failed before, that  *)
(* no key is marked as prewrite-only that is still to be written (buffer.rs  *)
(* put) or whose mark changed the primary (commit), and that no failed lock  *)
(* request (pessimistic_lock) left a lock that names a key to be committed   *)
(* other than the primary: whoever resolves that lock rolls the key back.    *)
NothingLost ==
  \/ \E k \in buf.prewriteOnly : kind = "pipelined" \/ buf.entries[k].kind = "insert"
  \/ pipe.failed
  \/ \E p \in strays \cap CommitKeys(buf) : p # CommitPrimary(buf)
  \/ CommittedAll

(* "Commits the actions of the transaction" (commit): on success every key   *)
(* has the value written last.                                               *)
CommitIsComplete == CommittedAll

(* Once rollback() has returned Ok and its resolve task is done, none of the *)
(* keys it would have committed is locked by the transaction, unless the     *)
(* task failed, requests of an abandoned flush were still under way, or the  *)
(* key of a pessimistic transaction was prewritten by a failed commit().     *)
RollbackCleans ==
  /\ status = "Rolledback" /\ resolving.state \in {"none", "done"}
  /\ ~pipe.abandoned
  => \A k \in CommitKeys(buf) : lock[k].type = "none" \/ (pessimistic /\ lock[k].type = "write")

(* When the transaction was committed, rolled back or dropped, its           *)
(* heartbeat, flush and resolve tasks come to an end.                        *)
TasksEnded ==
  /\ hb.state # "on"
  /\ pipe.flushing.stage \in {"none", "done", "failed"}
  /\ resolving.state # "running"
TasksEnd == status \in {"Committed", "Rolledback", "Dropped"} ~> TasksEnded
============================================================================
