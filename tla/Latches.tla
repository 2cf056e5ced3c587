------------------------------ MODULE Latches ------------------------------
(***************************************************************************)
(* The local transaction latches (transaction/latch.rs): client-side       *)
(* locks that serialise the commits of optimistic transactions of one      *)
(* process whose keys overlap.                                             *)
(*                                                                         *)
(* A request t \in Txns is one call of LatchesScheduler::lock.  Every      *)
(* step of a request or of the scheduler task takes one slot mutex, so a   *)
(* step is one acquire_slot or one release_slot.  Timestamps are PD        *)
(* timestamps at the granularity of their physical part.                   *)
(***************************************************************************)
EXTENDS Integers, Sequences, FiniteSets

CONSTANTS Txns,            \* the calls of lock()
          NoTxn,           \* "no owner"
          Keys,            \* a finite set of integers: keys in byte order
          NumSlots,        \* number of hash slots, a power of two
          SlotOf,          \* slot_id: the hash of a key
          WriteKeys,       \* the keys each request passes, in any order
          LatchListCount,  \* LATCH_LIST_COUNT
          ExpireDuration,  \* EXPIRE_DURATION
          CheckInterval,   \* CHECK_INTERVAL
          CheckCounter,    \* CHECK_COUNTER
          MaxTs,           \* bound: the largest timestamp PD hands out
          MaxCancels       \* bound: how many commit() futures are dropped

Slots == 0 .. NumSlots - 1

IsSortedEnum(q, S) ==
  /\ \A i \in DOMAIN q : \A j \in DOMAIN q : i < j => q[i] < q[j]
  /\ \A k \in S : \E i \in DOMAIN q : q[i] = k

KeysOf(t) == {WriteKeys[t][i] : i \in DOMAIN WriteKeys[t]}

ASSUME ConstantAssumption ==
  /\ NoTxn \notin Txns
  /\ Keys \subseteq Int
  /\ NumSlots \in Nat \ {0}
  /\ SlotOf \in [Keys -> Slots]
  /\ WriteKeys \in [Txns -> Seq(Keys)]
  /\ \A t \in Txns : WriteKeys[t] # <<>>
  /\ {LatchListCount, ExpireDuration, CheckInterval, CheckCounter,
      MaxTs, MaxCancels} \subseteq Nat

\* The lists over S that are no longer than n.
ListsUpTo(n, S) == UNION {[1 .. m -> S] : m \in 0 .. n}

\* The keys of a request can be listed in increasing order.
ASSUME SortAssumption ==
  \A t \in Txns :
    \E q \in ListsUpTo(Len(WriteKeys[t]), KeysOf(t)) : IsSortedEnum(q, KeysOf(t))

VARIABLES
  pc,           \* where each request is
  startTs,      \* LatchLock.start_ts
  keys,         \* LatchLock.keys
  acquired,     \* LatchLock.acquired_count
  commitTs,     \* LatchLock.commit_ts
  stale,        \* LatchLock.stale
  permit,       \* the permit of LatchLock.notify
  present,      \* the keys that have a Node
  maxCommitTs,  \* Node.max_commit_ts, 0 where there is no node
  value,        \* Node.value
  waiting,      \* SlotInner.waiting of each slot
  unlockRx,     \* the unlock channel
  schedPc,      \* where the scheduler task is
  schedLock,    \* the lock it is releasing
  wakeups,      \* the waiters it still has to retry
  counter,      \* its counter
  lastRecycle,  \* last_recycle_ts
  recyclers,    \* spawned recycle tasks: <<current_ts, next slot>>
  clock,        \* the last timestamp PD handed out
  cancels       \* number of dropped commit() futures

lockVars  == <<startTs, keys, commitTs>>
slotVars  == <<present, maxCommitTs, value, waiting>>
schedVars == <<schedPc, schedLock, wakeups, counter, lastRecycle>>
vars == <<pc, lockVars, acquired, stale, permit, slotVars, unlockRx, schedVars,
          recyclers, clock, cancels>>

Ts == 0 .. MaxTs

Init ==
  /\ pc = [t \in Txns |-> "idle"]
  /\ startTs = [t \in Txns |-> 0]
  /\ keys = [t \in Txns |-> <<>>]
  /\ acquired = [t \in Txns |-> 0]
  /\ commitTs = [t \in Txns |-> 0]
  /\ stale = [t \in Txns |-> FALSE]
  /\ permit = [t \in Txns |-> FALSE]
  /\ present = {}
  /\ maxCommitTs = [k \in Keys |-> 0]
  /\ value = [k \in Keys |-> NoTxn]
  /\ waiting = [s \in Slots |-> <<>>]
  /\ unlockRx = <<>>
  /\ schedPc = "recv" /\ schedLock = NoTxn /\ wakeups = <<>>
  /\ counter = 0 /\ lastRecycle = 0
  /\ recyclers = {}
  /\ clock = 0
  /\ cancels = 0
----------------------------------------------------------------------------
\* tso_sub: the subtraction saturates at zero.
TsoSub(a, b) == IF a > b THEN a - b ELSE 0

MaxOf(a, b) == IF a > b THEN a ELSE b

\* SlotInner::recycle drops the free nodes of slot s that are old at ts.
Expired(s, ts) ==
  {k \in present : /\ SlotOf[k] = s
                   /\ value[k] = NoTxn
                   /\ TsoSub(ts, maxCommitTs[k]) >= ExpireDuration}

\* The node map of a slot after the nodes in gone are dropped.
Forget(gone) == [k \in Keys |-> IF k \in gone THEN 0 ELSE maxCommitTs[k]]

\* Mutant: the keys are locked in the order the caller passed them.
GenLockKeysUnsorted(t) == WriteKeys[t]

\* gen_lock sorts the keys and removes duplicates.
GenLockKeys(t) ==
  CHOOSE q \in ListsUpTo(Len(WriteKeys[t]), KeysOf(t)) : IsSortedEnum(q, KeysOf(t))

\* The key the request is about to acquire.
NextKey(t) == keys[t][acquired[t] + 1]

Complete(t) == acquired[t] = Len(keys[t])
----------------------------------------------------------------------------
(* acquire_slot: recycle a full slot, find or create the node, then one of *)
(* the three outcomes.                                                     *)

\* The nodes that acquire_slot recycles before it looks at the key.
RecycledBy(t) ==
  LET s == SlotOf[NextKey(t)]
  IN IF Cardinality({k \in present : SlotOf[k] = s}) >= LatchListCount
     THEN Expired(s, startTs[t]) ELSE {}

TouchNode(t) ==
  /\ present' = (present \ RecycledBy(t)) \cup {NextKey(t)}
  /\ maxCommitTs' = Forget(RecycledBy(t))

\* Mutants: off by one on either side of start_ts.
NewerCommitEq(t) == Forget(RecycledBy(t))[NextKey(t)] >= startTs[t]
NewerCommitLate(t) == Forget(RecycledBy(t))[NextKey(t)] > startTs[t] + 1

NewerCommit(t) == Forget(RecycledBy(t))[NextKey(t)] > startTs[t]

AcquireStale(t) ==
  /\ NewerCommit(t)
  /\ TouchNode(t)
  /\ stale' = [stale EXCEPT ![t] = TRUE]
  /\ UNCHANGED <<acquired, value, waiting>>

\* Mutant: the owner of the node is not looked at.
AcquireSuccessSteal(t) ==
  /\ ~NewerCommit(t)
  /\ TouchNode(t)
  /\ value' = [value EXCEPT ![NextKey(t)] = t]
  /\ acquired' = [acquired EXCEPT ![t] = @ + 1]
  /\ UNCHANGED <<stale, waiting>>

AcquireSuccess(t) ==
  /\ ~NewerCommit(t) /\ value[NextKey(t)] = NoTxn
  /\ TouchNode(t)
  /\ value' = [value EXCEPT ![NextKey(t)] = t]
  /\ acquired' = [acquired EXCEPT ![t] = @ + 1]
  /\ UNCHANGED <<stale, waiting>>

AcquireLocked(t) ==
  /\ ~NewerCommit(t) /\ value[NextKey(t)] # NoTxn
  /\ TouchNode(t)
  /\ waiting' = [waiting EXCEPT ![SlotOf[NextKey(t)]] = Append(@, t)]
  /\ UNCHANGED <<acquired, stale, value>>
----------------------------------------------------------------------------
(* The committing transaction.                                             *)

\* A transaction begins.  A transaction whose commit() failed may call it
\* again: a new request with the same start_ts.
Begin(t) ==
  /\ pc[t] = "idle"
  /\ \/ /\ clock < MaxTs
        /\ clock' = clock + 1
        /\ startTs' = [startTs EXCEPT ![t] = clock + 1]
     \/ \E u \in Txns : /\ pc[u] = "done" /\ commitTs[u] = 0
                        /\ startTs' = [startTs EXCEPT ![t] = startTs[u]]
                        /\ UNCHANGED clock
  /\ pc' = [pc EXCEPT ![t] = "begun"]
  /\ UNCHANGED <<keys, acquired, commitTs, stale, permit, slotVars, unlockRx,
                 schedVars, recyclers, cancels>>

\* lock(): gen_lock, then the acquire loop starts.
GenLock(t) ==
  /\ pc[t] = "begun"
  /\ keys' = [keys EXCEPT ![t] = GenLockKeys(t)]
  /\ pc' = [pc EXCEPT ![t] = "acquire"]
  /\ UNCHANGED <<startTs, acquired, commitTs, stale, permit, slotVars, unlockRx,
                 schedVars, recyclers, clock, cancels>>

\* One iteration of the acquire loop run by the request itself.  Locked
\* makes it await its Notify, anything else that ends the loop gives a guard.
Acquire(t) ==
  /\ pc[t] = "acquire"
  /\ \/ /\ AcquireSuccess(t)
        /\ pc' = [pc EXCEPT ![t] = IF acquired[t] + 1 = Len(keys[t])
                                   THEN "guard" ELSE "acquire"]
     \/ AcquireStale(t) /\ pc' = [pc EXCEPT ![t] = "guard"]
     \/ AcquireLocked(t) /\ pc' = [pc EXCEPT ![t] = "wait"]
  /\ UNCHANGED <<lockVars, permit, unlockRx, schedVars, recyclers, clock, cancels>>

\* lock.wait() returns.
Woken(t) ==
  /\ pc[t] = "wait" /\ permit[t]
  /\ permit' = [permit EXCEPT ![t] = FALSE]
  /\ pc' = [pc EXCEPT ![t] = "guard"]
  /\ UNCHANGED <<lockVars, acquired, stale, slotVars, unlockRx, schedVars, recyclers,
                 clock, cancels>>

\* Dropping the guard sends the lock to the scheduler.
DropGuard(t) ==
  /\ unlockRx' = Append(unlockRx, t)
  /\ pc' = [pc EXCEPT ![t] = "done"]

\* commit() looks at is_stale: WriteConflictInLatch, or the commit proceeds.
CheckStale(t) ==
  /\ pc[t] = "guard"
  /\ \/ stale[t] /\ DropGuard(t)
     \/ ~stale[t] /\ pc' = [pc EXCEPT ![t] = "commit"] /\ UNCHANGED unlockRx
  /\ UNCHANGED <<lockVars, acquired, stale, permit, slotVars, schedVars, recyclers,
                 clock, cancels>>

\* The commit succeeds: set_commit_ts, then the guard is dropped.  The commit
\* timestamp is PD's next one or, with one-phase or async commit, one that
\* TiKV computed from start_ts + 1 upwards.
CommitOk(t) ==
  /\ pc[t] = "commit"
  /\ \E ts \in Ts : /\ startTs[t] < ts /\ ts <= clock + 1
                    /\ commitTs' = [commitTs EXCEPT ![t] = ts]
                    /\ clock' = MaxOf(clock, ts)
  /\ DropGuard(t)
  /\ UNCHANGED <<startTs, keys, acquired, stale, permit, slotVars, schedVars,
                 recyclers, cancels>>

\* The commit fails, or its future is dropped while it holds the guard.
CommitErr(t) ==
  /\ pc[t] = "commit"
  /\ DropGuard(t)
  /\ UNCHANGED <<lockVars, acquired, stale, permit, slotVars, schedVars, recyclers,
                 clock, cancels>>

\* The commit() future is dropped while lock() awaits: there is no guard yet,
\* and the LatchLock stays wherever it is.
CancelWait(t) ==
  /\ pc[t] = "wait" /\ cancels < MaxCancels
  /\ cancels' = cancels + 1
  /\ pc' = [pc EXCEPT ![t] = "cancelled"]
  /\ UNCHANGED <<lockVars, acquired, stale, permit, slotVars, unlockRx, schedVars,
                 recyclers, clock>>
----------------------------------------------------------------------------
(* The scheduler task.                                                     *)

Recv ==
  /\ schedPc = "recv" /\ unlockRx # <<>>
  /\ schedLock' = Head(unlockRx)
  /\ unlockRx' = Tail(unlockRx)
  /\ schedPc' = "release"
  /\ UNCHANGED <<pc, lockVars, acquired, stale, permit, slotVars, wakeups, counter,
                 lastRecycle, recyclers, clock, cancels>>

\* Mutant: any waiter of the slot is taken for a waiter of the key.
BlockedOnAny(s, k) == {i \in DOMAIN waiting[s] : ~Complete(waiting[s][i])}

\* The positions in slot s of the waiters blocked on key k.
BlockedOn(s, k) ==
  {i \in DOMAIN waiting[s] : LET w == waiting[s][i] IN ~Complete(w) /\ NextKey(w) = k}

IsFirst(i, I) == i \in I /\ \A j \in I : i <= j

Without(q, i) == [j \in 1 .. Len(q) - 1 |-> IF j < i THEN q[j] ELSE q[j + 1]]

\* release_slot gives up the key acquired last, and takes the first waiter
\* blocked on that key out of the slot.  A waiter that is stale by now gets the latch
\* so that it releases it promptly.  (The owner check in the code protects
\* against a node that another lock owns; the latch is then left alone.)
ReleaseSlot ==
  LET l   == schedLock
      k   == keys[l][acquired[l]]
      s   == SlotOf[k]
      max == MaxOf(maxCommitTs[k], commitTs[l])
  IN
  /\ schedPc = "release" /\ acquired[l] > 0
  /\ present' = present \cup {k}
  /\ maxCommitTs' = IF value[k] \in {l, NoTxn} THEN [maxCommitTs EXCEPT ![k] = max]
                    ELSE maxCommitTs
  /\ \/ /\ BlockedOn(s, k) = {} \/ value[k] \notin {l, NoTxn}
        /\ acquired' = [acquired EXCEPT ![l] = @ - 1]
        /\ value' = IF value[k] = l THEN [value EXCEPT ![k] = NoTxn] ELSE value
        /\ UNCHANGED <<waiting, wakeups, stale>>
     \/ /\ value[k] \in {l, NoTxn}
        /\ \E i \in DOMAIN waiting[s] :
             LET w   == waiting[s][i]
                 old == max > startTs[w]
             IN /\ IsFirst(i, BlockedOn(s, k))
                /\ waiting' = [waiting EXCEPT ![s] = Without(@, i)]
                /\ wakeups' = Append(wakeups, w)
                /\ value' = [value EXCEPT ![k] = IF old THEN w ELSE NoTxn]
                /\ stale' = [stale EXCEPT ![w] = @ \/ old]
                /\ acquired' = [t \in Txns |->
                                  acquired[t] - (IF t = l THEN 1 ELSE 0)
                                              + (IF t = w /\ old THEN 1 ELSE 0)]
  /\ UNCHANGED <<pc, lockVars, permit, unlockRx, schedPc, schedLock, counter,
                 lastRecycle, recyclers, clock, cancels>>

Released ==
  /\ schedPc = "release" /\ acquired[schedLock] = 0
  /\ schedPc' = "wakeup"
  /\ UNCHANGED <<pc, lockVars, acquired, stale, permit, slotVars, unlockRx, schedLock,
                 wakeups, counter, lastRecycle, recyclers, clock, cancels>>

\* wake(): notify_one stores a permit.
Wake(w) ==
  /\ permit' = [permit EXCEPT ![w] = TRUE]
  /\ wakeups' = Tail(wakeups)

\* Mutant: a waiter that is locked out again is woken as well.
WakeupAlways ==
  LET w == Head(wakeups) IN
  /\ schedPc = "wakeup" /\ wakeups # <<>>
  /\ \/ stale[w] /\ Wake(w) /\ UNCHANGED <<slotVars, acquired, stale>>
     \/ ~stale[w] /\ (AcquireStale(w) \/ AcquireSuccess(w) \/ AcquireLocked(w)) /\ Wake(w)
  /\ UNCHANGED <<pc, lockVars, unlockRx, schedPc, schedLock, counter, lastRecycle,
                 recyclers, clock, cancels>>

\* wakeup(): the scheduler runs the acquire loop of the next waiter, one
\* iteration per step, and wakes it unless it is locked out again.
Wakeup ==
  LET w == Head(wakeups) IN
  /\ schedPc = "wakeup" /\ wakeups # <<>>
  /\ \/ stale[w] /\ Wake(w) /\ UNCHANGED <<slotVars, acquired, stale>>
     \/ ~stale[w] /\ AcquireStale(w) /\ Wake(w)
     \/ /\ ~stale[w] /\ AcquireSuccess(w)
        /\ IF acquired[w] + 1 = Len(keys[w]) THEN Wake(w)
           ELSE UNCHANGED <<permit, wakeups>>
     \/ ~stale[w] /\ AcquireLocked(w) /\ wakeups' = Tail(wakeups) /\ UNCHANGED permit
  /\ UNCHANGED <<pc, lockVars, unlockRx, schedPc, schedLock, counter, lastRecycle,
                 recyclers, clock, cancels>>

\* After the wakeups the task may spawn a recycle of every slot.
SchedDone ==
  LET cts == commitTs[schedLock]
      due == /\ cts > startTs[schedLock]
             /\ TsoSub(cts, lastRecycle) > CheckInterval \/ counter > CheckCounter
  IN
  /\ schedPc = "wakeup" /\ wakeups = <<>>
  /\ schedPc' = "recv" /\ schedLock' = NoTxn
  /\ recyclers' = IF due THEN recyclers \cup {<<cts, 0>>} ELSE recyclers
  /\ lastRecycle' = IF due THEN cts ELSE lastRecycle
  /\ counter' = IF due THEN 1 ELSE counter + 1
  /\ UNCHANGED <<pc, lockVars, acquired, stale, permit, slotVars, unlockRx, wakeups,
                 clock, cancels>>

\* Mutant: one slot too many.
RecyclePastEnd(r) ==
  LET gone == Expired(r[2], r[1]) IN
  /\ present' = present \ gone
  /\ maxCommitTs' = Forget(gone)
  /\ recyclers' = (recyclers \ {r}) \cup
                  (IF r[2] \in Slots THEN {<<r[1], r[2] + 1>>} ELSE {})
  /\ UNCHANGED <<pc, lockVars, acquired, stale, permit, value, waiting, unlockRx,
                 schedVars, clock, cancels>>

\* Latches::recycle, one slot at a time.
Recycle(r) ==
  LET gone == Expired(r[2], r[1]) IN
  /\ present' = present \ gone
  /\ maxCommitTs' = Forget(gone)
  /\ recyclers' = (recyclers \ {r}) \cup
                  (IF r[2] + 1 \in Slots THEN {<<r[1], r[2] + 1>>} ELSE {})
  /\ UNCHANGED <<pc, lockVars, acquired, stale, permit, value, waiting, unlockRx,
                 schedVars, clock, cancels>>
----------------------------------------------------------------------------
TxnStep(t) ==
  \/ GenLock(t) \/ Acquire(t) \/ Woken(t) \/ CheckStale(t)
  \/ CommitOk(t) \/ CommitErr(t)

SchedStep == Recv \/ ReleaseSlot \/ Released \/ Wakeup \/ SchedDone

Next ==
  \/ \E t \in Txns : Begin(t) \/ TxnStep(t) \/ CancelWait(t)
  \/ SchedStep
  \/ \E r \in recyclers : Recycle(r)

Spec == Init /\ [][Next]_vars

\* A spawned task keeps running, and a commit ends, because every retry loop
\* it runs has a bounded backoff.  Nothing obliges a transaction to begin.
Fairness == (\A t \in Txns : WF_vars(TxnStep(t))) /\ WF_vars(SchedStep)

FairSpec == Spec /\ Fairness
----------------------------------------------------------------------------
(* Properties.                                                             *)

PcStates == {"idle", "begun", "acquire", "wait", "guard", "commit", "done", "cancelled"}

\* Every variable has its type, and no request counts more latches than it
\* has keys (LatchLock.acquired_count against required_len).
TypeOK ==
  /\ pc \in [Txns -> PcStates]
  /\ startTs \in [Txns -> Ts] /\ commitTs \in [Txns -> Ts]
  /\ keys \in [Txns -> Seq(Keys)]
  /\ acquired \in [Txns -> Nat] /\ \A t \in Txns : acquired[t] <= Len(keys[t])
  /\ stale \in [Txns -> BOOLEAN] /\ permit \in [Txns -> BOOLEAN]
  /\ present \subseteq Keys
  /\ maxCommitTs \in [Keys -> Ts]
  /\ value \in [Keys -> Txns \cup {NoTxn}]
  /\ waiting \in [Slots -> Seq(Txns)]
  /\ unlockRx \in Seq(Txns) /\ wakeups \in Seq(Txns)
  /\ schedPc \in {"recv", "release", "wakeup"}
  /\ schedLock \in Txns \cup {NoTxn}
  /\ (schedPc = "recv") = (schedLock = NoTxn)
  /\ counter \in Nat /\ lastRecycle \in Ts
  /\ recyclers \subseteq Ts \X Slots
  /\ clock \in Ts /\ cancels \in 0 .. MaxCancels

\* The debug_assert of lock(): a request that gets its guard has acquired
\* all its latches or has been marked stale.
GuardMeansAcquired ==
  \A t \in Txns : pc[t] \in {"guard", "commit"} => stale[t] \/ Complete(t)

\* Latches serialise commits: two transactions that run their commit at the
\* same time have no key in common.
CommitsDisjoint ==
  \A t, u \in Txns :
    t # u /\ pc[t] = "commit" /\ pc[u] = "commit" => KeysOf(t) \cap KeysOf(u) = {}

\* No false write conflict: a request is stale only if a transaction with a
\* common key committed through the latches after the request's start_ts.
StaleIsJustified ==
  \A t \in Txns : stale[t] =>
    \E u \in Txns : commitTs[u] > startTs[t] /\ KeysOf(t) \cap KeysOf(u) # {}

\* No missed write conflict: while a transaction commits, every newer commit
\* on one of its keys is old enough for its node to have been recycled.
NoMissedConflict ==
  \A t, u \in Txns :
    /\ pc[t] = "commit" /\ t # u /\ commitTs[u] > startTs[t]
    /\ KeysOf(t) \cap KeysOf(u) # {}
    => clock - commitTs[u] >= ExpireDuration

\* No lost wakeup: when the latch that a waiting request is blocked on is
\* free, the scheduler is about to retry a waiter of that very key.
NoLostWakeup ==
  \A s \in Slots : \A i \in DOMAIN waiting[s] :
    LET k == NextKey(waiting[s][i])
    IN value[k] # NoTxn \/ \E j \in DOMAIN wakeups : NextKey(wakeups[j]) = k

\* Every lock() that is called ends, in whatever order the keys are passed and
\* the latches are held: its request gets the guard and drops it.  Once a
\* commit() future has been dropped while it awaits, the latches it has acquired,
\* or is given later, have no owner to drop them, and nothing is promised.
RequestsServed ==
  \A t \in Txns : pc[t] = "acquire" ~> pc[t] \in {"done", "cancelled"} \/ cancels > 0
============================================================================
