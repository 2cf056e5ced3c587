--------------------------- MODULE LatchesProofs ---------------------------
(***************************************************************************)
(* For any requests, keys, slots and limits: the latches serialise commits *)
(* with common keys, stale marks are right, and no wakeup is lost.  The    *)
(* inductive invariant LatchInv comes first, then the steps that give up   *)
(* no latch, then release_slot and the theorems.                           *)
(***************************************************************************)
EXTENDS Latches, TLAPS

\* Zenon proves a leaf, and the SMT solver one that cites SMTT: arithmetic
\* and sequences.
USE ZenonT(30)

Started(t) == pc[t] \notin {"idle", "begun"}
Parked(t) == pc[t] \in {"wait", "cancelled"}

\* Nobody is waiting for more: the request got all its latches or is stale.
Settled(t) == stale[t] \/ Complete(t)

\* The first acquired_count keys of a request are its latches.
Holds(t, k) == \E i \in 1 .. acquired[t] : keys[t][i] = k

\* gen_lock has sorted the keys of every request that called lock().
KeysInv == \A t \in Txns : keys[t] = IF Started(t) THEN GenLockKeys(t) ELSE <<>>

\* What the place of a request in lock() and commit() says about its counters.
RequestInv ==
  \A t \in Txns :
    /\ ~Started(t) => ~stale[t]
    /\ pc[t] = "acquire" => ~Settled(t)
    /\ pc[t] = "guard" => Settled(t)
    /\ pc[t] = "commit" => ~stale[t] /\ Complete(t)
    /\ permit[t] => Parked(t) /\ Settled(t)
    /\ commitTs[t] # 0 => pc[t] = "done"

Distinct(q) == \A i, j \in DOMAIN q : q[i] = q[j] => i = j

\* A waiter that the scheduler will retry, and one in slot s.
Retried(w) == Parked(w) /\ ~permit[w] /\ (stale[w] \/ ~Complete(w))
Blocked(w, s) == Parked(w) /\ ~permit[w] /\ ~Settled(w) /\ SlotOf[NextKey(w)] = s

\* A request is released once, after its commit.
UnlockInv ==
  /\ Distinct(unlockRx)
  /\ \A i \in DOMAIN unlockRx : pc[unlockRx[i]] = "done" /\ unlockRx[i] # schedLock
  /\ schedLock # NoTxn => pc[schedLock] = "done"

\* A waiter is in one queue, once; one in a slot waits for the key it needs next.
QueueInv ==
  /\ Distinct(wakeups)
  /\ \A i \in DOMAIN wakeups : Retried(wakeups[i])
  /\ \A s \in Slots :
       /\ Distinct(waiting[s])
       /\ \A i \in DOMAIN waiting[s] :
            /\ Blocked(waiting[s][i], s)
            /\ \A j \in DOMAIN wakeups : waiting[s][i] # wakeups[j]

\* Every latch that a request counts is its own.
OwnInv == \A t \in Txns : \A i \in 1 .. acquired[t] : value[keys[t][i]] = t

\* A waiter of a free latch is behind one that will take it: the retried
\* waiter is not stale and no newer commit on the key can make it so.
WakeInv ==
  \A s \in Slots : \A i \in DOMAIN waiting[s] :
    LET k == NextKey(waiting[s][i])
    IN value[k] # NoTxn \/ \E j \in DOMAIN wakeups : /\ NextKey(wakeups[j]) = k
                                                     /\ ~stale[wakeups[j]]
                                                     /\ maxCommitTs[k] <= startTs[wakeups[j]]

\* No timestamp in use is ahead of PD.
TimeInv ==
  /\ \A t \in Txns : startTs[t] <= clock /\ commitTs[t] <= clock
  /\ \A r \in recyclers : r[1] <= clock

\* A node remembers the timestamp of a commit that wrote its key.
NodeInv ==
  \A k \in Keys : maxCommitTs[k] > 0 =>
    \E u \in Txns : commitTs[u] = maxCommitTs[k] /\ k \in KeysOf(u)

Old(u) == clock - commitTs[u] >= ExpireDuration

\* A commit is under its latch, or in its node, or old.
RememberInv ==
  \A u \in Txns : \A k \in KeysOf(u) :
    commitTs[u] = 0 \/ Holds(u, k) \/ maxCommitTs[k] >= commitTs[u] \/ Old(u)

\* What an acquired latch guards has no newer commit that is not old.
CheckedInv ==
  \A t, u \in Txns : \A k \in KeysOf(u) :
    ~stale[t] /\ t # u /\ Holds(t, k) /\ commitTs[u] > startTs[t] => Old(u)

BookInv == OwnInv /\ TimeInv /\ NodeInv /\ StaleIsJustified /\ RememberInv /\ CheckedInv

LatchInv == TypeOK /\ KeysInv /\ RequestInv /\ UnlockInv /\ QueueInv /\ WakeInv /\ BookInv
----------------------------------------------------------------------------
(* Keys                                                                    *)

\* A request passes keys.
LEMMA KeysOfType ==
  ASSUME NEW t \in Txns
  PROVE  KeysOf(t) \subseteq Keys
BY ConstantAssumption, SMTT(20) DEF KeysOf

\* Sequences: the empty one, and the others.
LEMMA EmptySeq ==
  ASSUME NEW S
  PROVE  /\ <<>> \in Seq(S) /\ Len(<<>>) = 0 /\ DOMAIN <<>> = {}
         /\ \A q \in Seq(S) : q # <<>> => Len(q) \in Nat \ {0} /\ DOMAIN q = 1 .. Len(q)
BY SMTT(20)

\* gen_lock lists the keys of a request, each once.
LEMMA GenLockFacts ==
  ASSUME NEW t \in Txns
  PROVE  LET q == GenLockKeys(t)
         IN /\ q \in Seq(Keys) /\ Len(q) \in Nat \ {0}
            /\ \A i \in 1 .. Len(q) : q[i] \in KeysOf(t)
            /\ \A i, j \in 1 .. Len(q) : q[i] = q[j] => i = j
            /\ \A k \in KeysOf(t) : \E i \in 1 .. Len(q) : q[i] = k
<1> DEFINE q == GenLockKeys(t)
<1>1. q \in ListsUpTo(Len(WriteKeys[t]), KeysOf(t)) /\ IsSortedEnum(q, KeysOf(t))
  BY SortAssumption DEF GenLockKeys
<1>k. KeysOf(t) \subseteq Keys /\ Len(WriteKeys[t]) \in Nat
  BY KeysOfType, ConstantAssumption, SMTT(20)
<1>2. PICK n \in Nat : q \in [1 .. n -> KeysOf(t)] /\ IsSortedEnum(q, KeysOf(t))
  BY <1>k, <1>1, SMTT(20) DEF ListsUpTo
<1>3. q \in Seq(Keys) /\ Len(q) = n /\ DOMAIN q = 1 .. n
  BY <1>k, <1>2, SMTT(20)
<1>4. KeysOf(t) # {}
  <2>1. WriteKeys[t] \in Seq(Keys) /\ WriteKeys[t] # <<>>
    BY ConstantAssumption
  <2>2. Len(WriteKeys[t]) \in Nat \ {0} /\ DOMAIN WriteKeys[t] = 1 .. Len(WriteKeys[t])
    BY <2>1, EmptySeq
  <2>3. 1 \in DOMAIN WriteKeys[t]
    BY <2>2, SMTT(20)
  <2> QED
    BY <2>3 DEF KeysOf
<1>5. n # 0
  BY <1>2, <1>4, SMTT(20) DEF IsSortedEnum
<1>6. \A i, j \in 1 .. n : q[i] = q[j] => i = j
  <2> SUFFICES ASSUME NEW i \in 1 .. n, NEW j \in 1 .. n, q[i] = q[j] PROVE i = j
    OBVIOUS
  <2>1. q[i] \in Int /\ q[j] \in Int
    BY <1>k, <1>2, ConstantAssumption
  <2>2. ~(i < j) /\ ~(j < i)
    BY <1>2, <1>3, <2>1, SMTT(20) DEF IsSortedEnum
  <2> QED
    BY <1>1, <2>2, SMTT(20)
<1> QED
  BY <1>1, <1>2, <1>3, <1>5, <1>6 DEF IsSortedEnum

\* The keys of a request that called lock(), as the proofs use them.
LEMMA KeysFacts ==
  ASSUME TypeOK, KeysInv, NEW t \in Txns
  PROVE  /\ keys[t] \in Seq(Keys) /\ Len(keys[t]) \in Nat
         /\ \A i \in 1 .. Len(keys[t]) : keys[t][i] \in Keys /\ keys[t][i] \in KeysOf(t)
         /\ \A i, j \in 1 .. Len(keys[t]) : keys[t][i] = keys[t][j] => i = j
         /\ Started(t) => /\ Len(keys[t]) # 0
                          /\ \A k \in KeysOf(t) : \E i \in 1 .. Len(keys[t]) : keys[t][i] = k
<1>1. CASE Started(t)
  BY <1>1, GenLockFacts, SMTT(20) DEF KeysInv
<1>2. CASE ~Started(t)
  <2>1. keys[t] = <<>> /\ Len(keys[t]) = 0 /\ keys[t] \in Seq(Keys)
    BY <1>2, EmptySeq DEF KeysInv
  <2> QED
    BY <1>2, <2>1, SMTT(20)
<1> QED
  BY <1>1, <1>2

\* A request that holds a latch has called lock(), and owns the key.
LEMMA HoldsFacts ==
  ASSUME LatchInv, NEW t \in Txns, NEW k, Holds(t, k)
  PROVE  value[k] = t /\ k \in Keys /\ k \in KeysOf(t)
<1>1. TypeOK /\ KeysInv /\ OwnInv
  BY DEF LatchInv, BookInv
<1>2. PICK i \in 1 .. acquired[t] : keys[t][i] = k
  BY DEF Holds
<1>3. i \in 1 .. Len(keys[t])
  BY <1>1, <1>2, KeysFacts, SMTT(20) DEF TypeOK
<1> QED
  BY <1>1, <1>2, <1>3, KeysFacts DEF OwnInv
----------------------------------------------------------------------------
(* Nodes                                                                   *)

\* Dropping the nodes that are old at some past time forgets no commit that
\* is not old, and keeps what the other nodes remember.
LEMMA RecycleKeeps ==
  ASSUME LatchInv, NEW gone \in SUBSET Keys, NEW ts \in Ts, ts <= clock,
         \A k \in gone : TsoSub(ts, maxCommitTs[k]) >= ExpireDuration
  PROVE  /\ Forget(gone) \in [Keys -> Ts]
         /\ \A k \in Keys : Forget(gone)[k] <= maxCommitTs[k]
         /\ \A k \in Keys : Forget(gone)[k] > 0 =>
              \E u \in Txns : commitTs[u] = Forget(gone)[k] /\ k \in KeysOf(u)
         /\ \A u \in Txns : \A k \in KeysOf(u) :
              commitTs[u] = 0 \/ Holds(u, k) \/ Forget(gone)[k] >= commitTs[u] \/ Old(u)
<1>1. /\ maxCommitTs \in [Keys -> Ts] /\ clock \in Nat /\ commitTs \in [Txns -> Ts]
      /\ Ts \subseteq Nat /\ 0 \in Ts /\ ExpireDuration \in Nat
  BY ConstantAssumption, SMTT(20) DEF LatchInv, TypeOK, Ts
<1>2. \A k \in Keys : Forget(gone)[k] = IF k \in gone THEN 0 ELSE maxCommitTs[k]
  BY DEF Forget
<1>3. Forget(gone) \in [Keys -> Ts] /\ \A k \in Keys : Forget(gone)[k] <= maxCommitTs[k]
  <2>1. Forget(gone) \in [Keys -> Ts]
    BY <1>1 DEF Forget
  <2>2. \A k \in Keys : maxCommitTs[k] \in Nat
    BY <1>1
  <2> QED
    BY <1>2, <2>1, <2>2, SMTT(20)
<1>4. \A k \in Keys : Forget(gone)[k] > 0 =>
        \E u \in Txns : commitTs[u] = Forget(gone)[k] /\ k \in KeysOf(u)
  BY <1>1, <1>2, SMTT(20) DEF LatchInv, BookInv, NodeInv
<1>5. ASSUME NEW u \in Txns, NEW k \in KeysOf(u)
      PROVE  commitTs[u] = 0 \/ Holds(u, k) \/ Forget(gone)[k] >= commitTs[u] \/ Old(u)
  <2>1. commitTs[u] = 0 \/ Holds(u, k) \/ maxCommitTs[k] >= commitTs[u] \/ Old(u)
    BY DEF LatchInv, BookInv, RememberInv
  <2>2. k \in Keys /\ maxCommitTs[k] \in Nat /\ commitTs[u] \in Nat
    BY <1>1, KeysOfType
  <2>3. CASE k \in gone /\ maxCommitTs[k] >= commitTs[u]
    <3>1. TsoSub(ts, maxCommitTs[k]) >= ExpireDuration
      BY <2>3
    <3>2. commitTs[u] <= clock
      BY DEF LatchInv, BookInv, TimeInv
    <3> QED
      BY <1>1, <2>2, <2>3, <3>1, <3>2, SMTT(20) DEF TsoSub, Old
  <2> QED
    BY <1>2, <2>1, <2>2, <2>3
<1> QED
  BY <1>3, <1>4, <1>5

\* What acquire_slot recycles is old at the request's start.
LEMMA RecycledByFacts ==
  ASSUME LatchInv, NEW t \in Txns
  PROVE  /\ RecycledBy(t) \in SUBSET Keys /\ startTs[t] \in Ts /\ startTs[t] <= clock
         /\ \A k \in RecycledBy(t) : /\ value[k] = NoTxn
                                     /\ TsoSub(startTs[t], maxCommitTs[k]) >= ExpireDuration
BY DEF LatchInv, TypeOK, BookInv, TimeInv, RecycledBy, Expired

\* A node that acquire_slot recycles falls back to 0, the others keep theirs.
LEMMA ForgetFacts ==
  ASSUME LatchInv, NEW t \in Txns
  PROVE  /\ Forget(RecycledBy(t)) \in [Keys -> Ts]
         /\ \A k \in Keys : /\ maxCommitTs[k] \in Nat /\ Forget(RecycledBy(t))[k] \in Nat
                            /\ Forget(RecycledBy(t))[k] <= maxCommitTs[k]
<1>1. maxCommitTs \in [Keys -> Ts] /\ Ts \subseteq Nat /\ 0 \in Ts
  <2>1. Ts \subseteq Nat /\ 0 \in Ts
    BY ConstantAssumption, SMTT(20) DEF Ts
  <2> QED
    BY <2>1 DEF LatchInv, TypeOK
<1>2. \A k \in Keys : maxCommitTs[k] \in Nat
  BY <1>1
<1> QED
  BY <1>1, <1>2, SMTT(20) DEF Forget

AcquireSlot(t) == AcquireStale(t) \/ AcquireSuccess(t) \/ AcquireLocked(t)

\* The key that a request needs next is one of its keys that it does not hold.
LEMMA NextKeyFacts ==
  ASSUME LatchInv, NEW t \in Txns, ~Complete(t)
  PROVE  /\ acquired[t] \in Nat /\ acquired[t] + 1 \in 1 .. Len(keys[t])
         /\ NextKey(t) \in Keys /\ NextKey(t) \in KeysOf(t) /\ SlotOf[NextKey(t)] \in Slots
         /\ ~Holds(t, NextKey(t))
<1>1. TypeOK /\ KeysInv
  BY DEF LatchInv
<1>2. acquired[t] \in Nat /\ acquired[t] <= Len(keys[t]) /\ acquired[t] # Len(keys[t])
  BY <1>1 DEF TypeOK, Complete
<1>3. acquired[t] + 1 \in 1 .. Len(keys[t])
  BY <1>1, <1>2, KeysFacts, SMTT(20)
<1>4. NextKey(t) \in Keys /\ NextKey(t) \in KeysOf(t)
  BY <1>1, <1>3, KeysFacts DEF NextKey
<1>5. ASSUME NEW i \in 1 .. acquired[t], keys[t][i] = NextKey(t) PROVE FALSE
  <2>1. i \in 1 .. Len(keys[t]) /\ i # acquired[t] + 1
    BY <1>2, <1>3, SMTT(20)
  <2> QED
    BY <1>1, <1>3, <1>5, <2>1, KeysFacts DEF NextKey
<1> QED
  BY <1>2, <1>3, <1>4, <1>5, ConstantAssumption DEF Holds

\* acquire_slot keeps the types of what it changes.
LEMMA AcquireTypes ==
  ASSUME LatchInv, NEW t \in Txns, ~Complete(t), AcquireSlot(t), UNCHANGED keys
  PROVE  /\ present' \subseteq Keys /\ maxCommitTs' \in [Keys -> Ts]
         /\ value' \in [Keys -> Txns \cup {NoTxn}] /\ waiting' \in [Slots -> Seq(Txns)]
         /\ stale' \in [Txns -> BOOLEAN]
         /\ acquired' \in [Txns -> Nat] /\ \A u \in Txns : acquired'[u] <= Len(keys'[u])
         /\ \A u \in Txns : acquired'[u] >= acquired[u]
<1>1. /\ NextKey(t) \in Keys /\ SlotOf[NextKey(t)] \in Slots
      /\ acquired[t] \in Nat /\ acquired[t] + 1 <= Len(keys[t])
  BY NextKeyFacts, SMTT(20)
<1>2. TypeOK /\ KeysInv
  BY DEF LatchInv
<1>3. present' \subseteq Keys /\ maxCommitTs' = Forget(RecycledBy(t))
  BY <1>1, <1>2 DEF AcquireSlot, AcquireStale, AcquireSuccess, AcquireLocked, TouchNode, TypeOK
<1>4. maxCommitTs' \in [Keys -> Ts]
  BY <1>3, ForgetFacts
<1>5. CASE AcquireStale(t)
  BY <1>2, <1>3, <1>4, <1>5, SMTT(20) DEF AcquireStale, TypeOK
<1>6. CASE AcquireSuccess(t)
  BY <1>1, <1>2, <1>3, <1>4, <1>6, SMTT(20) DEF AcquireSuccess, TypeOK
<1>7. CASE AcquireLocked(t)
  BY <1>1, <1>2, <1>3, <1>4, <1>7, SMTT(20) DEF AcquireLocked, TypeOK
<1> QED
  BY <1>5, <1>6, <1>7 DEF AcquireSlot

\* acquire_slot keeps the books: who owns a latch, what its node remembers,
\* and which commits its owner knows of.
LEMMA AcquireBook ==
  ASSUME LatchInv, NEW t \in Txns, ~Settled(t), AcquireSlot(t),
         UNCHANGED <<startTs, keys, commitTs, recyclers, clock>>
  PROVE  BookInv'
<1> DEFINE k0 == NextKey(t)
           g == RecycledBy(t)
<1>1. TypeOK /\ KeysInv /\ BookInv /\ ~Complete(t) /\ ~stale[t]
  BY DEF LatchInv, Settled
<1>2. /\ k0 \in Keys /\ k0 \in KeysOf(t) /\ ~Holds(t, k0)
      /\ acquired[t] \in Nat /\ acquired[t] + 1 \in 1 .. Len(keys[t])
  BY <1>1, NextKeyFacts
<1>3. maxCommitTs' = Forget(g)
  BY DEF AcquireSlot, AcquireStale, AcquireSuccess, AcquireLocked, TouchNode
<1>4. /\ maxCommitTs' \in [Keys -> Ts]
      /\ \A k \in Keys : maxCommitTs'[k] > 0 =>
           \E u \in Txns : commitTs[u] = maxCommitTs'[k] /\ k \in KeysOf(u)
      /\ \A u \in Txns : \A k \in KeysOf(u) :
           commitTs[u] = 0 \/ Holds(u, k) \/ maxCommitTs'[k] >= commitTs[u] \/ Old(u)
  BY <1>3, RecycledByFacts, RecycleKeeps
<1>5. /\ \A u \in Txns : acquired[u] \in Nat /\ acquired'[u] \in Nat /\ acquired'[u] >= acquired[u]
      /\ \A u \in Txns : startTs[u] \in Nat /\ commitTs[u] \in Nat
      /\ \A k \in Keys : maxCommitTs'[k] \in Nat
  <2>1. Ts \subseteq Nat /\ startTs \in [Txns -> Ts] /\ commitTs \in [Txns -> Ts]
    BY <1>1, ConstantAssumption, SMTT(20) DEF TypeOK, Ts
  <2>2. acquired \in [Txns -> Nat] /\ acquired' \in [Txns -> Nat]
    BY <1>1, AcquireTypes DEF TypeOK
  <2> QED
    BY <1>1, <1>4, <2>1, <2>2, AcquireTypes
<1>6. TimeInv' /\ NodeInv'
  BY <1>1, <1>4 DEF BookInv, TimeInv, NodeInv
<1>7. \A u \in Txns : \A k : Holds(u, k) => Holds(u, k)'
  BY <1>5, SMTT(20) DEF Holds
<1>8. RememberInv'
  BY <1>4, <1>7 DEF RememberInv, Old
<1>9. CASE AcquireStale(t)
  <2>1. /\ stale' = [stale EXCEPT ![t] = TRUE] /\ UNCHANGED <<acquired, value>>
        /\ maxCommitTs'[k0] > startTs[t]
    BY <1>3, <1>9 DEF AcquireStale, NewerCommit
  <2>2. OwnInv'
    BY <1>1, <2>1 DEF BookInv, OwnInv
  <2>3. PICK u \in Txns : commitTs[u] = maxCommitTs'[k0] /\ k0 \in KeysOf(u)
    BY <1>2, <1>4, <1>5, <2>1, SMTT(20)
  <2>4. commitTs[u] > startTs[t] /\ KeysOf(t) \cap KeysOf(u) # {}
    BY <1>2, <2>1, <2>3
  <2>5. StaleIsJustified'
    BY <1>1, <2>1, <2>4 DEF BookInv, StaleIsJustified, TypeOK
  <2>6. CheckedInv'
    BY <1>1, <2>1 DEF BookInv, CheckedInv, Holds, Old, TypeOK
  <2> QED
    BY <1>6, <1>8, <2>2, <2>5, <2>6 DEF BookInv
<1>10. CASE AcquireSuccess(t)
  <2>1. /\ stale' = stale /\ value[k0] = NoTxn /\ ~(maxCommitTs'[k0] > startTs[t])
        /\ value' = [value EXCEPT ![k0] = t]
        /\ acquired' = [acquired EXCEPT ![t] = @ + 1]
    BY <1>3, <1>10 DEF AcquireSuccess, NewerCommit
  <2>2. \A u \in Txns : \A k : Holds(u, k)' => Holds(u, k) \/ (u = t /\ k = k0)
    <3> SUFFICES ASSUME NEW u \in Txns, NEW i \in 1 .. acquired'[u]
                 PROVE  Holds(u, keys[u][i]) \/ (u = t /\ keys[u][i] = k0)
      BY DEF Holds
    <3>1. CASE i \in 1 .. acquired[u]
      BY <3>1 DEF Holds
    <3>2. CASE i \notin 1 .. acquired[u]
      BY <1>1, <1>5, <2>1, <3>2, SMTT(20) DEF NextKey, TypeOK
    <3> QED
      BY <3>1, <3>2
  <2>3. OwnInv'
    <3> SUFFICES ASSUME NEW u \in Txns, NEW i \in 1 .. acquired'[u]
                 PROVE  value'[keys[u][i]] = u
      BY DEF OwnInv
    <3>1. CASE Holds(u, keys[u][i])
      BY <1>1, <2>1, <3>1, HoldsFacts, ConstantAssumption DEF TypeOK
    <3>2. CASE u = t /\ keys[u][i] = k0
      BY <1>1, <1>2, <2>1, <3>2 DEF TypeOK
    <3> QED
      BY <2>2, <3>1, <3>2 DEF Holds
  <2>4. StaleIsJustified'
    BY <1>1, <2>1 DEF BookInv, StaleIsJustified
  <2>5. CheckedInv'
    <3> SUFFICES ASSUME NEW x \in Txns, NEW u \in Txns, NEW k \in KeysOf(u), ~stale[x], x # u,
                        Holds(x, k)', commitTs[u] > startTs[x]
                 PROVE  Old(u)
      BY <2>1 DEF CheckedInv, Old
    <3>1. CASE Holds(x, k)
      BY <1>1, <3>1 DEF BookInv, CheckedInv
    <3>2. CASE x = t /\ k = k0
      <4>1. ~Holds(u, k)
        BY <2>1, <3>2, HoldsFacts, ConstantAssumption
      <4>2. commitTs[u] # 0 /\ ~(maxCommitTs'[k] >= commitTs[u])
        BY <1>2, <1>5, <2>1, <3>2, SMTT(20)
      <4> QED
        BY <1>4, <4>1, <4>2
    <3> QED
      BY <2>2, <3>1, <3>2
  <2> QED
    BY <1>6, <1>8, <2>3, <2>4, <2>5 DEF BookInv
<1>11. CASE AcquireLocked(t)
  <2>1. UNCHANGED <<acquired, stale, value>>
    BY <1>11 DEF AcquireLocked
  <2>2. OwnInv' /\ StaleIsJustified' /\ CheckedInv'
    BY <1>1, <2>1 DEF BookInv, OwnInv, StaleIsJustified, CheckedInv, Holds, Old
  <2> QED
    BY <1>6, <1>8, <2>2 DEF BookInv
<1> QED
  BY <1>9, <1>10, <1>11 DEF AcquireSlot

----------------------------------------------------------------------------
(* The steps of a request                                                  *)

\* The books do not depend on where requests are or queue.
LEMMA BookFrame ==
  ASSUME LatchInv, UNCHANGED <<lockVars, acquired, stale, maxCommitTs, value, clock>>,
         \A r \in recyclers' : r[1] <= clock
  PROVE  BookInv'
BY DEF LatchInv, BookInv, OwnInv, TimeInv, NodeInv, StaleIsJustified, RememberInv, CheckedInv,
       Holds, Old, lockVars

\* The queues depend only on the requests in them.
LEMMA QueueFrame ==
  ASSUME LatchInv, NEW T \in SUBSET Txns,
         UNCHANGED <<waiting, wakeups, value, maxCommitTs, acquired, stale>>,
         \A i \in DOMAIN wakeups : wakeups[i] \in T,
         \A s \in Slots : \A i \in DOMAIN waiting[s] : waiting[s][i] \in T,
         \A u \in T : /\ (Parked(u) => Parked(u)') /\ permit'[u] = permit[u]
                      /\ startTs'[u] = startTs[u] /\ keys'[u] = keys[u]
  PROVE  QueueInv' /\ WakeInv'
<1>1. \A w \in T : /\ NextKey(w)' = NextKey(w) /\ (Retried(w) => Retried(w)')
                   /\ \A s : Blocked(w, s) => Blocked(w, s)'
  BY DEF Retried, Blocked, Complete, Settled, NextKey
<1>2. QueueInv'
  BY <1>1, SMTT(20) DEF LatchInv, QueueInv, Distinct
<1>3. WakeInv'
  <2> SUFFICES ASSUME NEW s \in Slots, NEW i \in DOMAIN waiting[s]
               PROVE  LET k == NextKey(waiting[s][i])
                      IN value[k] # NoTxn \/ \E j \in DOMAIN wakeups :
                           /\ NextKey(wakeups[j])' = k
                           /\ ~stale[wakeups[j]]
                           /\ maxCommitTs[k] <= startTs'[wakeups[j]]
    BY <1>1, SMTT(20) DEF WakeInv
  <2> QED
    BY <1>1 DEF LatchInv, WakeInv
<1> QED
  BY <1>2, <1>3

\* Nobody in a queue runs its own steps.
LEMMA NotQueued ==
  ASSUME LatchInv, NEW t \in Txns, ~Parked(t) \/ permit[t]
  PROVE  /\ \A i \in DOMAIN wakeups : wakeups[i] \in Txns \ {t}
         /\ \A s \in Slots : \A i \in DOMAIN waiting[s] : waiting[s][i] \in Txns \ {t}
BY SMTT(20) DEF LatchInv, TypeOK, QueueInv, Retried, Blocked

\* The unlock channel depends only on requests that have ended.
LEMMA UnlockFrame ==
  ASSUME LatchInv, UNCHANGED <<unlockRx, schedLock>>,
         \A u \in Txns : pc[u] = "done" => pc'[u] = "done"
  PROVE  UnlockInv'
BY SMTT(20) DEF LatchInv, TypeOK, UnlockInv, Distinct

\* begin keeps the invariant.
LEMMA BeginInv ==
  ASSUME LatchInv, NEW t \in Txns, Begin(t)
  PROVE  LatchInv'
<1>1. /\ TypeOK /\ KeysInv /\ RequestInv /\ BookInv /\ pc[t] = "idle" /\ ~stale[t]
      /\ commitTs[t] = 0 /\ keys[t] = <<>> /\ acquired[t] = 0 /\ ~permit[t]
  <2>1. TypeOK /\ KeysInv /\ RequestInv /\ BookInv /\ pc[t] = "idle"
    BY DEF LatchInv, Begin
  <2>2. ~stale[t] /\ commitTs[t] = 0 /\ keys[t] = <<>> /\ ~permit[t]
    BY <2>1 DEF RequestInv, KeysInv, Started, Parked
  <2>3. acquired[t] \in Nat /\ acquired[t] <= 0
    BY <2>1, <2>2, EmptySeq DEF TypeOK
  <2> QED
    BY <2>1, <2>2, <2>3, SMTT(20)
<1>2. /\ clock \in Ts /\ clock' \in Ts /\ clock <= clock' /\ pc' = [pc EXCEPT ![t] = "begun"]
      /\ \E ts \in Ts : ts <= clock' /\ startTs' = [startTs EXCEPT ![t] = ts]
  <2>1. /\ clock \in Ts /\ startTs \in [Txns -> Ts] /\ MaxTs \in Nat
        /\ \A u \in Txns : startTs[u] <= clock
    BY <1>1, ConstantAssumption DEF TypeOK, BookInv, TimeInv
  <2> QED
    BY <2>1, SMTT(20) DEF Begin, Ts
<1>3. UNCHANGED <<keys, acquired, commitTs, stale, permit, slotVars, unlockRx, schedVars,
                  recyclers, cancels>>
  BY DEF Begin
<1>4. PICK ts \in Ts : ts <= clock' /\ startTs' = [startTs EXCEPT ![t] = ts]
  BY <1>2
<1>5. TypeOK'
  BY <1>1, <1>2, <1>3, <1>4 DEF TypeOK, slotVars, schedVars, PcStates
<1>6. KeysInv' /\ RequestInv'
  BY <1>1, <1>2, <1>3 DEF TypeOK, KeysInv, RequestInv, Started, Parked, Settled, Complete
<1>7. UnlockInv' /\ QueueInv' /\ WakeInv'
  <2>1. UNCHANGED <<waiting, wakeups, value, maxCommitTs, unlockRx, schedLock>> /\ ~Parked(t)
    BY <1>1, <1>3 DEF slotVars, schedVars, Parked
  <2>2. \A u \in Txns \ {t} : pc'[u] = pc[u] /\ startTs'[u] = startTs[u]
    BY <1>1, <1>2, <1>4 DEF TypeOK
  <2>3. \A u \in Txns \ {t} : Parked(u) => Parked(u)'
    BY <2>2 DEF Parked
  <2> QED
    BY <1>1, <1>2, <1>3, <2>1, <2>2, <2>3, NotQueued, QueueFrame, UnlockFrame
<1>8. BookInv'
  <2>1. UNCHANGED <<value, maxCommitTs>> /\ \A u \in Txns : u # t => startTs'[u] = startTs[u]
    BY <1>1, <1>3, <1>4 DEF TypeOK, slotVars
  <2>2. /\ Ts \subseteq Nat /\ ExpireDuration \in Nat
        /\ \A u \in Txns : startTs[u] \in Nat /\ commitTs[u] \in Nat /\ startTs'[u] \in Nat
        /\ \A r \in recyclers : r[1] \in Nat
    <3>1. Ts \subseteq Nat /\ ExpireDuration \in Nat
      BY ConstantAssumption, SMTT(20) DEF Ts
    <3>2. /\ startTs \in [Txns -> Ts] /\ commitTs \in [Txns -> Ts] /\ startTs' \in [Txns -> Ts]
          /\ recyclers \subseteq Ts \X Slots
      BY <1>1, <1>5 DEF TypeOK
    <3> QED
      BY <3>1, <3>2
  <2>3. TimeInv'
    BY <1>1, <1>2, <1>3, <1>4, <2>1, <2>2, SMTT(20) DEF BookInv, TimeInv
  <2>4. OwnInv' /\ NodeInv'
    BY <1>1, <1>3, <2>1 DEF BookInv, OwnInv, NodeInv
  <2>5. \A u \in Txns : Old(u) => Old(u)'
    BY <1>2, <1>3, <2>2, SMTT(20) DEF Old
  <2>6. \A u \in Txns : \A k : Holds(u, k)' <=> Holds(u, k)
    BY <1>3 DEF Holds
  <2>7. \A k : ~Holds(t, k)
    BY <1>1, SMTT(20) DEF Holds
  <2>8. StaleIsJustified' /\ RememberInv' /\ CheckedInv'
    BY <1>1, <1>3, <2>1, <2>5, <2>6, <2>7 DEF BookInv, StaleIsJustified, RememberInv, CheckedInv
  <2> QED
    BY <2>3, <2>4, <2>8 DEF BookInv
<1> QED
  BY <1>5, <1>6, <1>7, <1>8 DEF LatchInv

\* gen_lock keeps the invariant.
LEMMA GenLockInv ==
  ASSUME LatchInv, NEW t \in Txns, GenLock(t)
  PROVE  LatchInv'
<1>1. /\ TypeOK /\ KeysInv /\ RequestInv /\ BookInv /\ pc[t] = "begun" /\ ~stale[t]
      /\ commitTs[t] = 0 /\ acquired[t] = 0 /\ ~permit[t]
  <2>1. TypeOK /\ KeysInv /\ RequestInv /\ BookInv /\ pc[t] = "begun"
    BY DEF LatchInv, GenLock
  <2>2. ~stale[t] /\ commitTs[t] = 0 /\ keys[t] = <<>> /\ ~permit[t]
    BY <2>1 DEF RequestInv, KeysInv, Started, Parked
  <2>3. acquired[t] \in Nat /\ acquired[t] <= 0
    BY <2>1, <2>2, EmptySeq DEF TypeOK
  <2> QED
    BY <2>1, <2>2, <2>3, SMTT(20)
<1>2. /\ keys' = [keys EXCEPT ![t] = GenLockKeys(t)] /\ pc' = [pc EXCEPT ![t] = "acquire"]
      /\ UNCHANGED <<startTs, acquired, commitTs, stale, permit, slotVars, unlockRx, schedVars,
                     recyclers, clock, cancels>>
  BY DEF GenLock
<1>3. GenLockKeys(t) \in Seq(Keys) /\ Len(GenLockKeys(t)) \in Nat \ {0}
  BY GenLockFacts
<1>4. TypeOK'
  BY <1>1, <1>2, <1>3, SMTT(20) DEF TypeOK, slotVars, schedVars, PcStates
<1>5. KeysInv'
  BY <1>1, <1>2 DEF TypeOK, KeysInv, Started
<1>6. RequestInv'
  BY <1>1, <1>2, <1>3 DEF TypeOK, RequestInv, Started, Parked, Settled, Complete
<1>7. UnlockInv' /\ QueueInv' /\ WakeInv'
  <2>1. UNCHANGED <<waiting, wakeups, value, maxCommitTs, unlockRx, schedLock>> /\ ~Parked(t)
    BY <1>1, <1>2 DEF slotVars, schedVars, Parked
  <2>2. \A u \in Txns \ {t} : pc'[u] = pc[u] /\ keys'[u] = keys[u]
    BY <1>1, <1>2 DEF TypeOK
  <2>3. \A u \in Txns \ {t} : Parked(u) => Parked(u)'
    BY <2>2 DEF Parked
  <2> QED
    BY <1>1, <1>2, <2>1, <2>2, <2>3, NotQueued, QueueFrame, UnlockFrame
<1>8. BookInv'
  <2>1. UNCHANGED <<value, maxCommitTs>>
    BY <1>2 DEF slotVars
  <2>2. \A u \in Txns : \A k : Holds(u, k)' <=> Holds(u, k)
    BY <1>1, <1>2, SMTT(20) DEF Holds, TypeOK
  <2>3. OwnInv'
    BY <1>1, <1>2, <2>1, SMTT(20) DEF BookInv, OwnInv, TypeOK
  <2> QED
    BY <1>1, <1>2, <2>1, <2>2, <2>3
      DEF BookInv, TimeInv, NodeInv, StaleIsJustified, RememberInv, CheckedInv, Old
<1> QED
  BY <1>4, <1>5, <1>6, <1>7, <1>8 DEF LatchInv

\* Request t is in no slot.
Unqueued(t) == \A s \in Slots : \A i \in DOMAIN waiting[s] : waiting[s][i] # t

\* The wakeups before and after acquire_slot for t: the same but perhaps for t.
Requeue(t) ==
  /\ UNCHANGED <<startTs, keys>>
  /\ wakeups' \in Seq(Txns) /\ Distinct(wakeups')
  /\ \A j \in DOMAIN wakeups' : \E h \in DOMAIN wakeups : wakeups'[j] = wakeups[h]
  /\ \A h \in DOMAIN wakeups : wakeups[h] # t => \E j \in DOMAIN wakeups' : wakeups'[j] = wakeups[h]
  /\ \A j \in DOMAIN wakeups' : wakeups'[j] = t => Retried(t)' /\ ~AcquireLocked(t)
  /\ AcquireLocked(t) => Parked(t)' /\ ~permit'[t]
  /\ \A u \in Txns \ {t} : (Parked(u) => Parked(u)') /\ permit'[u] = permit[u]

\* acquire_slot changes nothing of the requests that it is not run for.
LEMMA AcquireOthers ==
  ASSUME LatchInv, NEW t \in Txns, AcquireSlot(t), Requeue(t), NEW u \in Txns, u # t
  PROVE  /\ acquired'[u] = acquired[u] /\ stale'[u] = stale[u] /\ startTs'[u] = startTs[u]
         /\ NextKey(u)' = NextKey(u) /\ (Retried(u) => Retried(u)')
         /\ \A s : Blocked(u, s) => Blocked(u, s)'
<1>1. acquired \in [Txns -> Nat] /\ stale \in [Txns -> BOOLEAN]
  BY DEF LatchInv, TypeOK
<1>2. acquired'[u] = acquired[u] /\ stale'[u] = stale[u]
  BY <1>1 DEF AcquireSlot, AcquireStale, AcquireSuccess, AcquireLocked
<1>3. /\ keys'[u] = keys[u] /\ startTs'[u] = startTs[u] /\ permit'[u] = permit[u]
      /\ Parked(u) => Parked(u)'
  BY DEF Requeue
<1> QED
  BY <1>2, <1>3 DEF Retried, Blocked, Complete, Settled, NextKey

\* acquire_slot leaves a slot as it is, or appends t to the slot of its key.
LEMMA AcquireWaits ==
  ASSUME LatchInv, NEW t \in Txns, ~Complete(t), AcquireSlot(t), NEW s \in Slots
  PROVE  \/ waiting'[s] = waiting[s]
         \/ AcquireLocked(t) /\ s = SlotOf[NextKey(t)] /\ waiting'[s] = Append(waiting[s], t)
<1>1. waiting \in [Slots -> Seq(Txns)]
  BY DEF LatchInv, TypeOK
<1> QED
  BY <1>1 DEF AcquireSlot, AcquireStale, AcquireSuccess, AcquireLocked

\* An element appended to a sequence is its last one.
LEMMA AppendFacts ==
  ASSUME NEW S, NEW q \in Seq(S), NEW x \in S
  PROVE  /\ Len(q) \in Nat /\ DOMAIN q = 1 .. Len(q) /\ Append(q, x) \in Seq(S)
         /\ DOMAIN Append(q, x) = 1 .. Len(q) + 1
         /\ \A j \in 1 .. Len(q) : Append(q, x)[j] = q[j] /\ q[j] \in S
         /\ Append(q, x)[Len(q) + 1] = x
BY SMTT(20)

\* Appending something new keeps a sequence without duplicates.
LEMMA AppendDistinct ==
  ASSUME NEW S, NEW q \in Seq(S), NEW x \in S, Distinct(q), \A i \in DOMAIN q : q[i] # x
  PROVE  /\ Distinct(Append(q, x))
         /\ \A i \in DOMAIN Append(q, x) : Append(q, x)[i] = x \/ \E h \in DOMAIN q : Append(q, x)[i] = q[h]
BY AppendFacts, SMTT(20) DEF Distinct

\* A request that is locked out waits in the slot of its next key.
LEMMA AcquireBlocks ==
  ASSUME LatchInv, NEW t \in Txns, ~Settled(t), AcquireLocked(t), Requeue(t), NEW s,
         s = SlotOf[NextKey(t)]
  PROVE  Blocked(t, s)' /\ NextKey(t)' = NextKey(t)
<1>1. UNCHANGED <<acquired, stale, keys>> /\ Parked(t)' /\ ~permit'[t]
  BY DEF AcquireLocked, Requeue
<1>2. NextKey(t)' = NextKey(t) /\ ~Settled(t)'
  BY <1>1 DEF NextKey, Settled, Complete
<1> QED
  BY <1>1, <1>2 DEF Blocked

\* The waiters of a slot after acquire_slot: the old ones, and perhaps t.
LEMMA AcquireSlotWaiters ==
  ASSUME LatchInv, NEW t \in Txns, ~Settled(t), AcquireSlot(t), NEW s \in Slots, Unqueued(t)
  PROVE  /\ Distinct(waiting'[s])
         /\ \A i \in DOMAIN waiting'[s] :
              \/ AcquireLocked(t) /\ s = SlotOf[NextKey(t)] /\ waiting'[s][i] = t
              \/ \E h \in DOMAIN waiting[s] : waiting'[s][i] = waiting[s][h]
<1>1. waiting[s] \in Seq(Txns) /\ Distinct(waiting[s]) /\ ~Complete(t)
  BY DEF LatchInv, TypeOK, QueueInv, Settled
<1>2. CASE waiting'[s] = waiting[s]
  BY <1>1, <1>2
<1>3. CASE AcquireLocked(t) /\ s = SlotOf[NextKey(t)] /\ waiting'[s] = Append(waiting[s], t)
  BY <1>1, <1>3, AppendDistinct, SMTT(20) DEF Unqueued
<1> QED
  BY <1>1, <1>2, <1>3, AcquireWaits

\* Who is in the queues.
LEMMA WakeupFacts ==
  ASSUME LatchInv, NEW h \in DOMAIN wakeups
  PROVE  wakeups[h] \in Txns /\ Retried(wakeups[h])
<1>1. wakeups \in Seq(Txns)
  BY DEF LatchInv, TypeOK
<1>2. wakeups[h] \in Txns
  BY <1>1, SMTT(20)
<1> QED
  BY <1>2 DEF LatchInv, QueueInv

\* Who waits in a slot.
LEMMA WaiterFacts ==
  ASSUME LatchInv, NEW s \in Slots, NEW h \in DOMAIN waiting[s]
  PROVE  /\ waiting[s][h] \in Txns /\ Blocked(waiting[s][h], s)
         /\ ~Complete(waiting[s][h])
         /\ \A j \in DOMAIN wakeups : waiting[s][h] # wakeups[j]
<1>1. waiting \in [Slots -> Seq(Txns)]
  BY DEF LatchInv, TypeOK
<1>2. waiting[s][h] \in Txns
  BY <1>1, SMTT(20)
<1>3. Blocked(waiting[s][h], s) /\ \A j \in DOMAIN wakeups : waiting[s][h] # wakeups[j]
  BY DEF LatchInv, QueueInv
<1> QED
  BY <1>2, <1>3 DEF Blocked, Settled

\* acquire_slot leaves the queues right, whoever runs it for request t: the
\* request itself, or the scheduler that retries it.
LEMMA AcquireQueue ==
  ASSUME LatchInv, NEW t \in Txns, ~Settled(t), AcquireSlot(t), Requeue(t), Unqueued(t)
  PROVE  QueueInv'
<1>2. /\ Distinct(wakeups')
      /\ \A j \in DOMAIN wakeups' : \E h \in DOMAIN wakeups : wakeups'[j] = wakeups[h]
      /\ \A j \in DOMAIN wakeups' : wakeups'[j] = t => Retried(t)' /\ ~AcquireLocked(t)
  BY DEF Requeue
<1>3. ASSUME NEW j \in DOMAIN wakeups' PROVE Retried(wakeups[j])'
  <2>1. PICK h \in DOMAIN wakeups : wakeups'[j] = wakeups[h]
    BY <1>2
  <2>2. wakeups[h] \in Txns /\ Retried(wakeups[h])
    BY WakeupFacts
  <2>3. PICK u \in Txns : u = wakeups'[j] /\ Retried(u)
    BY <2>1, <2>2
  <2>4. Retried(u)'
    BY <1>2, <2>3, AcquireOthers
  <2> QED
    BY <2>3, <2>4 DEF Retried, Parked, Complete
<1>4. ASSUME NEW s \in Slots, NEW i \in DOMAIN waiting'[s]
      PROVE  /\ Blocked(waiting[s][i], s)'
             /\ \A j \in DOMAIN wakeups' : waiting'[s][i] # wakeups'[j]
  <2>1. CASE AcquireLocked(t) /\ s = SlotOf[NextKey(t)] /\ waiting'[s][i] = t
    <3>1. Blocked(t, s)'
      BY <2>1, AcquireBlocks
    <3>2. Blocked(waiting[s][i], s)'
      BY <2>1, <3>1 DEF Blocked, Parked, Settled, Complete, NextKey
    <3> QED
      BY <1>2, <2>1, <3>2
  <2>2. CASE \E h \in DOMAIN waiting[s] : waiting'[s][i] = waiting[s][h]
    <3>5. PICK h \in DOMAIN waiting[s] : waiting'[s][i] = waiting[s][h]
      BY <2>2
    <3>6. /\ waiting[s][h] \in Txns /\ Blocked(waiting[s][h], s)
          /\ \A j \in DOMAIN wakeups : waiting[s][h] # wakeups[j]
      BY WaiterFacts
    <3>7. waiting[s][h] # t
      BY DEF Unqueued
    <3>1. PICK u \in Txns : u # t /\ u = waiting'[s][i] /\ u = waiting[s][h]
      BY <3>5, <3>6, <3>7
    <3>2. Blocked(u, s) /\ \A j \in DOMAIN wakeups : u # wakeups[j]
      BY <3>1, <3>6
    <3>3. Blocked(u, s)'
      BY <3>1, <3>2, AcquireOthers
    <3>4. Blocked(waiting[s][i], s)'
      BY <3>1, <3>3 DEF Blocked, Parked, Settled, Complete, NextKey
    <3> QED
      BY <1>2, <3>1, <3>2, <3>4
  <2> QED
    BY <2>1, <2>2, AcquireSlotWaiters
<1>5. \A s \in Slots : Distinct(waiting[s])'
  BY AcquireSlotWaiters DEF Distinct
<1>6. Distinct(wakeups)'
  BY <1>2 DEF Distinct
<1> QED
  BY <1>3, <1>4, <1>5, <1>6 DEF QueueInv

\* What acquire_slot does to the nodes: a latch stays taken, and the latch it
\* is run for is taken afterwards unless a newer commit is found.
LEMMA AcquireNodes ==
  ASSUME LatchInv, NEW t \in Txns, ~Settled(t), AcquireSlot(t), NEW k \in Keys
  PROVE  /\ maxCommitTs[k] \in Nat /\ maxCommitTs'[k] \in Nat /\ maxCommitTs'[k] <= maxCommitTs[k]
         /\ value[k] # NoTxn => value'[k] # NoTxn
         /\ k = NextKey(t) => maxCommitTs'[k] > startTs[t] \/ value'[k] # NoTxn
         /\ k = NextKey(t) /\ AcquireLocked(t) => value'[k] # NoTxn
<1>1. maxCommitTs' = Forget(RecycledBy(t))
  BY DEF AcquireSlot, AcquireStale, AcquireSuccess, AcquireLocked, TouchNode
<1>2. maxCommitTs[k] \in Nat /\ maxCommitTs'[k] \in Nat /\ maxCommitTs'[k] <= maxCommitTs[k]
  BY <1>1, ForgetFacts
<1>3. value \in [Keys -> Txns \cup {NoTxn}]
  BY DEF LatchInv, TypeOK
<1>5. \/ value' = value
      \/ value' = [value EXCEPT ![NextKey(t)] = t]
  BY DEF AcquireSlot, AcquireStale, AcquireSuccess, AcquireLocked
<1>6. value[k] # NoTxn => value'[k] # NoTxn
  BY <1>3, <1>5, ConstantAssumption
<1>7. /\ AcquireStale(t) => maxCommitTs'[NextKey(t)] > startTs[t]
      /\ AcquireSuccess(t) => value' = [value EXCEPT ![NextKey(t)] = t]
      /\ AcquireLocked(t) => value' = value /\ value[NextKey(t)] # NoTxn
  BY <1>1 DEF AcquireStale, AcquireSuccess, AcquireLocked, NewerCommit
<1>8. k = NextKey(t) => /\ AcquireSuccess(t) => value'[k] # NoTxn
                        /\ AcquireLocked(t) => value'[k] # NoTxn
  BY <1>3, <1>7, ConstantAssumption
<1>9. k = NextKey(t) => maxCommitTs'[k] > startTs[t] \/ value'[k] # NoTxn
  BY <1>7, <1>8 DEF AcquireSlot
<1> QED
  BY <1>2, <1>6, <1>8, <1>9

\* acquire_slot loses no wakeup.
LEMMA AcquireWake ==
  ASSUME LatchInv, NEW t \in Txns, ~Settled(t), AcquireSlot(t), Requeue(t), Unqueued(t)
  PROVE  WakeInv'
<1> SUFFICES ASSUME NEW s \in Slots, NEW i \in DOMAIN waiting'[s],
                    value'[NextKey(waiting[s][i])'] = NoTxn
             PROVE  \E j \in DOMAIN wakeups' :
                      /\ NextKey(wakeups[j])' = NextKey(waiting[s][i])' /\ ~stale'[wakeups'[j]]
                      /\ maxCommitTs'[NextKey(waiting[s][i])'] <= startTs'[wakeups'[j]]
  BY DEF WakeInv
<1>1. WakeInv /\ ~Complete(t)
  BY DEF LatchInv, Settled
<1>2. NextKey(t) \in Keys
  BY <1>1, NextKeyFacts
<1>3. ~(AcquireLocked(t) /\ waiting'[s][i] = t)
  <2> SUFFICES ASSUME AcquireLocked(t), waiting'[s][i] = t PROVE FALSE
    OBVIOUS
  <2>1. NextKey(t)' = NextKey(t)
    BY AcquireBlocks
  <2>2. NextKey(waiting[s][i])' = NextKey(t)
    BY <2>1 DEF NextKey
  <2> QED
    BY <1>2, <2>2, AcquireNodes
<1>4. PICK x \in DOMAIN waiting[s] : waiting'[s][i] = waiting[s][x]
  BY <1>3, AcquireSlotWaiters
<1>16. waiting[s][x] \in Txns /\ ~Complete(waiting[s][x])
  BY WaiterFacts
<1>17. waiting[s][x] # t
  BY DEF Unqueued
<1>5. PICK u \in Txns : u = waiting[s][x] /\ u = waiting'[s][i] /\ u # t
  BY <1>4, <1>16, <1>17
<1>6. ~Complete(u)
  BY <1>5, <1>16
<1>7. PICK k \in Keys : k = NextKey(u) /\ NextKey(waiting[s][i])' = k
  <2>1. NextKey(u) \in Keys
    BY <1>6, NextKeyFacts
  <2>3. NextKey(u)' = NextKey(u)
    BY <1>5, AcquireOthers
  <2>2. NextKey(waiting[s][i])' = NextKey(u)'
    BY <1>5 DEF NextKey
  <2> QED
    BY <2>1, <2>2, <2>3
<1>8. value[k] = NoTxn /\ value'[k] = NoTxn
  BY <1>7, AcquireNodes
<1>9. PICK y \in DOMAIN wakeups : /\ NextKey(wakeups[y]) = k /\ ~stale[wakeups[y]]
                                  /\ maxCommitTs[k] <= startTs[wakeups[y]]
  BY <1>1, <1>4, <1>5, <1>7, <1>8 DEF WakeInv
<1>10. PICK v \in Txns : v = wakeups[y] /\ startTs[v] \in Nat
  <2>1. wakeups[y] \in Txns
    BY WakeupFacts
  <2>2. startTs[wakeups[y]] \in Nat
    BY <2>1, ConstantAssumption, SMTT(20) DEF LatchInv, TypeOK, Ts
  <2> QED
    BY <2>1, <2>2
<1>11. maxCommitTs'[k] <= startTs[v]
  BY <1>9, <1>10, AcquireNodes, SMTT(20)
<1>12. v # t
  <2> SUFFICES ASSUME v = t PROVE FALSE
    OBVIOUS
  <2>1. k = NextKey(t) /\ maxCommitTs'[k] \in Nat
    BY <1>9, <1>10, AcquireNodes
  <2>2. maxCommitTs'[k] > startTs[t]
    BY <1>8, <2>1, AcquireNodes
  <2> QED
    BY <1>10, <1>11, <2>1, <2>2, SMTT(20)
<1>13. PICK z \in DOMAIN wakeups' : wakeups'[z] = v
  BY <1>10, <1>12 DEF Requeue
<1>14. stale'[v] = stale[v] /\ startTs'[v] = startTs[v] /\ NextKey(v)' = NextKey(v)
  BY <1>12, AcquireOthers
<1>15. NextKey(wakeups[z])' = k
  BY <1>9, <1>10, <1>13, <1>14 DEF NextKey
<1> QED
  BY <1>7, <1>9, <1>10, <1>11, <1>13, <1>14, <1>15

\* An iteration of the acquire loop keeps the invariant.
LEMMA AcquireInv ==
  ASSUME LatchInv, NEW t \in Txns, Acquire(t)
  PROVE  LatchInv'
<1>1. TypeOK /\ KeysInv /\ RequestInv /\ pc[t] = "acquire" /\ ~Settled(t) /\ ~permit[t]
  BY DEF LatchInv, Acquire, RequestInv, Parked
<1>2. /\ UNCHANGED <<lockVars, permit, unlockRx, schedVars, recyclers, clock, cancels>>
      /\ UNCHANGED <<startTs, keys, commitTs, wakeups, schedLock>>
      /\ AcquireSlot(t) /\ ~Complete(t) /\ ~stale[t]
  <2>1. AcquireSlot(t)
    BY DEF Acquire, AcquireSlot
  <2>2. UNCHANGED <<lockVars, permit, unlockRx, schedVars, recyclers, clock, cancels>>
    BY DEF Acquire
  <2> QED
    BY <1>1, <2>1, <2>2 DEF lockVars, schedVars, Settled
<1>3. \/ /\ AcquireSuccess(t)
         /\ pc' = [pc EXCEPT ![t] = IF acquired[t] + 1 = Len(keys[t]) THEN "guard" ELSE "acquire"]
      \/ AcquireStale(t) /\ pc' = [pc EXCEPT ![t] = "guard"]
      \/ AcquireLocked(t) /\ pc' = [pc EXCEPT ![t] = "wait"]
  BY DEF Acquire
<1>4. pc' \in [Txns -> PcStates] /\ \A u \in Txns : u # t => pc'[u] = pc[u]
  BY <1>1, <1>3 DEF TypeOK, PcStates
<1>5. TypeOK'
  BY <1>1, <1>2, <1>4, AcquireTypes DEF TypeOK, lockVars, schedVars
<1>6. KeysInv'
  BY <1>1, <1>2, <1>3, <1>4 DEF KeysInv, Started, TypeOK
<1>7. RequestInv'
  <2>1. \A u \in Txns \ {t} : acquired'[u] = acquired[u] /\ stale'[u] = stale[u]
    <3>1. acquired \in [Txns -> Nat] /\ stale \in [Txns -> BOOLEAN]
      BY <1>1 DEF TypeOK
    <3> QED
      BY <1>2, <3>1 DEF AcquireSlot, AcquireStale, AcquireSuccess, AcquireLocked
  <2>2. /\ ~permit'[t] /\ commitTs'[t] = 0 /\ pc'[t] \in {"acquire", "guard", "wait"}
        /\ pc'[t] = "acquire" => ~Settled(t)'
        /\ pc'[t] = "guard" => Settled(t)'
    BY <1>1, <1>2, <1>3
      DEF AcquireStale, AcquireSuccess, AcquireLocked, TypeOK, RequestInv, Settled, Complete
  <2> QED
    BY <1>1, <1>2, <1>4, <2>1, <2>2 DEF RequestInv, Started, Parked, Settled, Complete
<1>8. UnlockInv'
  BY <1>1, <1>2, <1>4, UnlockFrame
<1>9. QueueInv' /\ WakeInv'
  <2>1. wakeups \in Seq(Txns) /\ Distinct(wakeups)
    BY DEF LatchInv, TypeOK, QueueInv
  <2>2. /\ \A i \in DOMAIN wakeups : wakeups[i] # t
        /\ \A s \in Slots : \A i \in DOMAIN waiting[s] : waiting[s][i] # t
    BY <1>1, NotQueued DEF Parked
  <2>3. AcquireLocked(t) => Parked(t)' /\ ~permit'[t]
    <3>1. AcquireLocked(t) => ~AcquireSuccess(t) /\ ~AcquireStale(t)
      BY DEF AcquireLocked, AcquireSuccess, AcquireStale
    <3>2. pc \in [Txns -> PcStates] /\ permit' = permit /\ ~permit[t]
      BY <1>1, <1>2 DEF TypeOK
    <3>3. AcquireLocked(t) => pc' = [pc EXCEPT ![t] = "wait"]
      BY <1>3, <3>1
    <3> QED
      BY <3>2, <3>3 DEF Parked
  <2>4. \A u \in Txns \ {t} : (Parked(u) => Parked(u)') /\ permit'[u] = permit[u]
    BY <1>2, <1>4 DEF Parked
  <2>6. Unqueued(t)
    BY <2>2 DEF Unqueued
  <2>5. Requeue(t)
    BY <1>2, <2>1, <2>2, <2>3, <2>4 DEF Requeue
  <2> QED
    BY <1>1, <1>2, <2>6, <2>5, AcquireQueue, AcquireWake
<1>10. BookInv'
  BY <1>1, <1>2, AcquireBook
<1> QED
  BY <1>5, <1>6, <1>7, <1>8, <1>9, <1>10 DEF LatchInv

----------------------------------------------------------------------------
(* The steps after the acquire loop, and those of the scheduler            *)

\* A step that only moves request t on, from a place where no queue holds it.
LEMMA MoveInv ==
  ASSUME LatchInv, NEW t \in Txns, ~Parked(t) \/ permit[t] \/ Parked(t)',
         Started(t), Started(t)', pc[t] # "done",
         pc' \in [Txns -> PcStates], \A u \in Txns \ {t} : pc'[u] = pc[u],
         \A u \in Txns \ {t} : permit'[u] = permit[u],
         UNCHANGED <<lockVars, acquired, stale, slotVars, wakeups, schedLock, recyclers, clock>>,
         Parked(t)' => Parked(t) /\ permit'[t] = permit[t]
  PROVE  /\ KeysInv' /\ QueueInv' /\ WakeInv' /\ BookInv'
         /\ unlockRx' = unlockRx => UnlockInv'
<1>1. TypeOK /\ KeysInv /\ UNCHANGED <<keys, startTs, value, maxCommitTs, waiting>>
  BY DEF LatchInv, lockVars, slotVars
<1>2. KeysInv'
  BY <1>1 DEF KeysInv, Started
<1>3. QueueInv' /\ WakeInv'
  <2>1. CASE ~Parked(t) \/ permit[t]
    <3>1. \A u \in Txns \ {t} : Parked(u) => Parked(u)'
      BY DEF Parked
    <3> QED
      BY <1>1, <2>1, <3>1, NotQueued, QueueFrame
  <2>2. CASE Parked(t)'
    <3>1. \A u \in Txns : (Parked(u) => Parked(u)') /\ permit'[u] = permit[u]
      BY <2>2 DEF Parked
    <3>2. /\ \A i \in DOMAIN wakeups : wakeups[i] \in Txns
          /\ \A s \in Slots : \A i \in DOMAIN waiting[s] : waiting[s][i] \in Txns
      BY <1>1, SMTT(20) DEF TypeOK
    <3> QED
      BY <1>1, <3>1, <3>2, QueueFrame
  <2> QED
    BY <2>1, <2>2
<1>4. \A r \in recyclers' : r[1] <= clock
  BY DEF LatchInv, BookInv, TimeInv
<1>5. BookInv'
  BY <1>1, <1>4, BookFrame
<1>6. unlockRx' = unlockRx => UnlockInv'
  BY UnlockFrame
<1> QED
  BY <1>2, <1>3, <1>5, <1>6

\* Sending a lock to the scheduler keeps the unlock channel right.
LEMMA DropGuardUnlock ==
  ASSUME LatchInv, NEW t \in Txns, pc[t] \in {"guard", "commit"}, DropGuard(t),
         UNCHANGED schedLock
  PROVE  /\ UnlockInv' /\ unlockRx' \in Seq(Txns) /\ pc' \in [Txns -> PcStates]
         /\ pc'[t] = "done" /\ \A u \in Txns \ {t} : pc'[u] = pc[u]
<1>1. TypeOK /\ UnlockInv /\ unlockRx \in Seq(Txns) /\ schedLock \in Txns \cup {NoTxn}
  BY DEF LatchInv, TypeOK
<1>2. /\ unlockRx' = Append(unlockRx, t) /\ pc' = [pc EXCEPT ![t] = "done"]
      /\ pc' \in [Txns -> PcStates] /\ unlockRx' \in Seq(Txns)
      /\ pc'[t] = "done" /\ \A u \in Txns \ {t} : pc'[u] = pc[u]
  BY <1>1, SMTT(20) DEF DropGuard, TypeOK, PcStates
<1>3. /\ Len(unlockRx) \in Nat /\ DOMAIN unlockRx = 1 .. Len(unlockRx)
      /\ DOMAIN unlockRx' = 1 .. Len(unlockRx) + 1
      /\ \A i \in 1 .. Len(unlockRx) : unlockRx'[i] = unlockRx[i] /\ unlockRx[i] \in Txns
      /\ unlockRx'[Len(unlockRx) + 1] = t
  BY <1>1, <1>2, SMTT(20)
<1>4. (\A i \in DOMAIN unlockRx : unlockRx[i] # t) /\ schedLock # t
  BY <1>1, ConstantAssumption DEF UnlockInv
<1>5. Distinct(unlockRx)'
  BY <1>1, <1>3, <1>4, SMTT(20) DEF UnlockInv, Distinct
<1>6. \A i \in DOMAIN unlockRx' : pc'[unlockRx'[i]] = "done" /\ unlockRx'[i] # schedLock
  BY <1>1, <1>2, <1>3, <1>4, SMTT(20) DEF UnlockInv
<1>7. schedLock # NoTxn => pc'[schedLock] = "done"
  BY <1>1, <1>2 DEF UnlockInv
<1> QED
  BY <1>2, <1>5, <1>6, <1>7 DEF UnlockInv

\* The wakeup of a request keeps the invariant.
LEMMA WokenInv ==
  ASSUME LatchInv, NEW t \in Txns, Woken(t)
  PROVE  LatchInv'
<1>1. TypeOK /\ RequestInv /\ pc[t] = "wait" /\ permit[t] /\ Settled(t) /\ commitTs[t] = 0
  BY DEF LatchInv, Woken, RequestInv
<1>2. /\ permit' = [permit EXCEPT ![t] = FALSE] /\ pc' = [pc EXCEPT ![t] = "guard"]
      /\ UNCHANGED <<lockVars, acquired, stale, slotVars, unlockRx, schedVars, recyclers,
                     clock, cancels>>
  BY DEF Woken
<1>3. /\ pc' \in [Txns -> PcStates] /\ pc'[t] = "guard" /\ \A u \in Txns \ {t} : pc'[u] = pc[u]
      /\ permit' \in [Txns -> BOOLEAN] /\ ~permit'[t]
      /\ \A u \in Txns \ {t} : permit'[u] = permit[u]
  BY <1>1, <1>2 DEF TypeOK, PcStates
<1>4. TypeOK'
  BY <1>1, <1>2, <1>3 DEF TypeOK, lockVars, slotVars, schedVars
<1>5. RequestInv'
  BY <1>1, <1>2, <1>3 DEF RequestInv, Started, Parked, Settled, Complete, lockVars
<1>6. KeysInv' /\ UnlockInv' /\ QueueInv' /\ WakeInv' /\ BookInv'
  <2>1. UNCHANGED <<wakeups, schedLock>> /\ Started(t) /\ Started(t)' /\ ~Parked(t)'
    BY <1>1, <1>2, <1>3 DEF schedVars, Started, Parked
  <2> QED
    BY <1>1, <1>2, <1>3, <2>1, MoveInv
<1> QED
  BY <1>4, <1>5, <1>6 DEF LatchInv

\* Looking at is_stale keeps the invariant.
LEMMA CheckStaleInv ==
  ASSUME LatchInv, NEW t \in Txns, CheckStale(t)
  PROVE  LatchInv'
<1>1. /\ TypeOK /\ RequestInv /\ pc[t] = "guard" /\ Settled(t) /\ commitTs[t] = 0 /\ ~permit[t]
  BY DEF LatchInv, CheckStale, RequestInv, Parked
<1>2. /\ UNCHANGED <<lockVars, acquired, stale, permit, slotVars, schedVars, recyclers,
                     clock, cancels>>
      /\ UNCHANGED <<wakeups, schedLock>>
  BY DEF CheckStale, schedVars
<1>3. /\ pc' \in [Txns -> PcStates] /\ pc'[t] \in {"done", "commit"}
      /\ unlockRx' \in Seq(Txns) /\ \A u \in Txns \ {t} : pc'[u] = pc[u]
      /\ pc'[t] = "commit" => ~stale[t] /\ unlockRx' = unlockRx
      /\ pc'[t] = "done" => UnlockInv'
  <2>1. CASE DropGuard(t)
    BY <1>1, <1>2, <2>1, DropGuardUnlock
  <2>2. CASE ~stale[t] /\ pc' = [pc EXCEPT ![t] = "commit"] /\ UNCHANGED unlockRx
    BY <1>1, <2>2 DEF TypeOK, PcStates
  <2> QED
    BY <2>1, <2>2 DEF CheckStale
<1>4. TypeOK'
  BY <1>1, <1>2, <1>3 DEF TypeOK, lockVars, slotVars, schedVars
<1>5. RequestInv'
  BY <1>1, <1>2, <1>3 DEF RequestInv, Started, Parked, Settled, Complete, lockVars
<1>6. KeysInv' /\ UnlockInv' /\ QueueInv' /\ WakeInv' /\ BookInv'
  <2>1. Started(t) /\ Started(t)' /\ ~Parked(t) /\ ~Parked(t)'
    BY <1>1, <1>3 DEF Started, Parked
  <2> QED
    BY <1>1, <1>2, <1>3, <2>1, MoveInv
<1> QED
  BY <1>4, <1>5, <1>6 DEF LatchInv

\* A failed commit keeps the invariant.
LEMMA CommitErrInv ==
  ASSUME LatchInv, NEW t \in Txns, CommitErr(t)
  PROVE  LatchInv'
<1>1. TypeOK /\ RequestInv /\ pc[t] = "commit" /\ commitTs[t] = 0 /\ ~permit[t]
  BY DEF LatchInv, CommitErr, RequestInv, Parked
<1>2. /\ UNCHANGED <<lockVars, acquired, stale, permit, slotVars, schedVars, recyclers,
                     clock, cancels>>
      /\ UNCHANGED <<wakeups, schedLock>> /\ DropGuard(t)
  BY DEF CommitErr, schedVars
<1>3. /\ UnlockInv' /\ unlockRx' \in Seq(Txns) /\ pc' \in [Txns -> PcStates]
      /\ pc'[t] = "done" /\ \A u \in Txns \ {t} : pc'[u] = pc[u]
  BY <1>1, <1>2, DropGuardUnlock
<1>4. TypeOK'
  BY <1>1, <1>2, <1>3 DEF TypeOK, lockVars, slotVars, schedVars
<1>5. RequestInv'
  BY <1>1, <1>2, <1>3 DEF RequestInv, Started, Parked, Settled, Complete, lockVars
<1>6. KeysInv' /\ QueueInv' /\ WakeInv' /\ BookInv'
  <2>1. Started(t) /\ Started(t)' /\ ~Parked(t) /\ ~Parked(t)'
    BY <1>1, <1>3 DEF Started, Parked
  <2> QED
    BY <1>1, <1>2, <1>3, <2>1, MoveInv
<1> QED
  BY <1>3, <1>4, <1>5, <1>6 DEF LatchInv

\* A commit() future dropped while lock() awaits keeps the invariant.
LEMMA CancelWaitInv ==
  ASSUME LatchInv, NEW t \in Txns, CancelWait(t)
  PROVE  LatchInv'
<1>1. TypeOK /\ RequestInv /\ pc[t] = "wait"
  BY DEF LatchInv, CancelWait
<1>2. /\ UNCHANGED <<lockVars, acquired, stale, permit, slotVars, unlockRx, schedVars,
                     recyclers, clock>>
      /\ UNCHANGED <<wakeups, schedLock>>
      /\ pc' = [pc EXCEPT ![t] = "cancelled"] /\ cancels < MaxCancels /\ cancels' = cancels + 1
  BY DEF CancelWait, schedVars
<1>3. /\ pc' \in [Txns -> PcStates] /\ pc'[t] = "cancelled"
      /\ \A u \in Txns \ {t} : pc'[u] = pc[u]
      /\ cancels' \in 0 .. MaxCancels
  BY <1>1, <1>2, ConstantAssumption, SMTT(20) DEF TypeOK, PcStates
<1>4. TypeOK'
  BY <1>1, <1>2, <1>3 DEF TypeOK, lockVars, slotVars, schedVars
<1>5. RequestInv'
  BY <1>1, <1>2, <1>3 DEF RequestInv, Started, Parked, Settled, Complete, lockVars
<1>6. KeysInv' /\ UnlockInv' /\ QueueInv' /\ WakeInv' /\ BookInv'
  <2>1. Started(t) /\ Started(t)' /\ Parked(t) /\ Parked(t)'
    BY <1>1, <1>3 DEF Started, Parked
  <2> QED
    BY <1>1, <1>2, <1>3, <2>1, MoveInv
<1> QED
  BY <1>4, <1>5, <1>6 DEF LatchInv

\* A successful commit keeps the invariant: it holds the latches of all its
\* keys, so nobody else has checked them.
LEMMA CommitOkInv ==
  ASSUME LatchInv, NEW t \in Txns, CommitOk(t)
  PROVE  LatchInv'
<1>1. /\ TypeOK /\ KeysInv /\ RequestInv /\ BookInv
      /\ pc[t] = "commit" /\ commitTs[t] = 0 /\ ~permit[t] /\ ~stale[t] /\ Complete(t)
  BY DEF LatchInv, CommitOk, RequestInv, Parked
<1>2. PICK ts \in Ts : /\ startTs[t] < ts /\ ts <= clock + 1
                       /\ commitTs' = [commitTs EXCEPT ![t] = ts] /\ clock' = MaxOf(clock, ts)
  BY DEF CommitOk
<1>3. /\ UNCHANGED <<startTs, keys, acquired, stale, permit, slotVars, schedVars, recyclers, cancels>>
      /\ UNCHANGED <<wakeups, schedLock, waiting, value, maxCommitTs>> /\ DropGuard(t)
  BY DEF CommitOk, slotVars, schedVars
<1>4. /\ UnlockInv' /\ unlockRx' \in Seq(Txns) /\ pc' \in [Txns -> PcStates]
      /\ pc'[t] = "done" /\ \A u \in Txns \ {t} : pc'[u] = pc[u]
  BY <1>1, <1>3, DropGuardUnlock
<1>5. Ts \subseteq Nat /\ ExpireDuration \in Nat /\ clock \in Ts /\ startTs[t] \in Ts
  BY <1>1, ConstantAssumption, SMTT(20) DEF TypeOK, Ts
<1>6. clock' \in Ts /\ clock' >= clock /\ ts <= clock'
  BY <1>2, <1>5, SMTT(20) DEF MaxOf
<1>7. commitTs' \in [Txns -> Ts] /\ commitTs'[t] = ts /\ \A u \in Txns \ {t} : commitTs'[u] = commitTs[u]
  BY <1>1, <1>2 DEF TypeOK
<1>8. TypeOK'
  BY <1>1, <1>3, <1>4, <1>6, <1>7 DEF TypeOK, slotVars, schedVars
<1>9. KeysInv' /\ RequestInv'
  BY <1>1, <1>3, <1>4, <1>7 DEF KeysInv, RequestInv, Started, Parked, Settled, Complete
<1>10. QueueInv' /\ WakeInv'
  <2>1. ~Parked(t) /\ \A u \in Txns \ {t} : Parked(u) => Parked(u)'
    BY <1>1, <1>4 DEF Parked
  <2> QED
    BY <1>3, <2>1, NotQueued, QueueFrame
<1>11. BookInv'
  <2>1. /\ \A u \in Txns : startTs[u] \in Nat /\ commitTs[u] \in Nat /\ commitTs'[u] \in Nat
        /\ clock \in Nat /\ clock' \in Nat /\ \A r \in recyclers : r[1] \in Nat
    <3>1. /\ startTs \in [Txns -> Ts] /\ commitTs \in [Txns -> Ts]
          /\ recyclers \subseteq Ts \X Slots
      BY <1>1 DEF TypeOK
    <3> QED
      BY <1>5, <1>6, <1>7, <3>1
  <2>2. TimeInv'
    BY <1>1, <1>3, <1>6, <1>7, <2>1, SMTT(20) DEF BookInv, TimeInv
  <2>3. OwnInv'
    BY <1>1, <1>3 DEF BookInv, OwnInv
  <2>4. \A u \in Txns : \A n \in Nat : commitTs[u] > n => u # t /\ commitTs'[u] = commitTs[u]
    BY <1>1, <1>7, <2>1, SMTT(20)
  <2>5. NodeInv'
    <3> SUFFICES ASSUME NEW k \in Keys, maxCommitTs[k] > 0
                 PROVE  \E u \in Txns : commitTs'[u] = maxCommitTs[k] /\ k \in KeysOf(u)
      BY <1>3 DEF NodeInv
    <3>1. PICK u \in Txns : commitTs[u] = maxCommitTs[k] /\ k \in KeysOf(u)
      BY <1>1 DEF BookInv, NodeInv
    <3> QED
      BY <2>4, <3>1
  <2>6. StaleIsJustified'
    BY <1>1, <1>3, <2>1, <2>4 DEF BookInv, StaleIsJustified
  <2>7. \A u \in Txns \ {t} : Old(u) => Old(u)'
    BY <1>5, <1>6, <1>7, <2>1, SMTT(20) DEF Old
  <2>8. \A u \in Txns : \A k : Holds(u, k)' <=> Holds(u, k)
    BY <1>3 DEF Holds
  <2>9. \A k \in KeysOf(t) : Holds(t, k)
    BY <1>1, KeysFacts DEF Complete, Holds, Started
  <2>10. RememberInv'
    BY <1>1, <1>3, <1>7, <2>7, <2>8, <2>9 DEF BookInv, RememberInv
  <2>11. CheckedInv'
    <3> SUFFICES ASSUME NEW x \in Txns, NEW u \in Txns, NEW k \in KeysOf(u), ~stale[x], x # u,
                        Holds(x, k), commitTs'[u] > startTs[x]
                 PROVE  Old(u)'
      BY <1>3, <2>8 DEF CheckedInv
    <3>1. u # t
      BY <2>9, HoldsFacts
    <3> QED
      BY <1>1, <1>7, <2>7, <3>1 DEF BookInv, CheckedInv
  <2> QED
    BY <2>2, <2>3, <2>5, <2>6, <2>10, <2>11 DEF BookInv
<1> QED
  BY <1>4, <1>8, <1>9, <1>10, <1>11 DEF LatchInv
----------------------------------------------------------------------------
(* The steps of the scheduler                                              *)

\* Steps of the scheduler that touch neither requests nor latches.
LEMMA SchedFrame ==
  ASSUME LatchInv, UNCHANGED <<pc, lockVars, acquired, stale, permit, value, waiting, wakeups,
                               maxCommitTs, clock>>,
         \A r \in recyclers' : r[1] <= clock
  PROVE  KeysInv' /\ RequestInv' /\ QueueInv' /\ WakeInv' /\ BookInv'
<1>1. UNCHANGED <<startTs, keys, commitTs>>
  BY DEF lockVars
<1>2. KeysInv' /\ RequestInv'
  BY <1>1 DEF LatchInv, KeysInv, RequestInv, Started, Parked, Settled, Complete
<1>3. /\ \A i \in DOMAIN wakeups : wakeups[i] \in Txns
      /\ \A s \in Slots : \A i \in DOMAIN waiting[s] : waiting[s][i] \in Txns
  BY SMTT(20) DEF LatchInv, TypeOK
<1>4. \A u \in Txns : Parked(u) => Parked(u)'
  BY DEF Parked
<1> QED
  BY <1>1, <1>2, <1>3, <1>4, BookFrame, QueueFrame

\* Receiving a lock to release keeps the invariant.
LEMMA RecvInv ==
  ASSUME LatchInv, Recv
  PROVE  LatchInv'
<1>1. TypeOK /\ UnlockInv /\ unlockRx \in Seq(Txns) /\ unlockRx # <<>> /\ schedPc = "recv"
  BY DEF LatchInv, TypeOK, Recv
<1>2. /\ schedLock' = Head(unlockRx) /\ unlockRx' = Tail(unlockRx) /\ schedPc' = "release"
      /\ UNCHANGED <<pc, lockVars, acquired, stale, permit, slotVars, wakeups, counter,
                     lastRecycle, recyclers, clock, cancels>>
      /\ UNCHANGED <<value, waiting, maxCommitTs>>
  BY DEF Recv, slotVars
<1>3. /\ Len(unlockRx) \in Nat \ {0} /\ DOMAIN unlockRx = 1 .. Len(unlockRx)
      /\ unlockRx' \in Seq(Txns) /\ DOMAIN unlockRx' = 1 .. Len(unlockRx) - 1
      /\ \A i \in 1 .. Len(unlockRx) - 1 : unlockRx'[i] = unlockRx[i + 1]
      /\ schedLock' = unlockRx[1] /\ schedLock' \in Txns /\ schedLock' # NoTxn
  <2>1. Len(unlockRx) \in Nat \ {0}
    BY <1>1, EmptySeq
  <2> QED
    BY <1>1, <1>2, <2>1, ConstantAssumption, SMTT(20)
<1>4. TypeOK'
  BY <1>1, <1>2, <1>3 DEF TypeOK, lockVars, slotVars
<1>5. UnlockInv'
  <2>1. Distinct(unlockRx) /\ \A i \in DOMAIN unlockRx : pc'[unlockRx[i]] = "done"
    BY <1>1, <1>2 DEF UnlockInv
  <2>2. \A i \in 1 .. Len(unlockRx) - 1 : i + 1 \in 1 .. Len(unlockRx) /\ i + 1 # 1
    BY <1>3, SMTT(20)
  <2>3. 1 \in 1 .. Len(unlockRx)
    BY <1>3, SMTT(20)
  <2>4. Distinct(unlockRx)'
    BY <1>3, <2>1, <2>2, SMTT(20) DEF Distinct
  <2>5. \A i \in DOMAIN unlockRx' : pc'[unlockRx'[i]] = "done" /\ unlockRx'[i] # schedLock'
    BY <1>3, <2>1, <2>2, <2>3, SMTT(20) DEF Distinct
  <2> QED
    BY <1>3, <2>1, <2>3, <2>4, <2>5 DEF UnlockInv
<1>6. KeysInv' /\ RequestInv' /\ QueueInv' /\ WakeInv' /\ BookInv'
  BY <1>2, SchedFrame DEF LatchInv, BookInv, TimeInv
<1> QED
  BY <1>4, <1>5, <1>6 DEF LatchInv

\* The end of the releases and the end of the wakeups keep the invariant.
LEMMA SchedMovesInv ==
  ASSUME LatchInv, Released \/ SchedDone
  PROVE  LatchInv'
<1>1. TypeOK /\ UnlockInv
  BY DEF LatchInv
<1>2. /\ UNCHANGED <<pc, lockVars, acquired, stale, permit, slotVars, unlockRx, wakeups,
                     clock, cancels>>
      /\ UNCHANGED <<value, waiting, maxCommitTs>>
  BY DEF Released, SchedDone, slotVars
<1>3. /\ recyclers' \subseteq Ts \X Slots /\ counter' \in Nat /\ lastRecycle' \in Ts
      /\ \A r \in recyclers' : r[1] <= clock
  <2>1. CASE Released
    BY <1>1, <2>1 DEF Released, LatchInv, TypeOK, BookInv, TimeInv
  <2>2. CASE SchedDone
    <3>1. schedLock \in Txns
      BY <1>1, <2>2 DEF SchedDone, TypeOK
    <3>2. commitTs[schedLock] \in Ts /\ commitTs[schedLock] <= clock /\ 0 \in Slots
      BY <3>1, ConstantAssumption, SMTT(20) DEF LatchInv, TypeOK, BookInv, TimeInv, Slots
    <3>3. /\ counter' \in Nat /\ lastRecycle' \in Ts
          /\ recyclers' \subseteq recyclers \cup {<<commitTs[schedLock], 0>>}
      BY <1>1, <2>2, <3>2, SMTT(20) DEF SchedDone, TypeOK
    <3>4. <<commitTs[schedLock], 0>> \in Ts \X Slots /\ <<commitTs[schedLock], 0>>[1] <= clock
      BY <3>2
    <3>5. recyclers \subseteq Ts \X Slots /\ \A r \in recyclers : r[1] <= clock
      BY DEF LatchInv, TypeOK, BookInv, TimeInv
    <3> QED
      BY <3>3, <3>4, <3>5
  <2> QED
    BY <2>1, <2>2
<1>4. TypeOK'
  BY <1>1, <1>2, <1>3 DEF TypeOK, lockVars, slotVars, Released, SchedDone
<1>5. UnlockInv'
  <2>1. CASE Released
    BY <1>2, <2>1, UnlockFrame DEF Released
  <2>2. CASE SchedDone
    <3>1. schedLock' = NoTxn /\ \A i \in DOMAIN unlockRx : unlockRx[i] \in Txns
      BY <1>1, <2>2, SMTT(20) DEF SchedDone, TypeOK
    <3> QED
      BY <1>1, <1>2, <3>1, ConstantAssumption DEF UnlockInv, Distinct
  <2> QED
    BY <2>1, <2>2
<1>6. KeysInv' /\ RequestInv' /\ QueueInv' /\ WakeInv' /\ BookInv'
  BY <1>2, <1>3, SchedFrame
<1> QED
  BY <1>4, <1>5, <1>6 DEF LatchInv

\* A recycle task only drops nodes that are old.
LEMMA RecycleInv ==
  ASSUME LatchInv, NEW r \in recyclers, Recycle(r)
  PROVE  LatchInv'
<1> DEFINE gone == Expired(r[2], r[1])
<1>1. TypeOK /\ KeysInv /\ RequestInv /\ UnlockInv /\ QueueInv /\ WakeInv /\ BookInv
  BY DEF LatchInv
<1>2. /\ present' = present \ gone /\ maxCommitTs' = Forget(gone)
      /\ recyclers' = (recyclers \ {r}) \cup (IF r[2] + 1 \in Slots THEN {<<r[1], r[2] + 1>>} ELSE {})
      /\ UNCHANGED <<pc, lockVars, acquired, stale, permit, value, waiting, unlockRx, schedVars,
                     clock, cancels>>
      /\ UNCHANGED <<startTs, keys, commitTs, wakeups, schedLock>>
  BY DEF Recycle, lockVars, schedVars
<1>3. r \in Ts \X Slots /\ r[1] \in Ts /\ r[1] <= clock
  BY <1>1 DEF TypeOK, BookInv, TimeInv
<1>4. gone \in SUBSET Keys /\ \A k \in gone : TsoSub(r[1], maxCommitTs[k]) >= ExpireDuration
  BY <1>1 DEF Expired, TypeOK
<1>5. /\ Forget(gone) \in [Keys -> Ts]
      /\ \A k \in Keys : Forget(gone)[k] <= maxCommitTs[k]
      /\ \A k \in Keys : Forget(gone)[k] > 0 =>
           \E u \in Txns : commitTs[u] = Forget(gone)[k] /\ k \in KeysOf(u)
      /\ \A u \in Txns : \A k \in KeysOf(u) :
           commitTs[u] = 0 \/ Holds(u, k) \/ Forget(gone)[k] >= commitTs[u] \/ Old(u)
  BY <1>3, <1>4, RecycleKeeps
<1> HIDE DEF gone
<1>6. /\ recyclers' \subseteq Ts \X Slots /\ \A x \in recyclers' : x[1] <= clock
  <2>1. r[2] + 1 \in Slots => /\ <<r[1], r[2] + 1>> \in Ts \X Slots
                              /\ <<r[1], r[2] + 1>>[1] <= clock
    BY <1>3
  <2>2. recyclers \subseteq Ts \X Slots /\ \A x \in recyclers : x[1] <= clock
    BY <1>1 DEF TypeOK, BookInv, TimeInv
  <2> QED
    BY <1>2, <2>1, <2>2
<1>7. TypeOK'
  BY <1>1, <1>2, <1>5, <1>6 DEF TypeOK, lockVars, schedVars
<1>8. KeysInv' /\ RequestInv' /\ UnlockInv' /\ QueueInv'
  BY <1>1, <1>2, SMTT(20) DEF KeysInv, RequestInv, UnlockInv, QueueInv, Distinct, Started, Parked, Settled,
                    Complete, Retried, Blocked, NextKey
<1>9. WakeInv'
  <2> SUFFICES ASSUME NEW s \in Slots, NEW i \in DOMAIN waiting[s],
                      value[NextKey(waiting[s][i])] = NoTxn
               PROVE  \E j \in DOMAIN wakeups :
                        /\ NextKey(wakeups[j]) = NextKey(waiting[s][i]) /\ ~stale[wakeups[j]]
                        /\ maxCommitTs'[NextKey(waiting[s][i])] <= startTs[wakeups[j]]
    BY <1>2 DEF WakeInv, NextKey
  <2>1. PICK j \in DOMAIN wakeups : /\ NextKey(wakeups[j]) = NextKey(waiting[s][i])
                                    /\ ~stale[wakeups[j]]
                                    /\ maxCommitTs[NextKey(waiting[s][i])] <= startTs[wakeups[j]]
    BY <1>1 DEF WakeInv
  <2>2. wakeups[j] \in Txns /\ startTs[wakeups[j]] \in Nat
    BY <1>1, SMTT(20) DEF TypeOK, Ts
  <2>3. waiting[s][i] \in Txns /\ ~Complete(waiting[s][i])
    BY <1>1, SMTT(20) DEF TypeOK, QueueInv, Blocked, Settled
  <2>4. NextKey(waiting[s][i]) \in Keys
    BY <2>3, NextKeyFacts
  <2>5. /\ maxCommitTs'[NextKey(waiting[s][i])] <= maxCommitTs[NextKey(waiting[s][i])]
        /\ maxCommitTs'[NextKey(waiting[s][i])] \in Nat /\ maxCommitTs[NextKey(waiting[s][i])] \in Nat
    BY <1>1, <1>2, <1>5, <2>4, SMTT(20) DEF TypeOK, Ts
  <2> QED
    BY <2>1, <2>2, <2>5, SMTT(20)
<1>10. BookInv'
  <2>1. \A u \in Txns : (Old(u)' <=> Old(u)) /\ \A k : Holds(u, k)' <=> Holds(u, k)
    BY <1>2 DEF Old, Holds
  <2>2. RememberInv'
    BY <1>2, <1>5, <2>1 DEF RememberInv
  <2>3. NodeInv'
    BY <1>2, <1>5 DEF NodeInv
  <2>4. OwnInv' /\ TimeInv' /\ StaleIsJustified'
    BY <1>1, <1>2, <1>6 DEF BookInv, OwnInv, TimeInv, StaleIsJustified
  <2>5. CheckedInv'
    BY <1>1, <1>2, <2>1 DEF BookInv, CheckedInv
  <2> QED
    BY <2>2, <2>3, <2>4, <2>5 DEF BookInv
<1> QED
  BY <1>7, <1>8, <1>9, <1>10 DEF LatchInv

\* Retrying a waiter keeps the invariant: it takes its latch, is found stale,
\* or waits in its slot again.
LEMMA WakeupInv ==
  ASSUME LatchInv, Wakeup
  PROVE  LatchInv'
<1>1. /\ TypeOK /\ KeysInv /\ RequestInv /\ UnlockInv /\ QueueInv /\ WakeInv /\ BookInv
      /\ wakeups \in Seq(Txns) /\ wakeups # <<>>
  BY DEF LatchInv, Wakeup, TypeOK
<1>2. /\ UNCHANGED <<pc, lockVars, unlockRx, schedPc, schedLock, counter, lastRecycle, recyclers,
                     clock, cancels>>
      /\ UNCHANGED <<startTs, keys, commitTs>>
  BY DEF Wakeup, lockVars
<1>3. /\ Len(wakeups) \in Nat \ {0} /\ DOMAIN wakeups = 1 .. Len(wakeups)
      /\ Head(wakeups) = wakeups[1] /\ wakeups[1] \in Txns
      /\ Tail(wakeups) \in Seq(Txns) /\ DOMAIN Tail(wakeups) = 1 .. Len(wakeups) - 1
      /\ \A i \in 1 .. Len(wakeups) - 1 : Tail(wakeups)[i] = wakeups[i + 1]
  <2>1. Len(wakeups) \in Nat \ {0}
    BY <1>1, EmptySeq
  <2> QED
    BY <1>1, <2>1, SMTT(20)
<1>w. PICK w \in Txns : w = wakeups[1] /\ w = Head(wakeups)
  BY <1>3
<1>4. 1 \in DOMAIN wakeups /\ Retried(w)
  <2>1. 1 \in DOMAIN wakeups
    BY <1>3, SMTT(20)
  <2> QED
    BY <1>1, <1>w, <2>1 DEF QueueInv
<1>5. \A s \in Slots : \A i \in DOMAIN waiting[s] : waiting[s][i] # w
  BY <1>1, <1>w, <1>4 DEF QueueInv
<1>6. /\ Distinct(Tail(wakeups))
      /\ \A j \in DOMAIN Tail(wakeups) : /\ \E h \in DOMAIN wakeups : Tail(wakeups)[j] = wakeups[h]
                                         /\ Tail(wakeups)[j] # w
      /\ \A h \in DOMAIN wakeups : wakeups[h] # w =>
           \E j \in DOMAIN Tail(wakeups) : Tail(wakeups)[j] = wakeups[h]
  <2>1. Distinct(wakeups)
    BY <1>1 DEF QueueInv
  <2>2. \A i \in 1 .. Len(wakeups) - 1 : i + 1 \in 1 .. Len(wakeups) /\ i + 1 # 1
    BY <1>3, SMTT(20)
  <2>3. Distinct(Tail(wakeups))
    BY <1>3, <2>1, <2>2, SMTT(20) DEF Distinct
  <2>4. \A j \in DOMAIN Tail(wakeups) : /\ \E h \in DOMAIN wakeups : Tail(wakeups)[j] = wakeups[h]
                                        /\ Tail(wakeups)[j] # w
    BY <1>3, <1>w, <1>4, <2>1, <2>2 DEF Distinct
  <2>5. ASSUME NEW h \in DOMAIN wakeups, wakeups[h] # w
        PROVE  \E j \in DOMAIN Tail(wakeups) : Tail(wakeups)[j] = wakeups[h]
    <3>1. h - 1 \in 1 .. Len(wakeups) - 1 /\ (h - 1) + 1 = h
      BY <1>3, <1>w, <2>5, SMTT(20)
    <3> QED
      BY <1>3, <3>1
  <2> QED
    BY <2>3, <2>4, <2>5
<1>7. UnlockInv'
  BY <1>2, UnlockFrame
<1>8. KeysInv'
  BY <1>1, <1>2 DEF KeysInv, Started
<1>9. Parked(w) /\ ~permit[w] /\ (stale[w] \/ ~Complete(w)) /\ pc[w] \in {"wait", "cancelled"}
  BY <1>4 DEF Retried, Parked
<1>10. CASE stale[w]
  <2>1. /\ permit' = [permit EXCEPT ![w] = TRUE] /\ wakeups' = Tail(wakeups)
        /\ UNCHANGED <<slotVars, acquired, stale>>
        /\ UNCHANGED <<present, maxCommitTs, value, waiting>>
    BY <1>w, <1>10 DEF Wakeup, Wake, slotVars
  <2>2. permit' \in [Txns -> BOOLEAN] /\ \A u \in Txns \ {w} : permit'[u] = permit[u]
    BY <1>1, <1>4, <2>1 DEF TypeOK
  <2>3. TypeOK'
    BY <1>1, <1>2, <1>3, <2>1, <2>2 DEF TypeOK, lockVars
  <2>4. RequestInv'
    BY <1>1, <1>2, <1>9, <1>10, <2>1, <2>2 DEF RequestInv, Started, Parked, Settled, Complete
  <2>5. BookInv'
    BY <1>1, <1>2, <2>1, BookFrame DEF BookInv, TimeInv
  <2>6. \A u \in Txns \ {w} : /\ NextKey(u)' = NextKey(u) /\ (Retried(u) => Retried(u)')
                              /\ \A s : Blocked(u, s) => Blocked(u, s)'
    BY <1>2, <2>1, <2>2 DEF NextKey, Retried, Blocked, Parked, Settled, Complete
  <2>7. /\ \A j \in DOMAIN wakeups' : wakeups'[j] \in Txns \ {w} /\ Retried(wakeups'[j])
        /\ \A s \in Slots : \A i \in DOMAIN waiting[s] : waiting[s][i] \in Txns \ {w}
    BY <1>1, <1>5, <1>6, <2>1, SMTT(20) DEF TypeOK, QueueInv
  <2>8. QueueInv'
    <3>1. Distinct(wakeups)' /\ \A j \in DOMAIN wakeups' : Retried(wakeups[j])'
      BY <1>6, <2>1, <2>6, <2>7 DEF Distinct
    <3>2. ASSUME NEW s \in Slots, NEW i \in DOMAIN waiting'[s]
          PROVE  /\ Blocked(waiting[s][i], s)'
                 /\ \A j \in DOMAIN wakeups' : waiting'[s][i] # wakeups'[j]
      <4>1. i \in DOMAIN waiting[s] /\ waiting'[s][i] = waiting[s][i]
        BY <2>1
      <4>2. PICK u \in Txns \ {w} : u = waiting[s][i]
        BY <2>7, <4>1
      <4>3. Blocked(u, s) /\ \A h \in DOMAIN wakeups : u # wakeups[h]
        BY <1>1, <4>1, <4>2 DEF QueueInv
      <4>4. \A j \in DOMAIN wakeups' : u # wakeups'[j]
        BY <1>6, <2>1, <4>3
      <4>5. Blocked(waiting[s][i], s)'
        BY <2>6, <4>1, <4>2, <4>3 DEF Blocked, Parked, Settled, Complete, NextKey
      <4> QED
        BY <4>1, <4>2, <4>4, <4>5
    <3>3. \A s \in Slots : Distinct(waiting[s])'
      BY <1>1, <2>1 DEF QueueInv, Distinct
    <3> QED
      BY <3>1, <3>2, <3>3 DEF QueueInv
  <2>9. WakeInv'
    <3> SUFFICES ASSUME NEW s \in Slots, NEW i \in DOMAIN waiting'[s],
                        value'[NextKey(waiting[s][i])'] = NoTxn
                 PROVE  \E j \in DOMAIN wakeups' :
                          /\ NextKey(wakeups[j])' = NextKey(waiting[s][i])' /\ ~stale'[wakeups'[j]]
                          /\ maxCommitTs'[NextKey(waiting[s][i])'] <= startTs'[wakeups'[j]]
      BY DEF WakeInv
    <3>4. /\ i \in DOMAIN waiting[s] /\ NextKey(waiting[s][i])' = NextKey(waiting[s][i])
          /\ value[NextKey(waiting[s][i])] = NoTxn
      BY <1>2, <2>1 DEF NextKey
    <3>1. PICK h \in DOMAIN wakeups : /\ NextKey(wakeups[h]) = NextKey(waiting[s][i])
                                      /\ ~stale[wakeups[h]]
                                      /\ maxCommitTs[NextKey(waiting[s][i])] <= startTs[wakeups[h]]
      BY <1>1, <3>4 DEF WakeInv
    <3>2. PICK j \in DOMAIN wakeups' : wakeups'[j] = wakeups[h]
      BY <1>6, <1>10, <2>1, <3>1
    <3>3. NextKey(wakeups[j])' = NextKey(wakeups[h])
      BY <1>2, <2>1, <3>2 DEF NextKey
    <3> QED
      BY <1>2, <2>1, <3>1, <3>2, <3>3, <3>4
  <2> QED
    BY <1>7, <1>8, <2>3, <2>4, <2>5, <2>8, <2>9 DEF LatchInv
<1>11. CASE ~stale[w]
  <2>1. ~Complete(w) /\ ~Settled(w)
    BY <1>9, <1>11 DEF Settled
  <2>2. \/ AcquireStale(w) /\ Wake(w)
        \/ AcquireSuccess(w) /\ acquired[w] + 1 = Len(keys[w]) /\ Wake(w)
        \/ AcquireSuccess(w) /\ acquired[w] + 1 # Len(keys[w]) /\ UNCHANGED <<permit, wakeups>>
        \/ AcquireLocked(w) /\ wakeups' = Tail(wakeups) /\ UNCHANGED permit
    BY <1>w, <1>11 DEF Wakeup
  <2>3. AcquireSlot(w)
    BY <2>2 DEF AcquireSlot
  <2>4. /\ permit' \in [Txns -> BOOLEAN] /\ \A u \in Txns \ {w} : permit'[u] = permit[u]
        /\ wakeups' = Tail(wakeups) \/ wakeups' = wakeups
    BY <1>1, <1>4, <2>2 DEF TypeOK, Wake
  <2>5. acquired \in [Txns -> Nat] /\ stale \in [Txns -> BOOLEAN]
    BY <1>1 DEF TypeOK
  <2>6. /\ \A u \in Txns \ {w} : acquired'[u] = acquired[u] /\ stale'[u] = stale[u]
        /\ AcquireSuccess(w) => acquired'[w] = acquired[w] + 1 /\ ~stale'[w]
        /\ AcquireStale(w) => stale'[w]
        /\ AcquireLocked(w) => acquired'[w] = acquired[w] /\ ~stale'[w]
    BY <1>4, <1>11, <2>3, <2>5 DEF AcquireSlot, AcquireStale, AcquireSuccess, AcquireLocked
  <2>7. TypeOK'
    BY <1>1, <1>2, <1>3, <1>4, <2>1, <2>3, <2>4, AcquireTypes DEF TypeOK, lockVars
  <2>8. permit'[w] => Settled(w)'
    BY <1>2, <1>4, <1>9, <2>2, <2>6 DEF Settled, Complete, Wake
  <2>9. RequestInv'
    BY <1>1, <1>2, <1>9, <2>4, <2>6, <2>8 DEF RequestInv, Started, Parked, Settled, Complete
  <2>10. BookInv'
    BY <1>2, <1>4, <2>1, <2>3, AcquireBook
  <2>11. QueueInv' /\ WakeInv'
    <3>1. wakeups' \in Seq(Txns) /\ Distinct(wakeups')
      BY <1>1, <1>3, <1>6, <2>4 DEF QueueInv
    <3>2. /\ \A j \in DOMAIN wakeups' : \E h \in DOMAIN wakeups : wakeups'[j] = wakeups[h]
          /\ \A h \in DOMAIN wakeups : wakeups[h] # w =>
               \E j \in DOMAIN wakeups' : wakeups'[j] = wakeups[h]
      BY <1>6, <2>4
    <3>3. AcquireLocked(w) => Parked(w)' /\ ~permit'[w] /\ wakeups' = Tail(wakeups)
      BY <1>2, <1>9, <2>2 DEF Parked, AcquireLocked, AcquireSuccess, AcquireStale
    <3>4. ASSUME wakeups' # Tail(wakeups) PROVE Retried(w)' /\ ~AcquireLocked(w)
      <4>1. AcquireSuccess(w) /\ acquired[w] + 1 # Len(keys[w]) /\ UNCHANGED permit
        BY <2>2, <3>4 DEF Wake
      <4> QED
        BY <1>2, <1>9, <2>6, <3>3, <3>4, <4>1 DEF Retried, Parked, Complete
    <3>5. \A j \in DOMAIN wakeups' : wakeups'[j] = w => Retried(w)' /\ ~AcquireLocked(w)
      BY <1>6, <3>4
    <3>6. \A u \in Txns \ {w} : (Parked(u) => Parked(u)') /\ permit'[u] = permit[u]
      BY <1>2, <2>4 DEF Parked
    <3>8. Unqueued(w)
      BY <1>5 DEF Unqueued
    <3>7. Requeue(w)
      BY <1>2, <3>1, <3>2, <3>3, <3>5, <3>6 DEF Requeue
    <3> QED
      BY <1>5, <2>1, <2>3, <3>7, <3>8, AcquireQueue, AcquireWake
  <2> QED
    BY <1>7, <1>8, <2>7, <2>9, <2>10, <2>11 DEF LatchInv
<1> QED
  BY <1>10, <1>11
----------------------------------------------------------------------------
(* release_slot                                                            *)

\* The latch that release_slot gives up belongs to the lock it releases.
LEMMA ReleaseFacts ==
  ASSUME LatchInv, NEW l \in Txns, schedLock = l, acquired[l] > 0,
         NEW k, k = keys[l][acquired[l]]
  PROVE  /\ pc[l] = "done" /\ ~Parked(l) /\ ~permit[l]
         /\ k \in Keys /\ k \in KeysOf(l) /\ value[k] = l /\ SlotOf[k] \in Slots
         /\ acquired[l] \in Nat /\ acquired[l] <= Len(keys[l])
         /\ \A i \in 1 .. acquired[l] - 1 : keys[l][i] # k
         /\ \A u \in Txns \ {l} : ~Holds(u, k)
<1>1. TypeOK /\ KeysInv /\ UnlockInv /\ RequestInv
  BY DEF LatchInv
<1>2. pc[l] = "done" /\ ~Parked(l) /\ ~permit[l]
  BY <1>1, ConstantAssumption DEF UnlockInv, Parked, RequestInv
<1>3. acquired[l] \in Nat /\ acquired[l] <= Len(keys[l]) /\ Len(keys[l]) \in Nat
  BY <1>1, KeysFacts DEF TypeOK
<1>4. acquired[l] \in 1 .. acquired[l] /\ acquired[l] \in 1 .. Len(keys[l])
  BY <1>3, SMTT(20)
<1>5. Holds(l, k)
  BY <1>4 DEF Holds
<1>6. value[k] = l /\ k \in Keys /\ k \in KeysOf(l)
  BY <1>5, HoldsFacts
<1>7. \A i \in 1 .. acquired[l] - 1 : i \in 1 .. Len(keys[l]) /\ i # acquired[l]
  BY <1>3, SMTT(20)
<1>8. \A i \in 1 .. acquired[l] - 1 : keys[l][i] # k
  BY <1>1, <1>4, <1>7, KeysFacts
<1>9. \A u \in Txns \ {l} : ~Holds(u, k)
  BY <1>6, HoldsFacts
<1> QED
  BY <1>2, <1>3, <1>6, <1>8, <1>9, ConstantAssumption

\* The node remembers the newest commit: nothing it knew is lost.
LEMMA ReleaseNode ==
  ASSUME LatchInv, NEW l \in Txns, NEW k \in Keys, k \in KeysOf(l), UNCHANGED commitTs,
         maxCommitTs' = [maxCommitTs EXCEPT ![k] = MaxOf(maxCommitTs[k], commitTs[l])]
  PROVE  /\ maxCommitTs' \in [Keys -> Ts] /\ NodeInv'
         /\ \A m \in Keys \ {k} : maxCommitTs'[m] = maxCommitTs[m]
         /\ maxCommitTs'[k] = MaxOf(maxCommitTs[k], commitTs[l])
         /\ maxCommitTs'[k] >= commitTs[l] /\ maxCommitTs'[k] >= maxCommitTs[k]
<1>1. /\ maxCommitTs \in [Keys -> Ts] /\ commitTs \in [Txns -> Ts] /\ Ts \subseteq Nat
      /\ NodeInv
  BY SMTT(20) DEF LatchInv, TypeOK, Ts, BookInv
<1>2. /\ maxCommitTs' \in [Keys -> Ts] /\ \A m \in Keys \ {k} : maxCommitTs'[m] = maxCommitTs[m]
      /\ maxCommitTs'[k] = MaxOf(maxCommitTs[k], commitTs[l])
  BY <1>1 DEF MaxOf
<1>3. maxCommitTs[k] \in Nat /\ commitTs[l] \in Nat
  BY <1>1
<1>4. /\ maxCommitTs'[k] >= commitTs[l] /\ maxCommitTs'[k] >= maxCommitTs[k]
      /\ maxCommitTs'[k] \in {maxCommitTs[k], commitTs[l]}
  BY <1>2, <1>3, SMTT(20) DEF MaxOf
<1>5. NodeInv'
  BY <1>1, <1>2, <1>4 DEF NodeInv
<1> QED
  BY <1>2, <1>4, <1>5

\* Releasing a latch to nobody keeps the bookkeeping right.
LEMMA ReleaseFreeBook ==
  ASSUME LatchInv, NEW l \in Txns, schedLock = l, acquired[l] > 0,
         NEW k, k = keys[l][acquired[l]],
         UNCHANGED <<startTs, keys, commitTs, stale, recyclers, clock>>,
         maxCommitTs' = [maxCommitTs EXCEPT ![k] = MaxOf(maxCommitTs[k], commitTs[l])],
         acquired' = [acquired EXCEPT ![l] = acquired[l] - 1],
         value' = [value EXCEPT ![k] = NoTxn]
  PROVE  BookInv'
<1>1. /\ k \in Keys /\ k \in KeysOf(l) /\ value[k] = l /\ acquired[l] \in Nat
      /\ \A i \in 1 .. acquired[l] - 1 : keys[l][i] # k
      /\ \A u \in Txns \ {l} : ~Holds(u, k)
  BY ReleaseFacts, SMTT(20)
<1>2. /\ NodeInv' /\ \A m \in Keys \ {k} : maxCommitTs'[m] = maxCommitTs[m]
      /\ maxCommitTs'[k] >= commitTs[l] /\ maxCommitTs'[k] >= maxCommitTs[k]
      /\ maxCommitTs' \in [Keys -> Ts]
  BY <1>1, ReleaseNode
<1>3. TypeOK /\ KeysInv /\ BookInv
  BY DEF LatchInv
<1>4. /\ acquired'[l] = acquired[l] - 1 /\ \A u \in Txns \ {l} : acquired'[u] = acquired[u]
      /\ \A m \in Keys \ {k} : value'[m] = value[m]
  BY <1>3 DEF TypeOK
<1>5. \A u \in Txns, m \in Keys : (u # l \/ m # k) => (Holds(u, m)' <=> Holds(u, m))
  <2>1. \A u \in Txns \ {l} : \A m \in Keys : Holds(u, m)' <=> Holds(u, m)
    BY <1>4 DEF Holds
  <2>2. ASSUME NEW m \in Keys, m # k PROVE Holds(l, m)' <=> Holds(l, m)
    <3>1. 1 .. acquired[l] = (1 .. acquired[l] - 1) \cup {acquired[l]}
      BY <1>1, SMTT(20)
    <3> QED
      BY <1>4, <2>2, <3>1 DEF Holds
  <2> QED
    BY <2>1, <2>2
<1>6. ~Holds(l, k)'
  BY <1>1, <1>4 DEF Holds
<1>7. \A u \in Txns : KeysOf(u) \subseteq Keys
  BY KeysOfType
<1>8. \A u \in Txns : \A m : Holds(u, m) => m \in Keys
  BY HoldsFacts
<1>9. \A u \in Txns : Old(u)' <=> Old(u)
  BY DEF Old
<1>10. OwnInv'
  <2> SUFFICES ASSUME NEW u \in Txns, NEW i \in 1 .. acquired'[u]
               PROVE  value'[keys[u][i]] = u
    BY DEF OwnInv
  <2>1. i \in 1 .. acquired[u] /\ keys[u][i] # k
    <3>1. CASE u = l
      BY <1>1, <1>4, <3>1, SMTT(20)
    <3>2. CASE u # l
      BY <1>1, <1>4, <3>2, SMTT(20) DEF Holds
    <3> QED
      BY <3>1, <3>2
  <2>2. Holds(u, keys[u][i]) /\ value[keys[u][i]] = u
    BY <1>3, <2>1 DEF Holds, BookInv, OwnInv
  <2> QED
    BY <1>4, <1>8, <2>1, <2>2
<1>11. RememberInv'
  <2> SUFFICES ASSUME NEW u \in Txns, NEW m \in KeysOf(u)
               PROVE  commitTs[u] = 0 \/ Holds(u, m)' \/ maxCommitTs'[m] >= commitTs[u] \/ Old(u)
    BY <1>9 DEF RememberInv
  <2>1. commitTs[u] = 0 \/ Holds(u, m) \/ maxCommitTs[m] >= commitTs[u] \/ Old(u)
    BY <1>3 DEF BookInv, RememberInv
  <2>2. /\ m \in Keys /\ maxCommitTs[m] \in Nat /\ maxCommitTs'[m] \in Nat /\ commitTs[u] \in Nat
        /\ maxCommitTs'[m] >= maxCommitTs[m]
    <3>1. Ts \subseteq Nat
      BY ConstantAssumption, SMTT(20) DEF Ts
    <3>2. m \in Keys /\ maxCommitTs[m] \in Nat /\ maxCommitTs'[m] \in Nat /\ commitTs[u] \in Nat
      BY <1>2, <1>3, <1>7, <3>1 DEF TypeOK
    <3> QED
      BY <1>2, <3>2, SMTT(20)
  <2>3. CASE u = l /\ m = k
    BY <1>2, <2>3
  <2>4. CASE u # l \/ m # k
    BY <1>5, <2>1, <2>2, <2>4, SMTT(20)
  <2> QED
    BY <2>3, <2>4
<1>12. CheckedInv'
  BY <1>3, <1>5, <1>6, <1>7, <1>9 DEF BookInv, CheckedInv
<1>13. TimeInv' /\ StaleIsJustified'
  BY <1>3 DEF BookInv, TimeInv, StaleIsJustified
<1> QED
  BY <1>2, <1>10, <1>11, <1>12, <1>13 DEF BookInv

\* Giving the latch to a waiter that is stale by now keeps the bookkeeping right.
LEMMA ReleaseGiveBook ==
  ASSUME LatchInv, NEW l \in Txns, schedLock = l, acquired[l] > 0,
         NEW k, k = keys[l][acquired[l]],
         UNCHANGED <<startTs, keys, commitTs, recyclers, clock>>,
         maxCommitTs' = [maxCommitTs EXCEPT ![k] = MaxOf(maxCommitTs[k], commitTs[l])],
         NEW w \in Txns, w # l, ~Complete(w), NextKey(w) = k,
         MaxOf(maxCommitTs[k], commitTs[l]) > startTs[w],
         stale'[w], \A u \in Txns \ {w} : stale'[u] = stale[u],
         acquired'[l] = acquired[l] - 1, acquired'[w] = acquired[w] + 1,
         \A u \in Txns \ {l, w} : acquired'[u] = acquired[u],
         value' = [value EXCEPT ![k] = w]
  PROVE  BookInv'
<1>1. /\ k \in Keys /\ k \in KeysOf(l) /\ value[k] = l /\ acquired[l] \in Nat
      /\ \A i \in 1 .. acquired[l] - 1 : keys[l][i] # k
      /\ \A u \in Txns \ {l} : ~Holds(u, k)
  BY ReleaseFacts
<1>2. /\ NodeInv' /\ \A m \in Keys \ {k} : maxCommitTs'[m] = maxCommitTs[m]
      /\ maxCommitTs'[k] >= commitTs[l] /\ maxCommitTs'[k] >= maxCommitTs[k]
      /\ maxCommitTs' \in [Keys -> Ts] /\ maxCommitTs'[k] > startTs[w]
  BY <1>1, ReleaseNode
<1>3. TypeOK /\ KeysInv /\ BookInv /\ acquired[w] \in Nat /\ k \in KeysOf(w)
  BY NextKeyFacts DEF LatchInv
<1>4. (\A m \in Keys \ {k} : value'[m] = value[m]) /\ value'[k] = w
  BY <1>1, <1>3 DEF TypeOK
<1>5. \A u \in Txns, m \in Keys : (u # l \/ m # k) /\ Holds(u, m) => Holds(u, m)'
  <2> SUFFICES ASSUME NEW u \in Txns, NEW m \in Keys, u # l \/ m # k, NEW i \in 1 .. acquired[u],
                      keys[u][i] = m
               PROVE  i \in 1 .. acquired'[u]
    BY DEF Holds
  <2>1. acquired[u] \in Nat
    BY <1>3 DEF TypeOK
  <2>2. CASE u = l
    <3>1. i # acquired[l]
      BY <2>2
    <3> QED
      BY <1>1, <2>2, <3>1, SMTT(20)
  <2>3. CASE u # l
    BY <1>3, <2>1, <2>3, SMTT(20)
  <2> QED
    BY <2>2, <2>3
<1>6. \A u \in Txns \ {w} : \A m \in Keys : Holds(u, m)' => Holds(u, m)
  BY <1>1, SMTT(20) DEF Holds
<1>7. \A u \in Txns : KeysOf(u) \subseteq Keys
  BY KeysOfType
<1>8. \A u \in Txns : \A m : Holds(u, m) => m \in Keys
  BY HoldsFacts
<1>9. \A u \in Txns : Old(u)' <=> Old(u)
  BY DEF Old
<1>10. OwnInv'
  <2> SUFFICES ASSUME NEW u \in Txns, NEW i \in 1 .. acquired'[u]
               PROVE  value'[keys[u][i]] = u
    BY DEF OwnInv
  <2>1. CASE u = w /\ i = acquired[w] + 1
    BY <1>4, <2>1 DEF NextKey
  <2>2. CASE ~(u = w /\ i = acquired[w] + 1)
    <3>1. i \in 1 .. acquired[u] /\ keys[u][i] # k
      <4>1. CASE u = l
        BY <1>1, <4>1, SMTT(20)
      <4>2. CASE u # l
        <5>1. i \in 1 .. acquired[u]
          BY <1>3, <2>2, <4>2, SMTT(20)
        <5> QED
          BY <1>1, <4>2, <5>1 DEF Holds
      <4> QED
        BY <4>1, <4>2
    <3>2. Holds(u, keys[u][i]) /\ value[keys[u][i]] = u
      BY <1>3, <3>1 DEF Holds, BookInv, OwnInv
    <3> QED
      BY <1>4, <1>8, <3>1, <3>2
  <2> QED
    BY <2>1, <2>2
<1>11. RememberInv'
  <2> SUFFICES ASSUME NEW u \in Txns, NEW m \in KeysOf(u)
               PROVE  commitTs[u] = 0 \/ Holds(u, m)' \/ maxCommitTs'[m] >= commitTs[u] \/ Old(u)
    BY <1>9 DEF RememberInv
  <2>1. commitTs[u] = 0 \/ Holds(u, m) \/ maxCommitTs[m] >= commitTs[u] \/ Old(u)
    BY <1>3 DEF BookInv, RememberInv
  <2>2. /\ m \in Keys /\ maxCommitTs[m] \in Nat /\ maxCommitTs'[m] \in Nat /\ commitTs[u] \in Nat
        /\ maxCommitTs'[m] >= maxCommitTs[m]
    <3>1. Ts \subseteq Nat
      BY ConstantAssumption, SMTT(20) DEF Ts
    <3>2. m \in Keys /\ maxCommitTs[m] \in Nat /\ maxCommitTs'[m] \in Nat /\ commitTs[u] \in Nat
      BY <1>2, <1>3, <1>7, <3>1 DEF TypeOK
    <3> QED
      BY <1>2, <3>2, SMTT(20)
  <2>3. CASE u = l /\ m = k
    BY <1>2, <2>3
  <2>4. CASE u # l \/ m # k
    BY <1>5, <2>1, <2>2, <2>4, SMTT(20)
  <2> QED
    BY <2>3, <2>4
<1>12. CheckedInv'
  BY <1>3, <1>6, <1>7, <1>9 DEF BookInv, CheckedInv
<1>13. StaleIsJustified'
  <2>1. PICK u \in Txns : commitTs[u] = maxCommitTs'[k] /\ k \in KeysOf(u)
    <3>1. maxCommitTs'[k] > 0
      BY <1>1, <1>2, <1>3, SMTT(20) DEF TypeOK, Ts
    <3> QED
      BY <1>1, <1>2, <3>1 DEF NodeInv
  <2>2. commitTs[u] > startTs[w] /\ KeysOf(w) \cap KeysOf(u) # {}
    BY <1>2, <1>3, <2>1
  <2> QED
    BY <1>3, <2>2 DEF BookInv, StaleIsJustified
<1>14. TimeInv'
  BY <1>3 DEF BookInv, TimeInv
<1> QED
  BY <1>2, <1>10, <1>11, <1>12, <1>13, <1>14 DEF BookInv

\* Taking one waiter out of a slot keeps the others.
LEMMA WithoutFacts ==
  ASSUME NEW S, NEW q \in Seq(S), NEW i \in DOMAIN q, Distinct(q)
  PROVE  /\ Without(q, i) \in Seq(S) /\ Distinct(Without(q, i))
         /\ \A j \in DOMAIN Without(q, i) :
              \E h \in DOMAIN q : Without(q, i)[j] = q[h] /\ q[h] # q[i]
<1> DEFINE r == Without(q, i)
<1>1. Len(q) \in Nat /\ DOMAIN q = 1 .. Len(q) /\ \A j \in 1 .. Len(q) : q[j] \in S
  BY SMTT(20)
<1>2. /\ r = [j \in 1 .. Len(q) - 1 |-> IF j < i THEN q[j] ELSE q[j + 1]]
      /\ DOMAIN r = 1 .. Len(q) - 1
      /\ \A j \in 1 .. Len(q) - 1 : r[j] = IF j < i THEN q[j] ELSE q[j + 1]
  BY DEF Without
<1>3. Len(q) - 1 \in Nat
  BY <1>1, SMTT(20)
<1>4. \A j \in 1 .. Len(q) - 1 : j \in 1 .. Len(q) /\ j + 1 \in 1 .. Len(q)
  BY <1>1, SMTT(20)
<1>5. r \in [1 .. Len(q) - 1 -> S]
  BY <1>1, <1>2, <1>4
<1>6. r \in Seq(S)
  BY <1>3, <1>5, SMTT(20)
<1>7. ASSUME NEW a \in 1 .. Len(q) - 1, NEW b \in 1 .. Len(q) - 1, r[a] = r[b]
      PROVE  a = b
  <2> DEFINE f(x) == IF x < i THEN x ELSE x + 1
  <2>1. r[a] = q[f(a)] /\ r[b] = q[f(b)] /\ f(a) \in DOMAIN q /\ f(b) \in DOMAIN q
    BY <1>1, <1>2, <1>4
  <2>2. f(a) = f(b)
    BY <1>7, <2>1 DEF Distinct
  <2> QED
    BY <1>1, <2>2, SMTT(20)
<1>8. ASSUME NEW j \in 1 .. Len(q) - 1
      PROVE  \E h \in DOMAIN q : r[j] = q[h] /\ q[h] # q[i]
  <2>1. CASE j < i
    BY <1>1, <1>2, <1>4, <2>1, SMTT(20) DEF Distinct
  <2>2. CASE ~(j < i)
    <3>1. j + 1 \in DOMAIN q /\ j + 1 # i /\ r[j] = q[j + 1]
      BY <1>1, <1>2, <1>4, <2>2, SMTT(20)
    <3> QED
      BY <3>1 DEF Distinct
  <2> QED
    BY <2>1, <2>2
<1> QED
  BY <1>2, <1>6, <1>7, <1>8 DEF Distinct

\* release_slot gives up latch k of l and moves waiter w, the i-th of its slot,
\* to the wakeups: w has been given the latch, or no newer commit stops it.
Handover(l, k, i, w) ==
  /\ UNCHANGED <<pc, permit, startTs, keys, commitTs>>
  /\ maxCommitTs' = [maxCommitTs EXCEPT ![k] = MaxOf(maxCommitTs[k], commitTs[l])]
  /\ i \in DOMAIN waiting[SlotOf[k]] /\ w = waiting[SlotOf[k]][i] /\ NextKey(w) = k
  /\ waiting' = [waiting EXCEPT ![SlotOf[k]] = Without(waiting[SlotOf[k]], i)]
  /\ wakeups' = Append(wakeups, w)
  /\ \A u \in Txns \ {w} : stale'[u] = stale[u]
  /\ \A u \in Txns \ {l, w} : acquired'[u] = acquired[u]
  /\ \A m \in Keys \ {k} : value'[m] = value[m]
  /\ \/ stale'[w] /\ value'[k] = w
     \/ /\ stale'[w] = stale[w] /\ acquired'[w] = acquired[w]
        /\ MaxOf(maxCommitTs[k], commitTs[l]) <= startTs[w]

\* Moving the first waiter of the released key to the wakeups keeps the queues.
LEMMA ReleaseQueue ==
  ASSUME LatchInv, NEW l \in Txns, schedLock = l, acquired[l] > 0,
         NEW k, k = keys[l][acquired[l]], NEW i0, NEW w \in Txns, Handover(l, k, i0, w)
  PROVE  /\ QueueInv' /\ WakeInv' /\ wakeups' \in Seq(Txns) /\ waiting' \in [Slots -> Seq(Txns)]
<1>k. /\ k \in Keys /\ k \in KeysOf(l) /\ SlotOf[k] \in Slots /\ ~Parked(l)
  BY ReleaseFacts
<1>s. PICK s0 \in Slots : s0 = SlotOf[k]
  BY <1>k
<1>1. /\ UNCHANGED <<pc, permit, startTs, keys, commitTs>>
      /\ i0 \in DOMAIN waiting[s0] /\ w = waiting[s0][i0] /\ NextKey(w) = k
      /\ waiting' = [waiting EXCEPT ![s0] = Without(waiting[s0], i0)]
      /\ wakeups' = Append(wakeups, w)
      /\ \A u \in Txns \ {w} : stale'[u] = stale[u]
      /\ \A u \in Txns \ {l, w} : acquired'[u] = acquired[u]
      /\ \A m \in Keys \ {k} : value'[m] = value[m]
      /\ \/ stale'[w] /\ value'[k] = w
         \/ /\ stale'[w] = stale[w] /\ acquired'[w] = acquired[w]
            /\ MaxOf(maxCommitTs[k], commitTs[l]) <= startTs[w]
  BY <1>s DEF Handover
<1>2. /\ \A m \in Keys \ {k} : maxCommitTs'[m] = maxCommitTs[m]
      /\ maxCommitTs'[k] = MaxOf(maxCommitTs[k], commitTs[l])
  BY <1>k, <1>1, ReleaseNode DEF Handover
<1>3. TypeOK /\ QueueInv /\ WakeInv
  BY DEF LatchInv
<1>4. /\ wakeups \in Seq(Txns) /\ waiting \in [Slots -> Seq(Txns)]
      /\ \A s \in Slots : waiting[s] \in Seq(Txns)
  BY <1>3 DEF TypeOK
<1>5. /\ Len(wakeups) \in Nat /\ DOMAIN wakeups = 1 .. Len(wakeups)
      /\ wakeups' \in Seq(Txns) /\ DOMAIN wakeups' = 1 .. Len(wakeups) + 1
      /\ \A j \in 1 .. Len(wakeups) : wakeups'[j] = wakeups[j] /\ wakeups[j] \in Txns
      /\ wakeups'[Len(wakeups) + 1] = w
  BY <1>1, <1>4, AppendFacts, SMTT(20)
<1>6. /\ Without(waiting[s0], i0) \in Seq(Txns) /\ Distinct(Without(waiting[s0], i0))
      /\ \A j \in DOMAIN Without(waiting[s0], i0) :
           \E h \in DOMAIN waiting[s0] : /\ Without(waiting[s0], i0)[j] = waiting[s0][h]
                                         /\ waiting[s0][h] # w
  <2>1. Distinct(waiting[s0]) /\ waiting[s0] \in Seq(Txns)
    BY <1>3, <1>4 DEF QueueInv
  <2> QED
    BY <1>1, <2>1, WithoutFacts
<1>7. /\ waiting' \in [Slots -> Seq(Txns)] /\ waiting'[s0] = Without(waiting[s0], i0)
      /\ \A s \in Slots \ {s0} : waiting'[s] = waiting[s]
  BY <1>1, <1>4, <1>6
<1>8. Blocked(w, s0) /\ \A j \in DOMAIN wakeups : wakeups[j] # w
  BY <1>1, <1>3 DEF QueueInv
<1>9. ASSUME NEW s \in Slots, NEW j \in DOMAIN waiting'[s]
      PROVE  \E h \in DOMAIN waiting[s] : waiting'[s][j] = waiting[s][h] /\ waiting[s][h] # w
  <2>1. CASE s = s0
    BY <1>6, <1>7, <2>1
  <2>2. CASE s # s0
    <3>1. j \in DOMAIN waiting[s] /\ waiting'[s][j] = waiting[s][j] /\ Blocked(waiting[s][j], s)
      BY <1>3, <1>7, <2>2 DEF QueueInv
    <3>2. waiting[s][j] # w
      BY <1>8, <2>2, <3>1 DEF Blocked
    <3> QED
      BY <3>1, <3>2
  <2> QED
    BY <2>1, <2>2
<1>10. /\ \A u \in Txns \ {l, w} : /\ NextKey(u)' = NextKey(u) /\ (Retried(u) => Retried(u)')
                                   /\ \A s : Blocked(u, s) => Blocked(u, s)'
  BY <1>1 DEF NextKey, Retried, Blocked, Parked, Settled, Complete
<1>11. /\ \A j \in 1 .. Len(wakeups) : wakeups[j] \in Txns \ {l, w}
       /\ \A s \in Slots : \A h \in DOMAIN waiting[s] : waiting[s][h] \in Txns \ {l}
  <2>1. \A j \in 1 .. Len(wakeups) : Parked(wakeups[j])
    BY <1>3, <1>5 DEF QueueInv, Retried
  <2>2. \A s \in Slots : \A h \in DOMAIN waiting[s] : /\ Parked(waiting[s][h])
                                                      /\ waiting[s][h] \in Txns
    BY <1>3, <1>4, SMTT(20) DEF QueueInv, Blocked
  <2> QED
    BY <1>k, <1>5, <1>8, <2>1, <2>2
<1>12. Retried(w)'
  BY <1>1, <1>8 DEF Retried, Blocked, Parked, Settled, Complete
<1>13. QueueInv'
  <2>1. Distinct(wakeups)'
    BY <1>3, <1>5, <1>8, SMTT(20) DEF QueueInv, Distinct
  <2>2. \A j \in DOMAIN wakeups' : Retried(wakeups[j])'
    <3>1. \A j \in 1 .. Len(wakeups) : Retried(wakeups[j])
      BY <1>3, <1>5 DEF QueueInv
    <3>2. \A u \in Txns \ {l, w} : Retried(u) => Retried(u)'
      BY <1>10
    <3>3. \A j \in 1 .. Len(wakeups) : Retried(wakeups'[j])
      BY <1>5, <3>1
    <3> SUFFICES ASSUME NEW j \in DOMAIN wakeups' PROVE Retried(wakeups[j])'
      OBVIOUS
    <3>4. PICK u \in Txns : u = wakeups'[j]
      BY <1>5, SMTT(20)
    <3>5. Retried(u)'
      <4>1. CASE j = Len(wakeups) + 1
        BY <1>5, <1>12, <3>4, <4>1
      <4>2. CASE j # Len(wakeups) + 1
        <5>1. j \in 1 .. Len(wakeups)
          BY <1>5, <4>2, SMTT(20)
        <5> QED
          BY <1>5, <1>11, <3>1, <3>2, <3>4, <5>1
      <4> QED
        BY <4>1, <4>2
    <3> QED
      BY <3>4, <3>5 DEF Retried, Parked, Complete
  <2>3. \A s \in Slots : Distinct(waiting[s])'
    BY <1>3, <1>6, <1>7 DEF QueueInv, Distinct
  <2>4. ASSUME NEW s \in Slots, NEW j \in DOMAIN waiting'[s]
        PROVE  /\ Blocked(waiting[s][j], s)' /\ \A h \in DOMAIN wakeups' : waiting'[s][j] # wakeups'[h]
    <3>1. PICK h \in DOMAIN waiting[s] : waiting'[s][j] = waiting[s][h] /\ waiting[s][h] # w
      BY <1>9
    <3>2. PICK u \in Txns \ {l, w} : u = waiting[s][h]
      BY <1>11, <3>1
    <3>3. Blocked(u, s) /\ \A g \in DOMAIN wakeups : u # wakeups[g]
      BY <1>3, <3>2 DEF QueueInv
    <3>4. Blocked(u, s)'
      BY <1>10, <3>3
    <3>5. Blocked(waiting[s][j], s)'
      BY <3>1, <3>2, <3>4 DEF Blocked, Parked, Settled, Complete, NextKey
    <3>6. \A g \in DOMAIN wakeups' : u # wakeups'[g]
      BY <1>5, <3>2, <3>3, SMTT(20)
    <3> QED
      BY <3>1, <3>2, <3>5, <3>6
  <2> QED
    BY <2>1, <2>2, <2>3, <2>4 DEF QueueInv
<1>14. WakeInv'
  <2> SUFFICES ASSUME NEW s \in Slots, NEW j \in DOMAIN waiting'[s],
                      value'[NextKey(waiting[s][j])'] = NoTxn
               PROVE  \E h \in DOMAIN wakeups' :
                        /\ NextKey(wakeups[h])' = NextKey(waiting[s][j])' /\ ~stale'[wakeups'[h]]
                        /\ maxCommitTs'[NextKey(waiting[s][j])'] <= startTs[wakeups'[h]]
    BY <1>1 DEF WakeInv
  <2>1. PICK h \in DOMAIN waiting[s] : waiting'[s][j] = waiting[s][h] /\ waiting[s][h] # w
    BY <1>9
  <2>2. PICK u \in Txns \ {l, w} : u = waiting[s][h]
    BY <1>11, <2>1
  <2>3. NextKey(waiting[s][j])' = NextKey(u) /\ NextKey(u) \in Keys
    <3>1. ~Complete(u)
      BY <1>3, <2>2 DEF QueueInv, Blocked, Settled
    <3> QED
      BY <1>10, <2>1, <2>2, <3>1, NextKeyFacts DEF NextKey
  <2>4. CASE NextKey(u) = k
    <3>1. value'[k] = NoTxn /\ value'[k] # w
      BY <2>3, <2>4, ConstantAssumption
    <3>2. /\ ~stale'[w] /\ NextKey(w)' = k /\ maxCommitTs'[k] <= startTs[w]
      BY <1>1, <1>2, <1>8, <3>1 DEF NextKey, Blocked, Settled
    <3>3. PICK g \in DOMAIN wakeups' : wakeups'[g] = w
      BY <1>5, SMTT(20)
    <3>4. NextKey(wakeups[g])' = NextKey(w)'
      BY <3>3 DEF NextKey
    <3> QED
      BY <2>3, <2>4, <3>2, <3>3, <3>4
  <2>5. CASE NextKey(u) # k
    <3>1. value[NextKey(u)] = NoTxn
      BY <1>1, <2>3, <2>5
    <3>2. PICK g \in DOMAIN wakeups : /\ NextKey(wakeups[g]) = NextKey(u) /\ ~stale[wakeups[g]]
                                      /\ maxCommitTs[NextKey(u)] <= startTs[wakeups[g]]
      BY <1>3, <2>2, <3>1 DEF WakeInv
    <3>3. g \in DOMAIN wakeups' /\ wakeups'[g] = wakeups[g] /\ wakeups[g] \in Txns \ {l, w}
      BY <1>5, <1>11, SMTT(20)
    <3>4. NextKey(wakeups[g])' = NextKey(u)
      BY <1>1, <3>2, <3>3 DEF NextKey
    <3> QED
      BY <1>1, <1>2, <2>3, <2>5, <3>2, <3>3, <3>4, SMTT(20)
  <2> QED
    BY <2>4, <2>5
<1> QED
  BY <1>5, <1>7, <1>13, <1>14

\* The second outcome of release_slot: w, the i-th of its slot, is the first
\* waiter blocked on key k of l.
GivesTo(l, k, i, w) ==
  LET old == MaxOf(maxCommitTs[k], commitTs[l]) > startTs[w]
  IN /\ IsFirst(i, BlockedOn(SlotOf[k], k))
     /\ waiting' = [waiting EXCEPT ![SlotOf[k]] = Without(@, i)]
     /\ wakeups' = Append(wakeups, w)
     /\ value' = [value EXCEPT ![k] = IF old THEN w ELSE NoTxn]
     /\ stale' = [stale EXCEPT ![w] = @ \/ old]
     /\ acquired' = [t \in Txns |-> acquired[t] - (IF t = l THEN 1 ELSE 0)
                                      + (IF t = w /\ old THEN 1 ELSE 0)]

\* Releasing one latch keeps the invariant.
LEMMA ReleaseSlotInv ==
  ASSUME LatchInv, ReleaseSlot
  PROVE  LatchInv'
<1>1. TypeOK /\ KeysInv /\ RequestInv /\ QueueInv /\ WakeInv /\ BookInv
  BY DEF LatchInv
<1>2. /\ schedPc = "release" /\ acquired[schedLock] > 0
      /\ UNCHANGED <<pc, lockVars, permit, unlockRx, schedPc, schedLock, counter, lastRecycle,
                     recyclers, clock, cancels>>
      /\ UNCHANGED <<startTs, keys, commitTs>>
  BY DEF ReleaseSlot, lockVars
<1>3. PICK l \in Txns : l = schedLock
  BY <1>1, <1>2 DEF TypeOK
<1>4. PICK k : k = keys[l][acquired[l]]
  OBVIOUS
<1>5. /\ pc[l] = "done" /\ ~Parked(l) /\ ~permit[l]
      /\ k \in Keys /\ k \in KeysOf(l) /\ value[k] = l /\ SlotOf[k] \in Slots
      /\ acquired[l] \in Nat /\ acquired[l] > 0 /\ acquired[l] <= Len(keys[l])
  BY <1>2, <1>3, <1>4, ReleaseFacts
<1>6. /\ present' = present \cup {k}
      /\ maxCommitTs' = [maxCommitTs EXCEPT ![k] = MaxOf(maxCommitTs[k], commitTs[l])]
      /\ \/ /\ BlockedOn(SlotOf[k], k) = {}
            /\ acquired' = [acquired EXCEPT ![l] = acquired[l] - 1]
            /\ value' = [value EXCEPT ![k] = NoTxn]
            /\ UNCHANGED <<waiting, wakeups, stale>>
         \/ \E i \in DOMAIN waiting[SlotOf[k]] : GivesTo(l, k, i, waiting[SlotOf[k]][i])
  <2>1. /\ keys[schedLock][acquired[schedLock]] = k /\ value[k] = l /\ value[k] \in {l, NoTxn}
        /\ schedLock = l
    BY <1>3, <1>4, <1>5
  <2>2. /\ present' = present \cup {k}
        /\ maxCommitTs' = [maxCommitTs EXCEPT ![k] = MaxOf(maxCommitTs[k], commitTs[l])]
    BY <2>1 DEF ReleaseSlot
  <2>3. CASE /\ BlockedOn(SlotOf[k], k) = {} \/ value[k] \notin {l, NoTxn}
             /\ acquired' = [acquired EXCEPT ![l] = @ - 1]
             /\ value' = IF value[k] = l THEN [value EXCEPT ![k] = NoTxn] ELSE value
             /\ UNCHANGED <<waiting, wakeups, stale>>
    BY <2>1, <2>2, <2>3
  <2>4. CASE \E i \in DOMAIN waiting[SlotOf[k]] : GivesTo(l, k, i, waiting[SlotOf[k]][i])
    BY <2>2, <2>4
  <2> DEFINE l0 == schedLock
             k0 == keys[l0][acquired[l0]]
  <2>5. \/ /\ BlockedOn(SlotOf[k0], k0) = {} \/ value[k0] \notin {l0, NoTxn}
           /\ acquired' = [acquired EXCEPT ![l0] = @ - 1]
           /\ value' = IF value[k0] = l0 THEN [value EXCEPT ![k0] = NoTxn] ELSE value
           /\ UNCHANGED <<waiting, wakeups, stale>>
        \/ \E i \in DOMAIN waiting[SlotOf[k0]] : GivesTo(l0, k0, i, waiting[SlotOf[k0]][i])
    BY DEF ReleaseSlot, GivesTo
  <2>6. l0 = l /\ k0 = k
    BY <2>1
  <2> HIDE DEF l0, k0
  <2> QED
    BY <2>3, <2>4, <2>5, <2>6
<1>7. present' \subseteq Keys /\ maxCommitTs' \in [Keys -> Ts]
  BY <1>1, <1>2, <1>5, <1>6, ReleaseNode DEF TypeOK
<1>8. UnlockInv'
  BY <1>2, UnlockFrame
<1>9. KeysInv'
  BY <1>1, <1>2 DEF KeysInv, Started
<1>10. CASE /\ BlockedOn(SlotOf[k], k) = {}
            /\ acquired' = [acquired EXCEPT ![l] = acquired[l] - 1]
            /\ value' = [value EXCEPT ![k] = NoTxn]
            /\ UNCHANGED <<waiting, wakeups, stale>>
  <2>1. /\ acquired' \in [Txns -> Nat] /\ acquired'[l] = acquired[l] - 1
        /\ \A u \in Txns \ {l} : acquired'[u] = acquired[u]
        /\ value' \in [Keys -> Txns \cup {NoTxn}] /\ \A m \in Keys \ {k} : value'[m] = value[m]
        /\ UNCHANGED <<waiting, wakeups, stale>>
    BY <1>1, <1>5, <1>10, SMTT(20) DEF TypeOK
  <2>2. \A u \in Txns : acquired'[u] <= Len(keys[u])
    <3>1. \A u \in Txns : acquired[u] <= Len(keys[u])
      BY <1>1 DEF TypeOK
    <3>2. Len(keys[l]) \in Nat
      BY <1>1, KeysFacts
    <3> QED
      BY <1>5, <2>1, <3>1, <3>2, SMTT(20)
  <2>3. TypeOK'
    BY <1>1, <1>2, <1>7, <2>1, <2>2 DEF TypeOK, lockVars
  <2>4. RequestInv'
    BY <1>1, <1>2, <1>5, <2>1 DEF RequestInv, Started, Parked, Settled, Complete
  <2>5. BookInv'
    BY <1>2, <1>3, <1>4, <1>5, <1>6, <1>10, ReleaseFreeBook
  <2>6. \A u \in Txns \ {l} : /\ NextKey(u)' = NextKey(u) /\ (Retried(u) => Retried(u)')
                              /\ \A s : Blocked(u, s) => Blocked(u, s)'
    BY <1>2, <2>1 DEF NextKey, Retried, Blocked, Parked, Settled, Complete
  <2>7. /\ \A i \in DOMAIN wakeups : wakeups[i] \in Txns \ {l}
        /\ \A s \in Slots : \A i \in DOMAIN waiting[s] : waiting[s][i] \in Txns \ {l}
    BY <1>5, NotQueued
  <2>8. QueueInv'
    BY <1>1, <2>1, <2>6, <2>7, SMTT(20) DEF QueueInv, Distinct
  <2>9. WakeInv'
    <3> SUFFICES ASSUME NEW s \in Slots, NEW i \in DOMAIN waiting[s],
                        value'[NextKey(waiting[s][i])] = NoTxn
                 PROVE  \E j \in DOMAIN wakeups :
                          /\ NextKey(wakeups[j]) = NextKey(waiting[s][i]) /\ ~stale[wakeups[j]]
                          /\ maxCommitTs'[NextKey(waiting[s][i])] <= startTs[wakeups[j]]
      BY <1>2, <2>1, <2>6, <2>7, SMTT(20) DEF WakeInv
    <3>1. PICK u \in Txns \ {l} : u = waiting[s][i]
      BY <2>7
    <3>2. Blocked(u, s) /\ ~Complete(u)
      BY <1>1, <3>1 DEF QueueInv, Blocked, Settled
    <3>3. NextKey(u) \in Keys /\ SlotOf[NextKey(u)] = s
      BY <3>2, NextKeyFacts DEF Blocked
    <3>4. NextKey(u) # k
      BY <1>10, <3>1, <3>2, <3>3 DEF BlockedOn
    <3>5. maxCommitTs'[NextKey(u)] = maxCommitTs[NextKey(u)] /\ value[NextKey(u)] = NoTxn
      BY <1>2, <1>5, <1>6, <2>1, <3>1, <3>3, <3>4, ReleaseNode
    <3> QED
      BY <1>1, <3>1, <3>5 DEF WakeInv
  <2> QED
    BY <1>8, <1>9, <2>3, <2>4, <2>5, <2>8, <2>9 DEF LatchInv
<1>11. ASSUME NEW i \in DOMAIN waiting[SlotOf[k]], NEW w, w = waiting[SlotOf[k]][i],
              GivesTo(l, k, i, w)
       PROVE  LatchInv'
  <2> DEFINE old == MaxOf(maxCommitTs[k], commitTs[l]) > startTs[w]
  <2>g. /\ IsFirst(i, BlockedOn(SlotOf[k], k))
        /\ waiting' = [waiting EXCEPT ![SlotOf[k]] = Without(waiting[SlotOf[k]], i)]
        /\ wakeups' = Append(wakeups, w)
        /\ value' = [value EXCEPT ![k] = IF old THEN w ELSE NoTxn]
        /\ stale' = [stale EXCEPT ![w] = stale[w] \/ old]
        /\ acquired' = [t \in Txns |-> acquired[t] - (IF t = l THEN 1 ELSE 0)
                                         + (IF t = w /\ old THEN 1 ELSE 0)]
    BY <1>11 DEF GivesTo
  <2>1. w \in Txns /\ Blocked(w, SlotOf[k]) /\ ~Complete(w) /\ NextKey(w) = k
    <3>1. waiting \in [Slots -> Seq(Txns)]
      BY <1>1 DEF TypeOK
    <3>2. w \in Txns
      BY <1>5, <1>11, <2>g, <3>1, SMTT(20)
    <3> QED
      BY <1>1, <1>5, <1>11, <2>g, <3>2 DEF QueueInv, IsFirst, BlockedOn
  <2>2. w # l /\ Parked(w) /\ ~permit[w] /\ ~stale[w]
    BY <1>5, <2>1 DEF Blocked, Settled
  <2>3. /\ acquired[w] \in Nat /\ acquired[w] + 1 \in 1 .. Len(keys[w]) /\ Len(keys[w]) \in Nat
    BY <1>1, <2>1, NextKeyFacts, KeysFacts
  <2>4. /\ acquired'[l] = acquired[l] - 1
        /\ acquired'[w] = IF old THEN acquired[w] + 1 ELSE acquired[w]
        /\ \A u \in Txns \ {l, w} : acquired'[u] = acquired[u]
        /\ acquired' \in [Txns -> Nat]
    <3>1. acquired \in [Txns -> Nat]
      BY <1>1 DEF TypeOK
    <3>2. \A u \in Txns : acquired'[u] = acquired[u] - (IF u = l THEN 1 ELSE 0)
                                           + (IF u = w /\ old THEN 1 ELSE 0)
      BY <1>11, <2>g
    <3>3. acquired'[l] = acquired[l] - 1 /\ acquired'[l] \in Nat
      BY <1>5, <2>2, <3>2, SMTT(20)
    <3>4. acquired'[w] = (IF old THEN acquired[w] + 1 ELSE acquired[w]) /\ acquired'[w] \in Nat
      BY <2>1, <2>2, <2>3, <3>2, SMTT(20)
    <3>5. \A u \in Txns \ {l, w} : acquired'[u] = acquired[u]
      BY <3>1, <3>2, SMTT(20)
    <3>6. acquired' = [u \in Txns |-> acquired'[u]]
      BY <1>11, <2>g
    <3>7. \A u \in Txns : acquired'[u] \in Nat
      BY <3>1, <3>3, <3>4, <3>5
    <3> QED
      BY <3>3, <3>4, <3>5, <3>6, <3>7
  <2>5. /\ stale' \in [Txns -> BOOLEAN] /\ (stale'[w] <=> old)
        /\ \A u \in Txns \ {w} : stale'[u] = stale[u]
    BY <1>1, <1>11, <2>g, <2>1, <2>2 DEF TypeOK
  <2>6. /\ value' \in [Keys -> Txns \cup {NoTxn}] /\ value'[k] = IF old THEN w ELSE NoTxn
        /\ \A m \in Keys \ {k} : value'[m] = value[m]
    BY <1>1, <1>5, <1>11, <2>g, <2>1 DEF TypeOK
  <2>7. /\ startTs[w] \in Nat /\ MaxOf(maxCommitTs[k], commitTs[l]) \in Nat
    BY <1>1, <1>5, <2>1, SMTT(20) DEF TypeOK, Ts, MaxOf
  <2>8. Handover(l, k, i, w)
    <3>1. \/ stale'[w] /\ value'[k] = w
          \/ /\ stale'[w] = stale[w] /\ acquired'[w] = acquired[w]
             /\ MaxOf(maxCommitTs[k], commitTs[l]) <= startTs[w]
      BY <1>1, <2>1, <2>2, <2>4, <2>5, <2>6, <2>7, SMTT(20) DEF TypeOK
    <3>2. UNCHANGED <<pc, permit, startTs, keys, commitTs>>
      BY <1>2
    <3> QED
      BY <1>6, <1>11, <2>g, <2>1, <2>4, <2>5, <2>6, <3>1, <3>2 DEF Handover
  <2>9. QueueInv' /\ WakeInv' /\ wakeups' \in Seq(Txns) /\ waiting' \in [Slots -> Seq(Txns)]
    BY <1>3, <1>4, <1>5, <2>1, <2>8, ReleaseQueue
  <2>10. \A u \in Txns : acquired'[u] <= Len(keys[u])
    <3>1. \A u \in Txns : acquired[u] <= Len(keys[u])
      BY <1>1 DEF TypeOK
    <3>2. Len(keys[l]) \in Nat
      BY <1>1, KeysFacts
    <3> QED
      BY <1>5, <2>3, <2>4, <3>1, <3>2, SMTT(20)
  <2>11. TypeOK'
    BY <1>1, <1>2, <1>7, <2>4, <2>5, <2>6, <2>9, <2>10 DEF TypeOK, lockVars
  <2>12. RequestInv'
    BY <1>1, <1>2, <1>5, <2>2, <2>4, <2>5 DEF RequestInv, Started, Parked, Settled, Complete
  <2>13. BookInv'
    <3>1. CASE old
      BY <1>2, <1>3, <1>4, <1>5, <1>6, <1>11, <2>g, <2>1, <2>2, <2>4, <2>5, <3>1, ReleaseGiveBook
    <3>2. CASE ~old
      <4>1. stale' = stale /\ value' = [value EXCEPT ![k] = NoTxn]
        BY <1>1, <1>11, <2>g, <2>2, <3>2 DEF TypeOK
      <4>2. acquired' = [acquired EXCEPT ![l] = acquired[l] - 1]
        BY <1>1, <2>4, <3>2 DEF TypeOK
      <4> QED
        BY <1>2, <1>3, <1>4, <1>5, <1>6, <4>1, <4>2, ReleaseFreeBook
    <3> QED
      BY <3>1, <3>2
  <2> QED
    BY <1>8, <1>9, <2>9, <2>11, <2>12, <2>13 DEF LatchInv
<1> QED
  BY <1>6, <1>10, <1>11
----------------------------------------------------------------------------
(* The theorems                                                            *)

\* The invariant holds at the start.
LEMMA InitInv ==
  ASSUME Init
  PROVE  LatchInv
<1>1. <<>> \in Seq(Txns) /\ <<>> \in Seq(Keys) /\ Len(<<>>) = 0 /\ DOMAIN <<>> = {}
  BY EmptySeq
<1>2. 0 \in Ts /\ 0 \in 0 .. MaxCancels
  BY ConstantAssumption, SMTT(20) DEF Ts
<1>3. TypeOK
  BY <1>1, <1>2, ConstantAssumption, SMTT(20) DEF Init, TypeOK, PcStates
<1>4. KeysInv /\ RequestInv
  BY DEF Init, KeysInv, RequestInv, Started
<1>5. UnlockInv /\ QueueInv /\ WakeInv
  BY <1>1 DEF Init, UnlockInv, QueueInv, WakeInv, Distinct
<1>6. BookInv
  BY <1>2, SMTT(20) DEF Init, BookInv, OwnInv, TimeInv, NodeInv, StaleIsJustified, RememberInv, CheckedInv,
              Holds
<1> QED
  BY <1>3, <1>4, <1>5, <1>6 DEF LatchInv

\* A stuttering step keeps the invariant.
LEMMA StutterInv ==
  ASSUME LatchInv, UNCHANGED vars
  PROVE  LatchInv'
<1>1. UNCHANGED <<pc, startTs, keys, acquired, commitTs, stale, permit, present, maxCommitTs, value,
                  waiting, unlockRx, schedPc, schedLock, wakeups, counter, lastRecycle, recyclers,
                  clock, cancels>>
  BY DEF vars, lockVars, slotVars, schedVars
<1>2. TypeOK'
  BY <1>1 DEF LatchInv, TypeOK
<1>3. UnlockInv'
  BY <1>1, UnlockFrame
<1>4. KeysInv' /\ RequestInv' /\ QueueInv' /\ WakeInv' /\ BookInv'
  BY <1>1, SchedFrame DEF lockVars, LatchInv, BookInv, TimeInv
<1> QED
  BY <1>2, <1>3, <1>4 DEF LatchInv

\* Every step of a request, the scheduler or a recycle task keeps the invariant.
LEMMA NextInv ==
  ASSUME LatchInv, [Next]_vars
  PROVE  LatchInv'
<1>1. ASSUME NEW t \in Txns, Begin(t) \/ TxnStep(t) \/ CancelWait(t) PROVE LatchInv'
  BY <1>1, BeginInv, GenLockInv, AcquireInv, WokenInv, CheckStaleInv, CommitOkInv, CommitErrInv,
     CancelWaitInv DEF TxnStep
<1>2. ASSUME SchedStep PROVE LatchInv'
  BY <1>2, RecvInv, ReleaseSlotInv, SchedMovesInv, WakeupInv DEF SchedStep
<1>3. ASSUME NEW r \in recyclers, Recycle(r) PROVE LatchInv'
  BY <1>3, RecycleInv
<1> QED
  BY <1>1, <1>2, <1>3, StutterInv DEF Next

\* LatchInv is an invariant of the latches.
THEOREM LatchInvariant == Spec => []LatchInv
<1>1. Init => LatchInv
  BY InitInv
<1>2. LatchInv /\ [Next]_vars => LatchInv'
  BY NextInv
<1> QED
  BY <1>1, <1>2, PTL DEF Spec

\* Every variable of the latches has its type, and no request counts more
\* latches than it has keys (LatchLock.acquired_count).
THEOREM LatchTypes == Spec => []TypeOK
<1>1. LatchInv => TypeOK
  BY DEF LatchInv
<1> QED
  BY <1>1, LatchInvariant, PTL

\* The debug_assert of lock() holds: a guard is complete or stale.
THEOREM LatchGuards == Spec => []GuardMeansAcquired
<1>1. LatchInv => GuardMeansAcquired
  BY DEF LatchInv, RequestInv, GuardMeansAcquired, Settled
<1> QED
  BY <1>1, LatchInvariant, PTL

\* Latches serialise commits: each key of a committing transaction is latched
\* by it, and a latch has one owner.
THEOREM LatchesSerialise == Spec => []CommitsDisjoint
<1>1. ASSUME LatchInv, NEW t \in Txns, pc[t] = "commit", NEW k \in KeysOf(t)
      PROVE  value[k] = t /\ Holds(t, k)
  <2>1. /\ TypeOK /\ KeysInv /\ Started(t) /\ acquired[t] = Len(keys[t])
    BY <1>1 DEF LatchInv, RequestInv, Complete, Started
  <2>2. Holds(t, k)
    BY <2>1, KeysFacts DEF Holds
  <2> QED
    BY <1>1, <2>2, HoldsFacts
<1>2. LatchInv => CommitsDisjoint
  BY <1>1 DEF CommitsDisjoint
<1> QED
  BY <1>2, LatchInvariant, PTL

\* No false write conflict: a stale mark has a newer commit on a common key.
THEOREM LatchStaleIsRight == Spec => []StaleIsJustified
<1>1. LatchInv => StaleIsJustified
  BY DEF LatchInv, BookInv
<1> QED
  BY <1>1, LatchInvariant, PTL

\* No missed write conflict: recycling the nodes of a slot loses only commits
\* that are older than EXPIRE_DURATION.
THEOREM LatchConflictsSeen == Spec => []NoMissedConflict
<1>1. ASSUME LatchInv, NEW t \in Txns, NEW u \in Txns, pc[t] = "commit", t # u,
             commitTs[u] > startTs[t], NEW k \in KeysOf(t) \cap KeysOf(u)
      PROVE  clock - commitTs[u] >= ExpireDuration
  <2>1. /\ TypeOK /\ KeysInv /\ Started(t) /\ acquired[t] = Len(keys[t]) /\ ~stale[t]
    BY <1>1 DEF LatchInv, RequestInv, Complete, Started
  <2>2. Holds(t, k)
    BY <2>1, KeysFacts DEF Holds
  <2> QED
    BY <1>1, <2>1, <2>2 DEF LatchInv, BookInv, CheckedInv, Old
<1>2. LatchInv => NoMissedConflict
  BY <1>1 DEF NoMissedConflict
<1> QED
  BY <1>2, LatchInvariant, PTL

\* No lost wakeup: release_slot and wakeup leave no waiter of a free latch
\* without a retry of that key to come.
THEOREM LatchWakeups == Spec => []NoLostWakeup
<1>1. LatchInv => NoLostWakeup
  BY DEF LatchInv, WakeInv, NoLostWakeup
<1> QED
  BY <1>1, LatchInvariant, PTL
============================================================================
