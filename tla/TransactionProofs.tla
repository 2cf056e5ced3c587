------------------------- MODULE TransactionProofs -------------------------
(* For any keys, values, regions, calls and failures: a transaction reads    *)
(* its own writes, one by one and in scans, and an active pessimistic one    *)
(* holds its locks.  Then the invariants CommitInv and CleanInv that follow  *)
(* its writes and its locks, with the facts CommitProofs rests on.           *)
EXTENDS Transaction, TLAPS, WellFoundedInduction, FiniteSetTheorems

USE ZenonT(30)

(* What the buffer holds of a key against its value in the snapshot (s) and  *)
(* the last one written (m): a key without a known value was never written.  *)
EntryOK(e, s, m) ==
  /\ IF Determined(e) THEN e.value = (IF m = Unwritten THEN s ELSE m) ELSE m = Unwritten
  /\ e.kind \in {"cached", "lockedRead"} => m = Unwritten
  /\ e.kind = "put" => e.value # Absent
  /\ e.kind = "del" => e.value = Absent

Agree(b, m) == \A k \in Keys : EntryOK(b.entries[k], snap[k], m[k])

OpOK ==
  /\ op = [name |-> op.name, todo |-> op.todo, keys |-> op.keys, first |-> op.first]
  /\ op.name \in {"lock", "unlock"} =>
       /\ IsTodo(op.todo) /\ op.keys \subseteq DOMAIN op.todo /\ op.first \in DOMAIN op.todo
       /\ pessimistic /\ status = "Active"
  /\ op.name = "lock" => op.keys = DOMAIN op.todo

BufferInv ==
  /\ scenario \in Scenarios
  /\ snap \in [Keys -> Found]
  /\ mine \in [Keys -> Found \cup {Unwritten}]
  /\ buf \in Buffers
  /\ OpOK
  /\ Agree(buf, mine)

(* Nothing of an active pessimistic transaction has been committed, and no   *)
(* background task of it writes.                                             *)
Quiet ==
  /\ lock \in [Keys -> Locks] /\ record \in [Keys -> Records]
  /\ \A k \in Keys : ~Committed(k)
  /\ \A k \in Keys : lock[k].type # "none" => lock[k].primary \in Keys
  /\ op.name \in {"idle", "lock", "unlock"}
  /\ secondaries = {} /\ late = {}
  /\ pipe.flushing.stage = "none" /\ resolving.state = "none"

Locking == pessimistic /\ status = "Active"

IInv == BufferInv /\ (Locking => Quiet /\ LocksHeld)
----------------------------------------------------------------------------
(* The fields of a buffer. *)
LEMMA BufferFields ==
  ASSUME NEW b \in Buffers
  PROVE  /\ DOMAIN b = {"primary", "entries", "presumed", "prewriteOnly"}
         /\ b.primary \in Keys \cup {NoKey} /\ b.entries \in [Keys -> Entries]
         /\ b.presumed \subseteq Keys /\ b.prewriteOnly \subseteq Keys
  BY DEF Buffers

(* Setting one entry leaves a buffer. *)
LEMMA SetEntryOK ==
  ASSUME NEW b \in Buffers, NEW k \in Keys, NEW e \in Entries
  PROVE  /\ SetEntry(b, k, e) \in Buffers
         /\ SetEntry(b, k, e).entries[k] = e
  BY DEF SetEntry, Buffers

LEMMA PrimaryKeyOrOK ==
  ASSUME NEW b \in Buffers, NEW k \in Keys
  PROVE  /\ PrimaryKeyOr(b, k) \in Buffers
         /\ PrimaryKeyOr(b, k).primary \in Keys
         /\ PrimaryKeyOr(b, k).primary = IF b.primary = NoKey THEN k ELSE b.primary
         /\ PrimaryKeyOr(b, k).entries = b.entries
         /\ PrimaryKeyOr(b, k).prewriteOnly = b.prewriteOnly
  BY BufferAssumption DEF PrimaryKeyOr, Buffers

(* Lock keeps what is known of a key and marks it as locked or written. *)
LEMMA LockOK ==
  ASSUME NEW b \in Buffers, NEW k \in Keys, NEW s, NEW m, EntryOK(b.entries[k], s, m)
  PROVE  /\ Lock(b, k) \in Buffers
         /\ EntryOK(Lock(b, k).entries[k], s, m)
         /\ Lock(b, k).entries[k].kind \notin {"none", "cached"}
<1> DEFINE e == b.entries[k]
           p == PrimaryKeyOr(b, k)
<1>1. e \in Entries /\ p \in Buffers /\ p.entries = b.entries
  BY BufferFields, PrimaryKeyOrOK
<1>2. /\ e.kind \in EntryKinds /\ e.value \in Found /\ Absent \in Found
      /\ Entry("locked", Absent) \in Entries /\ Entry("lockedRead", e.value) \in Entries
  BY <1>1 DEF Entries, EntryKinds, Entry, Found
<1>3. CASE e.kind = "none"
  <2>1. Lock(b, k) = SetEntry(p, k, Entry("locked", Absent))
    BY <1>3 DEF Lock
  <2>2. Lock(b, k) \in Buffers /\ Lock(b, k).entries[k] = Entry("locked", Absent)
    BY <1>1, <1>2, <2>1, SetEntryOK, SMTT(20)
  <2>3. EntryOK(Entry("locked", Absent), s, m)
    BY <1>3 DEF EntryOK, Determined, Entry
  <2> QED
    BY <2>2, <2>3, SMTT(20) DEF Entry
<1>4. CASE e.kind = "cached"
  <2>1. Lock(b, k) = SetEntry(p, k, Entry("lockedRead", e.value))
    BY <1>4 DEF Lock
  <2>2. Lock(b, k) \in Buffers /\ Lock(b, k).entries[k] = Entry("lockedRead", e.value)
    BY <1>1, <1>2, <2>1, SetEntryOK, SMTT(20)
  <2>3. EntryOK(Entry("lockedRead", e.value), s, m)
    BY <1>4 DEF EntryOK, Determined, Entry
  <2> QED
    BY <2>2, <2>3, SMTT(20) DEF Entry
<1>5. CASE e.kind \notin {"none", "cached"}
  BY <1>1, <1>5 DEF Lock
<1> QED
  BY <1>3, <1>4, <1>5

(* A write makes the entry of its key the value written. *)
LEMMA WriteOK ==
  ASSUME NEW b \in Buffers, NEW k \in Keys, NEW w \in Writes, NEW locked \in BOOLEAN,
         w.what \in {"put", "insert"} <=> w.value # Absent,
         NEW s, NEW m, EntryOK(b.entries[k], s, m)
  PROVE  LET e == AfterWrite(b, k, w, locked).entries[k]
         IN /\ e \in Entries
            /\ e.kind \notin {"none", "cached"}
            /\ EntryOK(e, s, IF w.what = "lock" THEN m ELSE w.value)
<1> DEFINE c == IF locked \/ w.what = "lock" THEN Lock(b, k) ELSE b
           v == w.value
           a == AfterWrite(b, k, w, locked)
<1>1. c \in Buffers /\ EntryOK(c.entries[k], s, m)
      /\ (w.what = "lock" => c.entries[k].kind \notin {"none", "cached"})
  BY LockOK
<1>2. /\ v \in Found /\ w.what \in Whats /\ v # Unwritten
      /\ \A x \in {"put", "insert", "del", "check"} : Entry(x, v) \in Entries
  BY TransactionAssumption, SMTT(20) DEF Writes, Entries, Entry, EntryKinds, Found, Unwritten, Absent
<1>3. \A x \in IF v = Absent THEN {"del", "check"} ELSE {"put", "insert"} :
        /\ EntryOK(Entry(x, v), s, v) /\ Entry(x, v).kind \notin {"none", "cached"}
  BY <1>2 DEF EntryOK, Determined, Entry
<1> DEFINE d == [PrimaryKeyOr(c, k) EXCEPT !.prewriteOnly = @ \ {k}]
<1>4. d \in Buffers
  BY <1>1, PrimaryKeyOrOK DEF Buffers
<1>5. CASE w.what = "put"
  <2>1. a = Put(c, k, v)
    BY <1>5 DEF AfterWrite
  <2>2. a = SetEntry(c, k, Entry("insert", v)) \/ a = SetEntry(d, k, Entry("put", v))
    BY <2>1 DEF Put, InsertEntry
  <2>3. a.entries[k] \in {Entry("put", v), Entry("insert", v)}
    BY <1>1, <1>2, <1>4, <2>2, SetEntryOK, SMTT(20)
  <2> QED
    BY <1>2, <1>3, <1>5, <2>3
<1>6. CASE w.what = "insert"
  <2>1. a = Insert(c, k, v)
    BY <1>6 DEF AfterWrite
  <2>2. a = SetEntry(c, k, Entry("put", v)) \/ a = SetEntry(d, k, Entry("insert", v))
    BY <2>1 DEF Insert, InsertEntry
  <2>3. a.entries[k] \in {Entry("put", v), Entry("insert", v)}
    BY <1>1, <1>2, <1>4, <2>2, SetEntryOK, SMTT(20)
  <2> QED
    BY <1>2, <1>3, <1>6, <2>3
<1>7. CASE w.what = "delete"
  <2>1. a = Delete(c, k, locked) /\ v = Absent
    BY <1>7 DEF AfterWrite
  <2> DEFINE f == SetEntry(c, k, Entry("check", v))
  <2>2. \/ a = [f EXCEPT !.prewriteOnly = @ \cup {k}]
        \/ a = SetEntry(d, k, Entry("del", v))
    BY <2>1 DEF Delete, InsertEntry
  <2>3. f \in Buffers /\ f.entries[k] = Entry("check", v)
    BY <1>1, <1>2, SetEntryOK
  <2>4. [f EXCEPT !.prewriteOnly = @ \cup {k}].entries = f.entries
    BY <2>3 DEF Buffers
  <2>5. SetEntry(d, k, Entry("del", v)).entries[k] = Entry("del", v)
    BY <1>2, <1>4, SetEntryOK
  <2>6. a.entries[k] \in {Entry("check", v), Entry("del", v)}
    BY <2>2, <2>3, <2>4, <2>5
  <2> QED
    BY <1>2, <1>3, <1>7, <2>6
<1>8. CASE w.what = "lock"
  <2>1. a = c
    BY <1>8 DEF AfterWrite
  <2> QED
    BY <1>1, <1>8, <2>1, BufferFields
<1> QED
  BY <1>2, <1>5, <1>6, <1>7, <1>8 DEF Whats

(* A call writes or locks its keys and no others; with what the user then    *)
(* expects (m), the buffer agrees again.                                     *)
LEMMA WritesOK ==
  ASSUME BufferInv, NEW todo, IsTodo(todo), NEW first \in DOMAIN todo, NEW locked \in BOOLEAN,
         NEW m, m = [k \in Keys |-> IF k \in DOMAIN todo /\ todo[k].what # "lock"
                                    THEN todo[k].value ELSE mine[k]]
  PROVE  LET a == AfterWrites(buf, todo, first, locked)
         IN /\ a \in Buffers
            /\ m \in [Keys -> Found \cup {Unwritten}]
            /\ Agree(a, m)
            /\ Held(a) = Held(buf) \cup DOMAIN todo
            /\ a.primary = PrimaryKeyOr(buf, first).primary
<1> DEFINE one(k) == AfterWrite(buf, k, todo[k], locked)
           a == AfterWrites(buf, todo, first, locked)
<1>1. /\ buf \in Buffers /\ buf.entries \in [Keys -> Entries] /\ buf.presumed \subseteq Keys
      /\ mine \in [Keys -> Found \cup {Unwritten}]
      /\ \A k \in Keys : EntryOK(buf.entries[k], snap[k], mine[k])
  BY BufferFields DEF BufferInv, Agree
<1>2. DOMAIN todo \subseteq Keys /\ first \in Keys
  BY DEF IsTodo
<1>3. \A k \in DOMAIN todo :
        /\ todo[k] \in Writes /\ (todo[k].what \in {"put", "insert"} <=> todo[k].value # Absent)
        /\ todo[k].value \in Found
  BY DEF IsTodo, Writes
<1>4. ASSUME NEW k \in DOMAIN todo
      PROVE  /\ one(k).entries[k] \in Entries
             /\ one(k).entries[k].kind \notin {"none", "cached"}
             /\ EntryOK(one(k).entries[k], snap[k], IF todo[k].what = "lock" THEN mine[k]
                                                    ELSE todo[k].value)
  <2>1. /\ k \in Keys /\ EntryOK(buf.entries[k], snap[k], mine[k])
        /\ todo[k] \in Writes /\ (todo[k].what \in {"put", "insert"} <=> todo[k].value # Absent)
    BY <1>1, <1>2, <1>3
  <2> QED
    BY <1>1, <2>1, WriteOK
<1>5. PrimaryKeyOr(buf, first).primary \in Keys
  BY <1>1, <1>2, PrimaryKeyOrOK
<1> HIDE DEF one
<1>6. a = [primary  |-> PrimaryKeyOr(buf, first).primary,
           entries  |-> [k \in Keys |-> IF k \in DOMAIN todo THEN one(k).entries[k]
                                        ELSE buf.entries[k]],
           presumed |-> buf.presumed,
           prewriteOnly |-> {k \in Keys : IF k \in DOMAIN todo THEN k \in one(k).prewriteOnly
                                                               ELSE k \in buf.prewriteOnly}]
  BY DEF AfterWrites, one
<1> HIDE DEF a
<1>7. a \in Buffers
  <2>1. a.entries \in [Keys -> Entries]
    BY <1>1, <1>4, <1>6
  <2>2. a.primary \in Keys /\ a.presumed \subseteq Keys /\ a.prewriteOnly \subseteq Keys
    BY <1>1, <1>5, <1>6
  <2> QED
    BY <1>6, <2>1, <2>2 DEF Buffers
<1>8. m \in [Keys -> Found \cup {Unwritten}]
  BY <1>1, <1>3
<1>9. \A k \in Keys : a.entries[k] = IF k \in DOMAIN todo THEN one(k).entries[k] ELSE buf.entries[k]
  BY <1>6
<1>10. Agree(a, m)
  BY <1>1, <1>4, <1>9 DEF Agree
<1>11. Held(a) = Held(buf) \cup DOMAIN todo
  BY <1>2, <1>4, <1>9 DEF Held, MutatedKeys
<1> QED
  BY <1>6, <1>7, <1>8, <1>10, <1>11, SMTT(20) DEF a

(* Values that are read from the snapshot are cached; no key becomes or      *)
(* stops being locked.                                                       *)
LEMMA CacheOK ==
  ASSUME NEW b \in Buffers, NEW k \in Keys, NEW v \in Found, NEW m
  PROVE  /\ UpdateCache(b, k, v).entries[k] \in Entries
         /\ EntryOK(b.entries[k], v, m) => EntryOK(UpdateCache(b, k, v).entries[k], v, m)
         /\ Determined(b.entries[k]) => UpdateCache(b, k, v) = b
         /\ UpdateCache(b, k, v).entries[k].kind \in {"none", "cached"}
              <=> b.entries[k].kind \in {"none", "cached"}
<1> DEFINE e == b.entries[k]
<1>1. e \in Entries /\ Entry("cached", v) \in Entries /\ Entry("lockedRead", v) \in Entries
  BY BufferFields DEF Entries, Entry, EntryKinds
<1>2. CASE e.kind = "none"
  <2>1. UpdateCache(b, k, v) = SetEntry(b, k, Entry("cached", v))
    BY <1>2 DEF UpdateCache
  <2>2. UpdateCache(b, k, v).entries[k] = Entry("cached", v)
    BY <1>1, <2>1, SetEntryOK, SMTT(20)
  <2> QED
    BY <1>1, <1>2, <2>2, SMTT(20) DEF EntryOK, Determined, Entry
<1>3. CASE e.kind = "locked"
  <2>1. UpdateCache(b, k, v) = SetEntry(b, k, Entry("lockedRead", v))
    BY <1>3 DEF UpdateCache
  <2>2. UpdateCache(b, k, v).entries[k] = Entry("lockedRead", v)
    BY <1>1, <2>1, SetEntryOK, SMTT(20)
  <2> QED
    BY <1>1, <1>3, <2>2, SMTT(20) DEF EntryOK, Determined, Entry
<1>4. CASE e.kind \notin {"none", "locked"}
  BY <1>1, <1>4 DEF UpdateCache
<1> QED
  BY <1>2, <1>3, <1>4

LEMMA CachesOK ==
  ASSUME BufferInv, NEW ks, NEW found \in [Keys -> Found],
         \A k \in Keys : Determined(buf.entries[k]) \/ found[k] = snap[k]
  PROVE  LET a == UpdateCaches(buf, ks, found)
         IN a \in Buffers /\ Agree(a, mine) /\ Held(a) = Held(buf) /\ a.primary = buf.primary
<1> DEFINE a == UpdateCaches(buf, ks, found)
           one(k) == UpdateCache(buf, k, found[k])
<1>1. /\ buf \in Buffers /\ buf.entries \in [Keys -> Entries]
      /\ \A k \in Keys : EntryOK(buf.entries[k], snap[k], mine[k])
  BY BufferFields DEF BufferInv, Agree
<1>2. ASSUME NEW k \in Keys
      PROVE  /\ one(k).entries[k] \in Entries
             /\ EntryOK(one(k).entries[k], snap[k], mine[k])
             /\ one(k).entries[k].kind \in {"none", "cached"}
                  <=> buf.entries[k].kind \in {"none", "cached"}
  BY <1>1, CacheOK
<1> HIDE DEF one
<1>3. a = [buf EXCEPT !.entries = [k \in Keys |-> IF k \in ks THEN one(k).entries[k]
                                                  ELSE buf.entries[k]]]
  BY <1>1 DEF UpdateCaches, one, Buffers
<1> HIDE DEF a
<1>4. /\ a.entries = [k \in Keys |-> IF k \in ks THEN one(k).entries[k] ELSE buf.entries[k]]
      /\ a.primary = buf.primary
  BY <1>1, <1>3 DEF Buffers
<1>5. a.entries \in [Keys -> Entries]
  BY <1>1, <1>2, <1>4
<1>6. a \in Buffers
  BY <1>1, <1>3, <1>4, <1>5 DEF Buffers
<1>7. Agree(a, mine)
  BY <1>1, <1>2, <1>4 DEF Agree
<1>8. Held(a) = Held(buf)
  BY <1>1, <1>2, <1>4 DEF Held, MutatedKeys
<1> QED
  BY <1>4, <1>6, <1>7, <1>8 DEF a

(* Released keys are forgotten or remain as cached. *)
LEMMA UnlockOK ==
  ASSUME BufferInv, NEW ks
  PROVE  LET a == Unlock(buf, ks)
         IN /\ a \in Buffers /\ Agree(a, mine) /\ a.primary = buf.primary
            /\ Held(a) \subseteq Held(buf) /\ Held(buf) \ ks \subseteq Held(a)
<1> DEFINE a == Unlock(buf, ks)
<1>1. /\ buf \in Buffers /\ buf.entries \in [Keys -> Entries]
      /\ \A k \in Keys : EntryOK(buf.entries[k], snap[k], mine[k])
  BY BufferFields DEF BufferInv, Agree
<1>2. ASSUME NEW k \in Keys
      PROVE  /\ UnlockedEntry(buf.entries[k]) \in Entries
             /\ EntryOK(UnlockedEntry(buf.entries[k]), snap[k], mine[k])
             /\ UnlockedEntry(buf.entries[k]).kind \notin {"none", "cached"}
                  => buf.entries[k].kind \notin {"none", "cached"}
  <2>1. buf.entries[k] \in Entries /\ EntryOK(buf.entries[k], snap[k], mine[k])
    BY <1>1
  <2>2. NoEntry \in Entries /\ Entry("cached", buf.entries[k].value) \in Entries
    BY <2>1 DEF Entries, Entry, NoEntry, EntryKinds, Found
  <2> QED
    BY <2>1, <2>2 DEF UnlockedEntry, EntryOK, Determined, Entry, NoEntry
<1>3. /\ a = [buf EXCEPT !.entries = a.entries]
      /\ a.entries = [k \in Keys |-> IF k \in ks THEN UnlockedEntry(buf.entries[k])
                                     ELSE buf.entries[k]]
      /\ a.primary = buf.primary
  BY <1>1 DEF Unlock, Buffers
<1> HIDE DEF a
<1>4. a.entries \in [Keys -> Entries]
  BY <1>1, <1>2, <1>3
<1>5. a \in Buffers
  BY <1>1, <1>3, <1>4 DEF Buffers
<1>6. Agree(a, mine)
  BY <1>1, <1>2, <1>3 DEF Agree
<1>7. Held(a) \subseteq Held(buf) /\ Held(buf) \ ks \subseteq Held(a)
  BY <1>1, <1>2, <1>3 DEF Held, MutatedKeys
<1> QED
  BY <1>3, <1>5, <1>6, <1>7 DEF a
----------------------------------------------------------------------------
(* Steps that leave the buffer alone. *)
LEMMA KeepsBuffer ==
  ASSUME BufferInv, UNCHANGED <<scenario, snap, mine, buf>>, OpOK'
  PROVE  BufferInv'
  BY DEF BufferInv, Agree, EntryOK

(* Steps that only read. *)
LEMMA ReadsStep ==
  ASSUME IInv, Reads, buf' \in Buffers, Agree(buf', mine), Held(buf') = Held(buf),
         buf'.primary = buf.primary
  PROVE  IInv'
<1>1. UNCHANGED <<scenario, snap, mine, op, kind, status, lock, record, surrendered, secondaries,
                  late, pipe, resolving>>
  BY DEF Reads, storeVars, pipeVars
<1>2. BufferInv'
  BY <1>1 DEF IInv, BufferInv, OpOK, Agree, EntryOK, pessimistic
<1>3. ASSUME Locking'
      PROVE  Quiet' /\ LocksHeld'
  <2>1. Locking /\ Quiet /\ LocksHeld
    BY <1>1, <1>3 DEF IInv, Locking, pessimistic
  <2>2. Quiet'
    BY <1>1, <2>1 DEF Quiet, Committed
  <2>3. LocksHeld'
    BY <1>1, <2>1 DEF LocksHeld, pessimistic, Held
  <2> QED
    BY <2>2, <2>3
<1> QED
  BY <1>2, <1>3 DEF IInv

LEMMA GetStep ==
  ASSUME IInv, NEW k \in Keys, GetKey(k)
  PROVE  IInv'
<1>1. BufferInv /\ snap \in [Keys -> Found] /\ buf \in Buffers /\ buf.entries \in [Keys -> Entries]
  BY BufferFields DEF IInv, BufferInv
<1> DEFINE a == UpdateCaches(buf, {k}, snap)
<1>2. ~Determined(buf.entries[k]) => buf' = a
  <2>1. /\ ~Determined(buf.entries[k]) => buf' = UpdateCache(buf, k, snap[k])
    BY DEF GetKey
  <2>2. UpdateCache(buf, k, snap[k]) = a
    BY <1>1 DEF UpdateCache, UpdateCaches, SetEntry, Buffers
  <2> QED
    BY <2>1, <2>2
<1>3. Determined(buf.entries[k]) => buf' = buf
  BY DEF GetKey
<1>4. a \in Buffers /\ Agree(a, mine) /\ Held(a) = Held(buf) /\ a.primary = buf.primary
  BY <1>1, CachesOK
<1>5. Reads /\ Agree(buf, mine)
  BY <1>1 DEF GetKey, BufferInv
<1> QED
  BY <1>1, <1>2, <1>3, <1>4, <1>5, ReadsStep

LEMMA BatchGetStep ==
  ASSUME IInv, NEW ks, BatchGet(ks)
  PROVE  IInv'
<1>1. BufferInv /\ snap \in [Keys -> Found] /\ Reads
  BY DEF IInv, BufferInv, BatchGet
<1>2. buf' = UpdateCaches(buf, {k \in ks : ~Determined(buf.entries[k]) /\ snap[k] # Absent}, snap)
  BY DEF BatchGet, AfterBatchGet
<1> QED
  BY <1>1, <1>2, CachesOK, ReadsStep

(* What a scan finds of a key whose value is unknown is the snapshot's. *)
LEMMA ScanStep ==
  ASSUME IInv, NEW range, NEW limit, NEW reverse, Scan(range, limit, reverse)
  PROVE  IInv'
<1> DEFINE ks == ScanKeys(buf, range, Fetched(buf, range, limit, reverse, snap))
           found == [k \in Keys |-> ScanValue(buf, k, snap)]
           cached == {k \in ks : \A j \in ScanMismatches(buf, ks, snap) : k < j}
<1>1. /\ BufferInv /\ snap \in [Keys -> Found] /\ Reads
      /\ buf.entries \in [Keys -> Entries]
  BY BufferFields DEF IInv, BufferInv, Scan
<1>2. buf' = UpdateCaches(buf, cached, found)
  BY DEF Scan, AfterScan
<1>3. found \in [Keys -> Found]
  BY <1>1 DEF ScanValue, Entries
<1>4. \A k \in Keys : Determined(buf.entries[k]) \/ found[k] = snap[k]
  BY <1>1 DEF ScanValue, Determined
<1> HIDE DEF found, cached
<1> QED
  BY <1>1, <1>2, <1>3, <1>4, CachesOK, ReadsStep

LEMMA PresumeStep ==
  ASSUME IInv, NEW k \in Keys, Presume(k)
  PROVE  IInv'
<1>1. /\ BufferInv /\ buf \in Buffers
      /\ buf' = [buf EXCEPT !.presumed = @ \cup {k}]
      /\ UNCHANGED <<scenario, snap, mine, op, kind, status, lock, record, surrendered, secondaries,
                     late, resolving>>
      /\ kind # "pipelined" => pipe' = pipe
  BY DEF IInv, BufferInv, Presume, PresumeNotExists, storeVars
<1>2. buf' \in Buffers /\ buf'.entries = buf.entries /\ buf'.primary = buf.primary
  BY <1>1 DEF Buffers
<1>3. BufferInv'
  BY <1>1, <1>2 DEF BufferInv, OpOK, Agree, EntryOK, pessimistic
<1>4. ASSUME Locking'
      PROVE  Quiet' /\ LocksHeld'
  <2>1. Locking /\ Quiet /\ LocksHeld /\ pipe' = pipe
    BY <1>1, <1>4 DEF IInv, Locking, pessimistic
  <2>2. Quiet'
    BY <1>1, <2>1 DEF Quiet, Committed
  <2>3. LocksHeld'
    BY <1>1, <1>2, <2>1 DEF LocksHeld, pessimistic, Held, MutatedKeys
  <2> QED
    BY <2>2, <2>3
<1> QED
  BY <1>3, <1>4 DEF IInv

LEMMA WriteStep ==
  ASSUME IInv, NEW todo \in scenario.todos, NEW first \in Keys, Write(todo, first)
  PROVE  IInv'
<1>1. /\ BufferInv /\ scenario \in Scenarios /\ ~pessimistic /\ first \in DOMAIN todo
      /\ buf' = AfterWrites(buf, todo, first, FALSE)
      /\ UNCHANGED <<scenario, snap, op, kind, status>>
  BY DEF IInv, BufferInv, Write, storeVars
<1>2. IsTodo(todo)
  BY <1>1, TransactionAssumption
<1>3. mine' = [k \in Keys |-> IF k \in DOMAIN todo /\ todo[k].what # "lock" THEN todo[k].value
                              ELSE mine[k]]
  BY DEF Write, Wrote
<1>4. /\ buf' \in Buffers /\ mine' \in [Keys -> Found \cup {Unwritten}] /\ Agree(buf', mine')
  BY <1>1, <1>2, <1>3, WritesOK
<1>5. BufferInv'
  BY <1>1, <1>4 DEF BufferInv, OpOK, Agree, EntryOK, pessimistic
<1> QED
  BY <1>1, <1>5 DEF IInv, Locking, pessimistic

LEMMA LockCallStep ==
  ASSUME IInv, NEW todo \in scenario.todos, NEW first \in Keys, LockCall(todo, first)
  PROVE  IInv'
<1>1. /\ BufferInv /\ scenario \in Scenarios /\ Locking /\ first \in DOMAIN todo
      /\ op' = [name |-> "lock", todo |-> todo, keys |-> DOMAIN todo, first |-> first]
      /\ UNCHANGED <<scenario, snap, mine, buf, kind, status, lock, record, surrendered,
                     secondaries, late, pipe, resolving>>
  BY DEF IInv, BufferInv, LockCall, Operation, Locking, storeVars, pipeVars
<1>2. IsTodo(todo)
  BY <1>1, TransactionAssumption
<1>3. OpOK'
  BY <1>1, <1>2 DEF OpOK, Locking, pessimistic, IsTodo
<1>4. Quiet'
  BY <1>1 DEF IInv, Quiet, Committed
<1>5. LocksHeld'
  BY <1>1 DEF IInv, LocksHeld, pessimistic, Held
<1> QED
  BY <1>1, <1>3, <1>4, <1>5, KeepsBuffer DEF IInv

(* Locks are only added, and the primary they name is a key. *)
LEMMA PessimisticLocksOK ==
  ASSUME Quiet, NEW ks, NEW primary \in Keys, PessimisticLocks(ks, primary)
  PROVE  /\ lock' \in [Keys -> Locks]
         /\ \A k \in Keys : lock'[k].type # "none" => lock'[k].primary \in Keys
         /\ \A k \in Keys : lock[k].type # "none" \/ k \in ks => lock'[k].type # "none"
<1> DEFINE new == [NoLock EXCEPT !.type = "pessimistic", !.primary = primary]
<1>1. new \in Locks /\ new.type = "pessimistic" /\ new.primary = primary
  BY DEF NoLock, Locks, Ops, Found
<1>2. /\ lock \in [Keys -> Locks]
      /\ \A k \in Keys : lock[k].type # "none" => lock[k].primary \in Keys
  BY DEF Quiet
<1>3. lock' = [k \in Keys |-> IF k \in ks /\ lock[k].type = "none" THEN new ELSE lock[k]]
  BY DEF PessimisticLocks
<1> HIDE DEF new
<1> QED
  BY <1>1, <1>2, <1>3

LEMMA LockGrantedStep ==
  ASSUME IInv, LockGranted
  PROVE  IInv'
<1>1. /\ BufferInv /\ OpOK /\ buf \in Buffers /\ op.name = "lock"
      /\ PessimisticLocks(op.keys, PrimaryKeyOr(buf, op.first).primary)
      /\ buf' = AfterWrites(buf, op.todo, op.first, TRUE)
      /\ mine' = [k \in Keys |-> IF k \in DOMAIN op.todo /\ op.todo[k].what # "lock"
                                 THEN op.todo[k].value ELSE mine[k]]
      /\ op' = Idle
      /\ UNCHANGED <<scenario, snap, kind, status, record, surrendered, secondaries, late, pipe,
                     resolving>>
  BY DEF IInv, BufferInv, LockGranted, Wrote, pipeVars
<1>2. /\ IsTodo(op.todo) /\ op.keys = DOMAIN op.todo /\ op.first \in DOMAIN op.todo
      /\ Locking /\ op.first \in Keys
  BY <1>1 DEF OpOK, Locking, IsTodo
<1>3. /\ buf' \in Buffers /\ mine' \in [Keys -> Found \cup {Unwritten}] /\ Agree(buf', mine')
      /\ Held(buf') = Held(buf) \cup op.keys
      /\ buf'.primary = PrimaryKeyOr(buf, op.first).primary
  BY <1>1, <1>2, WritesOK
<1>4. OpOK'
  BY <1>1 DEF OpOK, Idle
<1>5. BufferInv'
  BY <1>1, <1>3, <1>4 DEF BufferInv, Agree, EntryOK
<1>6. Quiet /\ LocksHeld
  BY <1>2 DEF IInv
<1>7. /\ PrimaryKeyOr(buf, op.first).primary \in Keys
      /\ PrimaryKeyOr(buf, op.first).primary = IF buf.primary = NoKey THEN op.first ELSE buf.primary
  BY <1>1, <1>2, PrimaryKeyOrOK
<1>8. /\ lock' \in [Keys -> Locks]
      /\ \A k \in Keys : lock'[k].type # "none" => lock'[k].primary \in Keys
      /\ \A k \in Keys : lock[k].type # "none" \/ k \in op.keys => lock'[k].type # "none"
  BY <1>1, <1>6, <1>7, PessimisticLocksOK
<1>9. Quiet'
  BY <1>1, <1>6, <1>8 DEF Quiet, Committed, Idle
<1>10. Held(buf) \subseteq Keys
  BY DEF Held, MutatedKeys
<1>11. \A k \in Held(buf') :
         lock'[k].type # "none" \/ record'[k] = RolledBack \/ k \in surrendered'
  BY <1>1, <1>2, <1>3, <1>6, <1>8, <1>10 DEF LocksHeld, Locking, IsTodo
<1>12. buf'.primary \in Held(buf') \cup surrendered'
  BY <1>1, <1>2, <1>3, <1>6, <1>7 DEF LocksHeld, Locking
<1>13. LocksHeld'
  BY <1>11, <1>12 DEF LocksHeld, Held, RolledBack
<1> QED
  BY <1>5, <1>9, <1>13 DEF IInv

LEMMA LockRefusedStep ==
  ASSUME IInv, NEW ok, NEW lost, LockRefused(ok, lost)
  PROVE  IInv'
<1> DEFINE some == op.keys \cap KeysIn(ok \cup lost)
<1>1. /\ BufferInv /\ OpOK /\ buf \in Buffers /\ op.name = "lock"
      /\ PessimisticLocks(some, PrimaryKeyOr(buf, op.first).primary)
      /\ op' = IF ok = {} THEN Idle
               ELSE [op EXCEPT !.name = "unlock", !.keys = op.keys \cap KeysIn(ok)]
      /\ UNCHANGED <<scenario, snap, mine, buf, kind, status, record, surrendered, secondaries,
                     late, pipe, resolving>>
  BY DEF IInv, BufferInv, LockRefused, pipeVars
<1>2. IsTodo(op.todo) /\ op.first \in Keys /\ Locking
  BY <1>1 DEF OpOK, Locking, IsTodo
<1>3. OpOK' /\ op'.name \in {"idle", "unlock"}
  BY <1>1, <1>2 DEF OpOK, Idle, Locking, pessimistic, IsTodo
<1>4. Quiet /\ LocksHeld
  BY <1>2 DEF IInv
<1>5. PrimaryKeyOr(buf, op.first).primary \in Keys
  BY <1>1, <1>2, PrimaryKeyOrOK
<1>6. /\ lock' \in [Keys -> Locks]
      /\ \A k \in Keys : lock'[k].type # "none" => lock'[k].primary \in Keys
      /\ \A k \in Keys : lock[k].type # "none" => lock'[k].type # "none"
  BY <1>1, <1>4, <1>5, PessimisticLocksOK
<1>7. Quiet'
  BY <1>1, <1>3, <1>4, <1>6 DEF Quiet, Committed
<1>8. LocksHeld'
  BY <1>1, <1>4, <1>6 DEF LocksHeld, Held, MutatedKeys, pessimistic
<1> QED
  BY <1>1, <1>3, <1>7, <1>8, KeepsBuffer DEF IInv

(* The keys of a released lock request that were held before are surrendered. *)
LEMMA ReleaseStep ==
  ASSUME IInv, op.name = "unlock", NEW ks, PessimisticRollback(ks),
         surrendered' = surrendered \cup (ks \cap Held(buf)), op' = Idle,
         buf' \in Buffers, Agree(buf', mine), buf'.primary = buf.primary,
         Held(buf') \subseteq Held(buf), Held(buf) \ ks \subseteq Held(buf'),
         UNCHANGED <<scenario, snap, mine, kind, status, record, secondaries, late, pipe, resolving>>
  PROVE  IInv'
<1>1. Locking /\ Quiet /\ LocksHeld
  BY DEF IInv, BufferInv, OpOK, Locking
<1>2. OpOK'
  BY DEF OpOK, Idle
<1>3. BufferInv'
  BY <1>2 DEF IInv, BufferInv, Agree, EntryOK
<1>4. NoLock \in Locks /\ NoLock.type = "none"
  BY DEF NoLock, Locks, Ops, Found
<1>5. /\ lock' \in [Keys -> Locks]
      /\ \A k \in Keys : lock'[k].type # "none" => lock'[k].primary \in Keys
      /\ \A k \in Keys \ ks : lock'[k] = lock[k]
  <2>1. /\ lock \in [Keys -> Locks]
        /\ \A k \in Keys : lock[k].type # "none" => lock[k].primary \in Keys
    BY <1>1 DEF Quiet
  <2> QED
    BY <1>4, <2>1 DEF PessimisticRollback
<1>6. Quiet'
  BY <1>1, <1>5 DEF Quiet, Committed, Idle
<1>7. Held(buf) \subseteq Keys
  BY DEF Held, MutatedKeys
<1>8. \A k \in Held(buf') :
        lock'[k].type # "none" \/ record'[k] = RolledBack \/ k \in surrendered'
  BY <1>1, <1>5, <1>7 DEF LocksHeld, Locking
<1>9. buf'.primary # NoKey => buf'.primary \in Held(buf') \cup surrendered'
  BY <1>1 DEF LocksHeld, Locking
<1>10. LocksHeld'
  BY <1>8, <1>9 DEF LocksHeld, Held, RolledBack
<1> QED
  BY <1>3, <1>6, <1>10 DEF IInv

LEMMA UnlockDoneStep ==
  ASSUME IInv, UnlockDone
  PROVE  IInv'
<1>1. BufferInv /\ buf' = Unlock(buf, op.keys)
  BY DEF IInv, UnlockDone
<1>2. /\ buf' \in Buffers /\ Agree(buf', mine) /\ buf'.primary = buf.primary
      /\ Held(buf') \subseteq Held(buf) /\ Held(buf) \ op.keys \subseteq Held(buf')
  BY <1>1, UnlockOK
<1> QED
  BY <1>2, ReleaseStep DEF UnlockDone, pipeVars

LEMMA UnlockFailsStep ==
  ASSUME IInv, NEW regions, UnlockFails(regions)
  PROVE  IInv'
<1>1. buf \in Buffers /\ Agree(buf, mine) /\ buf' = buf
  BY DEF IInv, BufferInv, UnlockFails
<1> QED
  BY <1>1, ReleaseStep DEF UnlockFails, pipeVars
----------------------------------------------------------------------------
(* Steps of a transaction that is not, or no more, pessimistic and active. *)
LEMMA EndedStep ==
  ASSUME IInv, UNCHANGED <<scenario, snap, mine, buf, kind>>, OpOK', ~Locking'
  PROVE  IInv'
  BY KeepsBuffer DEF IInv

LEMMA EndCallsStep ==
  ASSUME IInv, CommitCall \/ RollbackCall \/ DropTxn
  PROVE  IInv'
<1>1. op = Idle /\ UNCHANGED <<scenario, snap, mine, buf, kind>> /\ status' # "Active"
  BY DEF CommitCall, RollbackCall, DropTxn, Call, Calling, storeVars
<1>2. \/ op' = op
      \/ \E n \in {"flush", "prewrite", "cancelled", "rollback"} : \E k :
           op' = [Idle EXCEPT !.name = n, !.first = k]
  BY DEF CommitCall, RollbackCall, DropTxn, Await
<1>3. OpOK'
  <2>1. CASE op' = op
    BY <1>1, <2>1 DEF OpOK, Idle
  <2>2. ASSUME NEW n \in {"flush", "prewrite", "cancelled", "rollback"}, NEW k,
               op' = [Idle EXCEPT !.name = n, !.first = k]
        PROVE  OpOK'
    BY <2>2 DEF OpOK, Idle
  <2> QED
    BY <1>2, <2>1, <2>2
<1> QED
  BY <1>1, <1>3, EndedStep DEF Locking

CommitAnswers ==
  \/ PrewriteDone
  \/ \E regions \in SUBSET RegionsOf(Keys) : PrewriteFails(regions) \/ RollbackFails(regions)
  \/ FlushAwaited
  \/ PrimaryCommitted
  \/ PrimaryFails
  \/ RollbackPipelined
  \/ RollbackDone

LEMMA CommitAnswersStep ==
  ASSUME IInv, CommitAnswers
  PROVE  IInv'
<1>1. /\ op.name \in {"prewrite", "flush", "primary", "cancelled", "rollback"}
      /\ snap' = snap /\ Calling
      /\ status' = status \/ status' # "Active"
      /\ op' = Idle \/ op' = op \/ op' = [op EXCEPT !.name = "primary"]
  BY DEF CommitAnswers, PrewriteDone, PrewriteFails, RollbackFails, FlushAwaited, PrimaryCommitted,
         PrimaryFails, RollbackPipelined, RollbackDone, storeVars
<1>2. OpOK
  BY DEF IInv, BufferInv
<1>3. OpOK'
  BY <1>1, <1>2, SMTT(20) DEF OpOK, Idle
<1>4. ~Locking
  BY <1>1 DEF IInv, Quiet
<1> QED
  BY <1>1, <1>3, <1>4, EndedStep DEF Calling, Locking, pessimistic

LEMMA TasksStep ==
  ASSUME IInv, SecondariesCommitted \/ SecondariesFail \/ Flushing \/ Resolving
  PROVE  IInv'
<1>1. UNCHANGED <<scenario, snap, mine, buf, kind, op, status>>
  BY DEF SecondariesCommitted, SecondariesFail, Flushing, Resolving, Calling, txnVars, FlushTask,
         ResolveTask, FlushBegins, FlushSends, FlushFails, FlushRegion, ResolveFails, ResolveRegion,
         storeVars
<1>2. OpOK'
  BY <1>1 DEF IInv, BufferInv, OpOK, pessimistic
<1>3. secondaries # {} \/ pipe.flushing.stage # "none" \/ resolving.state # "none"
  BY DEF SecondariesCommitted, SecondariesFail, Flushing, Resolving, FlushTask, ResolveTask,
         FlushBegins, FlushSends, FlushFails, FlushRegion, ResolveFails, ResolveRegion
<1>4. ~Locking
  BY <1>3 DEF IInv, Quiet
<1> QED
  BY <1>1, <1>2, <1>4, EndedStep DEF Locking, pessimistic

LEMMA HeartbeatStep ==
  ASSUME IInv, HeartbeatStops \/ HeartbeatFails
  PROVE  IInv'
<1>1. UNCHANGED <<scenario, snap, mine, buf, kind, op, status, lock, record, surrendered,
                  secondaries, late, pipe, resolving>>
  BY DEF HeartbeatStops, HeartbeatFails, HeartbeatEnds, pipeVars
<1>2. OpOK'
  BY <1>1 DEF IInv, BufferInv, OpOK, pessimistic
<1>3. Locking' => Quiet' /\ LocksHeld'
  BY <1>1 DEF IInv, Locking, Quiet, Committed, LocksHeld, Held, pessimistic
<1> QED
  BY <1>1, <1>2, <1>3, KeepsBuffer DEF IInv

(* Whoever resolves a lock of an active transaction finds its primary        *)
(* uncommitted and rolls the key back.                                       *)
LEMMA ResolverStep ==
  ASSUME IInv, NEW k \in Keys, ResolverMeets(k, Alive), UNCHANGED <<pipeVars, txnVars, scenario>>
  PROVE  IInv'
<1>1. UNCHANGED <<scenario, snap, mine, buf, kind, op, status, surrendered, secondaries, late,
                  pipe, resolving>>
  BY DEF ResolverMeets, pipeVars, txnVars
<1>2. OpOK'
  BY <1>1 DEF IInv, BufferInv, OpOK, pessimistic
<1>3. ASSUME Locking'
      PROVE  Quiet' /\ LocksHeld'
  <2>1. Quiet /\ LocksHeld /\ Locking
    BY <1>1, <1>3 DEF IInv, Locking, pessimistic
  <2>2. lock[k].primary \in Keys /\ ~Committed(lock[k].primary)
    BY <2>1 DEF ResolverMeets, Quiet
  <2>3. Rollback({lock[k].primary, k})
    BY <2>2 DEF ResolverMeets
  <2> DEFINE some == {j \in {lock[k].primary, k} : ~Committed(j)}
  <2>4. /\ record' = [j \in Keys |-> IF j \in some THEN RolledBack ELSE record[j]]
        /\ lock' = [j \in Keys |-> IF j \in some THEN NoLock ELSE lock[j]]
    BY <2>3 DEF Rollback
  <2> HIDE DEF some
  <2>5. /\ NoLock \in Locks /\ NoLock.type = "none"
        /\ RolledBack \in Records /\ RolledBack.op = "rollback"
    BY DEF NoLock, Locks, Ops, Found, RolledBack, Records
  <2>6. Quiet'
    BY <1>1, <2>1, <2>4, <2>5 DEF Quiet, Committed
  <2>7. \A j \in Keys : (lock[j].type # "none" => lock'[j].type # "none" \/ record'[j] = RolledBack)
                        /\ (record[j] = RolledBack => record'[j] = RolledBack)
    BY <2>4
  <2>8. LocksHeld'
    BY <1>1, <2>1, <2>7 DEF LocksHeld, Held, MutatedKeys, pessimistic, RolledBack
  <2> QED
    BY <2>6, <2>8
<1> QED
  BY <1>1, <1>2, <1>3, KeepsBuffer DEF IInv

LEMMA OthersStep ==
  ASSUME IInv, Others
  PROVE  IInv'
<1>1. UNCHANGED <<scenario, mine, buf, kind, op, status, surrendered, secondaries>>
  BY DEF Others, txnVars
<1>2. OpOK'
  BY <1>1 DEF IInv, BufferInv, OpOK, pessimistic
<1>3. ASSUME NEW k \in Keys, RivalWrites(k), UNCHANGED pipeVars
      PROVE  IInv'
  <2>1. UNCHANGED <<snap, lock, record, late, pipe, resolving>>
    BY <1>3 DEF RivalWrites, pipeVars
  <2>2. Locking' => Quiet' /\ LocksHeld'
    BY <1>1, <2>1 DEF IInv, Locking, Quiet, Committed, LocksHeld, Held, pessimistic
  <2> QED
    BY <1>1, <1>2, <2>1, <2>2, KeepsBuffer DEF IInv
<1>4. ASSUME NEW f \in late, NEW r \in RegionsOf(Keys), LateFlush(f, r)
      PROVE  IInv'
  <2>1. snap' = snap /\ ~Locking
    BY <1>4 DEF LateFlush, IInv, Quiet
  <2> QED
    BY <1>1, <1>2, <2>1, EndedStep DEF Locking, pessimistic
<1> QED
  BY <1>3, <1>4, ResolverStep DEF Others

LEMMA Initially == Init => IInv
<1> SUFFICES ASSUME Init PROVE IInv
  OBVIOUS
<1>1. snap \in [Keys -> Found] /\ scenario \in Scenarios
  BY TransactionAssumption DEF Init
<1>2. NewBuffer \in Buffers /\ \A k \in Keys : NewBuffer.entries[k] = NoEntry
  BY DEF NewBuffer, Buffers, NoEntry, Entry, Entries, EntryKinds, Found
<1>3. BufferInv
  BY <1>1, <1>2, SMTT(20) DEF Init, BufferInv, OpOK, Idle, Agree, EntryOK, Determined, NoEntry, Entry
<1>4. NoLock \in Locks /\ NoRecord \in Records /\ NoLock.type = "none" /\ NoRecord.op = "none"
  BY DEF NoLock, NoRecord, Locks, Records, Ops, Found
<1>5. Quiet
  BY <1>4 DEF Init, PipeInit, NoFlush, NoTask, Quiet, Committed, Idle
<1>6. Held(buf) = {} /\ buf.primary = NoKey
  BY <1>2 DEF Init, Held, MutatedKeys, NewBuffer, NoEntry, Entry
<1> QED
  BY <1>3, <1>5, <1>6 DEF IInv, LocksHeld

LEMMA Inductive == IInv /\ [Next]_vars => IInv'
<1> SUFFICES ASSUME IInv, [Next]_vars PROVE IInv'
  OBVIOUS
<1>1. CASE UserCalls
  BY <1>1, GetStep, PresumeStep, BatchGetStep, ScanStep, WriteStep, LockCallStep, EndCallsStep
     DEF UserCalls
<1>2. CASE Answers
  BY <1>2, LockGrantedStep, LockRefusedStep, UnlockDoneStep, UnlockFailsStep, CommitAnswersStep,
     ZenonT(30) DEF Answers, CommitAnswers
<1>3. CASE UNCHANGED vars
  <2>1. UNCHANGED <<scenario, snap, mine, buf, kind, op, status, lock, record, surrendered,
                    secondaries, late, pipe, resolving>>
    BY <1>3 DEF vars, storeVars, pipeVars, txnVars
  <2>2. OpOK'
    BY <2>1 DEF IInv, BufferInv, OpOK, pessimistic
  <2>3. Locking' => Quiet' /\ LocksHeld'
    BY <2>1 DEF IInv, Locking, Quiet, Committed, LocksHeld, Held, pessimistic
  <2> QED
    BY <2>1, <2>2, <2>3, KeepsBuffer DEF IInv
<1> QED
  BY <1>1, <1>2, <1>3, TasksStep, HeartbeatStep, OthersStep DEF Next

LEMMA Invariance == Spec => []IInv
  BY Initially, Inductive, PTL DEF Spec

(* Read your writes: after any calls, refused locks, released locks, scans   *)
(* and flushes, get() returns what the transaction wrote last, or else its   *)
(* snapshot.                                                                 *)
THEOREM ReadsOwnWrites == Spec => []GetsAgree
<1>1. IInv => GetsAgree
  BY DEF IInv, BufferInv, Agree, EntryOK, GetsAgree, Get, Expected
<1> QED
  BY <1>1, Invariance, PTL

(* A key that an active pessimistic transaction counts as locked is locked   *)
(* in TiKV, unless its lock expired or a failed request released it.         *)
THEOREM HoldsItsLocks == Spec => []LocksHeld
<1>1. IInv => LocksHeld
  BY DEF IInv, Locking, LocksHeld
<1> QED
  BY <1>1, Invariance, PTL
----------------------------------------------------------------------------
(* Scans. *)

(* The keys of ks that come before k in the direction of the scan. *)
Before(ks, k, reverse) == {j \in ks : IF reverse THEN j > k ELSE j < k}

(* Keys come one after the other, and fewer come before the first of two.    *)
LEMMA BeforeOrder ==
  ASSUME NEW ks, IsFiniteSet(ks), ks \subseteq Nat, NEW reverse \in BOOLEAN
  PROVE  /\ \A k : IsFiniteSet(Before(ks, k, reverse)) /\ Cardinality(Before(ks, k, reverse)) \in Nat
         /\ \A j, k \in ks :
              j = k \/ j \in Before(ks, k, reverse) \/ k \in Before(ks, j, reverse)
         /\ \A j, k \in ks : j \in Before(ks, k, reverse) =>
              /\ Before(ks, j, reverse) \subseteq Before(ks, k, reverse)
              /\ Cardinality(Before(ks, j, reverse)) < Cardinality(Before(ks, k, reverse))
<1>1. ASSUME NEW k
      PROVE  IsFiniteSet(Before(ks, k, reverse)) /\ Cardinality(Before(ks, k, reverse)) \in Nat
  <2>1. Before(ks, k, reverse) \subseteq ks
    BY DEF Before
  <2> QED
    BY <2>1, FS_Subset, FS_CardinalityType
<1>2. \A j, k \in ks : j = k \/ j \in Before(ks, k, reverse) \/ k \in Before(ks, j, reverse)
  BY SMTT(20) DEF Before
<1>3. ASSUME NEW j \in ks, NEW k \in ks, j \in Before(ks, k, reverse)
      PROVE  /\ Before(ks, j, reverse) \subseteq Before(ks, k, reverse)
             /\ Cardinality(Before(ks, j, reverse)) < Cardinality(Before(ks, k, reverse))
  <2>1. /\ Before(ks, j, reverse) \subseteq Before(ks, k, reverse)
        /\ j \notin Before(ks, j, reverse)
    <3>1. j \in Nat /\ k \in Nat /\ (IF reverse THEN j > k ELSE j < k)
      BY <1>3 DEF Before
    <3>2. \A h \in Nat : (IF reverse THEN h > j ELSE h < j) => IF reverse THEN h > k ELSE h < k
      BY <3>1, SMTT(20)
    <3>3. ~(IF reverse THEN j > j ELSE j < j)
      BY <3>1, SMTT(20)
    <3> QED
      BY <3>2, <3>3 DEF Before
  <2>2. /\ Cardinality(Before(ks, j, reverse)) <= Cardinality(Before(ks, k, reverse))
        /\ Cardinality(Before(ks, j, reverse)) # Cardinality(Before(ks, k, reverse))
    BY <1>1, <1>3, <2>1, FS_Subset
  <2>3. Cardinality(Before(ks, j, reverse)) \in Nat /\ Cardinality(Before(ks, k, reverse)) \in Nat
    BY <1>1
  <2> QED
    BY <2>1, <2>2, <2>3, SMTT(20)
<1> QED
  BY <1>1, <1>2, <1>3

(* Of the keys that FirstOf leaves out one comes first, and before that one  *)
(* nothing is left out.                                                      *)
LEMMA FirstLeftOut ==
  ASSUME NEW ks, IsFiniteSet(ks), ks \subseteq Nat, NEW reverse \in BOOLEAN, NEW n \in Nat,
         NEW k \in ks \ FirstOf(ks, n, reverse)
  PROVE  \E i \in ks : /\ Before(ks, i, reverse) \subseteq FirstOf(ks, n, reverse)
                       /\ Before(ks, i, reverse) \subseteq Before(ks, k, reverse)
                       /\ n <= Cardinality(Before(ks, i, reverse))
<1> DEFINE left == ks \ FirstOf(ks, n, reverse)
           rank(i) == Cardinality(Before(ks, i, reverse))
           ranks == {rank(i) : i \in left}
<1>1. \A i \in ks : rank(i) \in Nat
  BY BeforeOrder
<1>2. ranks \subseteq Nat /\ ranks # {}
  BY <1>1
<1>3. PICK x \in ranks : \A y \in ranks : ~(<<y, x>> \in OpToRel(<, Nat))
  BY <1>2, NatLessThanWellFounded, WFMin
<1>4. ASSUME NEW y \in ranks PROVE ~(y < x)
  <2>1. <<y, x>> \in Nat \X Nat
    BY <1>2
  <2>2. ~(<<y, x>>[1] < <<y, x>>[2])
    BY <1>3, <2>1 DEF OpToRel
  <2> QED
    BY <2>2, SMTT(20)
<1>5. PICK i \in left : x = rank(i)
  OBVIOUS
<1> HIDE DEF rank
<1>6. \A j \in left : ~(rank(j) < rank(i))
  BY <1>4, <1>5
<1>7. Before(ks, i, reverse) \subseteq FirstOf(ks, n, reverse)
  <2> SUFFICES ASSUME NEW j \in Before(ks, i, reverse), j \notin FirstOf(ks, n, reverse)
               PROVE  FALSE
    OBVIOUS
  <2>1. j \in left
    BY DEF Before
  <2>2. rank(j) < rank(i)
    BY <2>1, BeforeOrder DEF rank
  <2> QED
    BY <1>6, <2>1, <2>2
<1>8. Before(ks, i, reverse) \subseteq Before(ks, k, reverse)
  <2>1. k \in left
    OBVIOUS
  <2>2. CASE k \in Before(ks, i, reverse)
    BY <1>7, <2>2
  <2>3. CASE k = i
    BY <2>3
  <2>4. CASE i \in Before(ks, k, reverse)
    BY <2>4, BeforeOrder
  <2> QED
    BY <2>2, <2>3, <2>4, BeforeOrder
<1>9. n <= rank(i)
  <2>1. ~(rank(i) < n)
    BY <1>5 DEF FirstOf, rank, Before
  <2> QED
    BY <1>1, <2>1, SMTT(20)
<1> QED
  BY <1>7, <1>8, <1>9 DEF rank

(* The first keys are the same whether all stored keys are fetched or only   *)
(* as many more than the limit as are deleted.                               *)
FetchesEnough(stored, put, deleted, limit, reverse) ==
  FirstOf((FirstOf(stored, limit + Cardinality(deleted), reverse) \cup put) \ deleted, limit, reverse)
    = FirstOf((stored \cup put) \ deleted, limit, reverse)

(* A scan that asks for as many more stored keys as are deleted misses none. *)
LEMMA FetchedEnough ==
  ASSUME NEW range, IsFiniteSet(range), range \subseteq Nat, NEW reverse \in BOOLEAN,
         NEW limit \in Nat, NEW stored \in SUBSET range, NEW put \in SUBSET range,
         NEW deleted \in SUBSET range
  PROVE  FetchesEnough(stored, put, deleted, limit, reverse)
<1> DEFINE n == limit + Cardinality(deleted)
           fetched == FirstOf(stored, n, reverse)
           ks == (fetched \cup put) \ deleted
           all == (stored \cup put) \ deleted
<1>1. /\ IsFiniteSet(stored) /\ IsFiniteSet(deleted) /\ IsFiniteSet(all)
      /\ Cardinality(deleted) \in Nat /\ stored \subseteq Nat /\ all \subseteq Nat
  BY FS_Subset, FS_CardinalityType
<1>2. n \in Nat
  BY <1>1, SMTT(20)
<1>3. fetched \subseteq stored
  BY DEF FirstOf
<1>4. IsFiniteSet(ks) /\ ks \subseteq all /\ ks \subseteq Nat
  BY <1>1, <1>3, FS_Subset
\* What is left of n stored keys without the deleted ones reaches the limit.
<1>5. ASSUME NEW T \in SUBSET stored, n <= Cardinality(T), NEW U, IsFiniteSet(U), T \ deleted \subseteq U
      PROVE  ~(Cardinality(U) < limit)
  <2>1. IsFiniteSet(T) /\ Cardinality(T) \in Nat
    BY <1>1, FS_Subset, FS_CardinalityType
  <2>2. /\ IsFiniteSet(T \cap deleted) /\ Cardinality(T \cap deleted) <= Cardinality(deleted)
        /\ Cardinality(T \cap deleted) \in Nat
    BY <1>1, FS_Subset, FS_CardinalityType
  <2>3. Cardinality(T \ deleted) = Cardinality(T) - Cardinality(T \cap deleted)
    BY <2>1, FS_Difference
  <2>4. Cardinality(T \ deleted) <= Cardinality(U) /\ Cardinality(U) \in Nat
    BY <1>5, FS_Subset, FS_CardinalityType
  <2> HIDE DEF fetched, ks, all
  <2> QED
    BY <1>1, <1>5, <2>1, <2>2, <2>3, <2>4, SMTT(20)
<1> HIDE DEF n
<1>6. ASSUME NEW k \in FirstOf(ks, limit, reverse)
      PROVE  k \in FirstOf(all, limit, reverse)
  <2>1. k \in ks /\ Cardinality(Before(ks, k, reverse)) < limit
    BY DEF FirstOf, Before
  <2>2. ASSUME NEW j \in Before(all, k, reverse)
        PROVE  j \in ks
    <3> SUFFICES ASSUME j \notin ks PROVE FALSE
      OBVIOUS
    <3>1. j \in stored \ fetched /\ j \in Nat /\ k \in Nat
      BY <1>1, <1>4, <2>1 DEF Before
    <3>2. PICK i \in stored : /\ Before(stored, i, reverse) \subseteq fetched
                              /\ Before(stored, i, reverse) \subseteq Before(stored, j, reverse)
                              /\ n <= Cardinality(Before(stored, i, reverse))
      BY <1>1, <1>2, <3>1, FirstLeftOut
    <3>3. \A h \in Before(stored, j, reverse) : IF reverse THEN h > k ELSE h < k
      <4>1. stored \subseteq Nat /\ (IF reverse THEN j > k ELSE j < k)
        BY <1>1, <2>2 DEF Before
      <4> QED
        BY <3>1, <4>1, SMTT(20) DEF Before
    <3>4. Before(stored, i, reverse) \ deleted \subseteq Before(ks, k, reverse)
      BY <3>2, <3>3 DEF Before
    <3>5. Before(stored, i, reverse) \in SUBSET stored
      BY DEF Before
    <3>6. IsFiniteSet(Before(ks, k, reverse))
      BY <1>4, BeforeOrder
    <3> QED
      BY <1>5, <2>1, <3>2, <3>4, <3>5, <3>6
  <2>3. Before(all, k, reverse) = Before(ks, k, reverse)
    BY <1>4, <2>2 DEF Before
  <2> QED
    BY <1>4, <2>1, <2>3 DEF FirstOf, Before
<1>7. ASSUME NEW k \in FirstOf(all, limit, reverse)
      PROVE  k \in FirstOf(ks, limit, reverse)
  <2>1. k \in all /\ Cardinality(Before(all, k, reverse)) < limit
    BY DEF FirstOf, Before
  <2>2. IsFiniteSet(Before(all, k, reverse)) /\ Cardinality(Before(all, k, reverse)) \in Nat
    BY <1>1, BeforeOrder
  <2>3. k \in ks
    <3> SUFFICES ASSUME k \notin ks PROVE FALSE
      OBVIOUS
    <3>1. k \in stored \ fetched
      BY <2>1
    <3>2. n <= Cardinality(Before(stored, k, reverse))
      <4>1. ~(Cardinality(Before(stored, k, reverse)) < n)
        BY <3>1 DEF FirstOf, Before
      <4>2. Cardinality(Before(stored, k, reverse)) \in Nat
        BY <1>1, BeforeOrder
      <4> QED
        BY <1>2, <4>1, <4>2, SMTT(20)
    <3>3. /\ Before(stored, k, reverse) \in SUBSET stored
          /\ Before(stored, k, reverse) \ deleted \subseteq Before(all, k, reverse)
      BY DEF Before
    <3> QED
      BY <1>5, <2>1, <2>2, <3>2, <3>3
  <2>4. Before(ks, k, reverse) \subseteq Before(all, k, reverse)
    BY <1>4 DEF Before
  <2>5. Cardinality(Before(ks, k, reverse)) <= Cardinality(Before(all, k, reverse))
        /\ Cardinality(Before(ks, k, reverse)) \in Nat
    BY <2>2, <2>4, FS_Subset, FS_CardinalityType
  <2>6. Cardinality(Before(ks, k, reverse)) < limit
    BY <2>1, <2>2, <2>5, SMTT(20)
  <2> QED
    BY <2>3, <2>6 DEF FirstOf, Before
<1> QED
  BY <1>6, <1>7 DEF n, FetchesEnough

(* scan() returns the first keys of the snapshot with the transaction's own  *)
(* writes over it, in either direction and for any range and limit: the keys *)
(* it fetches beyond the limit make up for the deleted ones.                 *)
THEOREM ScansOwnWrites == Spec => []ScansAgree
<1>1. ASSUME BufferInv, NEW range \in Ranges, NEW limit \in ScanLimits, NEW reverse \in BOOLEAN,
             \A k \in range : buf.entries[k].kind \notin {"insert", "check"}
      PROVE  LET ks == ScanKeys(buf, range, Fetched(buf, range, limit, reverse, snap))
                 found == FirstOf(ks, limit, reverse)
             IN /\ found = FirstOf({k \in range : Expected(k) # Absent}, limit, reverse)
                /\ \A k \in found : ScanValue(buf, k, snap) = Expected(k)
                /\ ScanMismatches(buf, ks, snap) = {}
  <2> DEFINE stored == {k \in range : snap[k] # Absent}
             put == {k \in range : buf.entries[k].kind = "put"}
             deleted == {k \in range : buf.entries[k].kind = "del"}
             fetched == Fetched(buf, range, limit, reverse, snap)
             ks == ScanKeys(buf, range, fetched)
  <2>1. range \subseteq Keys /\ range \subseteq Nat /\ IsFiniteSet(range)
    <3>1. PICK a \in Keys, b \in Keys : range = {k \in Keys : a <= k /\ k <= b}
      BY SMTT(20) DEF Ranges
    <3>2. a \in Nat /\ b \in Nat /\ Keys \subseteq Nat
      BY BufferAssumption
    <3>3. ASSUME NEW k \in range PROVE k \in a..b
      <4>1. k \in Nat /\ a <= k /\ k <= b
        BY <3>1, <3>2
      <4> QED
        BY <3>2, <4>1, SMTT(20)
    <3>4. IsFiniteSet(a..b)
      BY <3>2, FS_Interval, SMTT(20)
    <3> QED
      BY <3>1, <3>2, <3>3, <3>4, FS_Subset
  <2>2. limit \in Nat
    BY TransactionAssumption
  <2>3. \A k \in range : EntryOK(buf.entries[k], snap[k], mine[k])
    BY <1>1, <2>1 DEF BufferInv, Agree
  <2>4. \A k \in range : buf.entries[k].kind \in {"none", "cached", "locked", "lockedRead", "put", "del"}
    <3>1. \A k \in range : buf.entries[k].kind \in EntryKinds
      BY <1>1, <2>1, BufferFields DEF BufferInv, Entries
    <3> QED
      BY <1>1, <3>1 DEF EntryKinds
  <2>5. fetched = FirstOf(stored, limit + Cardinality(deleted), reverse)
    BY DEF Fetched
  <2>6. ks = (fetched \cup put) \ deleted /\ ks \subseteq range
    BY <2>5 DEF ScanKeys, FirstOf
  <2>7. ASSUME NEW k \in range
        PROVE  /\ Expected(k) # Absent <=> k \in (stored \cup put) \ deleted
               /\ k \notin deleted => /\ ScanValue(buf, k, snap) = Expected(k)
                                      /\ ~CacheMismatch(buf, k, Expected(k))
    <3>1. EntryOK(buf.entries[k], snap[k], mine[k])
      BY <2>3
    <3>2. CASE buf.entries[k].kind = "put"
      BY <3>1, <3>2 DEF EntryOK, Determined, Expected, ScanValue, CacheMismatch
    <3>3. CASE buf.entries[k].kind = "del"
      BY <3>1, <3>3 DEF EntryOK, Determined, Expected
    <3>4. CASE buf.entries[k].kind \in {"none", "cached", "locked", "lockedRead"}
      BY <3>1, <3>4 DEF EntryOK, Determined, Expected, ScanValue, CacheMismatch
    <3> QED
      BY <2>4, <3>2, <3>3, <3>4
  <2>8. {k \in range : Expected(k) # Absent} = (stored \cup put) \ deleted
    BY <2>7
  <2>9. FirstOf(ks, limit, reverse) = FirstOf({k \in range : Expected(k) # Absent}, limit, reverse)
    <3> HIDE DEF stored, put, deleted, fetched, ks
    <3>1. stored \in SUBSET range /\ put \in SUBSET range /\ deleted \in SUBSET range
      BY DEF stored, put, deleted
    <3>2. FetchesEnough(stored, put, deleted, limit, reverse)
      BY <2>1, <2>2, <3>1, FetchedEnough
    <3> QED
      BY <2>5, <2>6, <2>8, <3>2 DEF FetchesEnough
  <2>10. \A k \in ks : /\ ScanValue(buf, k, snap) = Expected(k)
                       /\ ~CacheMismatch(buf, k, ScanValue(buf, k, snap))
    BY <2>6, <2>7
  <2>11. FirstOf(ks, limit, reverse) \subseteq ks /\ ScanMismatches(buf, ks, snap) = {}
    BY <2>10 DEF FirstOf, ScanMismatches
  <2> QED
    BY <2>9, <2>10, <2>11
<1>2. IInv => ScansAgree
  BY <1>1 DEF IInv, ScansAgree
<1> QED
  BY <1>2, Invariance, PTL
----------------------------------------------------------------------------
(* A successful commit() loses no write.                                     *)

Written(k) == mine[k] # Unwritten

(* What a lock, a record or a mutation x of key k carries is the last write. *)
Right(x, k) == Written(k) => x.op # "Lock" /\ x.value = mine[k]

(* Which keys were written, and how the marks relate to the entries.         *)
WrittenInv ==
  /\ \A k \in Keys : Written(k) => buf.entries[k].kind \in {"put", "del", "insert", "check"}
  /\ \A k \in Keys : buf.entries[k].kind = "check" =>
       k \in buf.prewriteOnly /\ buf.entries[k].value = Absent
  /\ \A k \in Keys : k \in buf.prewriteOnly => buf.entries[k].kind \in {"insert", "check"}
  /\ pessimistic => buf.prewriteOnly = {}
  /\ ~pessimistic => IF MutatedKeys(buf) = {} THEN buf.primary = NoKey
                     ELSE buf.primary \in MutatedKeys(buf)

(* What each stage of a call implies.                                        *)
StageInv ==
  /\ status = "Active" => op.name \in {"idle", "lock", "unlock"}
  /\ op.name \in {"prewrite", "flush", "primary"} =>
       status = "StartedCommit" /\ op.first = CommitPrimary(buf) /\ MutatedKeys(buf) # {}
  /\ op.name \in {"cancelled", "rollback"} => status = "StartedRollback"
  /\ op.name = "primary" => CommitKeys(buf) # {}
  /\ op.name \in {"prewrite", "rollback"} => kind # "pipelined"
  /\ op.name \in {"flush", "cancelled"} => kind = "pipelined"
  /\ kind # "pipelined" =>
       late = {} /\ pipe.flushing.stage = "none" /\ resolving.state = "none" /\ ~pipe.failed
  /\ status \in {"Active", "StartedCommit"} => secondaries = {}

StoreInv ==
  /\ lock \in [Keys -> Locks] /\ record \in [Keys -> Records]
  /\ \A k \in Keys : lock[k].type # "none" => lock[k].primary \in Keys /\ record[k] # RolledBack

(* Optimistic and pessimistic: nothing is committed before the primary, and  *)
(* a lock names the primary or a stray one.                                  *)
PlainInv ==
  kind # "pipelined" /\ status \in {"Active", "StartedCommit"} =>
    /\ \A k \in Keys : ~Committed(k) /\ lock[k].gen = 0
    /\ ~pessimistic => \A k \in Keys : status = "Active" \/ buf.entries[k].kind = "check"
                                       => lock[k].type = "none"
    /\ pessimistic /\ status = "Active" => \A k \in Keys : lock[k].type # "write"
    /\ \A k \in Keys : lock[k].type # "none" =>
         \/ lock[k].primary \in {buf.primary} \cup strays
         \/ status = "StartedCommit" /\ lock[k].primary = CommitPrimary(buf)
         \/ op.name = "unlock" /\ k \in op.keys /\ lock[k].primary = op.first /\ buf.primary = NoKey

(* The running flush has still to write key k.                               *)
Pending(k) == k \in DOMAIN pipe.flushing.muts /\ RegionOf[k] \in pipe.flushing.regions

(* The last write of k is committed, or locked, or gone with the primary p.  *)
Settled(k, p) ==
  /\ lock[k].type # "none" => lock[k].type = "write" /\ Right(lock[k], k)
  /\ Committed(k) => Right(record[k], k)
  /\ \/ Committed(k)
     \/ lock[k].type = "write"
     \/ record[k] = RolledBack /\ record[p] = RolledBack

Flushes == kind = "pipelined" /\ status \in {"Active", "StartedCommit"}

FlushInv ==
  Flushes =>
    LET f == pipe.flushing
    IN /\ late = {} /\ ~pipe.cancelled /\ resolving.state = "none"
       /\ pipe.generation \in Nat /\ pipe.mutable \subseteq Keys
       /\ f.stage \in {"none", "spawned", "checked", "running", "done"}
       /\ DOMAIN f.muts \subseteq Keys
       /\ \A k \in DOMAIN f.muts : f.muts[k] \in [op : Ops, value : Found]
       /\ f.stage # "none" => f.gen = pipe.generation /\ f.primary = buf.primary
                              /\ buf.primary \in Keys
       /\ f.stage \in {"none", "done"} => f.regions = {}
       /\ op.name = "primary" => pipe.mutable = {} /\ f.stage = "none"
       /\ \A k \in Keys : /\ lock[k].gen <= pipe.generation
                          /\ lock[k].type # "none" =>
                               lock[k].type = "write" /\ lock[k].primary = buf.primary

(* Every written key is in the mutable buffer, in the running flush with its *)
(* last write, or settled.                                                   *)
FlushedInv ==
  Flushes =>
    \A k \in Keys : Written(k) /\ buf.entries[k].kind # "check" /\ k \notin pipe.mutable =>
      IF Pending(k)
      THEN Right(pipe.flushing.muts[k], k) /\ pipe.flushing.muts[k].op # "CheckNotExists"
      ELSE Settled(k, buf.primary)

(* Before commit() succeeds something may be committed: the answer of the    *)
(* primary was lost.  Then all that is locked or under way is the last write. *)
LostAnswerInv ==
  Flushes /\ (\E k \in Keys : Committed(k)) =>
    /\ status # "Active"
    /\ \A k \in Keys : /\ Committed(k) => Right(record[k], k)
                       /\ (lock[k].type # "none" => Right(lock[k], k))
                       /\ (Pending(k) => Right(pipe.flushing.muts[k], k))

(* From the time all keys are locked: the writes stand or fall with the      *)
(* primary, and a resolver that rolls back the primary of another lock does  *)
(* not roll back one of them.                                                *)
Ready == op.name = "primary" \/ status = "Committed"

SettledInv ==
  /\ \A k \in CommitKeys(buf) :
       /\ Written(k) => Settled(k, CommitPrimary(buf))
       /\ lock[k].type # "none" => lock[k].primary = CommitPrimary(buf)
  /\ \A k \in Keys \ CommitKeys(buf) : lock[k].type # "none" =>
       lock[k].primary = CommitPrimary(buf) \/ lock[k].primary \notin CommitKeys(buf)
  /\ \A k \in Keys : buf.entries[k].kind = "check" =>
       snap[k] = Absent /\ lock[k].type = "none" /\ ~Committed(k)

ReadyInv ==
  Ready =>
    /\ SettledInv
    /\ status = "Committed" /\ CommitKeys(buf) # {} => Committed(CommitPrimary(buf))
    /\ late = {} /\ pipe.flushing.stage = "none"
    /\ resolving.state = "running" => resolving.commit

(* The transaction may still commit, and none of the exceptions applies.     *)
Sound ==
  /\ ~pipe.failed
  /\ status # "Active" => /\ kind = "pipelined" => buf.prewriteOnly = {}
                          /\ \A p \in strays \cap CommitKeys(buf) : p = CommitPrimary(buf)

Live == status \in {"Active", "StartedCommit", "Committed"} /\ Sound

LiveInv == StoreInv /\ PlainInv /\ FlushInv /\ FlushedInv /\ LostAnswerInv /\ ReadyInv

PipeFields  == {"generation", "mutable", "flushing", "start", "end", "cancelled", "failed",
                "abandoned"}
FlushFields == {"stage", "muts", "primary", "gen", "regions"}

ShapeInv ==
  /\ DOMAIN pipe = PipeFields /\ DOMAIN pipe.flushing = FlushFields
  /\ DOMAIN resolving = {"state", "commit", "regions"}

CommitInv == WrittenInv /\ StageInv /\ ShapeInv /\ (Live => LiveInv)
----------------------------------------------------------------------------
(* A set of numbers that is not empty has a least element. *)
LEMMA MinIn ==
  ASSUME NEW S, S \subseteq Nat, S # {}
  PROVE  Min(S) \in S /\ \A y \in S : Min(S) <= y
<1>1. IsWellFoundedOn(OpToRel(<, Nat), Nat)
  BY NatLessThanWellFounded
<1>2. PICK x \in S : \A y \in S : ~(<<y, x>> \in OpToRel(<, Nat))
  BY <1>1, WFMin
<1>3. ASSUME NEW y \in S, y < x
      PROVE  <<y, x>> \in OpToRel(<, Nat)
  <2>1. y \in Nat /\ x \in Nat
    OBVIOUS
  <2> QED
    BY <1>3, <2>1 DEF OpToRel
<1>4. \A y \in S : x <= y
  <2>1. \A y \in S : ~(y < x)
    BY <1>2, <1>3
  <2>2. \A m, n \in Nat : ~(m < n) => n <= m
    BY SMTT(20)
  <2> QED
    BY <2>1, <2>2
<1> QED
  BY <1>4 DEF Min

(* The keys that are committed. *)
LEMMA CommitKeysAre ==
  ASSUME NEW b
  PROVE  /\ MutatedKeys(b) \subseteq Keys
         /\ \A k \in Keys : MutationOp(b, k) = "CheckNotExists" <=> b.entries[k].kind = "check"
         /\ \A k : k \in CommitKeys(b) <=>
              k \in Keys /\ b.entries[k].kind \notin {"none", "cached", "check"}
              /\ k \notin b.prewriteOnly
<1>1. \A k : MutationOp(b, k) = "CheckNotExists" <=> b.entries[k].kind = "check"
  BY DEF MutationOp
<1> QED
  BY <1>1 DEF CommitKeys, MutatedKeys

(* The primary of commit() is one of the keys that are committed. *)
LEMMA PrimaryIsKey ==
  ASSUME NEW b \in Buffers, MutatedKeys(b) # {}
  PROVE  /\ CommitPrimary(b) \in Keys
         /\ CommitKeys(b) # {} => CommitPrimary(b) \in CommitKeys(b)
         /\ b.primary \in CommitKeys(b) => CommitPrimary(b) = b.primary
<1>1. CommitKeys(b) \subseteq Keys /\ MutatedKeys(b) \subseteq Keys /\ Keys \subseteq Nat
  BY CommitKeysAre, BufferAssumption
<1>2. Min(MutatedKeys(b)) \in Keys
  BY <1>1, MinIn
<1>3. CommitKeys(b) # {} => Min(CommitKeys(b)) \in CommitKeys(b)
  BY <1>1, MinIn
<1>4. b.primary \in Keys \cup {NoKey}
  BY BufferFields
<1> QED
  BY <1>1, <1>2, <1>3, <1>4 DEF CommitPrimary

(* Caching what was read changes neither. *)
Alike(b, c) ==
  /\ c.primary = b.primary /\ c.prewriteOnly = b.prewriteOnly
  /\ \A k \in Keys : \/ c.entries[k] = b.entries[k]
                     \/ b.entries[k].kind = "none" /\ c.entries[k].kind = "cached"
                     \/ b.entries[k].kind = "locked" /\ c.entries[k].kind = "lockedRead"

(* Alike buffers commit the same keys under the same primary. *)
LEMMA AlikeKeys ==
  ASSUME NEW b, NEW c, Alike(b, c)
  PROVE  /\ MutatedKeys(c) = MutatedKeys(b) /\ CommitKeys(c) = CommitKeys(b)
         /\ CommitPrimary(c) = CommitPrimary(b)
         /\ c.primary = b.primary /\ c.prewriteOnly = b.prewriteOnly
         /\ \A k \in Keys : \A x \in {"put", "del", "insert", "check"} :
              c.entries[k].kind = x <=> b.entries[k].kind = x
         /\ \A k \in Keys : b.entries[k].kind = "check" => c.entries[k] = b.entries[k]
<1>1. MutatedKeys(c) = MutatedKeys(b)
  BY DEF Alike, MutatedKeys
<1>2. \A k \in Keys : \A x \in {"put", "del", "insert", "check"} :
        c.entries[k].kind = x <=> b.entries[k].kind = x
  BY DEF Alike
<1>3. \A k : k \in CommitKeys(c) <=> k \in CommitKeys(b)
  BY CommitKeysAre DEF Alike
<1>4. CommitKeys(c) = CommitKeys(b)
  BY <1>3
<1>5. CommitPrimary(c) = CommitPrimary(b)
  BY <1>1, <1>4 DEF CommitPrimary, Alike
<1>6. \A k \in Keys : b.entries[k].kind = "check" => c.entries[k] = b.entries[k]
  BY DEF Alike
<1> QED
  BY <1>1, <1>2, <1>4, <1>5, <1>6 DEF Alike

(* What commit() and a flush send for a key is its last write. *)
LEMMA MutationIsRight ==
  ASSUME NEW b \in Buffers, NEW k \in Keys, NEW s, NEW m, EntryOK(b.entries[k], s, m),
         m # Unwritten => b.entries[k].kind \in {"put", "del", "insert", "check"}
  PROVE  /\ Mutation(b, k) \in [op : Ops, value : Found]
         /\ m # Unwritten => Mutation(b, k).op # "Lock" /\ Mutation(b, k).value = m
         /\ Mutation(b, k).op = "CheckNotExists" <=> b.entries[k].kind = "check"
<1> DEFINE e == b.entries[k]
<1>1. e.kind \in EntryKinds /\ e.value \in Found
  BY BufferFields DEF Entries
<1>2. MutationOp(b, k) \in Ops
  BY DEF MutationOp, Ops
<1>3. Mutation(b, k).op = MutationOp(b, k)
      /\ Mutation(b, k).value = (IF MutationOp(b, k) = "Lock" THEN Absent ELSE e.value)
  BY DEF Mutation
<1>4. Mutation(b, k) \in [op : Ops, value : Found]
  BY <1>1, <1>2 DEF Mutation, Found
<1>5. m # Unwritten => MutationOp(b, k) # "Lock" /\ e.value = m
  BY <1>1 DEF MutationOp, EntryOK, Determined
<1>6. MutationOp(b, k) = "CheckNotExists" <=> e.kind = "check"
  BY CommitKeysAre
<1> QED
  BY <1>3, <1>4, <1>5, <1>6

(* The store after a commit. *)
LEMMA CommitOK ==
  ASSUME StoreInv, NEW ks, Commit(ks)
  PROVE  /\ StoreInv'
         /\ \A k \in Keys :
              IF k \in ks /\ lock[k].type # "none"
              THEN /\ lock'[k] = NoLock /\ Committed(k)'
                   /\ record'[k].op = lock[k].op /\ record'[k].value = lock[k].value
              ELSE lock'[k] = lock[k] /\ record'[k] = record[k] /\ (Committed(k)' <=> Committed(k))
<1> DEFINE some == {k \in ks : lock[k].type # "none"}
<1>1. /\ record' = [k \in Keys |-> IF k \in some
                                   THEN [op |-> lock[k].op, value |-> lock[k].value]
                                   ELSE record[k]]
      /\ lock' = [k \in Keys |-> IF k \in some THEN NoLock ELSE lock[k]]
  BY DEF Commit
<1>2. NoLock \in Locks /\ NoLock.type = "none"
  BY DEF NoLock, Locks, Ops, Found
<1>3. \A l \in Locks : /\ [op |-> l.op, value |-> l.value] \in Records
                       /\ l.op \notin {"none", "rollback"}
  BY DEF Locks, Records, Ops
<1>4. lock \in [Keys -> Locks] /\ record \in [Keys -> Records]
  BY DEF StoreInv
<1> HIDE DEF some
<1>5. lock' \in [Keys -> Locks] /\ record' \in [Keys -> Records]
  BY <1>1, <1>2, <1>3, <1>4
<1>6. \A k \in Keys :
        IF k \in some
        THEN /\ lock'[k] = NoLock /\ Committed(k)'
             /\ record'[k].op = lock[k].op /\ record'[k].value = lock[k].value
        ELSE lock'[k] = lock[k] /\ record'[k] = record[k] /\ (Committed(k)' <=> Committed(k))
  BY <1>1, <1>3, <1>4 DEF Committed
<1>7. \A k \in Keys : lock'[k].type # "none" => lock'[k].primary \in Keys /\ record'[k] # RolledBack
  BY <1>2, <1>6 DEF StoreInv
<1>8. StoreInv'
  BY <1>5, <1>7 DEF StoreInv, RolledBack
<1> QED
  BY <1>6, <1>8 DEF some

(* The store after a rollback. *)
LEMMA RollbackOK ==
  ASSUME StoreInv, NEW ks, Rollback(ks)
  PROVE  /\ StoreInv'
         /\ \A k \in Keys :
              /\ Committed(k)' <=> Committed(k)
              /\ IF k \in ks /\ ~Committed(k)
                 THEN lock'[k] = NoLock /\ record'[k] = RolledBack
                 ELSE lock'[k] = lock[k] /\ record'[k] = record[k]
<1> DEFINE some == {k \in ks : ~Committed(k)}
<1>1. /\ record' = [k \in Keys |-> IF k \in some THEN RolledBack ELSE record[k]]
      /\ lock' = [k \in Keys |-> IF k \in some THEN NoLock ELSE lock[k]]
  BY DEF Rollback
<1>2. /\ NoLock \in Locks /\ NoLock.type = "none"
      /\ RolledBack \in Records /\ RolledBack.op = "rollback"
  BY DEF NoLock, Locks, Ops, Found, Records, RolledBack
<1>3. lock \in [Keys -> Locks] /\ record \in [Keys -> Records]
  BY DEF StoreInv
<1>4. \A k \in some : ~Committed(k)
  OBVIOUS
<1> HIDE DEF some
<1>5. lock' \in [Keys -> Locks] /\ record' \in [Keys -> Records]
  BY <1>1, <1>2, <1>3
<1>6. \A k \in Keys :
        /\ Committed(k)' <=> Committed(k)
        /\ IF k \in some THEN lock'[k] = NoLock /\ record'[k] = RolledBack
           ELSE lock'[k] = lock[k] /\ record'[k] = record[k]
  BY <1>1, <1>2, <1>3, <1>4 DEF Committed
<1>7. \A k \in Keys : lock'[k].type # "none" => lock'[k].primary \in Keys /\ record'[k] # RolledBack
  BY <1>2, <1>6 DEF StoreInv
<1>8. StoreInv'
  BY <1>5, <1>7 DEF StoreInv, RolledBack
<1> QED
  BY <1>6, <1>8 DEF some

(* The store after mutations were prewritten or flushed. *)
LEMMA WriteLocksOK ==
  ASSUME StoreInv, NEW muts, NEW ks, NEW primary \in Keys, NEW gen \in Nat,
         ks \subseteq Keys, \A k \in ks : muts[k] \in [op : Ops, value : Found],
         \A k \in ks : record[k] # RolledBack,
         \A k \in ks : lock[k].gen <= gen,
         WriteLocks(muts, ks, primary, gen), record' = record
  PROVE  /\ StoreInv'
         /\ \A k \in Keys :
              IF k \in ks /\ muts[k].op # "CheckNotExists" /\ ~Committed(k)
              THEN /\ lock'[k].type = "write" /\ lock'[k].primary = primary
                   /\ lock'[k].gen = gen
                   /\ lock'[k].op = muts[k].op /\ lock'[k].value = muts[k].value
              ELSE lock'[k] = lock[k]
<1> DEFINE new(k) == [type |-> "write", op |-> muts[k].op, value |-> muts[k].value,
                      primary |-> primary, gen |-> gen]
<1>1. lock' = [k \in Keys |-> IF /\ k \in ks /\ muts[k].op # "CheckNotExists"
                                 /\ ~Committed(k) /\ lock[k].gen <= gen
                              THEN new(k) ELSE lock[k]]
  BY DEF WriteLocks
<1>2. \A k \in ks : new(k) \in Locks
  BY DEF Locks
<1>3. \A k \in ks : /\ new(k).type = "write" /\ new(k).primary = primary /\ new(k).gen = gen
                    /\ new(k).op = muts[k].op /\ new(k).value = muts[k].value
  OBVIOUS
<1>4. lock \in [Keys -> Locks] /\ record \in [Keys -> Records]
  BY DEF StoreInv
<1> HIDE DEF new
<1>5. lock' \in [Keys -> Locks]
  BY <1>1, <1>2, <1>4
<1>6. \A k \in Keys : IF k \in ks /\ muts[k].op # "CheckNotExists" /\ ~Committed(k)
                      THEN lock'[k] = new(k) ELSE lock'[k] = lock[k]
  BY <1>1
<1>7. \A k \in Keys : lock'[k].type # "none" => lock'[k].primary \in Keys /\ record'[k] # RolledBack
  BY <1>3, <1>6 DEF StoreInv
<1>8. StoreInv'
  BY <1>4, <1>5, <1>7 DEF StoreInv, RolledBack
<1> QED
  BY <1>3, <1>6, <1>8

----------------------------------------------------------------------------
(* Nothing makes a transaction live again. *)
LEMMA LiveBack ==
  ASSUME Alike(buf, buf'), UNCHANGED <<kind, strays>>, pipe.failed => pipe'.failed,
         \/ status' = status
         \/ status = "Active" /\ status' = "StartedCommit"
         \/ status = "StartedCommit" /\ status' = "Committed",
         Live'
  PROVE  Live
<1>1. /\ CommitKeys(buf') = CommitKeys(buf) /\ CommitPrimary(buf') = CommitPrimary(buf)
      /\ buf'.prewriteOnly = buf.prewriteOnly
  BY AlikeKeys
<1> QED
  BY <1>1 DEF Live, Sound

(* Steps that change neither the store nor a stage nor more of the buffer    *)
(* than what it has cached. *)
LEMMA AlikeStep ==
  ASSUME CommitInv, Alike(buf, buf'),
         UNCHANGED <<kind, status, op, mine, snap, lock, record, strays, secondaries, late, pipe,
                     resolving>>
  PROVE  CommitInv'
<1>1. /\ MutatedKeys(buf') = MutatedKeys(buf) /\ CommitKeys(buf') = CommitKeys(buf)
      /\ CommitPrimary(buf') = CommitPrimary(buf)
      /\ buf'.primary = buf.primary /\ buf'.prewriteOnly = buf.prewriteOnly
      /\ \A k \in Keys : \A x \in {"put", "del", "insert", "check"} :
              buf'.entries[k].kind = x <=> buf.entries[k].kind = x
      /\ \A k \in Keys : buf.entries[k].kind = "check" => buf'.entries[k] = buf.entries[k]
  BY AlikeKeys
<1>2. WrittenInv'
  BY <1>1 DEF CommitInv, WrittenInv, Written, pessimistic
<1>3. StageInv' /\ ShapeInv'
  BY <1>1 DEF CommitInv, StageInv, ShapeInv
<1>4. ASSUME Live'
      PROVE  LiveInv'
  <2>1. Live
    BY <1>4, LiveBack
  <2>2. StoreInv /\ PlainInv /\ FlushInv /\ FlushedInv /\ LostAnswerInv /\ ReadyInv
    BY <2>1 DEF CommitInv, LiveInv
  <2>3. StoreInv'
    BY <2>2 DEF StoreInv, RolledBack
  <2>4. PlainInv'
    BY <1>1, <2>2 DEF PlainInv, Committed, pessimistic
  <2>5. FlushInv'
    BY <1>1, <2>2 DEF FlushInv, Flushes
  <2>6. FlushedInv'
    BY <1>1, <2>2 DEF FlushedInv, Flushes, Written, Pending, Right, Settled, Committed, RolledBack
  <2>7. LostAnswerInv'
    BY <1>1, <2>2 DEF LostAnswerInv, Flushes, Written, Pending, Right, Committed
  <2>8. ReadyInv'
    BY <1>1, <2>2 DEF ReadyInv, Ready, SettledInv, Written, Right, Settled, Committed,
          RolledBack
  <2> QED
    BY <2>3, <2>4, <2>5, <2>6, <2>7, <2>8 DEF LiveInv
<1> QED
  BY <1>2, <1>3, <1>4 DEF CommitInv

(* A buffer is alike itself. *)
LEMMA AlikeItself == \A b : Alike(b, b)
  BY DEF Alike

(* Caching. *)
LEMMA CachesAlike ==
  ASSUME NEW b \in Buffers, NEW ks, NEW found \in [Keys -> Found]
  PROVE  Alike(b, UpdateCaches(b, ks, found))
<1> DEFINE a == UpdateCaches(b, ks, found)
           one(k) == UpdateCache(b, k, found[k])
<1>1. b.entries \in [Keys -> Entries]
  BY BufferFields
<1>2. ASSUME NEW k \in Keys
      PROVE  \/ one(k).entries[k] = b.entries[k]
             \/ b.entries[k].kind = "none" /\ one(k).entries[k].kind = "cached"
             \/ b.entries[k].kind = "locked" /\ one(k).entries[k].kind = "lockedRead"
  <2>1. Entry("cached", found[k]) \in Entries /\ Entry("lockedRead", found[k]) \in Entries
    BY DEF Entries, Entry, EntryKinds
  <2>2. \A e \in Entries : SetEntry(b, k, e).entries[k] = e
    BY SetEntryOK
  <2>3. CASE b.entries[k].kind = "none"
    <3>1. one(k) = SetEntry(b, k, Entry("cached", found[k]))
      BY <2>3 DEF UpdateCache
    <3>2. one(k).entries[k] = Entry("cached", found[k])
      BY <2>1, <2>2, <3>1, SMTT(20)
    <3> QED
      BY <2>3, <3>2, SMTT(20) DEF Entry
  <2>4. CASE b.entries[k].kind = "locked"
    <3>1. one(k) = SetEntry(b, k, Entry("lockedRead", found[k]))
      BY <2>4 DEF UpdateCache
    <3>2. one(k).entries[k] = Entry("lockedRead", found[k])
      BY <2>1, <2>2, <3>1, SMTT(20)
    <3> QED
      BY <2>4, <3>2, SMTT(20) DEF Entry
  <2>5. CASE b.entries[k].kind \notin {"none", "locked"}
    BY <2>5 DEF UpdateCache
  <2> QED
    BY <2>3, <2>4, <2>5
<1> HIDE DEF one
<1>3. a = [b EXCEPT !.entries = [k \in Keys |-> IF k \in ks THEN one(k).entries[k]
                                                ELSE b.entries[k]]]
  BY <1>1 DEF UpdateCaches, one, Buffers
<1> HIDE DEF a
<1>4. /\ a.entries = [k \in Keys |-> IF k \in ks THEN one(k).entries[k] ELSE b.entries[k]]
      /\ a.primary = b.primary /\ a.prewriteOnly = b.prewriteOnly
  BY <1>3 DEF Buffers
<1>5. Alike(b, a)
  BY <1>2, <1>4 DEF Alike
<1> QED
  BY <1>5 DEF a

(* The reads only cache: what is to be committed stays as it is. *)
LEMMA ReadsCommit ==
  ASSUME IInv, CommitInv,
         \/ \E k \in Keys : GetKey(k)
         \/ \E ks : BatchGet(ks)
         \/ \E range, limit, reverse : Scan(range, limit, reverse)
  PROVE  CommitInv'
<1>1. /\ buf \in Buffers /\ snap \in [Keys -> Found] /\ buf.entries \in [Keys -> Entries]
  BY BufferFields DEF IInv, BufferInv
<1>2. ASSUME NEW k \in Keys, GetKey(k)
      PROVE  Alike(buf, buf')
  <2>1. buf' = buf \/ buf' = UpdateCache(buf, k, snap[k])
    BY <1>2 DEF GetKey
  <2>2. UpdateCache(buf, k, snap[k]) = UpdateCaches(buf, {k}, snap)
    BY <1>1 DEF UpdateCache, UpdateCaches, SetEntry, Buffers
  <2>3. Alike(buf, UpdateCaches(buf, {k}, snap)) /\ Alike(buf, buf)
    BY <1>1, CachesAlike, AlikeItself
  <2> QED
    BY <2>1, <2>2, <2>3
<1>3. ASSUME NEW ks, BatchGet(ks)
      PROVE  Alike(buf, buf')
  BY <1>1, <1>3, CachesAlike DEF BatchGet, AfterBatchGet
<1>4. ASSUME NEW range, NEW limit, NEW reverse, Scan(range, limit, reverse)
      PROVE  Alike(buf, buf')
  <2> DEFINE ks == ScanKeys(buf, range, Fetched(buf, range, limit, reverse, snap))
             found == [k \in Keys |-> ScanValue(buf, k, snap)]
             cached == {k \in ks : \A j \in ScanMismatches(buf, ks, snap) : k < j}
  <2>1. buf' = UpdateCaches(buf, cached, found)
    BY <1>4 DEF Scan, AfterScan
  <2>2. found \in [Keys -> Found]
    BY <1>1 DEF ScanValue, Entries
  <2> HIDE DEF found, cached
  <2> QED
    BY <1>1, <2>1, <2>2, CachesAlike
<1>5. Reads
  BY DEF GetKey, BatchGet, Scan
<1> QED
  BY <1>2, <1>3, <1>4, <1>5, AlikeStep DEF Reads, storeVars, pipeVars

(* A key that is presumed not to exist is recorded again for the next flush. *)
LEMMA PresumeCommit ==
  ASSUME IInv, CommitInv, NEW k \in Keys, Presume(k)
  PROVE  CommitInv'
<1>1. /\ buf \in Buffers /\ op = Idle
      /\ buf' = [buf EXCEPT !.presumed = @ \cup {k}]
      /\ UNCHANGED <<snap, mine, op, kind, status, lock, record, strays, secondaries, late,
                     resolving>>
  BY DEF IInv, BufferInv, Presume, PresumeNotExists, Call, storeVars
<1>2. Alike(buf, buf')
  BY <1>1 DEF Buffers, Alike
<1>3. CASE kind # "pipelined"
  BY <1>1, <1>2, <1>3, AlikeStep DEF Presume
<1>4. CASE kind = "pipelined"
  <2> DEFINE m == (pipe.mutable \ {k}) \cup ({k} \cap MutatedKeys(buf'))
  <2>1. pipe' = [pipe EXCEPT !.mutable = m]
    BY <1>4 DEF Presume, RecordMutations
  <2> HIDE DEF m
  <2>2. /\ DOMAIN pipe' = DOMAIN pipe /\ pipe'.mutable = m
        /\ pipe'.flushing = pipe.flushing /\ pipe'.generation = pipe.generation
        /\ pipe'.cancelled = pipe.cancelled /\ pipe'.failed = pipe.failed
    BY <2>1 DEF CommitInv, ShapeInv, PipeFields
  <2>3. /\ MutatedKeys(buf') = MutatedKeys(buf) /\ CommitKeys(buf') = CommitKeys(buf)
        /\ CommitPrimary(buf') = CommitPrimary(buf)
        /\ buf'.primary = buf.primary /\ buf'.prewriteOnly = buf.prewriteOnly
        /\ buf'.entries = buf.entries
    BY <1>1, <1>2, AlikeKeys DEF Buffers
  <2>4. WrittenInv' /\ StageInv' /\ ShapeInv'
    BY <1>1, <2>2, <2>3 DEF CommitInv, WrittenInv, StageInv, ShapeInv, Written, pessimistic
  <2>5. ASSUME Live'
        PROVE  LiveInv'
    <3>1. Live
      BY <1>1, <1>2, <2>2, <2>5, LiveBack
    <3>2. StoreInv /\ PlainInv /\ FlushInv /\ FlushedInv /\ LostAnswerInv /\ ReadyInv
      BY <3>1 DEF CommitInv, LiveInv
    <3>3. StoreInv'
      BY <1>1, <3>2 DEF StoreInv, RolledBack
    <3>4. PlainInv'
      BY <1>1, <1>4 DEF PlainInv
    <3>5. m \subseteq pipe.mutable \cup Keys
      BY DEF m
    <3>6. FlushInv'
      BY <1>1, <2>2, <2>3, <3>2, <3>5 DEF FlushInv, Flushes, Idle
    <3>7. \A j \in Keys : Written(j) /\ j \notin m => j \notin pipe.mutable
      <4>1. \A j \in Keys : Written(j) => j \in MutatedKeys(buf')
        BY <2>3 DEF CommitInv, WrittenInv, MutatedKeys
      <4> QED
        BY <4>1 DEF m
    <3>8. FlushedInv'
      BY <1>1, <2>2, <2>3, <3>2, <3>7
         DEF FlushedInv, Flushes, Written, Pending, Right, Settled, Committed, RolledBack
    <3>9. LostAnswerInv'
      BY <1>1, <2>2, <3>2 DEF LostAnswerInv, Flushes, Written, Pending, Right, Committed
    <3>10. ReadyInv'
      BY <1>1, <2>2, <2>3, <3>2 DEF ReadyInv, Ready, SettledInv, Written, Right, Settled, Committed,
          RolledBack
    <3> QED
      BY <3>3, <3>4, <3>6, <3>8, <3>9, <3>10 DEF LiveInv
  <2> QED
    BY <2>4, <2>5 DEF CommitInv
<1> QED
  BY <1>3, <1>4

----------------------------------------------------------------------------
(* Locking a key keeps what was written of it and its mark. *)
LEMMA LockKinds ==
  ASSUME NEW b \in Buffers, NEW k \in Keys
  PROVE  /\ Lock(b, k) \in Buffers
         /\ Lock(b, k).prewriteOnly = b.prewriteOnly
         /\ \/ Lock(b, k).entries[k] = b.entries[k]
            \/ /\ b.entries[k].kind \in {"none", "cached"}
               /\ Lock(b, k).entries[k].kind \in {"locked", "lockedRead"}
<1> DEFINE e == b.entries[k]
           p == PrimaryKeyOr(b, k)
<1>1. e \in Entries /\ p \in Buffers /\ p.entries = b.entries /\ p.prewriteOnly = b.prewriteOnly
  BY BufferFields, PrimaryKeyOrOK
<1>2. /\ Entry("locked", Absent) \in Entries /\ Entry("lockedRead", e.value) \in Entries
  BY <1>1 DEF Entries, EntryKinds, Entry, Found
<1>3. \A x \in Entries : /\ SetEntry(p, k, x) \in Buffers /\ SetEntry(p, k, x).entries[k] = x
                         /\ SetEntry(p, k, x).prewriteOnly = b.prewriteOnly
  <2>1. \A x : SetEntry(p, k, x).prewriteOnly = p.prewriteOnly
    BY <1>1 DEF SetEntry, Buffers
  <2> QED
    BY <1>1, <2>1, SetEntryOK
<1> HIDE DEF p
<1>4. CASE e.kind = "none"
  <2>1. Lock(b, k) = SetEntry(p, k, Entry("locked", Absent))
    BY <1>4 DEF Lock, p
  <2> QED
    BY <1>2, <1>3, <1>4, <2>1, SMTT(20) DEF Entry
<1>5. CASE e.kind = "cached"
  <2>1. Lock(b, k) = SetEntry(p, k, Entry("lockedRead", e.value))
    BY <1>5 DEF Lock, p
  <2> QED
    BY <1>2, <1>3, <1>5, <2>1, SMTT(20) DEF Entry
<1>6. CASE e.kind \notin {"none", "cached"}
  BY <1>1, <1>6 DEF Lock, p
<1> QED
  BY <1>4, <1>5, <1>6

(* Setting an entry sets its kind and keeps the marks. *)
LEMMA EntrySet ==
  ASSUME NEW b \in Buffers, NEW k \in Keys, NEW x \in EntryKinds, NEW u \in Found
  PROVE  /\ SetEntry(b, k, Entry(x, u)) \in Buffers
         /\ SetEntry(b, k, Entry(x, u)).entries[k].kind = x
         /\ SetEntry(b, k, Entry(x, u)).prewriteOnly = b.prewriteOnly
<1> DEFINE e == Entry(x, u)
<1>1. e \in Entries /\ e.kind = x
  BY DEF Entries, Entry, EntryKinds
<1> HIDE DEF e
<1>2. SetEntry(b, k, e) \in Buffers /\ SetEntry(b, k, e).entries[k] = e
  BY <1>1, SetEntryOK
<1>3. SetEntry(b, k, e).prewriteOnly = b.prewriteOnly
  BY DEF SetEntry, Buffers
<1> QED
  BY <1>1, <1>2, <1>3 DEF e

(* A key that is only checked has no value. *)
LEMMA CheckSet ==
  ASSUME NEW b \in Buffers, NEW k \in Keys
  PROVE  SetEntry(b, k, Entry("check", Absent)).entries[k].value = Absent
<1> DEFINE e == Entry("check", Absent)
<1>1. e \in Entries /\ e.value = Absent
  BY DEF Entries, Entry, EntryKinds, Found
<1> HIDE DEF e
<1>2. SetEntry(b, k, e).entries[k] = e
  BY <1>1, SetEntryOK
<1> QED
  BY <1>1, <1>2 DEF e

(* How a write changes the kind and the mark of its key. *)
LEMMA WriteKinds ==
  ASSUME NEW b \in Buffers, NEW k \in Keys, NEW w \in Writes, NEW locked \in BOOLEAN,
         b.entries[k].kind = "check" => k \in b.prewriteOnly /\ b.entries[k].value = Absent,
         k \in b.prewriteOnly => b.entries[k].kind \in {"insert", "check"}
  PROVE  LET a == AfterWrite(b, k, w, locked)
         IN /\ IF w.what = "lock"
               THEN \A x \in {"put", "del", "insert", "check"} :
                      a.entries[k].kind = x <=> b.entries[k].kind = x
               ELSE a.entries[k].kind \in {"put", "del", "insert", "check"}
            /\ a.entries[k].kind = "check" => k \in a.prewriteOnly /\ a.entries[k].value = Absent
            /\ k \in a.prewriteOnly => a.entries[k].kind \in {"insert", "check"}
            /\ locked /\ k \notin b.prewriteOnly => k \notin a.prewriteOnly
<1> DEFINE c == IF locked \/ w.what = "lock" THEN Lock(b, k) ELSE b
           v == w.value
           a == AfterWrite(b, k, w, locked)
           d == [PrimaryKeyOr(c, k) EXCEPT !.prewriteOnly = @ \ {k}]
<1>1. /\ c \in Buffers /\ c.prewriteOnly = b.prewriteOnly
      /\ \A x \in {"put", "del", "insert", "check"} :
           c.entries[k].kind = x <=> b.entries[k].kind = x
      /\ c.entries[k].kind = "check" => c.entries[k] = b.entries[k]
  BY LockKinds
<1>2. /\ w.what \in Whats /\ v \in Found /\ Absent \in Found
      /\ {"put", "insert", "del", "check"} \subseteq EntryKinds
  BY DEF Writes, EntryKinds, Found
<1>3. d \in Buffers /\ d.prewriteOnly = c.prewriteOnly \ {k}
  <2>1. PrimaryKeyOr(c, k) \in Buffers /\ PrimaryKeyOr(c, k).prewriteOnly = c.prewriteOnly
    BY <1>1, PrimaryKeyOrOK
  <2> QED
    BY <2>1 DEF Buffers
<1> HIDE DEF c, d
<1>4. /\ \A x \in EntryKinds, u \in Found :
           /\ SetEntry(c, k, Entry(x, u)).entries[k].kind = x
           /\ SetEntry(c, k, Entry(x, u)).prewriteOnly = c.prewriteOnly
           /\ SetEntry(c, k, Entry(x, u)) \in Buffers
      /\ \A x \in EntryKinds, u \in Found :
           /\ SetEntry(d, k, Entry(x, u)).entries[k].kind = x
           /\ SetEntry(d, k, Entry(x, u)).prewriteOnly = d.prewriteOnly
  <2>1. ASSUME NEW x \in EntryKinds, NEW u \in Found
        PROVE  /\ SetEntry(c, k, Entry(x, u)).entries[k].kind = x
                   /\ SetEntry(c, k, Entry(x, u)).prewriteOnly = c.prewriteOnly
               /\ SetEntry(c, k, Entry(x, u)) \in Buffers
    <3>1. c \in Buffers
      BY <1>1
    <3> QED
      BY <3>1, EntrySet
  <2>2. ASSUME NEW x \in EntryKinds, NEW u \in Found
        PROVE  /\ SetEntry(d, k, Entry(x, u)).entries[k].kind = x
               /\ SetEntry(d, k, Entry(x, u)).prewriteOnly = d.prewriteOnly
    <3>1. d \in Buffers
      BY <1>3
    <3> QED
      BY <3>1, EntrySet
  <2> QED
    BY <2>1, <2>2
<1>5. CASE w.what = "put"
  <2>1. a = Put(c, k, v)
    BY <1>5 DEF AfterWrite, c
  <2>2. CASE c.entries[k].kind \in {"insert", "check"}
    <3>1. a = SetEntry(c, k, Entry("insert", v))
      BY <2>1, <2>2 DEF Put
    <3>2. a.entries[k].kind = "insert" /\ a.prewriteOnly = c.prewriteOnly
      BY <1>1, <1>2, <1>4, <3>1, SMTT(20)
    <3> QED
      BY <1>1, <1>5, <3>2
  <2>3. CASE c.entries[k].kind \notin {"insert", "check"}
    <3>1. a = SetEntry(d, k, Entry("put", v))
      BY <2>1, <2>3 DEF Put, InsertEntry, d
    <3>2. a.entries[k].kind = "put" /\ a.prewriteOnly = c.prewriteOnly \ {k}
      BY <1>2, <1>3, <1>4, <3>1, SMTT(20)
    <3> QED
      BY <1>1, <1>5, <3>2
  <2> QED
    BY <2>2, <2>3
<1>6. CASE w.what = "insert"
  <2>1. a = Insert(c, k, v)
    BY <1>6 DEF AfterWrite, c
  <2>2. CASE c.entries[k].kind = "del"
    <3>1. a = SetEntry(c, k, Entry("put", v))
      BY <2>1, <2>2 DEF Insert
    <3>2. a.entries[k].kind = "put" /\ a.prewriteOnly = c.prewriteOnly /\ k \notin c.prewriteOnly
      BY <1>1, <1>2, <1>4, <2>2, <3>1, SMTT(20)
    <3> QED
      BY <1>1, <1>6, <3>2
  <2>3. CASE c.entries[k].kind # "del"
    <3>1. a = SetEntry(d, k, Entry("insert", v))
      BY <2>1, <2>3 DEF Insert, InsertEntry, d
    <3>2. a.entries[k].kind = "insert" /\ a.prewriteOnly = c.prewriteOnly \ {k}
      BY <1>2, <1>3, <1>4, <3>1, SMTT(20)
    <3> QED
      BY <1>1, <1>6, <3>2
  <2> QED
    BY <2>2, <2>3
<1>7. CASE w.what = "delete"
  <2>1. a = Delete(c, k, locked)
    BY <1>7 DEF AfterWrite, c
  <2> DEFINE f == SetEntry(c, k, Entry("check", Absent))
  <2>2. \/ ~locked /\ a = [f EXCEPT !.prewriteOnly = @ \cup {k}]
        \/ a = SetEntry(d, k, Entry("del", Absent))
    BY <2>1 DEF Delete, InsertEntry, d
  <2>3. CASE ~locked /\ a = [f EXCEPT !.prewriteOnly = @ \cup {k}]
    <3>1. f \in Buffers /\ f.entries[k].kind = "check" /\ f.entries[k].value = Absent
      BY <1>1, <1>2, <1>4, CheckSet
    <3> HIDE DEF f
    <3>2. a.entries = f.entries /\ k \in a.prewriteOnly
      BY <2>3, <3>1 DEF Buffers
    <3> QED
      BY <1>7, <2>3, <3>1, <3>2
  <2>4. CASE a = SetEntry(d, k, Entry("del", Absent))
    <3>1. a.entries[k].kind = "del" /\ a.prewriteOnly = c.prewriteOnly \ {k}
      BY <1>2, <1>3, <1>4, <2>4, SMTT(20)
    <3> QED
      BY <1>7, <3>1
  <2> QED
    BY <2>2, <2>3, <2>4
<1>8. CASE w.what = "lock"
  <2>1. a = c
    BY <1>8 DEF AfterWrite, c
  <2> QED
    BY <1>1, <1>8, <2>1
<1> QED
  BY <1>2, <1>5, <1>6, <1>7, <1>8 DEF Whats

(* A call keeps the relation of marks, entries and what was written. *)
LEMMA WritesWritten ==
  ASSUME BufferInv, WrittenInv, NEW todo, IsTodo(todo), NEW first \in DOMAIN todo,
         NEW locked \in BOOLEAN, pessimistic => locked,
         buf' = AfterWrites(buf, todo, first, locked), Wrote(todo), kind' = kind
  PROVE  /\ WrittenInv'
         /\ buf'.primary = (IF buf.primary = NoKey THEN first ELSE buf.primary)
         /\ MutatedKeys(buf') = MutatedKeys(buf) \cup DOMAIN todo
         /\ \A k \in Keys \ DOMAIN todo : buf'.entries[k] = buf.entries[k] /\ mine'[k] = mine[k]
<1> DEFINE one(k) == AfterWrite(buf, k, todo[k], locked)
<1>1. /\ buf \in Buffers /\ DOMAIN todo \subseteq Keys
      /\ \A k \in DOMAIN todo : todo[k] \in Writes
      /\ mine' = [k \in Keys |-> IF k \in DOMAIN todo /\ todo[k].what # "lock" THEN todo[k].value
                                 ELSE mine[k]]
  BY DEF BufferInv, IsTodo, Wrote
<1>2. /\ MutatedKeys(buf') = MutatedKeys(buf) \cup DOMAIN todo
      /\ buf'.primary = (IF buf.primary = NoKey THEN first ELSE buf.primary)
  <2>1. /\ Held(buf') = Held(buf) \cup DOMAIN todo
        /\ buf'.primary = PrimaryKeyOr(buf, first).primary
    BY <1>1, WritesOK
  <2> QED
    BY <1>1, <2>1, PrimaryKeyOrOK DEF Held
<1>3. \A k \in Keys :
        /\ buf'.entries[k] = IF k \in DOMAIN todo THEN one(k).entries[k] ELSE buf.entries[k]
        /\ k \in buf'.prewriteOnly <=> IF k \in DOMAIN todo THEN k \in one(k).prewriteOnly
                                       ELSE k \in buf.prewriteOnly
  BY DEF AfterWrites
<1>4. ASSUME NEW k \in DOMAIN todo
      PROVE  /\ IF todo[k].what = "lock"
                THEN \A x \in {"put", "del", "insert", "check"} :
                       one(k).entries[k].kind = x <=> buf.entries[k].kind = x
                ELSE one(k).entries[k].kind \in {"put", "del", "insert", "check"}
             /\ one(k).entries[k].kind = "check" =>
                  k \in one(k).prewriteOnly /\ one(k).entries[k].value = Absent
             /\ k \in one(k).prewriteOnly => one(k).entries[k].kind \in {"insert", "check"}
             /\ locked /\ k \notin buf.prewriteOnly => k \notin one(k).prewriteOnly
  <2>1. /\ k \in Keys /\ todo[k] \in Writes
        /\ buf.entries[k].kind = "check" => k \in buf.prewriteOnly /\ buf.entries[k].value = Absent
        /\ k \in buf.prewriteOnly => buf.entries[k].kind \in {"insert", "check"}
    BY <1>1 DEF WrittenInv
  <2> QED
    BY <1>1, <2>1, WriteKinds
<1> HIDE DEF one
<1>5. \A k \in Keys : mine'[k] = IF k \in DOMAIN todo /\ todo[k].what # "lock" THEN todo[k].value
                                 ELSE mine[k]
  BY <1>1
<1>6. \A k \in Keys : mine'[k] # Unwritten => buf'.entries[k].kind \in {"put", "del", "insert", "check"}
  <2> SUFFICES ASSUME NEW k \in Keys, mine'[k] # Unwritten
               PROVE  buf'.entries[k].kind \in {"put", "del", "insert", "check"}
    OBVIOUS
  <2>1. mine[k] # Unwritten => buf.entries[k].kind \in {"put", "del", "insert", "check"}
    BY DEF WrittenInv, Written
  <2>2. CASE k \in DOMAIN todo /\ todo[k].what # "lock"
    BY <1>3, <1>4, <2>2
  <2>3. CASE k \in DOMAIN todo /\ todo[k].what = "lock"
    <3>1. mine[k] # Unwritten /\ buf'.entries[k] = one(k).entries[k]
      BY <1>3, <1>5, <2>3
    <3> QED
      BY <1>4, <2>1, <2>3, <3>1
  <2>4. CASE k \notin DOMAIN todo
    BY <1>3, <1>5, <2>1, <2>4
  <2> QED
    BY <2>2, <2>3, <2>4
<1>7. \A k \in Keys : /\ buf'.entries[k].kind = "check" =>
                           k \in buf'.prewriteOnly /\ buf'.entries[k].value = Absent
                      /\ k \in buf'.prewriteOnly => buf'.entries[k].kind \in {"insert", "check"}
  BY <1>3, <1>4 DEF WrittenInv
<1>8. pessimistic => buf'.prewriteOnly = {}
  <2>1. buf'.prewriteOnly \subseteq Keys
    BY DEF AfterWrites
  <2> QED
    BY <1>3, <1>4, <2>1 DEF WrittenInv
<1>9. ~pessimistic => MutatedKeys(buf') # {} /\ buf'.primary \in MutatedKeys(buf')
  BY <1>2 DEF WrittenInv
<1>10. WrittenInv'
  BY <1>6, <1>7, <1>8, <1>9 DEF WrittenInv, Written, pessimistic
<1> QED
  BY <1>2, <1>3, <1>5, <1>10

(* What start_flush makes (s) of the state p. *)
Started(s, p, b, primary) ==
  /\ DOMAIN s = DOMAIN p /\ s.mutable = {} /\ s.generation = p.generation + 1
  /\ s.cancelled = p.cancelled /\ s.failed = p.failed
  /\ DOMAIN s.flushing = FlushFields
  /\ s.flushing.stage = "spawned" /\ s.flushing.primary = primary
  /\ s.flushing.gen = s.generation /\ s.flushing.regions = RegionsOf(p.mutable)
  /\ DOMAIN s.flushing.muts = p.mutable
  /\ \A k \in p.mutable : s.flushing.muts[k] = Mutation(b, k)

(* Starting a flush takes the last write of every mutable key along. *)
LEMMA StartFlushOK ==
  ASSUME NEW p, NEW b, NEW primary, DOMAIN p = PipeFields
  PROVE  Started(StartFlush(p, b, primary), p, b, primary)
<1> DEFINE s == StartFlush(p, b, primary)
           u == UpdateFlushedRange(p, p.mutable)
           f == [stage |-> "spawned", muts |-> [k \in p.mutable |-> Mutation(b, k)],
                 primary |-> primary, gen |-> p.generation + 1, regions |-> RegionsOf(p.mutable)]
<1>1. /\ DOMAIN u = DOMAIN p /\ u.generation = p.generation
      /\ u.cancelled = p.cancelled /\ u.failed = p.failed
  BY DEF UpdateFlushedRange, PipeFields
<1>2. /\ DOMAIN f = FlushFields
      /\ f.stage = "spawned" /\ f.primary = primary
      /\ f.gen = p.generation + 1 /\ f.regions = RegionsOf(p.mutable)
      /\ DOMAIN f.muts = p.mutable
      /\ \A k \in p.mutable : f.muts[k] = Mutation(b, k)
  BY DEF FlushFields
<1>3. s = [u EXCEPT !.generation = u.generation + 1, !.mutable = {}, !.flushing = f]
  BY DEF StartFlush
<1> HIDE DEF u, f, s
<1>4. /\ DOMAIN s = DOMAIN p /\ s.mutable = {} /\ s.generation = p.generation + 1
      /\ s.cancelled = p.cancelled /\ s.failed = p.failed /\ s.flushing = f
  BY <1>1, <1>3 DEF PipeFields
<1>5. Started(s, p, b, primary)
  BY <1>2, <1>4 DEF Started
<1> QED
  BY <1>5 DEF s

(* The writing calls, with the flush a pipelined one may start. *)
LEMMA WriteCommit ==
  ASSUME IInv, IInv', CommitInv, NEW todo \in scenario.todos, NEW first \in Keys,
         Write(todo, first)
  PROVE  CommitInv'
<1>1. /\ BufferInv /\ WrittenInv /\ StageInv /\ ShapeInv /\ scenario \in Scenarios /\ ~pessimistic
      /\ first \in DOMAIN todo /\ op = Idle /\ status = "Active"
      /\ buf' = AfterWrites(buf, todo, first, FALSE) /\ Wrote(todo)
      /\ UNCHANGED <<scenario, snap, op, kind, status, lock, record, strays, secondaries, late,
                     resolving>>
  BY DEF IInv, BufferInv, CommitInv, Write, Operation, Call, storeVars
<1>2. IsTodo(todo)
  BY <1>1, TransactionAssumption
<1>3. /\ WrittenInv'
      /\ buf'.primary = (IF buf.primary = NoKey THEN first ELSE buf.primary)
      /\ MutatedKeys(buf') = MutatedKeys(buf) \cup DOMAIN todo
      /\ \A k \in Keys \ DOMAIN todo : buf'.entries[k] = buf.entries[k] /\ mine'[k] = mine[k]
  BY <1>1, <1>2, WritesWritten
<1>4. ~Ready'
  BY <1>1 DEF Ready, Idle
<1>5. CASE kind # "pipelined"
  <2>1. pipe' = pipe
    BY <1>5 DEF Write
  <2>2. StageInv' /\ ShapeInv'
    BY <1>1, <2>1 DEF StageInv, ShapeInv, Idle
  <2>3. ASSUME Live'
        PROVE  LiveInv'
    <3>1. Live
      BY <1>1, <2>1, <2>3 DEF Live, Sound
    <3>2. StoreInv /\ PlainInv
      BY <3>1 DEF CommitInv, LiveInv
    <3>3. StoreInv'
      BY <1>1, <3>2 DEF StoreInv, RolledBack
    <3>4. PlainInv'
      BY <1>1, <1>5, <3>2 DEF PlainInv, pessimistic, Committed
    <3>5. ~Flushes'
      BY <1>1, <1>5 DEF Flushes
    <3> QED
      BY <1>4, <3>3, <3>4, <3>5 DEF LiveInv, FlushInv, FlushedInv, LostAnswerInv, ReadyInv
  <2> QED
    BY <1>3, <2>2, <2>3 DEF CommitInv
<1>6. CASE kind = "pipelined"
  <2> DEFINE p1 == RecordMutations(pipe, buf', DOMAIN todo)
  <2>1. pipe' = MaybeFlush(p1, buf')
    BY <1>6 DEF Write
  <2>2. /\ DOMAIN p1 = DOMAIN pipe /\ p1.mutable = pipe.mutable \cup DOMAIN todo
        /\ p1.flushing = pipe.flushing /\ p1.generation = pipe.generation
        /\ p1.cancelled = pipe.cancelled /\ p1.failed = pipe.failed
    BY <1>1, <1>3 DEF RecordMutations, ShapeInv, PipeFields
  <2> HIDE DEF p1
  <2>3. \/ pipe' = p1
        \/ /\ pipe' = StartFlush(p1, buf', buf'.primary) /\ p1.flushing.stage = "none"
           /\ buf'.primary # NoKey
    BY <2>1 DEF MaybeFlush
  <2>4. pipe'.failed = pipe.failed /\ ShapeInv'
    <3>1. CASE pipe' = p1
      BY <1>1, <2>2, <3>1 DEF ShapeInv
    <3>2. CASE pipe' = StartFlush(p1, buf', buf'.primary)
      <4>1. DOMAIN p1 = PipeFields
        BY <1>1, <2>2 DEF ShapeInv
      <4>2. /\ DOMAIN pipe' = DOMAIN p1 /\ pipe'.failed = p1.failed
            /\ DOMAIN pipe'.flushing = FlushFields
        <5>1. Started(pipe', p1, buf', buf'.primary)
          BY <3>2, <4>1, StartFlushOK
        <5> QED
          BY <5>1 DEF Started
      <4> QED
        BY <1>1, <2>2, <4>1, <4>2 DEF ShapeInv
    <3> QED
      BY <2>3, <3>1, <3>2
  <2>5. StageInv'
    BY <1>1, <1>6, <2>4 DEF StageInv, Idle
  <2>6. ASSUME Live'
        PROVE  LiveInv'
    <3>1. Live
      BY <1>1, <2>4, <2>6 DEF Live, Sound
    <3>2. StoreInv /\ FlushInv /\ FlushedInv /\ LostAnswerInv /\ Flushes
      BY <1>1, <1>6, <3>1 DEF CommitInv, LiveInv, Flushes
    <3>3. StoreInv'
      BY <1>1, <3>2 DEF StoreInv, RolledBack
    <3>4. PlainInv' /\ ReadyInv'
      BY <1>1, <1>4, <1>6 DEF PlainInv, ReadyInv
    <3>5. buf.primary \in Keys => buf'.primary = buf.primary
      BY <1>3, BufferAssumption DEF NoKey
    <3>6. \A k \in Keys : ~Committed(k) /\ ~Committed(k)'
      BY <1>1, <3>2 DEF LostAnswerInv, Committed
    <3>7. LostAnswerInv'
      BY <3>6 DEF LostAnswerInv
    <3>8. ASSUME NEW k \in Keys, Written(k)', buf'.entries[k].kind # "check",
                 k \notin p1.mutable
          PROVE  /\ Written(k) /\ buf.entries[k].kind # "check" /\ k \notin pipe.mutable
                 /\ mine'[k] = mine[k] /\ buf'.primary = buf.primary
                 /\ Settled(k, buf.primary) => Settled(k, buf.primary)'
      <4>1. /\ Written(k) /\ buf.entries[k] = buf'.entries[k] /\ mine'[k] = mine[k]
            /\ k \notin pipe.mutable
        BY <1>3, <2>2, <3>8 DEF Written
      <4>2. buf.primary \in Keys
        BY <1>1, <4>1 DEF WrittenInv, MutatedKeys
      <4>3. buf'.primary = buf.primary
        BY <3>5, <4>2
      <4> QED
        BY <1>1, <3>8, <4>1, <4>3 DEF Settled, Right, Written, Committed, RolledBack
    <3>9. CASE pipe' = p1
      <4>1. FlushInv'
        BY <1>1, <1>2, <2>2, <3>2, <3>5, <3>9 DEF FlushInv, Flushes, Idle, StoreInv, IsTodo
      <4>2. FlushedInv'
        BY <1>1, <2>2, <3>2, <3>8, <3>9 DEF FlushedInv, Flushes, Pending, Right, Written
      <4> QED
        BY <3>3, <3>4, <3>7, <4>1, <4>2 DEF LiveInv
    <3>10. CASE /\ pipe' = StartFlush(p1, buf', buf'.primary) /\ p1.flushing.stage = "none"
                /\ buf'.primary # NoKey
      <4>1. /\ pipe'.mutable = {} /\ pipe'.generation = pipe.generation + 1
            /\ pipe'.cancelled = pipe.cancelled
            /\ pipe'.flushing.stage = "spawned" /\ pipe'.flushing.primary = buf'.primary
            /\ pipe'.flushing.gen = pipe'.generation
            /\ pipe'.flushing.regions = RegionsOf(p1.mutable)
            /\ DOMAIN pipe'.flushing.muts = p1.mutable
            /\ \A k \in p1.mutable : pipe'.flushing.muts[k] = Mutation(buf', k)
        <5>1. DOMAIN p1 = PipeFields
          BY <1>1, <2>2 DEF ShapeInv
        <5>2. Started(pipe', p1, buf', buf'.primary)
          BY <3>10, <5>1, StartFlushOK
        <5> QED
          BY <2>2, <5>2 DEF Started
      <4>2. p1.mutable \subseteq Keys
        BY <1>2, <2>2, <3>2 DEF FlushInv, IsTodo
      <4>3. \A k \in Keys :
              /\ Mutation(buf', k) \in [op : Ops, value : Found]
              /\ Right(Mutation(buf, k), k)'
              /\ Mutation(buf', k).op = "CheckNotExists" <=> buf'.entries[k].kind = "check"
        <5>1. buf' \in Buffers /\ \A k \in Keys : EntryOK(buf'.entries[k], snap'[k], mine'[k])
          BY DEF IInv, BufferInv, Agree, EntryOK
        <5>2. \A k \in Keys : mine'[k] # Unwritten =>
                                buf'.entries[k].kind \in {"put", "del", "insert", "check"}
          BY <1>3 DEF WrittenInv, Written
        <5>3. ASSUME NEW k \in Keys
              PROVE  /\ Mutation(buf', k) \in [op : Ops, value : Found]
                     /\ mine'[k] # Unwritten => /\ Mutation(buf', k).op # "Lock"
                                                /\ Mutation(buf', k).value = mine'[k]
                     /\ Mutation(buf', k).op = "CheckNotExists" <=> buf'.entries[k].kind = "check"
          BY <5>1, <5>2, MutationIsRight
        <5> QED
          BY <5>3 DEF Right, Written
      <4>4. \A k \in Keys : k \in p1.mutable <=> Pending(k)'
        BY <4>1, <4>2 DEF Pending, RegionsOf
      <4>5. FlushInv'
        <5>1. \A n, g \in Nat : n + 1 \in Nat /\ (g <= n => g <= n + 1)
          BY SMTT(20)
        <5>2. /\ pipe.generation \in Nat /\ lock \in [Keys -> Locks]
              /\ \A k \in Keys : lock[k].gen \in Nat /\ lock[k].gen <= pipe.generation
          BY <3>2 DEF FlushInv, StoreInv, Locks
        <5>3. /\ pipe'.generation \in Nat
              /\ \A k \in Keys : lock'[k].gen <= pipe'.generation
          BY <1>1, <4>1, <5>1, <5>2
        <5>4. \A k \in Keys : lock'[k].type # "none" =>
                               lock'[k].type = "write" /\ lock'[k].primary = buf'.primary
          BY <1>1, <3>2, <3>5 DEF FlushInv, StoreInv
        <5>5. buf'.primary \in Keys
          BY <1>3, <3>10, BufferFields DEF IInv, BufferInv
        <5>6. late' = {} /\ ~pipe'.cancelled /\ resolving'.state = "none" /\ op'.name # "primary"
          BY <1>1, <3>2, <4>1 DEF FlushInv, Idle
        <5>7. \A k \in p1.mutable : pipe'.flushing.muts[k] \in [op : Ops, value : Found]
          BY <4>1, <4>2, <4>3
        <5> QED
          BY <4>1, <4>2, <5>3, <5>4, <5>5, <5>6, <5>7 DEF FlushInv
      <4>6. FlushedInv'
        <5> SUFFICES ASSUME NEW k \in Keys, Written(k)', buf'.entries[k].kind # "check"
                     PROVE  IF Pending(k)'
                            THEN /\ Right(pipe.flushing.muts[k], k)'
                                 /\ pipe'.flushing.muts[k].op # "CheckNotExists"
                            ELSE Settled(k, buf.primary)'
          BY DEF FlushedInv
        <5>1. CASE k \in p1.mutable
          <6>1. pipe'.flushing.muts[k] = Mutation(buf', k) /\ Pending(k)'
            BY <4>1, <4>4, <5>1
          <6> QED
            BY <4>3, <6>1 DEF Right, Written
        <5>2. CASE k \notin p1.mutable
          <6>1. ~Pending(k)
            BY <2>2, <3>2, <3>10 DEF FlushInv, Pending
          <6> QED
            BY <3>2, <3>8, <4>4, <5>2, <6>1 DEF FlushedInv
        <5> QED
          BY <5>1, <5>2
      <4> QED
        BY <3>3, <3>4, <3>7, <4>5, <4>6 DEF LiveInv
    <3> QED
      BY <2>3, <3>9, <3>10
  <2> QED
    BY <1>3, <2>4, <2>5, <2>6 DEF CommitInv
<1> QED
  BY <1>5, <1>6
----------------------------------------------------------------------------
(* rollback().                                                               *)

HasLock(k) == lock[k].type # "none"

(* A key that is committed has no lock.                                      *)
LockInv == \A k \in Keys : HasLock(k) => ~Committed(k)

(* Optimistic and pessimistic: nothing is committed before commit() says so, *)
(* and rollback() has released the keys.                                     *)
ReleasedInv ==
  kind # "pipelined" /\ status \notin {"Committed", "Dropped"} =>
    /\ secondaries = {}
    /\ \A k \in Keys : /\ ~Committed(k) /\ lock[k].type \in {"none", "pessimistic", "write"}
                       /\ HasLock(k) => lock[k].primary \in Keys
    /\ status = "Rolledback" =>
         \A k \in CommitKeys(buf) : ~HasLock(k) \/ (pessimistic /\ lock[k].type = "write")

(* Pipelined: the flushed range holds every key that is locked or on its way *)
(* to a region.                                                              *)
InSpan(p, k) == p.start # NoKey /\ p.start <= k /\ k < p.end

FlushIn(p, f) == DOMAIN f = FlushFields /\ \A k \in DOMAIN f.muts : k \in Keys /\ InSpan(p, k)

SpanInv ==
  kind = "pipelined" =>
    /\ pipe.mutable \subseteq Keys /\ IsFiniteSet(pipe.mutable)
    /\ pipe.start \in Nat /\ pipe.end \in Nat
    /\ \A k \in Keys : HasLock(k) => InSpan(pipe, k)
    /\ FlushIn(pipe, pipe.flushing) /\ \A f \in late : FlushIn(pipe, f)

(* Pipelined: after rollback() no flush runs, and the task that resolves the *)
(* range has the regions of all locks still before it.                       *)
ResolvedInv ==
  kind = "pipelined" =>
    /\ late # {} => pipe.abandoned
    /\ status = "Rolledback" => pipe.flushing.stage = "none"
    /\ status = "Rolledback" /\ pipe.start # NoKey /\ ~pipe.abandoned =>
         /\ resolving.state # "none" /\ ~resolving.commit
         /\ resolving.state \in {"running", "done"} =>
              \A k \in Keys : HasLock(k) => RegionOf[k] \in resolving.regions
         /\ resolving.state = "done" => resolving.regions = {}

CleanInv == LockInv /\ ReleasedInv /\ SpanInv /\ ResolvedInv
----------------------------------------------------------------------------
(* The locks that a step leaves were there before. *)
Fewer == \A k \in Keys : lock'[k] = lock[k] \/ ~HasLock(k)'

(* Commit turns locks into records. *)
LEMMA CommitFewer ==
  ASSUME LockInv, NEW ks, Commit(ks)
  PROVE  LockInv' /\ Fewer
<1> DEFINE some == {k \in ks : lock[k].type # "none"}
<1>1. /\ record' = [k \in Keys |-> IF k \in some THEN [op |-> lock[k].op, value |-> lock[k].value]
                                   ELSE record[k]]
      /\ lock' = [k \in Keys |-> IF k \in some THEN NoLock ELSE lock[k]]
  BY DEF Commit
<1> HIDE DEF some
<1>2. NoLock.type = "none"
  BY DEF NoLock
<1>3. \A k \in Keys : \/ lock'[k] = NoLock
                      \/ lock'[k] = lock[k] /\ record'[k] = record[k]
  BY <1>1
<1> QED
  BY <1>2, <1>3 DEF LockInv, HasLock, Committed, Fewer

(* Rollback releases the keys and commits nothing. *)
LEMMA RollbackFewer ==
  ASSUME LockInv, NEW ks, Rollback(ks)
  PROVE  /\ LockInv' /\ Fewer
         /\ \A k \in Keys : Committed(k)' => Committed(k)
         /\ \A k \in Keys : k \in ks => ~HasLock(k)'
<1> DEFINE some == {k \in ks : ~Committed(k)}
<1>1. /\ record' = [k \in Keys |-> IF k \in some THEN RolledBack ELSE record[k]]
      /\ lock' = [k \in Keys |-> IF k \in some THEN NoLock ELSE lock[k]]
  BY DEF Rollback
<1>2. \A k \in ks : k \in some \/ Committed(k)
  OBVIOUS
<1> HIDE DEF some
<1>3. NoLock.type = "none" /\ RolledBack.op = "rollback"
  BY DEF NoLock, RolledBack
<1>4. \A k \in Keys : \/ k \in some /\ lock'[k] = NoLock /\ record'[k] = RolledBack
                      \/ k \notin some /\ lock'[k] = lock[k] /\ record'[k] = record[k]
  BY <1>1
<1>5. \A k \in Keys : Committed(k)' => Committed(k)
  BY <1>3, <1>4 DEF Committed
<1>6. LockInv' /\ Fewer
  BY <1>3, <1>4 DEF LockInv, HasLock, Committed, Fewer
<1>7. \A k \in Keys : k \in ks => ~HasLock(k)'
  BY <1>2, <1>3, <1>4 DEF LockInv, HasLock
<1> QED
  BY <1>5, <1>6, <1>7

(* PessimisticRollback releases what was not prewritten. *)
LEMMA PessimisticFewer ==
  ASSUME LockInv, NEW ks, PessimisticRollback(ks), record' = record
  PROVE  /\ LockInv' /\ Fewer
         /\ \A k \in Keys : k \in ks => lock'[k].type # "pessimistic"
<1>1. lock' = [k \in Keys |-> IF k \in ks /\ lock[k].type = "pessimistic" THEN NoLock ELSE lock[k]]
  BY DEF PessimisticRollback
<1>2. NoLock.type = "none"
  BY DEF NoLock
<1>3. \A k \in Keys : \/ lock'[k] = NoLock
                      \/ lock'[k] = lock[k] /\ (k \in ks => lock[k].type # "pessimistic")
  BY <1>1
<1> QED
  BY <1>2, <1>3 DEF LockInv, HasLock, Committed, Fewer

(* What is prewritten or flushed is locked under the given primary. *)
LEMMA WriteLocksNew ==
  ASSUME LockInv, NEW muts, NEW ks, NEW primary, NEW gen, WriteLocks(muts, ks, primary, gen),
         record' = record
  PROVE  /\ LockInv'
         /\ \A k \in Keys : \/ lock'[k] = lock[k]
                            \/ k \in ks /\ lock'[k].type = "write" /\ lock'[k].primary = primary
<1> DEFINE new(k) == [type |-> "write", op |-> muts[k].op, value |-> muts[k].value,
                      primary |-> primary, gen |-> gen]
<1>1. lock' = [k \in Keys |-> IF /\ k \in ks /\ muts[k].op # "CheckNotExists"
                                 /\ ~Committed(k) /\ lock[k].gen <= gen
                              THEN new(k) ELSE lock[k]]
  BY DEF WriteLocks
<1>2. \A k \in Keys : new(k).type = "write" /\ new(k).primary = primary
  OBVIOUS
<1> HIDE DEF new
<1>3. \A k \in Keys : \/ lock'[k] = lock[k]
                      \/ k \in ks /\ ~Committed(k) /\ lock'[k] = new(k)
  BY <1>1
<1> QED
  BY <1>2, <1>3 DEF LockInv, HasLock, Committed

(* Locks taken by a pessimistic transaction. *)
LEMMA PessimisticNew ==
  ASSUME NEW ks, NEW primary, PessimisticLocks(ks, primary)
  PROVE  \A k \in Keys : \/ lock'[k] = lock[k]
                         \/ lock'[k].type = "pessimistic" /\ lock'[k].primary = primary
<1> DEFINE new == [NoLock EXCEPT !.type = "pessimistic", !.primary = primary]
<1>1. lock' = [k \in Keys |-> IF k \in ks /\ lock[k].type = "none" THEN new ELSE lock[k]]
  BY DEF PessimisticLocks
<1>2. new.type = "pessimistic" /\ new.primary = primary
  BY DEF NoLock
<1> HIDE DEF new
<1> QED
  BY <1>1, <1>2
----------------------------------------------------------------------------
(* Steps that leave no new lock and do not end rollback(). *)
LEMMA FewerClean ==
  ASSUME CleanInv, LockInv', Fewer, UNCHANGED <<kind, pipe, late>>,
         status' \notin {"Committed", "Dropped"} =>
           /\ status \notin {"Committed", "Dropped"}
           /\ secondaries' = {} \/ secondaries' = secondaries
           /\ kind # "pipelined" => \A k \in Keys : Committed(k)' => Committed(k),
         status' = "Rolledback" =>
           status = "Rolledback" /\ resolving' = resolving /\ CommitKeys(buf') = CommitKeys(buf)
  PROVE  CleanInv'
<1>1. ReleasedInv'
  <2> SUFFICES ASSUME kind # "pipelined", status' \notin {"Committed", "Dropped"}
               PROVE  /\ secondaries' = {}
                      /\ \A k \in Keys :
                           /\ ~Committed(k)' /\ lock'[k].type \in {"none", "pessimistic", "write"}
                           /\ HasLock(k)' => lock'[k].primary \in Keys
                      /\ status' = "Rolledback" =>
                           \A k \in CommitKeys(buf') :
                             ~HasLock(k)' \/ (pessimistic /\ lock'[k].type = "write")
    BY DEF ReleasedInv, pessimistic
  <2>1. /\ secondaries = {} /\ status \notin {"Committed", "Dropped"}
        /\ \A k \in Keys : /\ ~Committed(k) /\ lock[k].type \in {"none", "pessimistic", "write"}
                           /\ HasLock(k) => lock[k].primary \in Keys
        /\ status = "Rolledback" =>
             \A k \in CommitKeys(buf) : ~HasLock(k) \/ (pessimistic /\ lock[k].type = "write")
    BY DEF CleanInv, ReleasedInv
  <2>2. \A k \in Keys : ~Committed(k)' /\ (lock'[k] = lock[k] \/ lock'[k].type = "none")
    BY <2>1 DEF Fewer, HasLock
  <2>3. \A k \in CommitKeys(buf) : k \in Keys
    BY CommitKeysAre
  <2> QED
    BY <2>1, <2>2, <2>3 DEF HasLock
<1>2. SpanInv'
  BY DEF CleanInv, SpanInv, Fewer, HasLock
<1>3. ResolvedInv'
  <2>1. \A k \in Keys : HasLock(k)' => HasLock(k)
    BY DEF Fewer, HasLock
  <2> SUFFICES ASSUME kind = "pipelined", status' = "Rolledback"
               PROVE  /\ pipe.flushing.stage = "none"
                      /\ pipe.start # NoKey /\ ~pipe.abandoned =>
                           /\ resolving.state # "none" /\ ~resolving.commit
                           /\ resolving.state \in {"running", "done"} =>
                                \A k \in Keys : HasLock(k)' => RegionOf[k] \in resolving.regions
                           /\ resolving.state = "done" => resolving.regions = {}
    BY DEF CleanInv, ResolvedInv
  <2> QED
    BY <2>1 DEF CleanInv, ResolvedInv
<1> QED
  BY <1>1, <1>2, <1>3 DEF CleanInv

(* Steps that touch neither locks nor records. *)
LEMMA AsideClean ==
  ASSUME CleanInv, UNCHANGED <<kind, lock, record, pipe, late, resolving>>,
         secondaries' = {} \/ secondaries' = secondaries,
         \/ status' = status /\ (status = "Rolledback" => CommitKeys(buf') = CommitKeys(buf))
         \/ status' = "Dropped"
         \/ /\ status \in {"Active", "StartedCommit", "StartedRollback"}
            /\ status' \in {"StartedCommit", "StartedRollback", "Panicked"}
  PROVE  CleanInv'
<1>1. LockInv' /\ Fewer
  BY DEF CleanInv, LockInv, HasLock, Committed, Fewer
<1> QED
  BY <1>1, FewerClean DEF Committed
----------------------------------------------------------------------------
(* A finite set of numbers has a bound. *)
LEMMA FiniteBounded ==
  ASSUME NEW S, S \subseteq Nat, IsFiniteSet(S)
  PROVE  \E b \in Nat : \A x \in S : x <= b
<1> DEFINE Bounded(T) == \E b \in Nat : \A x \in T : x <= b
           sizes == {n \in Nat : \E T \in SUBSET Nat :
                                   IsFiniteSet(T) /\ Cardinality(T) = n /\ ~Bounded(T)}
<1> SUFFICES ASSUME ~Bounded(S)
             PROVE  FALSE
  OBVIOUS
<1>1. Cardinality(S) \in sizes
  BY FS_CardinalityType
<1>2. sizes \subseteq Nat /\ sizes # {}
  BY <1>1
<1>3. Min(sizes) \in sizes /\ \A n \in sizes : Min(sizes) <= n
  <2> HIDE DEF sizes
  <2> QED
    BY <1>2, MinIn
<1>4. PICK T \in SUBSET Nat : IsFiniteSet(T) /\ Cardinality(T) = Min(sizes) /\ ~Bounded(T)
  BY <1>3
<1>5. PICK x \in T : TRUE
  <2>1. \A b \in Nat : \E y \in T : ~(y <= b)
    BY <1>4
  <2>2. 0 \in Nat
    BY SMTT(20)
  <2> QED
    BY <2>1, <2>2
<1>6. /\ IsFiniteSet(T \ {x}) /\ Cardinality(T \ {x}) = Cardinality(T) - 1
      /\ Cardinality(T) \in Nat /\ Cardinality(T \ {x}) \in Nat
  BY <1>4, FS_RemoveElement, FS_CardinalityType
<1>7. Cardinality(T \ {x}) \notin sizes
  <2>1. \A m, n \in Nat : n = m - 1 => ~(m <= n)
    BY SMTT(20)
  <2> HIDE DEF sizes
  <2> QED
    BY <1>3, <1>4, <1>6, <2>1
<1>8. Bounded(T \ {x})
  BY <1>6, <1>7
<1>9. PICK b \in Nat : \A y \in T \ {x} : y <= b
  BY <1>8
<1>10. \A m, n \in Nat : m <= n \/ n <= m
  BY SMTT(20)
<1>11. \A l, m, n \in Nat : (l <= m /\ m <= n => l <= n) /\ n <= n
  BY SMTT(20)
<1>12. x \in Nat
  OBVIOUS
<1>13. CASE x <= b
  <2>1. \A y \in T : y <= b
    BY <1>9, <1>13
  <2> QED
    BY <1>4, <2>1
<1>14. CASE b <= x
  <2>1. \A y \in T : y <= x
    BY <1>9, <1>11, <1>12, <1>14
  <2> QED
    BY <1>4, <1>12, <2>1
<1> QED
  BY <1>10, <1>12, <1>13, <1>14

(* The greatest element of a finite set of numbers. *)
LEMMA MaxIn ==
  ASSUME NEW S, S \subseteq Nat, S # {}, IsFiniteSet(S)
  PROVE  Max(S) \in S /\ \A y \in S : y <= Max(S)
<1> DEFINE bounds == {b \in Nat : \A x \in S : x <= b}
           m == Min(bounds)
<1>1. bounds \subseteq Nat /\ bounds # {}
  BY FiniteBounded
<1>2. m \in bounds /\ \A b \in bounds : m <= b
  <2> HIDE DEF bounds
  <2> QED
    BY <1>1, MinIn
<1>3. m \in Nat /\ \A x \in S : x <= m
  BY <1>2
<1>4. ASSUME m \notin S
      PROVE  m - 1 \in bounds
  <2> HIDE DEF m
  <2>1. PICK x \in S : TRUE
    OBVIOUS
  <2>2. \A y \in S : y \in Nat /\ y <= m /\ y # m
    BY <1>3, <1>4
  <2>3. \A y, n \in Nat : y <= n /\ y # n => n - 1 \in Nat /\ y <= n - 1
    BY SMTT(20)
  <2> QED
    BY <1>3, <2>1, <2>2, <2>3
<1>5. \A n \in Nat : ~(n <= n - 1)
  BY SMTT(20)
<1> HIDE DEF bounds, m
<1>6. m \in S
  BY <1>2, <1>3, <1>4, <1>5
<1>7. \A x, y \in Nat : x <= y <=> y >= x
  BY SMTT(20)
<1>8. \A y \in S : m >= y
  BY <1>3, <1>7
<1>9. Max(S) \in S /\ \A y \in S : Max(S) >= y
  BY <1>6, <1>8 DEF Max
<1> QED
  BY <1>7, <1>9

Widened(s, p) ==
  /\ s.start \in Nat /\ s.end \in Nat /\ s.abandoned = p.abandoned
  /\ \A k \in Keys : InSpan(p, k) \/ k \in p.mutable => InSpan(s, k)

(* Starting a flush widens the range to the keys it takes along. *)
LEMMA StartFlushSpan ==
  ASSUME NEW p, NEW b, NEW primary, DOMAIN p = PipeFields, p.start \in Nat, p.end \in Nat,
         p.mutable \subseteq Keys, p.mutable # {}, IsFiniteSet(p.mutable)
  PROVE  Widened(StartFlush(p, b, primary), p)
<1> DEFINE ks == p.mutable
           s == StartFlush(p, b, primary)
           u == UpdateFlushedRange(p, ks)
           from == IF p.start # NoKey /\ p.start <= Min(ks) THEN p.start ELSE Min(ks)
           to == IF p.end >= Max(ks) + 1 THEN p.end ELSE Max(ks) + 1
           f == [stage |-> "spawned", muts |-> [k \in ks |-> Mutation(b, k)],
                 primary |-> primary, gen |-> p.generation + 1, regions |-> RegionsOf(ks)]
<1>1. /\ ks \subseteq Nat \ {NoKey} /\ Keys \subseteq Nat
      /\ Min(ks) \in ks /\ Max(ks) \in ks
      /\ \A k \in ks : Min(ks) <= k /\ k <= Max(ks)
  BY MinIn, MaxIn, BufferAssumption
<1>2. u = [p EXCEPT !.start = from, !.end = to]
  BY DEF UpdateFlushedRange
<1>3. s = [u EXCEPT !.generation = u.generation + 1, !.mutable = {}, !.flushing = f]
  BY DEF StartFlush
<1> HIDE DEF ks, s, u, from, to, f
<1>4. /\ DOMAIN u = PipeFields /\ u.abandoned = p.abandoned /\ u.start = from /\ u.end = to
  BY <1>2 DEF PipeFields
<1>5. s.start = from /\ s.end = to /\ s.abandoned = p.abandoned
  BY <1>3, <1>4 DEF PipeFields
<1>6. /\ s.start \in Nat /\ s.end \in Nat /\ s.start # NoKey
      /\ s.start <= Min(ks) /\ Max(ks) + 1 <= s.end /\ p.end <= s.end
      /\ p.start # NoKey => s.start <= p.start
  <2>1. Min(ks) \in Nat /\ Max(ks) \in Nat /\ Min(ks) # NoKey
    BY <1>1
  <2>2. /\ from \in Nat /\ from # NoKey /\ from <= Min(ks)
        /\ p.start # NoKey => from <= p.start
    <3>1. \A m, n \in Nat : m <= m /\ (~(m <= n) => n <= m)
      BY SMTT(20)
    <3> QED
      BY <2>1, <3>1 DEF from
  <2>3. to \in Nat /\ Max(ks) + 1 <= to /\ p.end <= to
    <3>1. \A m, n \in Nat : /\ m + 1 \in Nat /\ m <= m /\ m + 1 <= m + 1
                            /\ IF n >= m + 1 THEN m + 1 <= n ELSE n <= m + 1
      BY SMTT(20)
    <3> QED
      BY <2>1, <3>1 DEF to
  <2> QED
    BY <1>5, <2>2, <2>3
<1>7. ASSUME NEW k \in Keys, InSpan(p, k) \/ k \in ks
      PROVE  InSpan(s, k)
  <2>1. \A l, m, n \in Nat : l <= m /\ m <= n => l <= n
    BY SMTT(20)
  <2>2. \A l, m, n \in Nat : (l < m /\ m <= n => l < n) /\ (l <= m /\ m + 1 <= n => l < n)
    BY SMTT(20)
  <2>3. k \in Nat /\ Min(ks) \in Nat /\ Max(ks) \in Nat
    BY <1>1
  <2> QED
    BY <1>1, <1>6, <1>7, <2>1, <2>2, <2>3 DEF InSpan
<1> QED
  BY <1>5, <1>6, <1>7 DEF ks, s, Widened
----------------------------------------------------------------------------
(* Steps of a pipelined transaction that leave the store alone. *)
LEMMA PipeClean ==
  ASSUME CleanInv, kind = "pipelined", UNCHANGED <<kind, lock, record>>,
         pipe'.mutable \subseteq Keys, IsFiniteSet(pipe'.mutable),
         pipe'.start \in Nat, pipe'.end \in Nat,
         \A k \in Keys : InSpan(pipe, k) => InSpan(pipe', k),
         FlushIn(pipe', pipe'.flushing), \A f \in late' : FlushIn(pipe', f),
         late' # {} => pipe'.abandoned,
         status' = "Rolledback" =>
           /\ status = "Rolledback" /\ resolving' = resolving /\ pipe'.flushing = pipe.flushing
           /\ pipe'.start = pipe.start /\ pipe'.abandoned = pipe.abandoned
  PROVE  CleanInv'
<1>1. LockInv' /\ ReleasedInv'
  BY DEF CleanInv, LockInv, HasLock, Committed, ReleasedInv
<1>2. SpanInv'
  BY DEF CleanInv, SpanInv, HasLock
<1>3. ResolvedInv'
  BY DEF CleanInv, ResolvedInv, HasLock
<1> QED
  BY <1>1, <1>2, <1>3 DEF CleanInv

(* A flush that carries nothing. *)
LEMMA NoFlushIn == \A p : FlushIn(p, NoFlush)
<1>1. DOMAIN <<>> = {}
  BY SMTT(20)
<1> QED
  BY <1>1 DEF FlushIn, NoFlush, FlushFields

(* The writing calls. *)
LEMMA WriteClean ==
  ASSUME IInv, CommitInv, CleanInv, NEW todo \in scenario.todos, NEW first, Write(todo, first)
  PROVE  CleanInv'
<1>1. /\ ShapeInv /\ IsTodo(todo) /\ status = "Active"
      /\ UNCHANGED <<kind, lock, record, status, late, resolving, secondaries>>
  BY TransactionAssumption
     DEF IInv, BufferInv, CommitInv, Write, Operation, storeVars
<1>2. CASE kind # "pipelined"
  BY <1>1, <1>2, AsideClean DEF Write
<1>3. CASE kind = "pipelined"
  <2> DEFINE m == (pipe.mutable \ DOMAIN todo) \cup (DOMAIN todo \cap MutatedKeys(buf'))
             p1 == [pipe EXCEPT !.mutable = m]
  <2>1. pipe' = MaybeFlush(p1, buf')
    BY <1>3 DEF Write, RecordMutations
  <2>2. m \subseteq Keys /\ IsFiniteSet(m)
    <3>1. pipe.mutable \subseteq Keys /\ IsFiniteSet(pipe.mutable)
      BY <1>3 DEF CleanInv, SpanInv
    <3>2. DOMAIN todo \subseteq Keys /\ IsFiniteSet(DOMAIN todo)
      BY <1>1 DEF IsTodo
    <3>3. IsFiniteSet(pipe.mutable \cup DOMAIN todo) /\ m \subseteq pipe.mutable \cup DOMAIN todo
      BY <3>1, <3>2, FS_Union
    <3> HIDE DEF m
    <3> QED
      BY <3>1, <3>2, <3>3, FS_Subset
  <2> HIDE DEF m
  <2>3. /\ DOMAIN p1 = PipeFields /\ p1.mutable = m /\ p1.flushing = pipe.flushing
        /\ p1.start = pipe.start /\ p1.end = pipe.end /\ p1.abandoned = pipe.abandoned
    BY <1>1 DEF ShapeInv, PipeFields
  <2> HIDE DEF p1
  <2>4. /\ pipe.start \in Nat /\ pipe.end \in Nat /\ (late # {} => pipe.abandoned)
        /\ FlushIn(pipe, pipe.flushing) /\ \A f \in late : FlushIn(pipe, f)
    BY <1>3 DEF CleanInv, SpanInv, ResolvedInv
  <2>5. CASE pipe' = p1
    BY <1>1, <1>3, <2>2, <2>3, <2>4, <2>5, PipeClean DEF FlushIn, InSpan
  <2>6. CASE pipe' = StartFlush(p1, buf', buf'.primary) /\ m # {}
    <3>1. Started(pipe', p1, buf', buf'.primary)
      BY <2>3, <2>6, StartFlushOK
    <3>2. Widened(pipe', p1)
      BY <2>2, <2>3, <2>4, <2>6, StartFlushSpan
    <3>3. \A k \in Keys : InSpan(pipe, k) => InSpan(pipe', k)
      BY <2>3, <3>2 DEF InSpan, Widened
    <3>4. FlushIn(pipe', pipe'.flushing) /\ \A f \in late : FlushIn(pipe', f)
      BY <2>2, <2>3, <2>4, <3>1, <3>2, <3>3 DEF FlushIn, Started, Widened
    <3>5. pipe'.mutable \subseteq Keys /\ IsFiniteSet(pipe'.mutable)
      BY <3>1, FS_EmptySet DEF Started
    <3> QED
      BY <1>1, <1>3, <2>3, <2>4, <3>2, <3>3, <3>4, <3>5, PipeClean DEF Widened
  <2>7. pipe' = p1 \/ (pipe' = StartFlush(p1, buf', buf'.primary) /\ m # {})
    <3>1. Cardinality({}) = 0
      BY FS_EmptySet
    <3>2. ~(0 >= MinFlushKeys)
      BY TransactionAssumption, SMTT(20)
    <3> QED
      BY <2>1, <2>3, <3>1, <3>2 DEF MaybeFlush
  <2> QED
    BY <2>5, <2>6, <2>7
<1> QED
  BY <1>2, <1>3

(* A key is presumed not to exist: possibly after rollback() returned. *)
LEMMA PresumeClean ==
  ASSUME IInv, CommitInv, CleanInv, NEW k \in Keys, Presume(k)
  PROVE  CleanInv'
<1>1. /\ ShapeInv /\ buf \in Buffers /\ buf' = [buf EXCEPT !.presumed = @ \cup {k}]
      /\ UNCHANGED <<kind, lock, record, status, late, resolving, secondaries>>
  BY DEF IInv, BufferInv, CommitInv, Presume, PresumeNotExists, storeVars
<1>2. CASE kind # "pipelined"
  <2>1. Alike(buf, buf')
    BY <1>1 DEF Buffers, Alike
  <2>2. CommitKeys(buf') = CommitKeys(buf)
    BY <2>1, AlikeKeys
  <2>3. pipe' = pipe
    BY <1>2 DEF Presume
  <2> QED
    BY <1>1, <2>2, <2>3, AsideClean
<1>3. CASE kind = "pipelined"
  <2> DEFINE m == (pipe.mutable \ {k}) \cup ({k} \cap MutatedKeys(buf'))
  <2>1. pipe' = [pipe EXCEPT !.mutable = m]
    BY <1>3 DEF Presume, RecordMutations
  <2>2. m \subseteq Keys /\ IsFiniteSet(m)
    <3>1. pipe.mutable \subseteq Keys /\ IsFiniteSet(pipe.mutable)
      BY <1>3 DEF CleanInv, SpanInv
    <3>2. IsFiniteSet(pipe.mutable \cup {k}) /\ m \subseteq pipe.mutable \cup {k}
      BY <3>1, FS_Union, FS_Singleton
    <3> HIDE DEF m
    <3> QED
      BY <3>1, <3>2, FS_Subset
  <2> HIDE DEF m
  <2>3. /\ pipe'.mutable = m /\ pipe'.flushing = pipe.flushing /\ pipe'.start = pipe.start
        /\ pipe'.end = pipe.end /\ pipe'.abandoned = pipe.abandoned
    BY <1>1, <2>1 DEF ShapeInv, PipeFields
  <2>4. /\ pipe.start \in Nat /\ pipe.end \in Nat /\ (late # {} => pipe.abandoned)
        /\ FlushIn(pipe, pipe.flushing) /\ \A f \in late : FlushIn(pipe, f)
    BY <1>3 DEF CleanInv, SpanInv, ResolvedInv
  <2> QED
    BY <1>1, <1>3, <2>2, <2>3, <2>4, PipeClean DEF FlushIn, InSpan
<1> QED
  BY <1>2, <1>3

(* commit() awaits the flushes. *)
LEMMA FlushAwaitedClean ==
  ASSUME CommitInv, CleanInv, FlushAwaited
  PROVE  CleanInv'
<1> DEFINE rest == [pipe EXCEPT !.flushing = NoFlush]
<1>1. /\ ShapeInv /\ kind = "pipelined" /\ status = "StartedCommit"
      /\ UNCHANGED <<kind, lock, record, late>> /\ status' # "Rolledback"
      /\ pipe' = rest \/ (pipe' = StartFlush(rest, buf, op.first) /\ pipe.mutable # {})
  BY DEF CommitInv, StageInv, FlushAwaited, Calling, storeVars
<1>2. /\ DOMAIN rest = PipeFields /\ rest.mutable = pipe.mutable /\ rest.flushing = NoFlush
      /\ rest.start = pipe.start /\ rest.end = pipe.end /\ rest.abandoned = pipe.abandoned
  BY <1>1 DEF ShapeInv, PipeFields
<1> HIDE DEF rest
<1>3. /\ pipe.start \in Nat /\ pipe.end \in Nat /\ (late # {} => pipe.abandoned)
      /\ \A f \in late : FlushIn(pipe, f)
      /\ pipe.mutable \subseteq Keys /\ IsFiniteSet(pipe.mutable)
  BY <1>1 DEF CleanInv, SpanInv, ResolvedInv
<1>4. CASE pipe' = rest
  BY <1>1, <1>2, <1>3, <1>4, NoFlushIn, PipeClean DEF FlushIn, InSpan
<1>5. CASE pipe' = StartFlush(rest, buf, op.first) /\ pipe.mutable # {}
  <2>1. Started(pipe', rest, buf, op.first)
    BY <1>2, <1>5, StartFlushOK
  <2>2. Widened(pipe', rest)
    BY <1>2, <1>3, <1>5, StartFlushSpan
  <2>3. \A k \in Keys : InSpan(pipe, k) => InSpan(pipe', k)
    BY <1>2, <2>2 DEF InSpan, Widened
  <2>4. FlushIn(pipe', pipe'.flushing) /\ \A f \in late : FlushIn(pipe', f)
    BY <1>2, <1>3, <2>1, <2>2, <2>3 DEF FlushIn, Started, Widened
  <2>5. pipe'.mutable \subseteq Keys /\ IsFiniteSet(pipe'.mutable)
    BY <2>1, FS_EmptySet DEF Started
  <2> QED
    BY <1>1, <1>2, <1>3, <2>2, <2>3, <2>4, <2>5, PipeClean DEF Widened
<1> QED
  BY <1>1, <1>4, <1>5
----------------------------------------------------------------------------
(* The flush task until it ends: the requests of a failed flush live on. *)
LEMMA FlushStagesClean ==
  ASSUME CommitInv, CleanInv, FlushBegins \/ FlushSends \/ FlushFails, UNCHANGED txnVars
  PROVE  CleanInv'
<1>1. /\ StageInv /\ ShapeInv /\ UNCHANGED <<kind, lock, record, status, resolving>>
      /\ pipe.flushing.stage # "none"
  BY DEF CommitInv, FlushBegins, FlushSends, FlushFails, txnVars, storeVars
<1>2. kind = "pipelined"
  BY <1>1 DEF StageInv
<1>3. /\ status # "Rolledback" /\ (late # {} => pipe.abandoned)
      /\ pipe.start \in Nat /\ pipe.end \in Nat
      /\ pipe.mutable \subseteq Keys /\ IsFiniteSet(pipe.mutable)
      /\ FlushIn(pipe, pipe.flushing) /\ \A f \in late : FlushIn(pipe, f)
  BY <1>1, <1>2 DEF CleanInv, SpanInv, ResolvedInv
<1>4. PICK x : \/ pipe' = [pipe EXCEPT !.flushing = [pipe.flushing EXCEPT !.stage = x]]
                  /\ late' = late
               \/ pipe' = [pipe EXCEPT !.flushing = [pipe.flushing EXCEPT !.stage = x],
                                       !.failed = TRUE, !.abandoned = TRUE]
                  /\ late' = late \cup {pipe.flushing}
  BY DEF FlushBegins, FlushSends, FlushFails, SetFlush
<1> DEFINE f == [pipe.flushing EXCEPT !.stage = x]
<1>5. DOMAIN f = FlushFields /\ f.muts = pipe.flushing.muts
  BY <1>1 DEF ShapeInv, FlushFields
<1>6. \/ pipe' = [pipe EXCEPT !.flushing = f] /\ late' = late
      \/ /\ pipe' = [pipe EXCEPT !.flushing = f, !.failed = TRUE, !.abandoned = TRUE]
         /\ late' = late \cup {pipe.flushing}
  BY <1>4
<1> HIDE DEF f
<1>7. /\ pipe'.mutable = pipe.mutable /\ pipe'.flushing = f
      /\ pipe'.start = pipe.start /\ pipe'.end = pipe.end
      /\ \/ pipe'.abandoned = pipe.abandoned /\ late' = late
         \/ pipe'.abandoned /\ late' = late \cup {pipe.flushing}
  BY <1>1, <1>6 DEF ShapeInv, PipeFields
<1>8. /\ \A k \in Keys : InSpan(pipe, k) => InSpan(pipe', k)
      /\ FlushIn(pipe', pipe'.flushing) /\ \A g \in late' : FlushIn(pipe', g)
  BY <1>3, <1>5, <1>7 DEF FlushIn, InSpan
<1> QED
  BY <1>1, <1>2, <1>3, <1>7, <1>8, PipeClean

(* rollback() begins: a flush that waits is abandoned. *)
LEMMA RollbackCallClean ==
  ASSUME CommitInv, CleanInv, RollbackCall
  PROVE  CleanInv'
<1>1. /\ ShapeInv /\ status \in {"Active", "StartedCommit", "StartedRollback"}
      /\ UNCHANGED <<kind, lock, record, resolving, buf, secondaries>>
  BY DEF CommitInv, RollbackCall, storeVars
<1>2. CASE kind = "pipelined"
  <2> DEFINE waits == pipe.flushing.stage = "running"
             x == IF waits THEN "done" ELSE pipe.flushing.stage
             f == [pipe.flushing EXCEPT !.stage = x]
  <2>1. /\ pipe' = [pipe EXCEPT !.cancelled = TRUE, !.flushing = f,
                                !.abandoned = pipe.abandoned \/ waits]
        /\ late' = IF waits THEN late \cup {pipe.flushing} ELSE late
        /\ status' = "StartedRollback"
    BY <1>1, <1>2 DEF RollbackCall, Cancel, ShapeInv, PipeFields
  <2>2. DOMAIN f = FlushFields /\ f.muts = pipe.flushing.muts
    BY <1>1 DEF ShapeInv, FlushFields
  <2> HIDE DEF f
  <2>3. /\ pipe'.mutable = pipe.mutable /\ pipe'.flushing = f
        /\ pipe'.start = pipe.start /\ pipe'.end = pipe.end
        /\ pipe'.abandoned = (pipe.abandoned \/ waits)
    BY <1>1, <2>1 DEF ShapeInv, PipeFields
  <2>4. /\ (late # {} => pipe.abandoned)
        /\ pipe.start \in Nat /\ pipe.end \in Nat
        /\ pipe.mutable \subseteq Keys /\ IsFiniteSet(pipe.mutable)
        /\ FlushIn(pipe, pipe.flushing) /\ \A g \in late : FlushIn(pipe, g)
    BY <1>2 DEF CleanInv, SpanInv, ResolvedInv
  <2> HIDE DEF waits
  <2>5. /\ \A k \in Keys : InSpan(pipe, k) => InSpan(pipe', k)
        /\ FlushIn(pipe', pipe'.flushing) /\ \A g \in late' : FlushIn(pipe', g)
    BY <2>1, <2>2, <2>3, <2>4 DEF FlushIn, InSpan
  <2>6. late' # {} => pipe'.abandoned
    BY <2>1, <2>3, <2>4
  <2> QED
    BY <1>1, <1>2, <2>1, <2>3, <2>4, <2>5, <2>6, PipeClean
<1>3. CASE kind # "pipelined"
  <2>1. /\ UNCHANGED <<pipe, late>>
        /\ \/ status' = "StartedRollback"
           \/ status' = "Rolledback" /\ CommitKeys(buf) = {}
    BY <1>3 DEF RollbackCall
  <2>2. CASE status' = "StartedRollback"
    BY <1>1, <2>1, <2>2, AsideClean
  <2>3. CASE status' = "Rolledback" /\ CommitKeys(buf) = {}
    BY <1>1, <1>3, <2>1, <2>3
       DEF CleanInv, LockInv, ReleasedInv, SpanInv, ResolvedInv, HasLock, Committed
  <2> QED
    BY <2>1, <2>2, <2>3
<1> QED
  BY <1>2, <1>3

(* rollback() of a pipelined transaction resolves the flushed range. *)
LEMMA RollbackPipelinedClean ==
  ASSUME CommitInv, CleanInv, RollbackPipelined
  PROVE  CleanInv'
<1>1. /\ ShapeInv /\ kind = "pipelined" /\ pipe' = [pipe EXCEPT !.flushing = NoFlush]
      /\ SpawnResolve(FALSE) /\ UNCHANGED <<kind, lock, record, late>>
  BY DEF CommitInv, StageInv, RollbackPipelined, Calling, storeVars
<1>2. /\ pipe'.mutable = pipe.mutable /\ pipe'.flushing = NoFlush
      /\ pipe'.start = pipe.start /\ pipe'.end = pipe.end /\ pipe'.abandoned = pipe.abandoned
      /\ NoFlush.stage = "none"
  BY <1>1 DEF ShapeInv, PipeFields, NoFlush
<1>3. /\ (late # {} => pipe.abandoned)
      /\ pipe.start \in Nat /\ pipe.end \in Nat
      /\ pipe.mutable \subseteq Keys /\ IsFiniteSet(pipe.mutable)
      /\ \A f \in late : FlushIn(pipe, f)
      /\ \A k \in Keys : HasLock(k) => InSpan(pipe, k)
  BY <1>1 DEF CleanInv, SpanInv, ResolvedInv
<1>4. LockInv' /\ ReleasedInv'
  BY <1>1 DEF CleanInv, LockInv, HasLock, Committed, ReleasedInv
<1>5. SpanInv'
  BY <1>1, <1>2, <1>3, NoFlushIn DEF SpanInv, HasLock, FlushIn, InSpan
<1>6. ResolvedInv'
  <2>1. ASSUME pipe.start # NoKey
        PROVE  /\ resolving'.state # "none" /\ ~resolving'.commit
               /\ \A k \in Keys : HasLock(k)' => RegionOf[k] \in resolving'.regions
               /\ resolving'.state = "done" => resolving'.regions = {}
    <3>1. resolving' = [state |-> IF RangeRegions = {} THEN "done" ELSE "running",
                        commit |-> FALSE, regions |-> RangeRegions]
      BY <1>1, <2>1 DEF SpawnResolve
    <3>2. /\ resolving'.state = (IF RangeRegions = {} THEN "done" ELSE "running")
          /\ ~resolving'.commit /\ resolving'.regions = RangeRegions
      BY <3>1
    <3>3. \A k \in Keys : HasLock(k) => RegionOf[k] \in RangeRegions
      BY <1>3 DEF InSpan, RangeRegions, RegionsOf
    <3> QED
      BY <1>1, <3>2, <3>3 DEF HasLock
  <2> QED
    BY <1>1, <1>2, <1>3, <2>1 DEF ResolvedInv
<1> QED
  BY <1>4, <1>5, <1>6 DEF CleanInv

(* rollback() of the other transactions releases their keys. *)
LEMMA RollbackDoneClean ==
  ASSUME CommitInv, CleanInv, RollbackDone
  PROVE  CleanInv'
<1>1. /\ kind # "pipelined" /\ status = "StartedRollback" /\ status' = "Rolledback"
      /\ UNCHANGED <<kind, buf, pipe, late, resolving, secondaries>>
      /\ ReleaseKeys(CommitKeys(buf))
  BY DEF CommitInv, StageInv, RollbackDone, Calling, pipeVars
<1>2. /\ LockInv /\ secondaries = {}
      /\ \A k \in Keys : /\ ~Committed(k) /\ lock[k].type \in {"none", "pessimistic", "write"}
                         /\ HasLock(k) => lock[k].primary \in Keys
  BY <1>1 DEF CleanInv, ReleasedInv
<1>3. \A k \in CommitKeys(buf) : k \in Keys
  BY CommitKeysAre
<1>4. /\ LockInv' /\ Fewer /\ \A k \in Keys : Committed(k)' => Committed(k)
      /\ \A k \in CommitKeys(buf) :
           ~HasLock(k)' \/ (pessimistic /\ lock'[k].type # "pessimistic")
  <2>1. CASE pessimistic
    <3>1. PessimisticRollback(CommitKeys(buf)) /\ record' = record
      BY <1>1, <2>1 DEF ReleaseKeys
    <3> QED
      BY <1>2, <1>3, <2>1, <3>1, PessimisticFewer DEF Committed
  <2>2. CASE ~pessimistic
    <3>1. Rollback(CommitKeys(buf))
      BY <1>1, <2>2 DEF ReleaseKeys
    <3> QED
      BY <1>2, <1>3, <3>1, RollbackFewer
  <2> QED
    BY <2>1, <2>2
<1>5. \A k \in Keys : /\ ~Committed(k)' /\ lock'[k].type \in {"none", "pessimistic", "write"}
                      /\ HasLock(k)' => lock'[k].primary \in Keys
  BY <1>2, <1>4 DEF Fewer, HasLock
<1>6. ReleasedInv'
  BY <1>1, <1>2, <1>3, <1>4, <1>5 DEF ReleasedInv, HasLock, pessimistic
<1> QED
  BY <1>1, <1>4, <1>6 DEF CleanInv, SpanInv, ResolvedInv
----------------------------------------------------------------------------
(* A flush locks keys of the range. *)
LEMMA FlushLocksClean ==
  ASSUME CleanInv, kind = "pipelined", UNCHANGED <<kind, record, status, resolving>>,
         NEW muts, NEW ks, NEW primary, NEW gen,
         WriteLocks(muts, ks, primary, gen) \/ UNCHANGED lock,
         \A k \in ks : InSpan(pipe, k),
         status = "Rolledback" => pipe.abandoned /\ pipe'.flushing.stage = "none",
         pipe'.mutable = pipe.mutable, pipe'.start = pipe.start, pipe'.end = pipe.end,
         pipe'.abandoned = pipe.abandoned, late' # {} => pipe.abandoned,
         FlushIn(pipe, pipe'.flushing), \A f \in late' : FlushIn(pipe, f)
  PROVE  CleanInv'
<1>1. LockInv' /\ \A k \in Keys : lock'[k] = lock[k] \/ k \in ks
  <2>1. CASE WriteLocks(muts, ks, primary, gen)
    BY <2>1, WriteLocksNew DEF CleanInv
  <2>2. CASE UNCHANGED lock
    BY <2>2 DEF CleanInv, LockInv, HasLock, Committed
  <2> QED
    BY <2>1, <2>2
<1>2. SpanInv'
  <2>1. /\ pipe.start \in Nat /\ pipe.end \in Nat
        /\ pipe.mutable \subseteq Keys /\ IsFiniteSet(pipe.mutable)
        /\ \A k \in Keys : HasLock(k) => InSpan(pipe, k)
    BY DEF CleanInv, SpanInv
  <2>2. \A k \in Keys : HasLock(k)' => InSpan(pipe, k)
    BY <1>1, <2>1 DEF HasLock
  <2> QED
    BY <2>1, <2>2 DEF SpanInv, FlushIn, InSpan
<1>3. ReleasedInv' /\ ResolvedInv'
  BY DEF ReleasedInv, ResolvedInv
<1> QED
  BY <1>1, <1>2, <1>3 DEF CleanInv

(* A region executes its part of a flush, in time or late. *)
LEMMA FlushRegionClean ==
  ASSUME CommitInv, CleanInv, NEW r, FlushRegion(r), UNCHANGED txnVars
  PROVE  CleanInv'
<1> DEFINE g == pipe.flushing
           rest == g.regions \ {r}
           f == [g EXCEPT !.regions = rest, !.stage = IF rest = {} THEN "done" ELSE @]
<1>1. /\ StageInv /\ ShapeInv /\ UNCHANGED <<kind, record, status, resolving, late>>
      /\ g.stage = "running" /\ pipe' = [pipe EXCEPT !.flushing = f]
      /\ WriteLocks(g.muts, KeysOf(g, {r}), g.primary, g.gen)
  BY DEF CommitInv, FlushRegion, SetFlush, txnVars
<1>2. kind = "pipelined"
  BY <1>1 DEF StageInv
<1>3. DOMAIN f = FlushFields /\ f.muts = g.muts
  BY <1>1 DEF ShapeInv, FlushFields
<1> HIDE DEF f
<1>4. /\ pipe'.mutable = pipe.mutable /\ pipe'.flushing = f
      /\ pipe'.start = pipe.start /\ pipe'.end = pipe.end /\ pipe'.abandoned = pipe.abandoned
  BY <1>1 DEF ShapeInv, PipeFields
<1>5. /\ status # "Rolledback" /\ (late # {} => pipe.abandoned)
      /\ FlushIn(pipe, g) /\ \A h \in late : FlushIn(pipe, h)
  BY <1>1, <1>2 DEF CleanInv, SpanInv, ResolvedInv
<1>6. FlushIn(pipe, f) /\ \A k \in KeysOf(g, {r}) : InSpan(pipe, k)
  BY <1>3, <1>5 DEF FlushIn, KeysOf
<1> QED
  BY <1>1, <1>2, <1>4, <1>5, <1>6, FlushLocksClean

LEMMA LateFlushClean ==
  ASSUME CommitInv, CleanInv, NEW f \in late, NEW r, LateFlush(f, r), UNCHANGED txnVars
  PROVE  CleanInv'
<1> DEFINE rest == [f EXCEPT !.regions = @ \ {r}]
<1>1. /\ StageInv /\ UNCHANGED <<kind, record, status, resolving, pipe>>
      /\ WriteLocks(f.muts, KeysOf(f, {r}), f.primary, f.gen) \/ UNCHANGED lock
      /\ \A h \in late' : h \in late \/ h = rest
  BY DEF CommitInv, LateFlush, txnVars
<1>2. kind = "pipelined"
  BY <1>1 DEF StageInv
<1>3. /\ pipe.abandoned /\ (status = "Rolledback" => pipe.flushing.stage = "none")
      /\ FlushIn(pipe, pipe.flushing) /\ \A h \in late : FlushIn(pipe, h)
  BY <1>2 DEF CleanInv, SpanInv, ResolvedInv
<1>4. FlushIn(pipe, f) /\ DOMAIN f = FlushFields
  BY <1>3 DEF FlushIn
<1>5. DOMAIN rest = FlushFields /\ rest.muts = f.muts
  BY <1>4 DEF FlushFields
<1> HIDE DEF rest
<1>6. /\ \A h \in late' : FlushIn(pipe, h)
      /\ \A k \in KeysOf(f, {r}) : InSpan(pipe, k)
  BY <1>1, <1>3, <1>4, <1>5 DEF FlushIn, KeysOf
<1> QED
  BY <1>1, <1>2, <1>3, <1>6, FlushLocksClean

(* The task that resolves the range. *)
LEMMA ResolveClean ==
  ASSUME CommitInv, CleanInv, ResolveTask, UNCHANGED txnVars
  PROVE  CleanInv'
<1>1. /\ StageInv /\ ShapeInv /\ resolving.state = "running"
      /\ UNCHANGED <<kind, status, pipe, late, buf, secondaries>>
  BY DEF CommitInv, ResolveTask, ResolveRegion, ResolveFails, txnVars
<1>2. kind = "pipelined"
  BY <1>1 DEF StageInv
<1>3. CASE ResolveFails
  <2>1. /\ UNCHANGED <<lock, record>> /\ resolving' = [resolving EXCEPT !.state = "failed"]
    BY <1>3 DEF ResolveFails
  <2>2. resolving'.state = "failed" /\ resolving'.commit = resolving.commit
    BY <1>1, <2>1 DEF ShapeInv
  <2>3. LockInv' /\ ReleasedInv' /\ SpanInv'
    BY <1>1, <1>2, <2>1 DEF CleanInv, LockInv, ReleasedInv, SpanInv, HasLock, Committed
  <2>4. ResolvedInv'
    BY <1>1, <1>2, <2>2 DEF CleanInv, ResolvedInv
  <2> QED
    BY <2>3, <2>4 DEF CleanInv
<1>4. CASE \E r \in RegionsOf(Keys) : ResolveRegion(r)
  <2>1. PICK r \in RegionsOf(Keys) : ResolveRegion(r)
    BY <1>4
  <2> DEFINE rest == resolving.regions \ {r}
             some == {k \in KeysIn({r}) : lock[k].type # "none"}
  <2>2. /\ IF resolving.commit THEN Commit(some) ELSE Rollback(some)
        /\ resolving' = [resolving EXCEPT !.regions = rest,
                                          !.state = IF rest = {} THEN "done" ELSE @]
    BY <2>1 DEF ResolveRegion, ResolveLocks
  <2>3. \A k \in Keys : HasLock(k) /\ RegionOf[k] = r => k \in some
    BY DEF HasLock, KeysIn
  <2> HIDE DEF some
  <2>4. /\ resolving'.state = (IF rest = {} THEN "done" ELSE "running")
        /\ resolving'.commit = resolving.commit /\ resolving'.regions = rest
    BY <1>1, <2>2 DEF ShapeInv
  <2>5. LockInv' /\ Fewer /\ (~resolving.commit => \A k \in Keys : k \in some => ~HasLock(k)')
    BY <2>2, CommitFewer, RollbackFewer DEF CleanInv
  <2>6. ReleasedInv' /\ SpanInv'
    BY <1>1, <1>2, <2>5 DEF CleanInv, ReleasedInv, SpanInv, Fewer, HasLock
  <2>7. ASSUME ~resolving.commit, NEW k \in Keys, HasLock(k)',
               \A j \in Keys : HasLock(j) => RegionOf[j] \in resolving.regions
        PROVE  RegionOf[k] \in rest
    <3>1. HasLock(k)
      BY <2>5, <2>7 DEF Fewer, HasLock
    <3> QED
      BY <2>3, <2>5, <2>7, <3>1
  <2>8. ResolvedInv'
    <3>1. /\ late # {} => pipe.abandoned
          /\ status = "Rolledback" => pipe.flushing.stage = "none"
          /\ status = "Rolledback" /\ pipe.start # NoKey /\ ~pipe.abandoned =>
               /\ ~resolving.commit
               /\ \A k \in Keys : HasLock(k) => RegionOf[k] \in resolving.regions
      BY <1>1, <1>2 DEF CleanInv, ResolvedInv
    <3> QED
      BY <1>1, <2>4, <2>7, <3>1 DEF ResolvedInv
  <2> QED
    BY <2>5, <2>6, <2>8 DEF CleanInv
<1> QED
  BY <1>3, <1>4 DEF ResolveTask
============================================================================
