----------------------------- MODULE TxnBuffer -----------------------------
(***************************************************************************)
(* The buffer of a transaction (transaction/buffer.rs) with its key flags  *)
(* (transaction/key_flags.rs): what was read, locked and written, as       *)
(* operators from one buffer to the next, and the mutations that commit()  *)
(* makes of it.  Keys are numbers: their order is the order of a scan.     *)
(***************************************************************************)
EXTENDS Integers, FiniteSets, FiniteSetsExt

CONSTANTS Keys, Values

NoKey  == 0
Absent == 0        \* no value: the key does not exist
Found  == Values \cup {Absent}

ASSUME BufferAssumption == Keys \subseteq Nat \ {NoKey} /\ Absent \notin Values

(* BufferEntry.  "locked" is Locked(None); "lockedRead" is Locked(Some(v)).  *)
(* A deleted key and a key checked not to exist have the value Absent.       *)
EntryKinds == {"none", "cached", "locked", "lockedRead", "put", "del", "insert", "check"}
Entries    == [kind : EntryKinds, value : Found]

Entry(kind, value) == [kind |-> kind, value |-> value]
NoEntry == Entry("none", Absent)

(* Buffer: primary_key, entry_map, and two of the key flags.                 *)
Buffers == [primary : Keys \cup {NoKey}, entries : [Keys -> Entries],
            presumed : SUBSET Keys, prewriteOnly : SUBSET Keys]

NewBuffer == [primary |-> NoKey, entries |-> [k \in Keys |-> NoEntry],
              presumed |-> {}, prewriteOnly |-> {}]

PrimaryKeyOr(b, k) == IF b.primary = NoKey THEN [b EXCEPT !.primary = k] ELSE b

SetEntry(b, k, e) == [b EXCEPT !.entries = [@ EXCEPT ![k] = e]]
----------------------------------------------------------------------------
(* Reading.                                                                  *)

(* get_value and read_value_state: whether the buffer knows the value.       *)
Determined(e) == e.kind \notin {"none", "locked"}

(* update_cache: a value that was read must be the one already known.        *)
CacheMismatch(b, k, v) == Determined(b.entries[k]) /\ b.entries[k].value # v

UpdateCache(b, k, v) ==
  CASE b.entries[k].kind = "none"   -> SetEntry(b, k, Entry("cached", v))
    [] b.entries[k].kind = "locked" -> SetEntry(b, k, Entry("lockedRead", v))
    [] OTHER -> b

UpdateCaches(b, ks, found) ==
  [b EXCEPT !.entries = [k \in Keys |-> IF k \in ks THEN UpdateCache(b, k, found[k]).entries[k]
                                                   ELSE @[k]]]

(* get_or_else, against the snapshot the transaction reads.                  *)
Get(b, k, snap) == IF Determined(b.entries[k]) THEN b.entries[k].value ELSE snap[k]

(* batch_get_or_else: keys that TiKV does not find are not cached.           *)
AfterBatchGet(b, ks, snap) ==
  UpdateCaches(b, {k \in ks : ~Determined(b.entries[k]) /\ snap[k] # Absent}, snap)

(* scan_and_fetch.  FirstOf is the first n keys in the direction of the      *)
(* scan; TiKV is asked for as many more as there are deleted keys.           *)
FirstOf(ks, n, reverse) ==
  {k \in ks : Cardinality({j \in ks : IF reverse THEN j > k ELSE j < k}) < n}

(* Mutant: no more is fetched than asked for. *)
FetchedExactly(b, range, limit, reverse, snap) ==
  FirstOf({k \in range : snap[k] # Absent}, limit, reverse)

Fetched(b, range, limit, reverse, snap) ==
  LET deleted == {k \in range : b.entries[k].kind = "del"}
  IN FirstOf({k \in range : snap[k] # Absent}, limit + Cardinality(deleted), reverse)

(* Overridden by local Put and Del entries.                                  *)
ScanKeys(b, range, fetched) ==
  (fetched \cup {k \in range : b.entries[k].kind = "put"})
    \ {k \in range : b.entries[k].kind = "del"}

ScanValue(b, k, snap) == IF b.entries[k].kind = "put" THEN b.entries[k].value ELSE snap[k]

(* The keys are cached in order; the first mismatch ends the scan.           *)
ScanMismatches(b, ks, snap) == {k \in ks : CacheMismatch(b, k, ScanValue(b, k, snap))}

AfterScan(b, ks, snap) ==
  UpdateCaches(b, {k \in ks : \A j \in ScanMismatches(b, ks, snap) : k < j},
               [k \in Keys |-> ScanValue(b, k, snap)])
----------------------------------------------------------------------------
(* Locking and writing.                                                      *)

Lock(b, k) ==
  LET p == PrimaryKeyOr(b, k)
      e == b.entries[k]
  IN CASE e.kind = "none"   -> SetEntry(p, k, Entry("locked", Absent))
       [] e.kind = "cached" -> SetEntry(p, k, Entry("lockedRead", e.value))
       [] OTHER -> p

UnlockedEntry(e) ==
  CASE e.kind = "locked" -> NoEntry
    [] e.kind = "lockedRead" -> Entry("cached", e.value)
    [] OTHER -> e

Unlock(b, ks) ==
  [b EXCEPT !.entries = [k \in Keys |-> IF k \in ks THEN UnlockedEntry(@[k]) ELSE @[k]]]

(* insert_entry, for Put, Insert and Del.                                    *)
InsertEntry(b, k, e) ==
  SetEntry([PrimaryKeyOr(b, k) EXCEPT !.prewriteOnly = @ \ {k}], k, e)

Put(b, k, v) ==
  IF b.entries[k].kind \in {"insert", "check"} THEN SetEntry(b, k, Entry("insert", v))
  ELSE InsertEntry(b, k, Entry("put", v))

Insert(b, k, v) ==
  IF b.entries[k].kind = "del" THEN SetEntry(b, k, Entry("put", v))
  ELSE InsertEntry(b, k, Entry("insert", v))

(* Mutant: a deleted key loses its entry. *)
DeleteForgets(b, k, pessimistic) == InsertEntry(b, k, NoEntry)

(* Deleting what an optimistic transaction has inserted leaves only the      *)
(* check that it did not exist.                                              *)
Delete(b, k, pessimistic) ==
  IF ~pessimistic /\ (b.entries[k].kind \in {"insert", "check"}
                      \/ (b.entries[k].kind = "put" /\ k \in b.presumed))
  THEN [SetEntry(b, k, Entry("check", Absent)) EXCEPT !.prewriteOnly = @ \cup {k}]
  ELSE InsertEntry(b, k, Entry("del", Absent))

PresumeNotExists(b, k) == [b EXCEPT !.presumed = @ \cup {k}]
----------------------------------------------------------------------------
(* What commit() sends: to_proto_mutations, and the keys it commits.         *)

MutatedKeys(b) == {k \in Keys : b.entries[k].kind \notin {"none", "cached"}}

MutationOp(b, k) ==
  CASE b.entries[k].kind \in {"locked", "lockedRead"} -> "Lock"
    [] b.entries[k].kind = "del"    -> "Del"
    [] b.entries[k].kind = "check"  -> "CheckNotExists"
    [] b.entries[k].kind = "insert" -> "Insert"
    [] OTHER -> IF k \in b.presumed THEN "Insert" ELSE "Put"

Mutation(b, k) ==
  [op |-> MutationOp(b, k),
   value |-> IF MutationOp(b, k) = "Lock" THEN Absent ELSE b.entries[k].value]

Mutations(b) == [k \in MutatedKeys(b) |-> Mutation(b, k)]

CommitKeys(b) == {k \in MutatedKeys(b) : MutationOp(b, k) # "CheckNotExists"} \ b.prewriteOnly

(* The primary of the buffer, or the first key, of those that are committed  *)
(* or, when none is, of those that are prewritten.                           *)
CommitPrimary(b) ==
  IF CommitKeys(b) = {}
  THEN IF b.primary # NoKey THEN b.primary ELSE Min(MutatedKeys(b))
  ELSE IF b.primary \in CommitKeys(b) THEN b.primary ELSE Min(CommitKeys(b))
============================================================================
