------------------------------ MODULE TxnStore ------------------------------
(***************************************************************************)
(* TiKV as one Transaction object meets it, key by key: what the snapshot  *)
(* of the transaction holds, its locks with the write they carry and the   *)
(* primary they name, its commit and rollback records, and what other      *)
(* clients do to both.  TiKV is not part of the repository: its behaviour  *)
(* is taken from how src/src/transaction uses it.  Module Tikv models the  *)
(* commit protocol in more detail, with lost and late requests.            *)
(***************************************************************************)
EXTENDS TxnBuffer

CONSTANTS RegionOf      \* the region of each key

ASSUME StoreAssumption == RegionOf \in [Keys -> Nat]

VARIABLES
  snap,       \* the value of each key at the start timestamp
  lock,       \* the transaction's lock on each key
  record,     \* its commit or rollback record
  newer,      \* keys another transaction has written since
  mishaps     \* bound: failures and interventions of others that are left

storeVars == <<snap, lock, record, newer, mishaps>>

NoLock   == [type |-> "none", op |-> "Lock", value |-> Absent, primary |-> NoKey,
             gen |-> 0]
NoRecord == [op |-> "none", value |-> Absent]
RolledBack == [op |-> "rollback", value |-> Absent]

Ops   == {"Lock", "Put", "Insert", "Del", "CheckNotExists"}
Locks == [type : {"none", "pessimistic", "write"}, op : Ops, value : Found,
          primary : Keys \cup {NoKey}, gen : Nat]
Records == [op : Ops \cup {"none", "rollback"}, value : Found]

KeysIn(regions) == {k \in Keys : RegionOf[k] \in regions}
RegionsOf(ks)   == {RegionOf[k] : k \in ks}

Committed(k) == record[k].op \notin {"none", "rollback"}

Mishap == mishaps > 0 /\ mishaps' = mishaps - 1
----------------------------------------------------------------------------
(* Requests of the transaction.                                              *)

PessimisticLocks(ks, primary) ==
  lock' = [k \in Keys |-> IF k \in ks /\ lock[k].type = "none"
                          THEN [NoLock EXCEPT !.type = "pessimistic", !.primary = primary]
                          ELSE lock[k]]

(* PessimisticRollback leaves prewritten locks alone.                        *)
PessimisticRollback(ks) ==
  lock' = [k \in Keys |-> IF k \in ks /\ lock[k].type = "pessimistic" THEN NoLock
                          ELSE lock[k]]

(* Prewrite and Flush refuse a key that is rolled back, that was written     *)
(* since (unless it is locked), or that exists and must not.                 *)
MayWrite(muts, ks, pessimistic) ==
  \A k \in ks : /\ record[k] # RolledBack
                /\ IF pessimistic THEN lock[k].type # "none" ELSE k \notin newer
                /\ muts[k].op \in {"Insert", "CheckNotExists"} => snap[k] = Absent \/ k \in newer

(* A CheckNotExists mutation leaves no lock, a key that this transaction has *)
(* committed is not locked again, and a flush does not replace the lock of a *)
(* later generation.                                                         *)
WriteLocks(muts, ks, primary, gen) ==
  lock' = [k \in Keys |->
             IF /\ k \in ks /\ muts[k].op # "CheckNotExists"
                /\ ~Committed(k) /\ lock[k].gen <= gen
             THEN [type |-> "write", op |-> muts[k].op, value |-> muts[k].value,
                   primary |-> primary, gen |-> gen]
             ELSE lock[k]]

(* The locks of ks become commit records, or rollback records.               *)
Commit(ks) ==
  LET some == {k \in ks : lock[k].type # "none"}
  IN /\ record' = [k \in Keys |-> IF k \in some THEN [op |-> lock[k].op, value |-> lock[k].value]
                                  ELSE record[k]]
     /\ lock' = [k \in Keys |-> IF k \in some THEN NoLock ELSE lock[k]]

Rollback(ks) ==
  LET some == {k \in ks : ~Committed(k)}
  IN /\ record' = [k \in Keys |-> IF k \in some THEN RolledBack ELSE record[k]]
     /\ lock' = [k \in Keys |-> IF k \in some THEN NoLock ELSE lock[k]]

(* ResolveLock in the given regions.                                         *)
ResolveLocks(regions, commit) ==
  LET some == {k \in KeysIn(regions) : lock[k].type # "none"}
  IN IF commit THEN Commit(some) ELSE Rollback(some)
----------------------------------------------------------------------------
(* Other clients.                                                            *)

RivalWrites(k) ==
  /\ Mishap
  /\ lock[k].type = "none" /\ k \notin newer
  /\ newer' = newer \cup {k}
  /\ UNCHANGED <<snap, lock, record>>

(* Somebody meets a lock past its time to live, cleans its primary up and    *)
(* settles the lock accordingly.                                             *)
ResolverMeets(k, alive) ==
  LET p == lock[k].primary
  IN /\ Mishap
     /\ lock[k].type # "none" /\ k # alive
     /\ IF Committed(p) THEN Commit({k}) ELSE Rollback({p, k})
     /\ UNCHANGED <<snap, newer>>

StoreTypeOK ==
  /\ snap \in [Keys -> Found]
  /\ lock \in [Keys -> Locks]
  /\ record \in [Keys -> Records]
  /\ newer \subseteq Keys
  /\ mishaps \in Nat
============================================================================
