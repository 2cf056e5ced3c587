----------------------------- MODULE AtomicTxn -----------------------------
(***************************************************************************)
(* What a transaction promises its caller and other transactions, without  *)
(* locks, messages or retries: it is decided once, at one timestamp; the   *)
(* caller is told that timestamp; and every reader sees all of the writes  *)
(* or none, as its own timestamp says.                                     *)
(***************************************************************************)
EXTENDS Integers

CONSTANTS Readers, Keys

Undecided == -1

VARIABLES outcome,   \* Undecided, 0 (aborted), or the commit timestamp
          acked,     \* the timestamp the caller was told, 0 if none
          readTs,    \* each reader's timestamp, 0 before it has begun
          seen       \* what it has read of each key

vars == <<outcome, acked, readTs, seen>>

Init ==
  /\ outcome = Undecided /\ acked = 0
  /\ readTs = [i \in Readers |-> 0]
  /\ seen = [i \in Readers |-> [k \in Keys |-> "unread"]]

\* A commit is later than every read that has missed the writes.  The caller
\* may be told at once.
Decide ==
  /\ outcome = Undecided /\ outcome' \in Nat
  /\ outcome' > 0 => \A i \in Readers : \A k \in Keys :
                       seen[i][k] = "old" => readTs[i] < outcome'
  /\ acked' \in {acked, outcome'}
  /\ UNCHANGED <<readTs, seen>>

Acknowledge ==
  /\ outcome > 0 /\ acked' = outcome
  /\ UNCHANGED <<outcome, readTs, seen>>

\* A reader that begins after the caller was told will see the writes.
Begin(i) ==
  /\ readTs[i] = 0
  /\ readTs' = [readTs EXCEPT ![i] = readTs'[i]]
  /\ readTs'[i] \in Nat /\ readTs'[i] > 0 /\ readTs'[i] >= acked
  /\ UNCHANGED <<outcome, acked, seen>>

Observe(i, k) ==
  /\ readTs[i] > 0 /\ seen[i][k] = "unread"
  /\ seen' = [seen EXCEPT ![i][k] =
                IF 0 < outcome /\ outcome <= readTs[i] THEN "new" ELSE "old"]
  /\ UNCHANGED <<outcome, acked, readTs>>

Next ==
  \/ Decide \/ Acknowledge
  \/ \E i \in Readers : Begin(i) \/ \E k \in Keys : Observe(i, k)

Spec == Init /\ [][Next]_vars
============================================================================
