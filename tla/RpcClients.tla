----------------------------- MODULE RpcClients -----------------------------
(* The callers that share one PD client and one TiKV stream, what each of    *)
(* them does, and how much goes wrong meanwhile.                             *)
EXTENDS Integers, Sequences, FiniteSets

CONSTANTS
  Callers,   \* concurrent futures
  None,      \* nothing, nobody
  Jobs       \* records: what each caller does, and how many mishaps there are

VARIABLES
  job,       \* caller -> "full" (timestamp, then a command), "ts", "region", "cmd"
  mishaps    \* mishaps still to come

clientVars == <<job, mishaps>>

ASSUME JobsAssumption ==
  \A j \in Jobs : /\ j.job \in [Callers -> {"full", "ts", "region", "cmd", "idle"}]
                  /\ j.mishaps \in Nat

ASSUME NobodyAssumption == None \notin Callers

(* Something breaks. *)
Mishap ==
  /\ mishaps > 0
  /\ mishaps' = mishaps - 1
  /\ UNCHANGED job

(* Those of a sequence, and what is left of it without its first n. *)
Members(s) == {s[i] : i \in 1..Len(s)}
Drop(s, n) == SubSeq(s, n + 1, Len(s))

Smaller(m, n) == IF m < n THEN m ELSE n
============================================================================
