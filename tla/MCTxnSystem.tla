---------------------------- MODULE MCTxnSystem ----------------------------
(* Three keys in one or two regions; the primary shares its region or not. *)
EXTENDS TxnSystem, TLC

CONSTANTS k1, k2, k3, r1, r2, i1, i2

TwoRegions == {(k1 :> r1) @@ (k2 :> r1) @@ (k3 :> r2)}
EitherLayout == TwoRegions \cup {(k1 :> r1) @@ (k2 :> r1) @@ (k3 :> r1)}
============================================================================
