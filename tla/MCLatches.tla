----------------------------- MODULE MCLatches -----------------------------
(* Three requests whose keys overlap pairwise, two of them in one slot. *)
EXTENDS Latches, TLC

CONSTANTS t1, t2, t3

MCTxns == {t1, t2, t3}
MCSlotOf == (1 :> 1) @@ (2 :> 0) @@ (3 :> 1)
MCWriteKeys == (t1 :> <<2, 1>>) @@ (t2 :> <<3, 2>>) @@ (t3 :> <<1, 3, 1>>)
============================================================================
