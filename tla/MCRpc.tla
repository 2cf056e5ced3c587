------------------------------- MODULE MCRpc -------------------------------
(* Three callers. *)
EXTENDS Rpc, TLC

CONSTANTS a, b, d

Job(x, y, z, n) == [job |-> (a :> x) @@ (b :> y) @@ (d :> z), mishaps |-> n]

(* Three timestamps at once, more than a group or the queue of groups holds. *)
Crowd == {Job("ts", "ts", "ts", 0)}
(* Streams that end and reconnects that fail, with readers and a writer. *)
Reconnects == {Job("ts", "ts", "idle", 1), Job("ts", "region", "idle", 2)}
(* Two commands on streams that break. *)
Commands == {Job("cmd", "cmd", "idle", 1)}
(* Three, while the channel and the hand of the send loop hold one each. *)
Full == {Job("cmd", "cmd", "cmd", 0)}
(* A timestamp and then a command. *)
Both == {Job("full", "ts", "idle", 0), Job("full", "idle", "idle", 1)}

MCJobs == Crowd \cup Reconnects \cup Commands \cup Full \cup Both
============================================================================
