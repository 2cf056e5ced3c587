--------------------------- MODULE MCTransaction ---------------------------
(* Three keys in two regions; scenarios choose the calls a user makes. *)
EXTENDS Transaction, TLC

Write1(k, w, v) == k :> [what |-> w, value |-> v]
D(k) == {Write1(k, "delete", Absent)}
W(k) == {Write1(k, "put", 1), Write1(k, "lock", Absent)} \cup D(k)
I(k) == {Write1(k, "insert", 2)}
V(w) == IF w = "put" THEN 1 ELSE Absent
Both(w1, w3) == Write1(1, w1, V(w1)) @@ Write1(3, w3, V(w3))

Scenario(kind_, snap_, todos, reads, calls_, mishaps_) ==
  [kind |-> kind_, snap |-> snap_, todos |-> todos, reads |-> reads, calls |-> calls_,
   mishaps |-> mishaps_]

Some == <<1, 0, 1>>
None == <<0, 0, 0>>

(* Reads mixed with every kind of write of two keys. *)
Reading == {Scenario("optimistic", Some, W(1) \cup W(2) \cup I(2), reads, 4, 0) :
              reads \in {{"get", "scan"}, {"batch_get", "presume"}}}
(* Locks requested in two regions, refused, released and resolved. *)
Locking == {Scenario("pessimistic", s, {Write1(1, "put", 1), Both("lock", "lock")} \cup I(3) \cup D(3),
                     {}, 5, 2) : s \in {Some, None}}
(* A lock that nobody releases names a primary the transaction has not taken. *)
Straying == {Scenario("pessimistic", Some, {Both("lock", "lock"), Write1(2, "put", 1), Write1(1, "put", 2)},
                      {}, 4, 2)}
(* Commits and rollbacks of an optimistic transaction that meet failures. *)
Committing == {Scenario("optimistic", s, W(1) \cup I(1) \cup {Both("put", "delete")},
                        {"presume"}, 5, 2) : s \in {Some, None}}
(* Keys written again while they are flushed in the background. *)
Piping == {Scenario("pipelined", s, {Write1(1, "put", 1), Write1(3, "put", 1), Write1(3, "put", 2)}
                                    \cup I(2) \cup D(2), {}, 5, 1) : s \in {Some, None}}

(* A key is inserted, deleted and put; nothing fails. *)
Rewriting == {Scenario("optimistic", None, {Write1(1, "put", 1)} \cup I(1) \cup D(1), {}, 4, 0)}

MCRegionOf == <<1, 1, 2>>

MCScenarios == Reading \cup Locking \cup Straying \cup Committing \cup Piping
============================================================================
