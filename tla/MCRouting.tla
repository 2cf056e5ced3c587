----------------------------- MODULE MCRouting -----------------------------
(* Two stores that may lead and a learner; keys 1 to 4. *)
EXTENDS Routing, TLC

CONSTANTS s1, s2, s3, q1, q2

Region(i, c, v, a, b, l) ==
  [id |-> i, conf |-> c, ver |-> v, start |-> a, end |-> b, peers |-> {s1, s2}, leader |-> l]

At(a1, a2) == (s1 :> a1) @@ (s2 :> a2) @@ (s3 :> 9)
L(R) == [regions |-> R, addr |-> At(1, 2)]

Whole == {Region(1, 1, 1, 0, 0, s1)}
Halves == {Region(1, 1, 2, 0, 3, s1), Region(2, 1, 2, 3, 0, s2)}
Moved == {Region(1, 1, 2, 0, 3, s2), Region(2, 1, 2, 3, 0, s2)}
WithLearner(r) == [r EXCEPT !.peers = {s1, s2, s3}]
Merged == {Region(2, 1, 3, 0, 0, s2)}

Split == <<L(Whole), L(Halves)>>
SplitMove == <<L(Whole), L(Halves), L(Moved)>>
Merge == <<L(Halves), L(Merged)>>
Elect == <<L({WithLearner(Region(1, 1, 1, 0, 0, None))}),
           L({WithLearner(Region(1, 2, 1, 0, 0, s2))})>>
StoreMoves == <<L(Whole), [regions |-> Whole, addr |-> At(3, 2)]>>

(* a split below the last region *)
Last == Region(9, 1, 1, 4, 0, s1)
SplitLow == <<L({Region(1, 1, 1, 0, 4, s1), Last}),
              L({Region(1, 1, 2, 0, 2, s1), Region(2, 1, 2, 2, 4, s1), Last})>>
(* a region merges with the one below it *)
MergeLow == <<L({Region(1, 1, 1, 0, 2, s1), Region(2, 1, 1, 2, 4, s1), Last}),
              L({Region(2, 1, 2, 0, 4, s1), Last})>>

Plan(K, m, p) == [kind |-> "plan", keys |-> K, mode |-> m, preserve |-> p]
Scan(a, b, n) == [kind |-> "scan", start |-> a, end |-> b, limit |-> n, mode |-> "leader",
                  preserve |-> FALSE]
Idle == [kind |-> "idle", mode |-> "leader", preserve |-> FALSE]

Scenario(h, w1, w2, n) == [hist |-> h, work |-> (q1 :> w1) @@ (q2 :> w2), faults |-> n]

Read(K) == Plan(K, "leader", FALSE)

(* Two requests for the same key race with a split, a merge, a moving store. *)
Races == {Scenario(Split, Read({2, 3}), Read({2}), 0),
          Scenario(Merge, Read({2}), Read({3}), 0),
          Scenario(Merge, Read({2}), Read({2}), 1),
          Scenario(StoreMoves, Read({2}), Read({2}), 0)}
(* One request meets failures. *)
Failures == {Scenario(SplitMove, Plan({2, 3}, "leader", p), Idle, 1) : p \in BOOLEAN}
(* Every read mode, with two failures in a row. *)
ModeScenarios == {Scenario(Elect, Plan({2}, m, FALSE), Idle, 2) : m \in Modes}
(* A scan beside a request that keeps loading the regions it crosses. *)
Scans == {Scenario(SplitLow, Scan(1, 4, 3), Read({1}), 0),
          Scenario(MergeLow, Scan(1, 4, 3), Read({1}), 0)}

(* Nothing fails and nothing moves: two requests for one key. *)
TwoReaders == {Scenario(<<L(Whole)>>, Read({2}), Read({2}), 0)}

MCScenarios == Races \cup Failures \cup ModeScenarios \cup Scans
============================================================================
