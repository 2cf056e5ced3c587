---------------------------- MODULE ReadRouting ----------------------------
(* Which replica serves a request.  A request shares one routing state among *)
(* all its shards: forced to the leader or not, a pinned store per region,   *)
(* and the stores with a pending backoff.                                    *)
EXTENDS Regions

CONSTANTS
  Learners,    \* stores whose peers are learners
  Witnesses    \* stores whose peers are witnesses, which serve no reads

Modes == {"leader", "prefer_leader", "follower", "learner", "mixed", "stale"}

NewRouting == [forced |-> FALSE, pinned |-> [i \in {} |-> None], pending |-> {}]

IsReplicaReadMode(mode) == mode # "leader"

IsStaleRead(mode, routing) == mode = "stale" /\ ~routing.forced

NonWitness(r) == r.peers \ Witnesses

Followers(r) == NonWitness(r) \ (Learners \cup {r.leader})
LearnerPeers(r) == (NonWitness(r) \cap Learners) \ {r.leader}

(* The flags of calculate_score, summed: no label matching, first attempt. *)
Score(s, r, slow, preferLeader) ==
  LET notSlow == IF s \in slow THEN 0 ELSE 16
      base    == 8 + 1
      role    == IF s # r.leader THEN 2
                 ELSE IF ~preferLeader THEN 0
                 ELSE IF s \in slow THEN 2 ELSE 4
  IN base + notSlow + role

(* pick_peer indexes by (region id + seed + attempt) modulo the number of    *)
(* candidates; the seed is arbitrary, so any candidate may come out.  With   *)
(* none the leader is taken.                                                 *)
PickPeer(candidates, r) == IF candidates = {} THEN {r.leader} ELSE candidates

SelectPeerByScore(r, peers, slow, preferLeader) ==
  LET C == peers \ Witnesses
  IN PickPeer({s \in C : \A o \in C : Score(o, r, slow, preferLeader)
                                        <= Score(s, r, slow, preferLeader)}, r)

ReadPeer(s, replica, stale) == [store |-> s, replica |-> replica, stale |-> stale]

(* select_peer for a region with a leader: the peers that may be chosen. *)
SelectPeer(mode, routing, slow, r, attempt) ==
  LET pin == IF attempt > 0 /\ r.id \in DOMAIN routing.pinned
             THEN NonWitness(r) \cap {routing.pinned[r.id]} ELSE {}
      replicas == Followers(r) \cup LearnerPeers(r)
      targets ==
        CASE mode = "leader" -> {r.leader}
          [] mode = "prefer_leader" /\ attempt = 0 ->
               SelectPeerByScore(r, IF r.leader \in slow /\ replicas # {}
                                    THEN replicas ELSE r.peers, slow, TRUE)
          [] mode = "prefer_leader" /\ attempt > 0 ->
               SelectPeerByScore(r, r.peers, slow, FALSE)
          [] mode = "follower" /\ attempt = 0 -> PickPeer(Followers(r), r)
          [] mode = "learner" /\ attempt = 0 -> PickPeer(LearnerPeers(r), r)
          [] mode = "mixed" /\ attempt = 0 -> SelectPeerByScore(r, r.peers, slow, FALSE)
          [] OTHER -> {r.leader}
  IN CASE routing.forced -> {ReadPeer(r.leader, FALSE, FALSE)}
       [] ~routing.forced /\ pin # {} ->
            {ReadPeer(s, mode # "stale" /\ s # r.leader, mode = "stale") : s \in pin}
       [] ~routing.forced /\ pin = {} /\ mode = "stale" ->
            {ReadPeer(s, FALSE, TRUE) :
               s \in IF attempt = 0 THEN PickPeer(replicas, r) ELSE {r.leader}}
       [] OTHER -> {ReadPeer(s, s # r.leader, FALSE) : s \in targets}

PinStore(routing, i, s) ==
  [routing EXCEPT !.pinned = [j \in DOMAIN @ \cup {i} |-> IF j = i THEN s ELSE @[j]]]

ClearPin(routing, i) ==
  [routing EXCEPT !.pinned = [j \in DOMAIN @ \ {i} |-> @[j]]]

AddPendingBackoff(routing, s) == [routing EXCEPT !.pending = @ \cup {s}]

TakePendingBackoff(routing, s) == [routing EXCEPT !.pending = @ \ {s}]

ForceLeader(routing) == [routing EXCEPT !.forced = TRUE]
============================================================================
