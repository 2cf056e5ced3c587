---------------------------- MODULE RequestPlan ----------------------------
(* A multi-region request: RetryableMultiRegion around ResolveLock around    *)
(* Dispatch.  The keys are grouped by the regions the cache names; each      *)
(* shard runs as a task of its own, and a shard that meets a region error is *)
(* planned again from its keys.                                              *)
EXTENDS RegionCache, ReadRouting

CONSTANTS
  Requests,         \* concurrent callers
  MaxAttempts,      \* region backoff: attempts before giving up
  MaxLockAttempts,  \* lock backoff: attempts before giving up, 0 is no backoff
  MaxNotReady,      \* retries of a stale read that is not ready (120)
  AttemptCap,       \* attempts are counted up to here
  Concurrency       \* permits of the semaphore

ASSUME PlanAssumption ==
  /\ {MaxAttempts, MaxLockAttempts, MaxNotReady, Concurrency} \subseteq Nat
  /\ AttemptCap \in Nat /\ AttemptCap >= MaxNotReady /\ AttemptCap + 1 >= Cardinality(Stores)

VARIABLES
  work,         \* request -> its keys, read mode, preserve_region_results
  planning,     \* request -> plans whose keys are being grouped by region
  tasks,        \* request -> shards under way
  routing,      \* request -> the routing state its shards share
  results,      \* request -> shards that have an answer
  status,       \* request -> "running", "done" or "failed"
  storeCache,   \* store -> its address
  slow          \* stores marked slow

planVars == <<work, planning, tasks, routing, results, status, storeCache, slow>>

Answer(kind) == [kind |-> kind, leader |-> None, regions |-> {}]
NotLeader(leader) == [kind |-> "not_leader", leader |-> leader, regions |-> {}]
EpochNotMatch(R) == [kind |-> "epoch_not_match", leader |-> None, regions |-> R]

FirstOf(S) == CHOOSE k \in S : \A j \in S : k <= j

NextAttempt(n) == IF n < AttemptCap THEN n + 1 ELSE n

----------------------------------------------------------------------------
(* What a TiKV store answers in a layout, to a request with the epoch of     *)
(* region g sent to a peer at an address.                                    *)
StoreAnswers(layout, g, peer, addr) ==
  IF layout.addr[peer.store] # addr
  THEN {Answer("grpc"), Answer("store_not_match")}
  ELSE IF \/ ~HasId(layout, g.id)
          \/ peer.store \notin RegionWithId(layout, g.id).peers
  THEN {Answer("region_not_found")}
  ELSE LET r == RegionWithId(layout, g.id)
       IN CASE ~peer.replica /\ ~peer.stale /\ peer.store # r.leader -> {NotLeader(r.leader)}
            [] (peer.replica \/ peer.stale \/ peer.store = r.leader) /\ VerId(r) # VerId(g) ->
                 {EpochNotMatch({r})}
            [] OTHER -> {Answer("ok")}

(* Answers that cost a fault: a store behind the cluster, an overloaded or   *)
(* electing one, a broken connection, a lock or a key error.                 *)
FaultyAnswers(g, peer, addr) ==
  {Answer(k) : k \in {"grpc", "other", "key_error", "server_is_busy", "stale_command",
                      "read_index_not_ready", "raft_entry_too_large", "unknown"}}
    \cup {NotLeader(None), EpochNotMatch({})}
    \cup (IF peer.stale THEN {Answer("data_is_not_ready")} ELSE {})
    \cup UNION {StoreAnswers(hist[i], g, peer, addr) \ {Answer("ok")} : i \in 1..(now - 1)}

(* The task receives answer e. *)
Receive(t, e) ==
  /\ t.pc = "exec"
  /\ \/ e \in StoreAnswers(hist[now], t.region, t.peer, t.addr) /\ UNCHANGED clusterVars
     \/ e \in FaultyAnswers(t.region, t.peer, t.addr) /\ Fault

----------------------------------------------------------------------------
(* Planning: single_plan_handler *)

NewPlan(keys, attempt, tries, top) ==
  [keys |-> keys, rest |-> keys, groups |-> {}, attempt |-> attempt, tries |-> tries,
   top |-> top]

NewTask(p, g) ==
  [pc |-> "select", keys |-> g.keys, region |-> g.region, peer |-> None, addr |-> None,
   attempt |-> p.attempt, tries |-> p.tries, locks |-> 0]

KeyLookup(r, k) == <<r, <<"key", k>>>>

(* The keys, in order, up to the first that the region does not contain. *)
GroupOf(rest, g) ==
  {k \in rest : \A j \in rest : j <= k => Contains(g, j)}

(* group_keys_by_region: the region of the next key arrived. *)
GroupKeys(r) ==
  \E p \in planning[r] :
    LET l == KeyLookup(r, FirstOf(p.rest))
        g == look[l].region
        taken == GroupOf(p.rest, g)
        q == [p EXCEPT !.rest = @ \ taken, !.groups = @ \cup {[keys |-> taken, region |-> g]}]
    IN /\ l \in DOMAIN look /\ look[l].pc = "done"
       /\ IF q.rest = {}
          THEN /\ planning' = [planning EXCEPT ![r] = @ \ {p}]
               /\ tasks' = [tasks EXCEPT ![r] = @ \cup {NewTask(q, s) : s \in q.groups}]
               /\ look' = Without(look, {l})
          ELSE /\ planning' = [planning EXCEPT ![r] = (@ \ {p}) \cup {q}]
               /\ look' = With(Without(look, {l}), KeyLookup(r, FirstOf(q.rest)), NewLookup)
               /\ UNCHANGED tasks
       /\ UNCHANGED <<clusterVars, cache, inFlight, work, routing, results, status,
                      storeCache, slow>>

(* Mutant: the retry is planned for the first key of the shard. *)
ReplanFirstKey(r, t, attempt, tries) ==
  /\ planning' = [planning EXCEPT ![r] =
                    @ \cup {NewPlan({FirstOf(t.keys)}, attempt, tries, FALSE)}]
  /\ tasks' = [tasks EXCEPT ![r] = @ \ {t}]
  /\ look' = With(look, KeyLookup(r, FirstOf(t.keys)), NewLookup)
  /\ UNCHANGED <<results, status>>

(* A shard goes back to planning with its own keys. *)
Replan(r, t, attempt, tries) ==
  /\ planning' = [planning EXCEPT ![r] = @ \cup {NewPlan(t.keys, attempt, tries, FALSE)}]
  /\ tasks' = [tasks EXCEPT ![r] = @ \ {t}]
  /\ look' = With(look, KeyLookup(r, FirstOf(t.keys)), NewLookup)
  /\ UNCHANGED <<results, status>>

(* An error leaves a shard or a nested plan.  It is one of the results when  *)
(* they are preserved; otherwise the first one ends the request, and its     *)
(* other shards are dropped wherever they are.                               *)
LeaveWithError(r, plans, shards, keys, top) ==
  IF work[r].preserve /\ ~top
  THEN /\ results' = [results EXCEPT ![r] = @ \cup {[keys |-> keys, ok |-> FALSE]}]
       /\ planning' = [planning EXCEPT ![r] = @ \ plans]
       /\ tasks' = [tasks EXCEPT ![r] = @ \ shards]
       /\ look' = Without(look, {l \in DOMAIN look : l[1] = r /\ l[2][2] \in keys})
       /\ UNCHANGED status
  ELSE /\ status' = [status EXCEPT ![r] = "failed"]
       /\ planning' = [planning EXCEPT ![r] = {}]
       /\ tasks' = [tasks EXCEPT ![r] = {}]
       /\ look' = Without(look, {l \in DOMAIN look : l[1] = r})
       /\ UNCHANGED results

FailTask(r, t) == LeaveWithError(r, {}, {t}, t.keys, FALSE)

(* The region of a key could not be loaded. *)
PlanFails(r) ==
  \E p \in planning[r] :
    /\ KeyLookup(r, FirstOf(p.rest)) \in DOMAIN look
    /\ look[KeyLookup(r, FirstOf(p.rest))].pc = "failed"
    /\ LeaveWithError(r, {p}, {}, p.keys, p.top)
    /\ UNCHANGED <<clusterVars, cache, inFlight, work, routing, storeCache, slow>>

(* Mutant: one attempt too many. *)
BackoffOrFailLate(r, t, attempt) ==
  IF t.tries <= MaxAttempts THEN Replan(r, t, attempt, t.tries + 1) ELSE FailTask(r, t)

(* One more attempt of the region backoff, or the error. *)
BackoffOrFail(r, t, attempt) ==
  IF t.tries < MaxAttempts THEN Replan(r, t, attempt, t.tries + 1) ELSE FailTask(r, t)

----------------------------------------------------------------------------
(* A shard: single_shard_handler *)

UpdateTask(r, t, u) ==
  /\ tasks' = [tasks EXCEPT ![r] = (@ \ {t}) \cup {u}]
  /\ UNCHANGED <<planning, look, results, status>>

InvalidateStore(stores, s) == Without(stores, {s})

(* The region has no leader: handle_other_error without a store. *)
LeaderNotFound(r) ==
  \E t \in tasks[r] :
    /\ t.pc = "select"
    /\ t.region.leader = None
    /\ cache' = InvalidateRegion(cache, VerId(t.region))
    /\ BackoffOrFail(r, t, NextAttempt(NextAttempt(t.attempt)))
    /\ UNCHANGED <<clusterVars, inFlight, work, routing, storeCache, slow>>

SelectReadPeer(r) ==
  \E t \in tasks[r] :
    /\ t.pc = "select"
    /\ t.region.leader # None
    /\ \E peer \in SelectPeer(work[r].mode, routing[r], slow, t.region, t.attempt) :
         UpdateTask(r, t, [t EXCEPT !.pc = "map", !.peer = peer])
    /\ UNCHANGED <<clusterVars, cache, inFlight, work, routing, storeCache, slow>>

(* The address of a store: cached, or read through PD and cached. *)
AddressOf(s) == IF s \in DOMAIN storeCache THEN storeCache[s] ELSE hist[pd].addr[s]

(* map_region_to_store, then the backoff that a fast retry left for later. *)
MapRegionToStore(r) ==
  \E t \in tasks[r] :
    LET s == t.peer.store
        owed == s \in routing[r].pending
    IN /\ t.pc = "map"
       /\ storeCache' = With(storeCache, s, AddressOf(s))
       /\ routing' = [routing EXCEPT ![r] = TakePendingBackoff(@, s)]
       /\ IF owed /\ t.tries >= MaxAttempts
          THEN FailTask(r, t)
          ELSE UpdateTask(r, t, [t EXCEPT !.pc = "send", !.addr = AddressOf(s),
                                          !.tries = IF owed THEN @ + 1 ELSE @])
       /\ UNCHANGED <<clusterVars, cache, inFlight, work, slow>>

(* PD does not know the store, or the connection to it cannot be made. *)
MapFails(r) ==
  \E t \in tasks[r] :
    /\ t.pc = "map"
    /\ Fault
    /\ FailTask(r, t)
    /\ UNCHANGED <<cache, inFlight, work, routing, storeCache, slow>>

AcquirePermit(r) ==
  \E t \in tasks[r] :
    /\ t.pc = "send"
    /\ Cardinality({u \in tasks[r] : u.pc = "exec"}) < IF Concurrency > 1 THEN Concurrency ELSE 1
    /\ UpdateTask(r, t, [t EXCEPT !.pc = "exec"])
    /\ UNCHANGED <<clusterVars, cache, inFlight, work, routing, storeCache, slow>>

(* A response, with or without key errors, is the result of the shard. *)
Respond(r) ==
  \E t \in tasks[r], kind \in {"ok", "key_error"} :
    /\ Receive(t, Answer(kind))
    /\ results' = [results EXCEPT ![r] = @ \cup {[keys |-> t.keys, ok |-> kind = "ok"]}]
    /\ tasks' = [tasks EXCEPT ![r] = @ \ {t}]
    /\ routing' = IF kind = "ok" THEN [routing EXCEPT ![r] = ClearPin(@, t.region.id)]
                  ELSE routing
    /\ UNCHANGED <<cache, inFlight, look, work, planning, status, storeCache, slow>>

(* A transport error: handle_other_error with the store. *)
GrpcError(r) ==
  \E t \in tasks[r] :
    /\ Receive(t, Answer("grpc"))
    /\ slow' = slow \cup {t.peer.store}
    /\ cache' = InvalidateRegion(cache, VerId(t.region))
    /\ storeCache' = InvalidateStore(storeCache, t.peer.store)
    /\ BackoffOrFail(r, t, NextAttempt(NextAttempt(t.attempt)))
    /\ UNCHANGED <<inFlight, work, routing>>

OtherError(r) ==
  \E t \in tasks[r] :
    /\ Receive(t, Answer("other"))
    /\ FailTask(r, t)
    /\ UNCHANGED <<cache, inFlight, work, routing, storeCache, slow>>

----------------------------------------------------------------------------
(* handle_region_error: what it does to the two caches, and its verdict. *)

EpochVerdict(g, R) ==
  IF \/ R = {}
     \/ \E n \in R : n.id = g.id /\ (n.conf < g.conf \/ n.ver < g.ver)
  THEN "backoff" ELSE "retry"

Verdict(e, g) ==
  CASE e.kind = "not_leader" -> IF e.leader = None THEN "backoff" ELSE "retry"
    [] e.kind \in {"store_not_match", "region_not_found"} -> "retry"
    [] e.kind = "epoch_not_match" -> EpochVerdict(g, e.regions)
    [] e.kind = "raft_entry_too_large" -> "fail"
    [] OTHER -> "backoff"

(* Mutant: a region that is gone stays cached. *)
RegionAfterKeeps(e, g) ==
  IF e.kind = "not_leader" /\ e.leader # None THEN UpdateLeader(cache, VerId(g), e.leader)
  ELSE cache

(* A region that is ahead of the store's stays cached, and so does one whose *)
(* store is only busy or not ready.                                          *)
RegionAfter(e, g) ==
  CASE e.kind = "not_leader" /\ e.leader # None -> UpdateLeader(cache, VerId(g), e.leader)
    [] e.kind = "epoch_not_match" /\ e.regions # {} /\ EpochVerdict(g, e.regions) = "backoff" ->
         cache
    [] e.kind \in {"server_is_busy", "read_index_not_ready", "raft_entry_too_large"} -> cache
    [] OTHER -> InvalidateRegion(cache, VerId(g))

StoresAfter(e, s) ==
  IF e.kind = "store_not_match" THEN InvalidateStore(storeCache, s) ELSE storeCache

RegionErrors == {"not_leader", "store_not_match", "epoch_not_match", "region_not_found",
                 "stale_command", "server_is_busy", "read_index_not_ready",
                 "raft_entry_too_large", "unknown", "data_is_not_ready"}

(* Errors that keep the peer pin it, the others unpin the region. *)
Pinning(rt, e, t) ==
  IF e.kind = "read_index_not_ready" THEN PinStore(rt, t.region.id, t.peer.store)
  ELSE ClearPin(rt, t.region.id)

NonWitnessPeers(t) == Cardinality(NonWitness(t.region))

(* A stale read whose replica is behind waits and is planned again. *)
DataIsNotReady(r) ==
  \E t \in tasks[r] :
    /\ Receive(t, Answer("data_is_not_ready"))
    /\ IF t.attempt >= MaxNotReady THEN FailTask(r, t)
       ELSE Replan(r, t, NextAttempt(t.attempt), t.tries)
    /\ UNCHANGED <<cache, inFlight, work, routing, storeCache, slow>>

(* Replica reads try another peer at once, as often as there are peers. *)
StaleCommandOnReplica(r) ==
  \E t \in tasks[r] :
    /\ IsReplicaReadMode(work[r].mode)
    /\ Receive(t, Answer("stale_command"))
    /\ routing' = [routing EXCEPT ![r] = ClearPin(@, t.region.id)]
    /\ IF t.attempt + 1 >= NonWitnessPeers(t)
       THEN cache' = InvalidateRegion(cache, VerId(t.region)) /\ FailTask(r, t)
       ELSE UNCHANGED cache /\ Replan(r, t, NextAttempt(t.attempt), t.tries)
    /\ UNCHANGED <<inFlight, work, storeCache, slow>>

FastRetry(r, t, e) ==
  /\ IsReplicaReadMode(work[r].mode)
  /\ e.kind = "server_is_busy"
  /\ NonWitnessPeers(t) > 1
  /\ t.attempt + 1 < NonWitnessPeers(t)

(* The other region errors, with the routing state rt the shard found. *)
OnRegionError(r, t, e, rt) ==
  LET pinned == Pinning(rt, e, t)
      s == t.peer.store
  IN /\ cache' = RegionAfter(e, t.region)
     /\ storeCache' = StoresAfter(e, s)
     /\ CASE Verdict(e, t.region) = "fail" ->
               /\ FailTask(r, t)
               /\ routing' = [routing EXCEPT ![r] = pinned]
               /\ UNCHANGED slow
          [] Verdict(e, t.region) = "retry" ->
               /\ Replan(r, t, NextAttempt(t.attempt), t.tries)
               /\ routing' = [routing EXCEPT ![r] = pinned]
               /\ UNCHANGED slow
          [] Verdict(e, t.region) = "backoff" /\ FastRetry(r, t, e) ->
               /\ Replan(r, t, NextAttempt(t.attempt), t.tries)
               /\ routing' = [routing EXCEPT ![r] = AddPendingBackoff(pinned, s)]
               /\ slow' = slow \cup {s}
          [] OTHER ->
               /\ BackoffOrFail(r, t, NextAttempt(t.attempt))
               /\ routing' = [routing EXCEPT ![r] = pinned]
               /\ UNCHANGED slow
     /\ UNCHANGED <<inFlight, work>>

RegionError(r) ==
  \E t \in {u \in tasks[r] : u.pc = "exec"} :
    \E e \in StoreAnswers(hist[now], t.region, t.peer, t.addr)
               \cup FaultyAnswers(t.region, t.peer, t.addr) :
      /\ e.kind \in RegionErrors \ {"data_is_not_ready"}
      /\ ~(e.kind = "stale_command" /\ IsReplicaReadMode(work[r].mode))
      /\ Receive(t, e)
      /\ OnRegionError(r, t, e, routing[r])

----------------------------------------------------------------------------
(* ResolveLock: the response names locks.  They are resolved, or some live.  *)

(* A stale read, once its locks are resolved or it has waited, turns to the  *)
(* leader through a region error of its own: reroute_to_leader.              *)
LockedStaleRead(r) ==
  \E t \in tasks[r] :
    /\ t.pc = "exec"
    /\ Fault
    /\ MaxLockAttempts > 0
    /\ IsStaleRead(work[r].mode, routing[r])
    /\ OnRegionError(r, t, EpochNotMatch({}), ForceLeader(routing[r]))

(* Other reads execute again once the locks are gone or the backoff is over. *)
Locked(r) ==
  \E t \in tasks[r], live \in BOOLEAN :
    /\ t.pc = "exec"
    /\ Fault
    /\ ~IsStaleRead(work[r].mode, routing[r]) \/ MaxLockAttempts = 0
    /\ IF MaxLockAttempts = 0 \/ (live /\ t.locks >= MaxLockAttempts)
       THEN FailTask(r, t)
       ELSE UpdateTask(r, t, [t EXCEPT !.locks = IF live THEN @ + 1 ELSE @])
    /\ UNCHANGED <<cache, inFlight, work, routing, storeCache, slow>>

(* Every shard has its result. *)
PlanDone(r) ==
  /\ status[r] = "running"
  /\ work[r].kind = "plan"
  /\ planning[r] = {}
  /\ tasks[r] = {}
  /\ status' = [status EXCEPT ![r] = "done"]
  /\ UNCHANGED <<clusterVars, cacheVars, work, planning, tasks, routing, results,
                 storeCache, slow>>

(* The 500 ms for which a store is marked slow are over. *)
SlowEnds(s) ==
  /\ s \in slow
  /\ slow' = slow \ {s}
  /\ UNCHANGED <<clusterVars, cacheVars, work, planning, tasks, routing, results, status,
                 storeCache>>

PlanInit(s) ==
  /\ work = s.work
  /\ planning = [r \in Requests |->
                   IF work[r].kind = "plan" THEN {NewPlan(work[r].keys, 0, 0, TRUE)} ELSE {}]
  /\ tasks = [r \in Requests |-> {}]
  /\ routing = [r \in Requests |-> NewRouting]
  /\ results = [r \in Requests |-> {}]
  /\ status = [r \in Requests |-> IF work[r].kind = "idle" THEN "done" ELSE "running"]
  /\ storeCache = EmptyFcn
  /\ slow = {}
============================================================================
