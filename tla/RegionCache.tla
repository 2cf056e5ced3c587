---------------------------- MODULE RegionCache ----------------------------
(* The client's region cache: three indexes under one lock, a soft TTL, and  *)
(* single-flight loading from PD.  A lookup <<r, t>> belongs to request r;   *)
(* its target t is <<"key", k>> or <<"id", i>>.  One step per lock held and  *)
(* one per await.                                                            *)
EXTENDS Regions

VARIABLES
  cache,     \* the indexes: regions by version, start key and id; expired ones
  inFlight,  \* target -> the request that loads it (the Notify it created)
  look       \* the lookups under way: step, region found, whom it waits for

cacheVars == <<cache, inFlight, look>>

----------------------------------------------------------------------------
(* RegionCacheMap *)

With(f, x, v) == [y \in DOMAIN f \cup {x} |-> IF y = x THEN v ELSE f[y]]
Without(f, S) == [y \in DOMAIN f \ S |-> f[y]]

EmptyFcn == [x \in {} |-> None]

EmptyCache == [regions |-> EmptyFcn, byKey |-> EmptyFcn, byId |-> EmptyFcn,
               expired |-> {}]

(* Mutant: the id index keeps naming what is gone. *)
EvictKeepsId(c, V) ==
  [regions |-> Without(c.regions, V),
   byKey   |-> Without(c.byKey, {c.regions[v].start : v \in V}),
   byId    |-> c.byId,
   expired |-> c.expired \ V]

(* remove a set of versions and what points at them *)
Evict(c, V) ==
  [regions |-> Without(c.regions, V),
   byKey   |-> Without(c.byKey, {c.regions[v].start : v \in V}),
   byId    |-> Without(c.byId, {c.regions[v].id : v \in V}),
   expired |-> c.expired \ V]

(* Start keys below end_key, the range the backward scan of add_region covers. *)
ScanRange(c, r) == {j \in DOMAIN c.byKey : r.end = NoKey \/ j < r.end}

StaleStart(c, j) == c.byKey[j] \notin DOMAIN c.regions

(* Mutant: an empty end key compares as the smallest key. *)
OverlapsEndNoInfinity(c, j, r) == c.regions[c.byKey[j]].end > r.start

OverlapsEnd(c, j, r) ==
  LET e == c.regions[c.byKey[j]].end IN e = NoKey \/ e > r.start

(* The scan goes down from end_key and stops after the first region that does *)
(* not reach the new one.                                                    *)
Scanned(c, r) ==
  {j \in ScanRange(c, r) :
     \A i \in ScanRange(c, r) : i > j => StaleStart(c, i) \/ OverlapsEnd(c, i, r)}

ToBeRemoved(c, r) ==
  (IF r.id \in DOMAIN c.byId THEN {c.byId[r.id]} \ {VerId(r)} ELSE {})
    \cup {c.byKey[j] : j \in {i \in Scanned(c, r) : ~StaleStart(c, i)
                                                   /\ OverlapsEnd(c, i, r)}}

AddRegion(c, r) ==
  LET stale == {j \in Scanned(c, r) : StaleStart(c, j)}
      kept  == Evict(c, ToBeRemoved(c, r) \cap DOMAIN c.regions)
  IN [regions |-> With(kept.regions, VerId(r), r),
      byKey   |-> With(Without(kept.byKey, stale), r.start, VerId(r)),
      byId    |-> With(kept.byId, r.id, VerId(r)),
      expired |-> kept.expired \ {VerId(r)}]

(* A new leader for a cached version; its TTL starts again. *)
UpdateLeader(c, v, leader) ==
  IF v \in DOMAIN c.regions
  THEN [c EXCEPT !.regions = With(@, v, [@[v] EXCEPT !.leader = leader]),
                 !.expired = @ \ {v}]
  ELSE c

InvalidateRegion(c, v) == IF v \in DOMAIN c.regions THEN Evict(c, {v}) ELSE c

(* The version an index names for a target: the last start key at or below a *)
(* key, or the version of an id.                                             *)
Candidates(c, t) ==
  IF t[1] = "key"
  THEN LET S == {j \in DOMAIN c.byKey : j <= t[2]}
       IN {c.byKey[j] : j \in {i \in S : \A h \in S : h <= i}}
  ELSE {c.byId[i] : i \in DOMAIN c.byId \cap {t[2]}}

(* The cached region that answers a target: still in its TTL, and for a key  *)
(* one that contains it.                                                     *)
Hits(c, t) ==
  {c.regions[v] : v \in
     {w \in Candidates(c, t) \cap DOMAIN c.regions :
        w \notin c.expired /\ (t[1] = "key" => Contains(c.regions[w], t[2]))}}

----------------------------------------------------------------------------
(* get_region_by_key and get_region_by_id *)

NewLookup == [pc |-> "check", region |-> None, of |-> None]

Goto(l, pc) == look' = [look EXCEPT ![l].pc = pc]

CheckHit(l) ==
  /\ look[l].pc = "check"
  /\ \E g \in Hits(cache, l[2]) :
       look' = [look EXCEPT ![l].pc = "done", ![l].region = g]
  /\ UNCHANGED <<cache, inFlight>>

CheckMiss(l) ==
  /\ look[l].pc = "check"
  /\ Hits(cache, l[2]) = {}
  /\ Goto(l, "join")
  /\ UNCHANGED <<cache, inFlight>>

(* Vacant: become the loader.  Occupied: take the loader's Notify. *)
JoinInFlight(l) ==
  /\ look[l].pc = "join"
  /\ IF l[2] \in DOMAIN inFlight
     THEN /\ look' = [look EXCEPT ![l].pc = "joined", ![l].of = inFlight[l[2]]]
          /\ UNCHANGED inFlight
     ELSE /\ Goto(l, "double")
          /\ inFlight' = With(inFlight, l[2], l[1])
  /\ UNCHANGED cache

(* notified(): only from here on does notify_waiters() reach this lookup. *)
AwaitNotified(l) ==
  /\ look[l].pc = "joined"
  /\ Goto(l, "parked")
  /\ UNCHANGED <<cache, inFlight>>

DoubleCheck(l) ==
  /\ look[l].pc = "double"
  /\ IF Hits(cache, l[2]) = {}
     THEN Goto(l, "fetch")
     ELSE \E g \in Hits(cache, l[2]) :
            look' = [look EXCEPT ![l].pc = "clear", ![l].region = g]
  /\ UNCHANGED <<cache, inFlight>>

(* PD answers from the layout it knows; an unknown id is an error. *)
FetchAnswer(l) ==
  /\ look[l].pc = "fetch"
  /\ IF RegionsFor(hist[pd], l[2]) = {}
     THEN Goto(l, "clear")
     ELSE \E g \in RegionsFor(hist[pd], l[2]) :
            look' = [look EXCEPT ![l].pc = "add", ![l].region = g]
  /\ UNCHANGED <<cache, inFlight>>

(* The call to PD fails. *)
FetchFails(l) ==
  /\ look[l].pc = "fetch"
  /\ Goto(l, "clear")
  /\ UNCHANGED <<cache, inFlight>>

AddFetched(l) ==
  /\ look[l].pc = "add"
  /\ cache' = AddRegion(cache, look[l].region)
  /\ Goto(l, "clear")
  /\ UNCHANGED inFlight

(* Mutant: the marker stays. *)
KeepInFlight(l) ==
  /\ look[l].pc = "clear"
  /\ Goto(l, "notify")
  /\ UNCHANGED <<cache, inFlight>>

ClearInFlight(l) ==
  /\ look[l].pc = "clear"
  /\ inFlight' = Without(inFlight, {l[2]})
  /\ Goto(l, "notify")
  /\ UNCHANGED cache

(* notify_waiters(): those parked look again; one that holds the Notify but  *)
(* has not called notified() yet will never be woken.                        *)
Wake(m, l) ==
  CASE m = l -> [look[m] EXCEPT !.pc = IF look[m].region = None THEN "failed" ELSE "done"]
    [] m # l /\ m[2] = l[2] /\ look[m].of = l[1] /\ look[m].pc = "parked" ->
         [look[m] EXCEPT !.pc = "check", !.of = None]
    [] m # l /\ m[2] = l[2] /\ look[m].of = l[1] /\ look[m].pc = "joined" ->
         [look[m] EXCEPT !.pc = "orphan"]
    [] OTHER -> look[m]

NotifyWaiters(l) ==
  /\ look[l].pc = "notify"
  /\ look' = [m \in DOMAIN look |-> Wake(m, l)]
  /\ UNCHANGED <<cache, inFlight>>

(* The TTL of an idle entry runs out. *)
Expire(v) ==
  /\ v \in DOMAIN cache.regions \ cache.expired
  /\ cache' = [cache EXCEPT !.expired = @ \cup {v}]
  /\ UNCHANGED <<inFlight, look>>
============================================================================
