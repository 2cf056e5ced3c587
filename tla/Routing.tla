------------------------------ MODULE Routing ------------------------------
(* Requests and raw scans over one region cache, while the cluster splits    *)
(* and merges regions, moves leaders and stores, and PD lags behind.         *)
EXTENDS RawScan

vars == <<clusterVars, cacheVars, planVars, scan>>

FirstLookup(w) == IF w.kind = "plan" THEN FirstOf(w.keys) ELSE w.start

Init ==
  /\ \E s \in Scenarios : ClusterInit(s) /\ PlanInit(s)
  /\ cache = EmptyCache
  /\ inFlight = EmptyFcn
  /\ look = [l \in {KeyLookup(r, FirstLookup(work[r])) :
                     r \in {q \in Requests : work[q].kind # "idle"}} |-> NewLookup]
  /\ scan = [r \in Requests |-> IF work[r].kind = "scan" THEN NewScan(work[r]) ELSE None]

(* The steps of a lookup; only a failing call to PD costs a fault. *)
LookupStep(l) ==
  /\ \/ /\ \/ CheckHit(l) \/ CheckMiss(l) \/ JoinInFlight(l) \/ AwaitNotified(l)
           \/ DoubleCheck(l) \/ FetchAnswer(l) \/ AddFetched(l) \/ ClearInFlight(l)
           \/ NotifyWaiters(l)
        /\ UNCHANGED clusterVars
     \/ FetchFails(l) /\ Fault
  /\ UNCHANGED <<planVars, scan>>

PlanStep(r) ==
  /\ \/ GroupKeys(r) \/ PlanFails(r) \/ LeaderNotFound(r) \/ SelectReadPeer(r)
     \/ MapRegionToStore(r) \/ MapFails(r) \/ AcquirePermit(r) \/ Respond(r)
     \/ GrpcError(r) \/ OtherError(r) \/ DataIsNotReady(r) \/ StaleCommandOnReplica(r)
     \/ RegionError(r) \/ LockedStaleRead(r) \/ Locked(r) \/ PlanDone(r)
  /\ UNCHANGED scan

ScanStep(r) ==
  /\ work[r].kind = "scan"
  /\ \/ ScanRegionFound(r) \/ ScanStoreFound(r) \/ ScanLookupFails(r)
     \/ ScanOk(r) \/ ScanRegionError(r) \/ ScanError(r)

EntryExpires ==
  /\ \E v \in DOMAIN cache.regions : Expire(v)
  /\ Fault
  /\ UNCHANGED <<planVars, scan>>

Environment ==
  \/ (ClusterChange \/ PdCatchUp) /\ UNCHANGED <<cacheVars, planVars, scan>>
  \/ EntryExpires
  \/ (\E s \in Stores : SlowEnds(s)) /\ UNCHANGED scan

Next ==
  \/ \E l \in DOMAIN look : LookupStep(l)
  \/ \E r \in Requests : PlanStep(r) \/ ScanStep(r)
  \/ Environment

Spec == Init /\ [][Next]_vars

RequestStep(r) ==
  (\E l \in DOMAIN look : l[1] = r /\ LookupStep(l)) \/ PlanStep(r) \/ ScanStep(r)

(* The executor polls every future that can go on, and heartbeats reach PD. *)
FairSpec ==
  /\ Spec
  /\ \A r \in Requests : WF_vars(RequestStep(r))
  /\ WF_vars(PdCatchUp /\ UNCHANGED <<cacheVars, planVars, scan>>)

----------------------------------------------------------------------------
(* Properties *)

(* Every variable of the caches, lookups, requests and scans keeps its type. *)
TypeOK ==
  /\ ClusterTypeOK
  /\ \A v \in DOMAIN cache.regions : IsRegion(cache.regions[v])
  /\ cache.expired \subseteq DOMAIN cache.regions
  /\ \A t \in DOMAIN inFlight : inFlight[t] \in Requests
  /\ \A l \in DOMAIN look : l[1] \in Requests /\ look[l].of \in Requests \cup {None}
  /\ \A r \in Requests :
       /\ status[r] \in {"running", "done", "failed"}
       /\ \A t \in tasks[r] : t.tries <= MaxAttempts /\ t.locks <= MaxLockAttempts
       /\ routing[r].pending \subseteq Stores
  /\ DOMAIN storeCache \subseteq Stores

(* key_to_ver_id and id_to_ver_id name exactly the versions that are cached, *)
(* each under its own start key and id, and an id has one version.           *)
IndexesAgree ==
  /\ \A v \in DOMAIN cache.regions : VerId(cache.regions[v]) = v
  /\ \A k \in DOMAIN cache.byKey :
       cache.byKey[k] \in DOMAIN cache.regions /\ cache.regions[cache.byKey[k]].start = k
  /\ \A i \in DOMAIN cache.byId :
       cache.byId[i] \in DOMAIN cache.regions /\ cache.regions[cache.byId[i]].id = i
  /\ \A v \in DOMAIN cache.regions :
       LET r == cache.regions[v]
       IN /\ r.start \in DOMAIN cache.byKey /\ cache.byKey[r.start] = v
          /\ r.id \in DOMAIN cache.byId /\ cache.byId[r.id] = v

Disjoint(r, s) == (r.end # NoKey /\ r.end <= s.start) \/ (s.end # NoKey /\ s.end <= r.start)

(* "There are no intersecting regions in the map at any time", although PD's *)
(* answers are cached in any order and may be older than what they replace.  *)
NoIntersection ==
  \A v, w \in DOMAIN cache.regions : v # w => Disjoint(cache.regions[v], cache.regions[w])

(* A request that succeeds has one answer for each of its keys: no key is    *)
(* lost or answered twice when regions split or merge between the attempts,  *)
(* and a key that has its answer is not planned or sent again.               *)
EachKeyAnsweredOnce ==
  \A r \in Requests :
    /\ \A a, b \in results[r] : a # b => a.keys \cap b.keys = {}
    /\ \A a \in results[r], s \in planning[r] \cup tasks[r] : a.keys \cap s.keys = {}
    /\ work[r].kind = "plan" /\ status[r] = "done" =>
         UNION {a.keys : a \in results[r]} = work[r].keys

(* A lookup that nobody will wake: it missed the notification, or the loader *)
(* it waits for was dropped.                                                 *)
Stranded(r) ==
  \E l \in DOMAIN look :
    /\ l[1] = r
    /\ \/ look[l].pc = "orphan"
       \/ look[l].pc \in {"joined", "parked"} /\ <<look[l].of, l[2]>> \notin DOMAIN look

RetriedAtOnce(r, t) ==
  /\ t \notin tasks'[r]
  /\ ~IsReplicaReadMode(work[r].mode)
  /\ \E p \in planning'[r] \ planning[r] : p.keys = t.keys /\ p.tries = t.tries

RoutedAnew(t) ==
  ~ /\ VerId(t.region) \in DOMAIN cache'.regions
    /\ cache'.regions[VerId(t.region)].leader = t.peer.store
    /\ t.peer.store \in DOMAIN storeCache'

(* A shard that is planned again without spending a backoff attempt after a  *)
(* region error has learned something: the cache no longer sends its keys to *)
(* the same leader of the same version of the region.                        *)
ImmediateRetryHasNews ==
  [][\A r \in Requests : \A t \in tasks[r] : RetriedAtOnce(r, t) => RoutedAnew(t)]_vars

(* In every layout the range ends before the last region, whose end key is   *)
(* empty, begins.                                                            *)
BeforeLast(w) ==
  /\ w.end # NoKey /\ w.start < w.end
  /\ \A i \in 1..Len(hist) : \A g \in hist[i].regions : g.end = NoKey => w.end <= g.start

(* No region is merged with the one above it: its end never moves up. *)
EndsOnlyShrink ==
  \A i, j \in 1..Len(hist) : i <= j =>
    \A a \in hist[i].regions, b \in hist[j].regions :
      a.id = b.id /\ a.end # NoKey => b.end # NoKey /\ b.end <= a.end

(* A scan over a range that ends before the last region returns keys of the  *)
(* range in ascending order and each of them once, although the region it    *)
(* goes on from and the one that answers are looked up apart, while regions  *)
(* split or merge downwards.                                                 *)
ScanInOrder ==
  \A r \in Requests : work[r].kind = "scan" /\ BeforeLast(work[r]) /\ EndsOnlyShrink =>
    LET got == scan[r].got
    IN /\ \A i \in 1..Len(got) : InScanRange(work[r], work[r].start, got[i])
       /\ \A i, j \in 1..Len(got) : i < j => got[i] < got[j]

(* Every request ends, with a result or an error, unless it is stranded.     *)
RequestsEnd == \A r \in Requests : <>(status[r] # "running" \/ Stranded(r))

(* Every request ends: "Always clear the in-flight marker first, then wake   *)
(* waiters" leaves nobody waiting.                                           *)
LookupsReturn == \A r \in Requests : <>(status[r] # "running")
============================================================================
