------------------------------ MODULE RawScan ------------------------------
(* scan() of the raw client: region by region from the start of the range,   *)
(* until the limit or the end.  The region is looked up by key, the store by *)
(* the id of that region.                                                    *)
EXTENDS RequestPlan

CONSTANT Present   \* the keys that hold a value; one value each

VARIABLE scan      \* request -> its scan: step, next key, limit left, keys found

NewScan(w) ==
  [pc |-> "byKey", cur |-> w.start, left |-> w.limit, got |-> <<>>, region |-> None,
   store |-> None, addr |-> None, tries |-> 0]

ScanKeyLookup(r) == KeyLookup(r, scan[r].cur)
ScanIdLookup(r) == <<r, <<"id", scan[r].region.id>>>>

(* The next key, the bounds and the limit of a scan are numbers. *)
ASSUME ScanAssumption ==
  /\ Present \subseteq Nat
  /\ \A s \in Scenarios : \A r \in Requests :
       s.work[r].kind = "scan" =>
         {s.work[r].start, s.work[r].end, s.work[r].limit} \subseteq Nat

InScanRange(w, cur, k) == k >= cur /\ (w.end = NoKey \/ k < w.end)

(* TiKV serves a scan from one region: its first keys of [cur, end), at most *)
(* left of them.                                                             *)
ScanAnswers(w, cur, left, g) ==
  LET S == {k \in Present : Contains(g, k) /\ InScanRange(w, cur, k)}
  IN {kvs \in UNION {[1..n -> S] : n \in 0..left} :
        /\ \A i, j \in DOMAIN kvs : i < j => kvs[i] < kvs[j]
        /\ \A k \in S : \/ \E i \in DOMAIN kvs : kvs[i] = k
                        \/ Len(kvs) = left /\ \A i \in DOMAIN kvs : kvs[i] < k}

ScanUnchanged == UNCHANGED <<work, planning, tasks, routing, results, slow>>

EndScan(r, verdict) ==
  /\ status' = [status EXCEPT ![r] = verdict]
  /\ scan' = [scan EXCEPT ![r].pc = "end"]

(* retryable_scan: the region of the next key, then its store by id. *)
ScanRegionFound(r) ==
  /\ scan[r].pc = "byKey"
  /\ ScanKeyLookup(r) \in DOMAIN look /\ look[ScanKeyLookup(r)].pc = "done"
  /\ scan' = [scan EXCEPT ![r].pc = "byId", ![r].region = look[ScanKeyLookup(r)].region]
  /\ look' = With(Without(look, {ScanKeyLookup(r)}),
                  <<r, <<"id", look[ScanKeyLookup(r)].region.id>>>>, NewLookup)
  /\ UNCHANGED <<clusterVars, cache, inFlight, status, storeCache>>
  /\ ScanUnchanged

(* store_for_id: the region by id and the address of its leader. *)
ScanStoreFound(r) ==
  LET g == look[ScanIdLookup(r)].region
  IN /\ scan[r].pc = "byId"
     /\ ScanIdLookup(r) \in DOMAIN look /\ look[ScanIdLookup(r)].pc = "done"
     /\ g.leader # None
     /\ storeCache' = With(storeCache, g.leader, AddressOf(g.leader))
     /\ scan' = [scan EXCEPT ![r].pc = "exec", ![r].store = g, ![r].addr = AddressOf(g.leader)]
     /\ look' = Without(look, {ScanIdLookup(r)})
     /\ UNCHANGED <<clusterVars, cache, inFlight, status>>
     /\ ScanUnchanged

(* A lookup fails, or the region has no leader: the scan ends with an error. *)
ScanLookupFails(r) ==
  \E l \in DOMAIN look :
    /\ scan[r].pc \in {"byKey", "byId"}
    /\ l[1] = r
    /\ \/ look[l].pc = "failed"
       \/ scan[r].pc = "byId" /\ look[l].pc = "done" /\ look[l].region.leader = None
    /\ look' = Without(look, {l})
    /\ EndScan(r, "failed")
    /\ UNCHANGED <<clusterVars, cache, inFlight, storeCache>>
    /\ ScanUnchanged

ScanPeer(r) == ReadPeer(scan[r].store.leader, FALSE, FALSE)

ScanReceive(r, e) ==
  /\ scan[r].pc = "exec"
  /\ \/ e \in StoreAnswers(hist[now], scan[r].store, ScanPeer(r), scan[r].addr)
          /\ UNCHANGED clusterVars
     \/ e \in FaultyAnswers(scan[r].store, ScanPeer(r), scan[r].addr) /\ Fault

(* Mutant: the scan goes on from the last key it got. *)
ScanAdvanceFromLast(r, kvs) ==
  LET s == scan[r]
      next == IF kvs = <<>> THEN s.region.end ELSE kvs[Len(kvs)]
      left == s.left - Len(kvs)
  IN IF left = 0 \/ (work[r].end # NoKey /\ work[r].end <= next)
     THEN /\ scan' = [scan EXCEPT ![r].pc = "end", ![r].got = @ \o kvs, ![r].left = left]
          /\ status' = [status EXCEPT ![r] = "done"]
          /\ UNCHANGED look
     ELSE /\ scan' = [scan EXCEPT ![r] = [NewScan(work[r]) EXCEPT !.cur = next, !.left = left,
                                                               !.got = s.got \o kvs]]
          /\ look' = With(look, KeyLookup(r, next), NewLookup)
          /\ UNCHANGED status

(* scan_inner goes on from the end of the region it looked up by key. *)
ScanAdvance(r, kvs) ==
  LET s == scan[r]
      next == s.region.end
      left == s.left - Len(kvs)
  IN IF left = 0 \/ (work[r].end # NoKey /\ work[r].end <= next)
     THEN /\ scan' = [scan EXCEPT ![r].pc = "end", ![r].got = @ \o kvs, ![r].left = left]
          /\ status' = [status EXCEPT ![r] = "done"]
          /\ UNCHANGED look
     ELSE /\ scan' = [scan EXCEPT ![r] = [NewScan(work[r]) EXCEPT !.cur = next, !.left = left,
                                                               !.got = s.got \o kvs]]
          /\ look' = With(look, KeyLookup(r, next), NewLookup)
          /\ UNCHANGED status

ScanOk(r) ==
  /\ ScanReceive(r, Answer("ok"))
  /\ \E kvs \in ScanAnswers(work[r], scan[r].cur, scan[r].left, scan[r].store) :
       ScanAdvance(r, kvs)
  /\ UNCHANGED <<cache, inFlight, storeCache>>
  /\ ScanUnchanged

(* A region error: look everything up again, at once or after a backoff. *)
ScanRegionError(r) ==
  /\ scan[r].pc = "exec"
  /\ \E e \in StoreAnswers(hist[now], scan[r].store, ScanPeer(r), scan[r].addr)
                \cup FaultyAnswers(scan[r].store, ScanPeer(r), scan[r].addr) :
       LET verdict == Verdict(e, scan[r].store)
       IN /\ e.kind \in RegionErrors
          /\ ScanReceive(r, e)
          /\ cache' = RegionAfter(e, scan[r].store)
          /\ storeCache' = StoresAfter(e, scan[r].store.leader)
          /\ IF \/ verdict = "fail"
                \/ verdict = "backoff" /\ scan[r].tries >= MaxAttempts
             THEN EndScan(r, "failed") /\ UNCHANGED look
             ELSE /\ scan' = [scan EXCEPT ![r].pc = "byKey",
                                          ![r].tries = IF verdict = "retry" THEN @ ELSE @ + 1]
                  /\ look' = With(look, ScanKeyLookup(r), NewLookup)
                  /\ UNCHANGED status
          /\ UNCHANGED inFlight
          /\ ScanUnchanged

(* Any other error ends the scan. *)
ScanError(r) ==
  \E kind \in {"grpc", "other"} :
    /\ ScanReceive(r, Answer(kind))
    /\ EndScan(r, "failed")
    /\ UNCHANGED <<cacheVars, storeCache>>
    /\ ScanUnchanged
============================================================================
