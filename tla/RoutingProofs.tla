--------------------------- MODULE RoutingProofs ---------------------------
(* For every history of layouts, any requests, stores and faults: the        *)
(* indexes of the region cache agree and no two cached regions intersect,    *)
(* each key of a request is answered once, a retry at once has news, scans   *)
(* return their keys in order, and every variable keeps its type.            *)
EXTENDS Routing, TLAPS

USE ZenonT(30)

(* A region as PD may have reported it by now, up to its leader. *)
Known(r) ==
  /\ DOMAIN r = {"id", "conf", "ver", "start", "end", "peers", "leader"}
  /\ r.start \in Nat /\ r.end \in Nat
  /\ r.end = NoKey \/ r.start < r.end
  /\ r.peers \subseteq Stores /\ r.leader \in Stores \cup {None}
  /\ \E i \in 1..now : \E h \in hist[i].regions : VerId(h) = VerId(r) /\ SameRange(h, r)

HistoryInv == (\E s \in Scenarios : hist = s.hist) /\ now \in 1..Len(hist) /\ pd \in 1..now

Indexed(c) ==
  /\ DOMAIN c = {"regions", "byKey", "byId", "expired"}
  /\ c.expired \subseteq DOMAIN c.regions
  /\ \A v \in DOMAIN c.regions :
       /\ Known(c.regions[v])
       /\ VerId(c.regions[v]) = v
       /\ c.regions[v].start \in DOMAIN c.byKey /\ c.byKey[c.regions[v].start] = v
       /\ c.regions[v].id \in DOMAIN c.byId /\ c.byId[c.regions[v].id] = v
  /\ \A k \in DOMAIN c.byKey :
       c.byKey[k] \in DOMAIN c.regions /\ c.regions[c.byKey[k]].start = k
  /\ \A i \in DOMAIN c.byId :
       c.byId[i] \in DOMAIN c.regions /\ c.regions[c.byId[i]].id = i

Apart(c) ==
  \A v, w \in DOMAIN c.regions : v # w => Disjoint(c.regions[v], c.regions[w])

CacheGood(c) == Indexed(c) /\ Apart(c)

(* The region of a key contains it, the region of an id has it. *)
Matches(g, t) == IF t[1] = "key" THEN Contains(g, t[2]) ELSE g.id = t[2]

Fits(g, t) == Known(g) /\ Matches(g, t)

(* What a lookup has found so far is a known region that fits its target. *)
Looked(l, x) ==
  /\ DOMAIN x = {"pc", "region", "of"}
  /\ l[1] \in Requests /\ x.of \in Requests \cup {None}
  /\ x.region = None \/ Fits(x.region, l[2])
  /\ x.pc \in {"add", "done"} => Fits(x.region, l[2])

LookGood(f) == \A l \in DOMAIN f : Looked(l, f[l])

LoadersGood(f) == \A t \in DOMAIN f : f[t] \in Requests

IInv == HistoryInv /\ CacheGood(cache) /\ LookGood(look) /\ LoadersGood(inFlight)

----------------------------------------------------------------------------
(* Lemmas on the operators of the cache *)

(* What the history of layouts is like. *)
LEMMA Layouts ==
  ASSUME HistoryInv
  PROVE  /\ Len(hist) \in Nat /\ now \in Nat /\ pd \in 1..now
         /\ \A i \in 1..now : i \in 1..Len(hist)
         /\ \A i \in 1..Len(hist) : \A g \in hist[i].regions : IsRegion(g)
         /\ \A i, j \in 1..Len(hist) : \A g \in hist[i].regions, h \in hist[j].regions :
              VerId(g) = VerId(h) => SameRange(g, h)
<1>1. PICK s \in Scenarios : hist = s.hist
  BY DEF HistoryInv
<1>2. Len(hist) \in Nat
  BY <1>1, ScenariosAssumption
<1>3. now \in Nat /\ pd \in 1..now /\ \A i \in 1..now : i \in 1..Len(hist)
  BY <1>2, SMTT(20) DEF HistoryInv
<1> QED
  BY <1>1, <1>2, <1>3, ScenariosAssumption DEF IsLayout

(* Two known regions of one version have one range. *)
LEMMA OneRange ==
  ASSUME HistoryInv, NEW r, NEW g, Known(r), Known(g), VerId(r) = VerId(g)
  PROVE  SameRange(r, g)
<1>1. PICK i \in 1..now : \E h \in hist[i].regions : VerId(h) = VerId(r) /\ SameRange(h, r)
  BY DEF Known
<1>2. PICK h \in hist[i].regions : VerId(h) = VerId(r) /\ SameRange(h, r)
  BY <1>1
<1>3. PICK j \in 1..now : \E f \in hist[j].regions : VerId(f) = VerId(g) /\ SameRange(f, g)
  BY DEF Known
<1>4. PICK f \in hist[j].regions : VerId(f) = VerId(g) /\ SameRange(f, g)
  BY <1>3
<1>5. SameRange(h, f)
  BY <1>2, <1>4, Layouts
<1> QED
  BY <1>2, <1>4, <1>5 DEF SameRange

(* The backward scan reaches every cached region that meets the new one: the *)
(* regions between it and the end of the new one all meet it too.            *)
LEMMA OverlappingIsRemoved ==
  ASSUME NEW c, Indexed(c), Apart(c), NEW r, Known(r),
         NEW v \in DOMAIN c.regions, ~Disjoint(c.regions[v], r)
  PROVE  v \in ToBeRemoved(c, r)
<1> DEFINE s == c.regions[v]
           j == s.start
<1>1. /\ Known(s) /\ j \in DOMAIN c.byKey /\ c.byKey[j] = v
      /\ j \in Nat /\ s.end \in Nat /\ r.start \in Nat /\ r.end \in Nat
      /\ s.end = NoKey \/ s.start < s.end
  BY DEF Indexed, Known
<1>2. (r.end = NoKey \/ j < r.end) /\ (s.end = NoKey \/ s.end > r.start)
  BY <1>1, SMTT(20) DEF Disjoint
<1>3. j \in ScanRange(c, r) /\ ~StaleStart(c, j) /\ OverlapsEnd(c, j, r)
  BY <1>1, <1>2 DEF ScanRange, StaleStart, OverlapsEnd
<1>4. ASSUME NEW i \in ScanRange(c, r), i > j
      PROVE  OverlapsEnd(c, i, r)
  <2> DEFINE u == c.regions[c.byKey[i]]
  <2>1. i \in DOMAIN c.byKey /\ c.byKey[i] \in DOMAIN c.regions /\ u.start = i
    BY DEF ScanRange, Indexed
  <2>2. u.start \in Nat /\ u.end \in Nat /\ (u.end = NoKey \/ u.start < u.end)
    BY <2>1 DEF Indexed, Known
  <2>3. c.byKey[i] # v
    BY <1>1, <1>4, <2>1, <2>2, SMTT(20)
  <2>4. Disjoint(s, u)
    BY <2>1, <2>3 DEF Apart
  <2>5. s.end # NoKey /\ s.end <= u.start
    BY <1>1, <1>4, <2>1, <2>2, <2>4, SMTT(20) DEF Disjoint, NoKey
  <2>6. u.end = NoKey \/ u.end > r.start
    BY <1>1, <1>2, <2>2, <2>5, SMTT(20)
  <2> QED
    BY <2>6 DEF OverlapsEnd
<1>5. j \in Scanned(c, r)
  BY <1>3, <1>4 DEF Scanned
<1> QED
  BY <1>1, <1>3, <1>5 DEF ToBeRemoved

(* What AddRegion leaves: the regions it did not remove, and the new one. *)
LEMMA AddedRegions ==
  ASSUME NEW c, NEW r
  PROVE  LET gone == ToBeRemoved(c, r) \cap DOMAIN c.regions
             d == AddRegion(c, r)
         IN /\ DOMAIN d = {"regions", "byKey", "byId", "expired"}
            /\ DOMAIN d.regions = (DOMAIN c.regions \ gone) \cup {VerId(r)}
            /\ d.regions[VerId(r)] = r
            /\ \A v \in DOMAIN c.regions \ gone : v # VerId(r) => d.regions[v] = c.regions[v]
            /\ d.expired = (c.expired \ gone) \ {VerId(r)}
<1> QED
  BY DEF AddRegion, Evict, With, Without

(* The start keys and ids AddRegion leaves, and what they name. *)
LEMMA AddedIndexes ==
  ASSUME NEW c, NEW r, \A k \in DOMAIN c.byKey : ~StaleStart(c, k)
  PROVE  LET gone == ToBeRemoved(c, r) \cap DOMAIN c.regions
             d == AddRegion(c, r)
         IN /\ DOMAIN d.byKey =
                 (DOMAIN c.byKey \ {c.regions[v].start : v \in gone}) \cup {r.start}
            /\ d.byKey[r.start] = VerId(r)
            /\ \A k \in DOMAIN d.byKey : k # r.start => d.byKey[k] = c.byKey[k]
            /\ DOMAIN d.byId = (DOMAIN c.byId \ {c.regions[v].id : v \in gone}) \cup {r.id}
            /\ d.byId[r.id] = VerId(r)
            /\ \A i \in DOMAIN d.byId : i # r.id => d.byId[i] = c.byId[i]
<1>1. {j \in Scanned(c, r) : StaleStart(c, j)} = {}
  BY DEF Scanned, ScanRange
<1> QED
  BY <1>1 DEF AddRegion, Evict, With, Without

(* AddRegion keeps the regions apart. *)
LEMMA AddRegionApart ==
  ASSUME NEW c, Indexed(c), Apart(c), NEW r, Known(r)
  PROVE  Apart(AddRegion(c, r))
<1> DEFINE gone == ToBeRemoved(c, r) \cap DOMAIN c.regions
           d == AddRegion(c, r)
<1>1. \A v \in DOMAIN c.regions \ gone : Disjoint(c.regions[v], r)
  BY OverlappingIsRemoved
<1>2. \A v \in DOMAIN c.regions \ gone : Disjoint(r, c.regions[v])
  BY <1>1 DEF Disjoint
<1>3. /\ DOMAIN d.regions = (DOMAIN c.regions \ gone) \cup {VerId(r)}
      /\ d.regions[VerId(r)] = r
      /\ \A v \in DOMAIN c.regions \ gone : v # VerId(r) => d.regions[v] = c.regions[v]
  BY AddedRegions
<1> HIDE DEF gone, d
<1>4. ASSUME NEW v \in DOMAIN d.regions, NEW w \in DOMAIN d.regions, v # w
      PROVE  Disjoint(d.regions[v], d.regions[w])
  <2>1. CASE v = VerId(r)
    BY <1>2, <1>3, <1>4, <2>1
  <2>2. CASE w = VerId(r)
    BY <1>1, <1>3, <1>4, <2>2
  <2>3. CASE v # VerId(r) /\ w # VerId(r)
    BY <1>3, <1>4, <2>3 DEF Apart
  <2> QED
    BY <2>1, <2>2, <2>3
<1> QED
  BY <1>4 DEF Apart, d

(* AddRegion keeps the indexes in agreement. *)
LEMMA AddRegionIndexed ==
  ASSUME HistoryInv, NEW c, Indexed(c), Apart(c), NEW r, Known(r)
  PROVE  Indexed(AddRegion(c, r))
<1> DEFINE gone == ToBeRemoved(c, r) \cap DOMAIN c.regions
           d == AddRegion(c, r)
<1>1. \A k \in DOMAIN c.byKey : ~StaleStart(c, k)
  BY DEF Indexed, StaleStart
<1>2. /\ DOMAIN d = {"regions", "byKey", "byId", "expired"}
      /\ DOMAIN d.regions = (DOMAIN c.regions \ gone) \cup {VerId(r)}
      /\ d.regions[VerId(r)] = r
      /\ \A v \in DOMAIN c.regions \ gone : v # VerId(r) => d.regions[v] = c.regions[v]
  BY AddedRegions
<1>3. /\ DOMAIN d.byKey = (DOMAIN c.byKey \ {c.regions[v].start : v \in gone}) \cup {r.start}
      /\ d.byKey[r.start] = VerId(r)
      /\ \A k \in DOMAIN d.byKey : k # r.start => d.byKey[k] = c.byKey[k]
  BY <1>1, AddedIndexes, SMTT(20)
<1>4. /\ DOMAIN d.byId = (DOMAIN c.byId \ {c.regions[v].id : v \in gone}) \cup {r.id}
      /\ d.byId[r.id] = VerId(r)
      /\ \A i \in DOMAIN d.byId : i # r.id => d.byId[i] = c.byId[i]
  BY <1>1, AddedIndexes, SMTT(20)
<1>5. ASSUME NEW v \in DOMAIN c.regions \ gone, v # VerId(r)
      PROVE  c.regions[v].start # r.start /\ c.regions[v].id # r.id
  <2>1. Disjoint(c.regions[v], r)
    BY OverlappingIsRemoved
  <2>2. Known(c.regions[v])
    BY DEF Indexed
  <2>3. c.regions[v].start # r.start
    BY <2>1, <2>2, SMTT(20) DEF Disjoint, Known
  <2>4. c.regions[v].id # r.id
    BY <1>5 DEF Indexed, ToBeRemoved
  <2> QED
    BY <2>3, <2>4
<1>6. ASSUME VerId(r) \in DOMAIN c.regions
      PROVE  c.regions[VerId(r)].start = r.start /\ c.regions[VerId(r)].id = r.id
  <2>1. Known(c.regions[VerId(r)]) /\ VerId(c.regions[VerId(r)]) = VerId(r)
    BY <1>6 DEF Indexed
  <2> QED
    BY <2>1, OneRange DEF SameRange, VerId
<1>11. d.expired = (c.expired \ gone) \ {VerId(r)}
  BY AddedRegions
<1> HIDE DEF gone, d
<1>7. ASSUME NEW v \in DOMAIN d.regions
      PROVE  /\ Known(d.regions[v]) /\ VerId(d.regions[v]) = v
             /\ d.regions[v].start \in DOMAIN d.byKey /\ d.byKey[d.regions[v].start] = v
             /\ d.regions[v].id \in DOMAIN d.byId /\ d.byId[d.regions[v].id] = v
  <2>1. CASE v = VerId(r)
    BY <1>2, <1>3, <1>4, <2>1
  <2>2. CASE v # VerId(r)
    <3>1. v \in DOMAIN c.regions \ gone /\ d.regions[v] = c.regions[v]
      BY <1>2, <2>2
    <3>2. c.regions[v].start # r.start /\ c.regions[v].id # r.id
      BY <1>5, <2>2, <3>1
    <3>3. \A w \in gone : w \in DOMAIN c.regions
      BY DEF gone
    <3>4. \A w \in gone : c.regions[w].start # c.regions[v].start
                        /\ c.regions[w].id # c.regions[v].id
      BY <3>1, <3>3 DEF Indexed
    <3>5. /\ Known(c.regions[v]) /\ VerId(c.regions[v]) = v
          /\ c.regions[v].start \in DOMAIN c.byKey /\ c.byKey[c.regions[v].start] = v
          /\ c.regions[v].id \in DOMAIN c.byId /\ c.byId[c.regions[v].id] = v
      BY <3>1 DEF Indexed
    <3> QED
      BY <1>3, <1>4, <3>1, <3>2, <3>4, <3>5, SMTT(20)
  <2> QED
    BY <2>1, <2>2
<1>8. ASSUME NEW k \in DOMAIN d.byKey
      PROVE  d.byKey[k] \in DOMAIN d.regions /\ d.regions[d.byKey[k]].start = k
  <2>1. CASE k = r.start
    BY <1>2, <1>3, <2>1
  <2>2. CASE k # r.start
    <3>1. k \in DOMAIN c.byKey /\ d.byKey[k] = c.byKey[k]
      BY <1>3, <2>2
    <3>2. c.byKey[k] \in DOMAIN c.regions /\ c.regions[c.byKey[k]].start = k
      BY <3>1 DEF Indexed
    <3>3. c.byKey[k] \notin gone /\ c.byKey[k] # VerId(r)
      BY <1>3, <1>6, <2>2, <3>2
    <3> QED
      BY <1>2, <3>1, <3>2, <3>3
  <2> QED
    BY <2>1, <2>2
<1>9. ASSUME NEW i \in DOMAIN d.byId
      PROVE  d.byId[i] \in DOMAIN d.regions /\ d.regions[d.byId[i]].id = i
  <2>1. CASE i = r.id
    BY <1>2, <1>4, <2>1
  <2>2. CASE i # r.id
    <3>1. i \in DOMAIN c.byId /\ d.byId[i] = c.byId[i]
      BY <1>4, <2>2
    <3>2. c.byId[i] \in DOMAIN c.regions /\ c.regions[c.byId[i]].id = i
      BY <3>1 DEF Indexed
    <3>3. c.byId[i] \notin gone /\ c.byId[i] # VerId(r)
      BY <1>4, <1>6, <2>2, <3>2
    <3> QED
      BY <1>2, <3>1, <3>2, <3>3
  <2> QED
    BY <2>1, <2>2
<1>10. d.expired \subseteq DOMAIN d.regions
  BY <1>2, <1>11 DEF Indexed
<1> QED
  BY <1>2, <1>7, <1>8, <1>9, <1>10 DEF Indexed, d

(* Removing one version keeps the rest apart and indexed. *)
LEMMA InvalidateKeeps ==
  ASSUME NEW c, Indexed(c), Apart(c), NEW v
  PROVE  Indexed(InvalidateRegion(c, v)) /\ Apart(InvalidateRegion(c, v))
<1>1. CASE v \notin DOMAIN c.regions
  BY <1>1 DEF InvalidateRegion
<1>2. CASE v \in DOMAIN c.regions
  <2> DEFINE d == Evict(c, {v})
  <2>1. /\ DOMAIN d = {"regions", "byKey", "byId", "expired"}
        /\ DOMAIN d.regions = DOMAIN c.regions \ {v}
        /\ \A w \in DOMAIN d.regions : d.regions[w] = c.regions[w]
        /\ DOMAIN d.byKey = DOMAIN c.byKey \ {c.regions[v].start}
        /\ \A k \in DOMAIN d.byKey : d.byKey[k] = c.byKey[k]
        /\ DOMAIN d.byId = DOMAIN c.byId \ {c.regions[v].id}
        /\ \A i \in DOMAIN d.byId : d.byId[i] = c.byId[i]
        /\ d.expired = c.expired \ {v}
    BY DEF Evict, Without
  <2> HIDE DEF d
  <2>2. Indexed(d)
    BY <1>2, <2>1, SMTT(20) DEF Indexed
  <2>3. Apart(d)
    BY <2>1 DEF Apart
  <2> QED
    BY <1>2, <2>2, <2>3 DEF InvalidateRegion, d
<1> QED
  BY <1>1, <1>2

(* A new leader changes neither the range nor the version of a region. *)
LEMMA UpdateLeaderKeeps ==
  ASSUME NEW c, Indexed(c), Apart(c), NEW v, NEW x \in Stores \cup {None}
  PROVE  Indexed(UpdateLeader(c, v, x)) /\ Apart(UpdateLeader(c, v, x))
<1>1. CASE v \notin DOMAIN c.regions
  BY <1>1 DEF UpdateLeader
<1>2. CASE v \in DOMAIN c.regions
  <2> DEFINE d == UpdateLeader(c, v, x)
             g == [c.regions[v] EXCEPT !.leader = x]
  <2>1. /\ DOMAIN d = {"regions", "byKey", "byId", "expired"}
        /\ DOMAIN d.regions = DOMAIN c.regions
        /\ d.regions[v] = g
        /\ \A w \in DOMAIN d.regions : w # v => d.regions[w] = c.regions[w]
        /\ d.byKey = c.byKey /\ d.byId = c.byId /\ d.expired = c.expired \ {v}
    BY <1>2 DEF UpdateLeader, With, Indexed
  <2>2. Known(c.regions[v])
    BY <1>2 DEF Indexed
  <2>3. /\ DOMAIN g = DOMAIN c.regions[v]
        /\ VerId(g) = VerId(c.regions[v]) /\ SameRange(g, c.regions[v]) /\ g.id = c.regions[v].id
        /\ g.peers = c.regions[v].peers /\ g.leader = x
    BY <2>2 DEF Known, VerId, SameRange
  <2> HIDE DEF d, g
  <2>4. Known(g)
    BY <2>2, <2>3 DEF Known, SameRange
  <2>5. \A w \in DOMAIN d.regions :
          /\ Known(d.regions[w]) /\ VerId(d.regions[w]) = VerId(c.regions[w])
          /\ SameRange(d.regions[w], c.regions[w]) /\ d.regions[w].id = c.regions[w].id
    BY <1>2, <2>1, <2>3, <2>4 DEF Indexed, SameRange
  <2>6. Indexed(d)
    <3>1. \A w \in DOMAIN d.regions :
            /\ Known(d.regions[w]) /\ VerId(d.regions[w]) = w
            /\ d.regions[w].start \in DOMAIN d.byKey /\ d.byKey[d.regions[w].start] = w
            /\ d.regions[w].id \in DOMAIN d.byId /\ d.byId[d.regions[w].id] = w
      <4>1. \A w \in DOMAIN c.regions :
              /\ VerId(c.regions[w]) = w
              /\ c.regions[w].start \in DOMAIN c.byKey /\ c.byKey[c.regions[w].start] = w
              /\ c.regions[w].id \in DOMAIN c.byId /\ c.byId[c.regions[w].id] = w
        BY DEF Indexed
      <4> QED
        BY <2>1, <2>5, <4>1 DEF SameRange
    <3>2. \A k \in DOMAIN d.byKey :
            d.byKey[k] \in DOMAIN d.regions /\ d.regions[d.byKey[k]].start = k
      BY <2>1, <2>5, SMTT(20) DEF Indexed, SameRange
    <3>3. \A i \in DOMAIN d.byId :
            d.byId[i] \in DOMAIN d.regions /\ d.regions[d.byId[i]].id = i
      BY <2>1, <2>5, SMTT(20) DEF Indexed
    <3>4. d.expired \subseteq DOMAIN d.regions
      BY <2>1 DEF Indexed
    <3> QED
      BY <2>1, <3>1, <3>2, <3>3, <3>4 DEF Indexed
  <2>7. Apart(d)
    BY <2>1, <2>5, SMTT(20) DEF Apart, Disjoint, SameRange
  <2> QED
    BY <2>6, <2>7 DEF d
<1> QED
  BY <1>1, <1>2

----------------------------------------------------------------------------
(* The steps *)

(* Outside AddFetched and Expire a step keeps the cache, removes a version   *)
(* or gives one a new leader.                                                *)
CacheKept ==
  \/ cache' = cache
  \/ \E v : cache' = InvalidateRegion(cache, v)
  \/ \E v : \E x \in Stores \cup {None} : cache' = UpdateLeader(cache, v, x)

(* Such a step keeps the cache good. *)
LEMMA KeptIsGood ==
  ASSUME CacheGood(cache), CacheKept
  PROVE  CacheGood(cache')
<1>1. CASE cache' = cache
  BY <1>1
<1>2. CASE \E v : cache' = InvalidateRegion(cache, v)
  BY <1>2, InvalidateKeeps DEF CacheGood
<1>3. CASE \E v : \E x \in Stores \cup {None} : cache' = UpdateLeader(cache, v, x)
  BY <1>3, UpdateLeaderKeeps DEF CacheGood
<1> QED
  BY <1>1, <1>2, <1>3 DEF CacheKept

(* Dropping lookups and starting new ones adds nothing to the cache. *)
LEMMA LookupsChange ==
  ASSUME NEW f, LookGood(f)
  PROVE  /\ \A S : LookGood(Without(f, S))
         /\ \A l : l[1] \in Requests => LookGood(With(f, l, NewLookup))
<1>1. \A l : l[1] \in Requests => Looked(l, NewLookup)
  BY DEF Looked, NewLookup
<1> QED
  BY <1>1 DEF LookGood, With, Without

(* A lookup by key is the request's own. *)
LEMMA OwnLookup == \A r, k : KeyLookup(r, k)[1] = r
  BY DEF KeyLookup

(* A request that fails only drops lookups. *)
LEMMA LeaveLook ==
  ASSUME LookGood(look), NEW r, NEW plans, NEW shards, NEW keys, NEW top,
         LeaveWithError(r, plans, shards, keys, top)
  PROVE  LookGood(look')
<1> QED
  BY LookupsChange, SMTT(20) DEF LeaveWithError

(* A shard that is planned again only starts a lookup. *)
LEMMA ReplanLook ==
  ASSUME LookGood(look), NEW r \in Requests, NEW t, NEW attempt, NEW tries,
         Replan(r, t, attempt, tries)
  PROVE  LookGood(look')
<1> QED
  BY LookupsChange, OwnLookup DEF Replan

(* A failing shard and one that backs off leave the lookups good. *)
LEMMA BackoffLook ==
  ASSUME LookGood(look), NEW r \in Requests, NEW t, NEW attempt
  PROVE  /\ FailTask(r, t) => LookGood(look')
         /\ BackoffOrFail(r, t, attempt) => LookGood(look')
<1>1. ASSUME FailTask(r, t) PROVE LookGood(look')
  <2>1. LeaveWithError(r, {}, {t}, t.keys, FALSE)
    BY <1>1 DEF FailTask
  <2> QED
    BY <2>1, LeaveLook
<1>2. ASSUME BackoffOrFail(r, t, attempt) PROVE LookGood(look')
  <2>1. Replan(r, t, attempt, t.tries + 1) \/ FailTask(r, t)
    BY <1>2 DEF BackoffOrFail
  <2> QED
    BY <1>1, <2>1, ReplanLook
<1> QED
  BY <1>1, <1>2

(* What every step of a request does to the layouts, the cache, the lookups. *)
StepGood == UNCHANGED <<hist, now, pd, inFlight>> /\ CacheKept /\ LookGood(look')

(* Receiving an answer changes no layout. *)
LEMMA ReceiveKeeps ==
  ASSUME NEW t, NEW e, Receive(t, e)
  PROVE  UNCHANGED <<hist, now, pd>>
<1> QED
  BY DEF Receive, Fault, clusterVars

(* A leader that an answer names is a store, and not the one that answers. *)
LeaderNamed(e, store) ==
  /\ e.leader \in Stores \cup {None}
  /\ e.kind = "not_leader" /\ e.leader # None => e.leader # store

(* What the stores of a layout may answer. *)
LEMMA AnswersOfLayout ==
  ASSUME HistoryInv, NEW i \in 1..Len(hist), NEW g, NEW peer, NEW addr,
         NEW e \in StoreAnswers(hist[i], g, peer, addr)
  PROVE  LeaderNamed(e, peer.store) /\ e.kind # "data_is_not_ready"
<1> DEFINE h == RegionWithId(hist[i], g.id)
<1>1. ASSUME HasId(hist[i], g.id)
      PROVE  h.leader \in Stores \cup {None}
  <2>1. h \in hist[i].regions
    BY <1>1 DEF HasId, RegionWithId
  <2> QED
    BY <2>1, Layouts DEF IsRegion
<1> HIDE DEF h
<1>2. \/ \E k \in {"grpc", "store_not_match", "region_not_found", "ok"} : e = Answer(k)
      \/ HasId(hist[i], g.id) /\ peer.store # h.leader /\ e = NotLeader(h.leader)
      \/ e = EpochNotMatch({h})
  BY SMTT(20) DEF StoreAnswers, h
<1> QED
  BY <1>1, <1>2, SMTT(20) DEF LeaderNamed, Answer, NotLeader, EpochNotMatch

(* The same of what a request may receive; only a stale read is told that    *)
(* the data is not ready.                                                    *)
LEMMA AnswersNameStores ==
  ASSUME HistoryInv, NEW g, NEW peer, NEW addr,
         NEW e \in StoreAnswers(hist[now], g, peer, addr) \cup FaultyAnswers(g, peer, addr)
  PROVE  LeaderNamed(e, peer.store) /\ (e.kind = "data_is_not_ready" => peer.stale)
<1>1. CASE \E i \in 1..now : e \in StoreAnswers(hist[i], g, peer, addr)
  BY <1>1, Layouts, AnswersOfLayout
<1>2. CASE \E k \in {"grpc", "other", "key_error", "server_is_busy", "stale_command",
                    "read_index_not_ready", "raft_entry_too_large", "unknown"} : e = Answer(k)
  BY <1>2, SMTT(20) DEF LeaderNamed, Answer
<1>3. CASE e = NotLeader(None) \/ e = EpochNotMatch({})
  BY <1>3, SMTT(20) DEF LeaderNamed, NotLeader, EpochNotMatch
<1>4. CASE peer.stale /\ e = Answer("data_is_not_ready")
  BY <1>4, SMTT(20) DEF LeaderNamed, Answer
<1>5. now \in 1..now /\ \A i \in 1..(now - 1) : i \in 1..now
  BY Layouts, SMTT(20) DEF HistoryInv
<1> QED
  BY <1>1, <1>2, <1>3, <1>4, <1>5 DEF FaultyAnswers

(* A region error names a store as the new leader, if any. *)
LEMMA RegionAfterKept ==
  ASSUME NEW e, NEW g, e.leader \in Stores \cup {None}, cache' = RegionAfter(e, g)
  PROVE  CacheKept
<1> QED
  BY DEF RegionAfter, CacheKept

(* The reaction to a region error is such a step. *)
LEMMA OnRegionErrorGood ==
  ASSUME LookGood(look), UNCHANGED <<hist, now, pd>>, NEW r \in Requests, NEW t, NEW e, NEW rt,
         e.leader \in Stores \cup {None}, OnRegionError(r, t, e, rt)
  PROVE  StepGood
<1>1. CacheKept /\ inFlight' = inFlight
  BY RegionAfterKept DEF OnRegionError
<1>2. \/ FailTask(r, t)
      \/ Replan(r, t, NextAttempt(t.attempt), t.tries)
      \/ BackoffOrFail(r, t, NextAttempt(t.attempt))
  BY DEF OnRegionError
<1>3. LookGood(look')
  BY <1>2, BackoffLook, ReplanLook
<1> QED
  BY <1>1, <1>3 DEF StepGood

(* Every step of a plan is such a step. *)
LEMMA PlanStepGood ==
  ASSUME HistoryInv, LookGood(look), NEW r \in Requests, PlanStep(r)
  PROVE  StepGood
<1>1. CASE GroupKeys(r)
  <2>1. UNCHANGED <<hist, now, pd, inFlight>> /\ CacheKept
    BY <1>1 DEF GroupKeys, clusterVars, CacheKept
  <2>2. \E S, l : l[1] = r /\ (look' = Without(look, S) \/ look' = With(Without(look, S), l, NewLookup))
    BY <1>1, OwnLookup DEF GroupKeys
  <2> QED
    BY <2>1, <2>2, LookupsChange DEF StepGood
<1>2. CASE PlanFails(r)
  <2>1. UNCHANGED <<hist, now, pd, inFlight>> /\ CacheKept
    BY <1>2 DEF PlanFails, clusterVars, CacheKept
  <2>2. PICK p \in planning[r] : LeaveWithError(r, {p}, {}, p.keys, p.top)
    BY <1>2 DEF PlanFails
  <2> QED
    BY <2>1, <2>2, LeaveLook DEF StepGood
<1>3. CASE LeaderNotFound(r)
  <2>1. UNCHANGED <<hist, now, pd, inFlight>> /\ CacheKept
    BY <1>3 DEF LeaderNotFound, clusterVars, CacheKept
  <2>2. \E t, n : BackoffOrFail(r, t, n)
    BY <1>3 DEF LeaderNotFound
  <2> QED
    BY <2>1, <2>2, BackoffLook DEF StepGood
<1>4. CASE SelectReadPeer(r)
  BY <1>4 DEF SelectReadPeer, UpdateTask, clusterVars, CacheKept, StepGood, LookGood
<1>5. CASE MapRegionToStore(r)
  <2>1. UNCHANGED <<hist, now, pd, inFlight>> /\ CacheKept
    BY <1>5 DEF MapRegionToStore, clusterVars, CacheKept
  <2>2. (\E t : FailTask(r, t)) \/ look' = look
    BY <1>5 DEF MapRegionToStore, UpdateTask
  <2> QED
    BY <2>1, <2>2, BackoffLook DEF StepGood
<1>6. CASE MapFails(r)
  <2>1. UNCHANGED <<hist, now, pd, inFlight>> /\ CacheKept
    BY <1>6 DEF MapFails, Fault, CacheKept
  <2>2. \E t : FailTask(r, t)
    BY <1>6 DEF MapFails
  <2> QED
    BY <2>1, <2>2, BackoffLook DEF StepGood
<1>7. CASE AcquirePermit(r)
  BY <1>7 DEF AcquirePermit, UpdateTask, clusterVars, CacheKept, StepGood, LookGood
<1>8. CASE Respond(r)
  <2>1. PICK t \in tasks[r], kind \in {"ok", "key_error"} :
          Receive(t, Answer(kind)) /\ UNCHANGED <<cache, look, inFlight>>
    BY <1>8 DEF Respond
  <2> QED
    BY <2>1, ReceiveKeeps DEF StepGood, CacheKept
<1>9. CASE GrpcError(r)
  <2>1. PICK t \in tasks[r] :
          /\ Receive(t, Answer("grpc"))
          /\ cache' = InvalidateRegion(cache, VerId(t.region)) /\ inFlight' = inFlight
          /\ BackoffOrFail(r, t, NextAttempt(NextAttempt(t.attempt)))
    BY <1>9 DEF GrpcError
  <2> QED
    BY <2>1, ReceiveKeeps, BackoffLook DEF StepGood, CacheKept
<1>10. CASE OtherError(r)
  <2>1. PICK t \in tasks[r] :
          Receive(t, Answer("other")) /\ FailTask(r, t) /\ UNCHANGED <<cache, inFlight>>
    BY <1>10 DEF OtherError
  <2> QED
    BY <2>1, ReceiveKeeps, BackoffLook DEF StepGood, CacheKept
<1>11. CASE DataIsNotReady(r)
  <2>1. PICK t \in tasks[r] :
          /\ Receive(t, Answer("data_is_not_ready"))
          /\ FailTask(r, t) \/ Replan(r, t, NextAttempt(t.attempt), t.tries)
          /\ UNCHANGED <<cache, inFlight>>
    BY <1>11 DEF DataIsNotReady
  <2>2. LookGood(look')
    BY <2>1, BackoffLook, ReplanLook
  <2> QED
    BY <2>1, <2>2, ReceiveKeeps DEF StepGood, CacheKept
<1>12. CASE StaleCommandOnReplica(r)
  <2>1. PICK t \in tasks[r] :
          /\ Receive(t, Answer("stale_command"))
          /\ FailTask(r, t) \/ Replan(r, t, NextAttempt(t.attempt), t.tries)
          /\ cache' = cache \/ cache' = InvalidateRegion(cache, VerId(t.region))
          /\ inFlight' = inFlight
    BY <1>12 DEF StaleCommandOnReplica
  <2>2. LookGood(look')
    BY <2>1, BackoffLook, ReplanLook
  <2> QED
    BY <2>1, <2>2, ReceiveKeeps DEF StepGood, CacheKept
<1>13. CASE RegionError(r)
  <2>1. PICK t, e :
          /\ e \in StoreAnswers(hist[now], t.region, t.peer, t.addr)
                    \cup FaultyAnswers(t.region, t.peer, t.addr)
          /\ Receive(t, e) /\ OnRegionError(r, t, e, routing[r])
    BY <1>13 DEF RegionError
  <2>2. e.leader \in Stores \cup {None}
    BY <2>1, AnswersNameStores DEF LeaderNamed
  <2>3. UNCHANGED <<hist, now, pd>>
    BY <2>1, ReceiveKeeps
  <2> QED
    BY <2>1, <2>2, <2>3, OnRegionErrorGood
<1>14. CASE LockedStaleRead(r)
  <2>1. PICK t : Fault /\ OnRegionError(r, t, EpochNotMatch({}), ForceLeader(routing[r]))
    BY <1>14 DEF LockedStaleRead
  <2>2. UNCHANGED <<hist, now, pd>>
    BY <2>1 DEF Fault
  <2>3. EpochNotMatch({}).leader \in Stores \cup {None}
    BY DEF EpochNotMatch
  <2> QED
    BY <2>1, <2>2, <2>3, OnRegionErrorGood
<1>15. CASE Locked(r)
  <2>1. UNCHANGED <<hist, now, pd, inFlight>> /\ CacheKept
    BY <1>15 DEF Locked, Fault, CacheKept
  <2>2. (\E t : FailTask(r, t)) \/ look' = look
    BY <1>15 DEF Locked, UpdateTask
  <2> QED
    BY <2>1, <2>2, BackoffLook DEF StepGood
<1>16. CASE PlanDone(r)
  BY <1>16 DEF PlanDone, clusterVars, cacheVars, CacheKept, StepGood
<1> QED
  BY <1>1, <1>2, <1>3, <1>4, <1>5, <1>6, <1>7, <1>8, <1>9, <1>10, <1>11, <1>12, <1>13,
     <1>14, <1>15, <1>16 DEF PlanStep

(* Every step of a raw scan is such a step. *)
LEMMA ScanStepGood ==
  ASSUME HistoryInv, LookGood(look), NEW r \in Requests, ScanStep(r)
  PROVE  StepGood
<1>1. CASE ScanRegionFound(r) \/ ScanStoreFound(r) \/ ScanLookupFails(r)
  <2>1. UNCHANGED <<hist, now, pd, inFlight>> /\ CacheKept
    BY <1>1 DEF ScanRegionFound, ScanStoreFound, ScanLookupFails, clusterVars, CacheKept
  <2>2. \E S, l : l[1] = r /\ (look' = Without(look, S) \/ look' = With(Without(look, S), l, NewLookup))
    <3>1. ASSUME NEW i PROVE <<r, i>>[1] = r
      OBVIOUS
    <3>2. CASE ScanRegionFound(r)
      BY <3>1, <3>2 DEF ScanRegionFound
    <3>3. CASE ScanStoreFound(r) \/ ScanLookupFails(r)
      BY <3>1, <3>3 DEF ScanStoreFound, ScanLookupFails
    <3> QED
      BY <1>1, <3>2, <3>3
  <2> QED
    BY <2>1, <2>2, LookupsChange DEF StepGood
<1>2. ASSUME NEW e, ScanReceive(r, e)
      PROVE  UNCHANGED <<hist, now, pd>>
  BY <1>2 DEF ScanReceive, Fault, clusterVars
<1>3. CASE ScanOk(r)
  <2>1. ScanReceive(r, Answer("ok")) /\ CacheKept /\ inFlight' = inFlight
    BY <1>3 DEF ScanOk, CacheKept
  <2>2. look' = look \/ \E l : l[1] = r /\ look' = With(look, l, NewLookup)
    BY <1>3, OwnLookup DEF ScanOk, ScanAdvance
  <2> QED
    BY <1>2, <2>1, <2>2, LookupsChange DEF StepGood
<1>4. CASE ScanRegionError(r)
  <2>1. PICK e :
          /\ e \in StoreAnswers(hist[now], scan[r].store, ScanPeer(r), scan[r].addr)
                    \cup FaultyAnswers(scan[r].store, ScanPeer(r), scan[r].addr)
          /\ ScanReceive(r, e) /\ cache' = RegionAfter(e, scan[r].store) /\ inFlight' = inFlight
    BY <1>4 DEF ScanRegionError
  <2>2. look' = look \/ \E l : l[1] = r /\ look' = With(look, l, NewLookup)
    BY <1>4, OwnLookup DEF ScanRegionError, ScanKeyLookup
  <2>3. e.leader \in Stores \cup {None}
    BY <2>1, AnswersNameStores DEF LeaderNamed
  <2>4. CacheKept
    BY <2>1, <2>3, RegionAfterKept
  <2> QED
    BY <1>2, <2>1, <2>2, <2>4, LookupsChange DEF StepGood
<1>5. CASE ScanError(r)
  <2>1. PICK kind : ScanReceive(r, Answer(kind)) /\ UNCHANGED <<cache, look, inFlight>>
    BY <1>5 DEF ScanError, cacheVars
  <2> QED
    BY <1>2, <2>1 DEF StepGood, CacheKept
<1> QED
  BY <1>1, <1>3, <1>4, <1>5 DEF ScanStep

(* A region PD reports is known and fits what it was asked for. *)
LEMMA PdRegionsFit ==
  ASSUME HistoryInv, NEW t, NEW g \in RegionsFor(hist[pd], t)
  PROVE  Fits(g, t)
<1>1. pd \in 1..now /\ g \in hist[pd].regions
  BY DEF HistoryInv, RegionsFor
<1>2. IsRegion(g)
  BY <1>1, Layouts
<1>3. /\ DOMAIN g = {"id", "conf", "ver", "start", "end", "peers", "leader"}
      /\ g.start \in Nat /\ g.end \in Nat
      /\ g.end = NoKey \/ g.start < g.end
      /\ g.peers \subseteq Stores /\ g.leader \in Stores \cup {None}
  BY <1>2 DEF IsRegion
<1>4. Matches(g, t)
  BY DEF RegionsFor, Matches
<1> QED
  BY <1>1, <1>3, <1>4 DEF Fits, Known, SameRange

(* So is a region the cache answers with. *)
LEMMA HitsFit ==
  ASSUME CacheGood(cache), NEW t, NEW g \in Hits(cache, t)
  PROVE  Fits(g, t)
<1>1. PICK v \in Candidates(cache, t) \cap DOMAIN cache.regions :
        g = cache.regions[v] /\ (t[1] = "key" => Contains(cache.regions[v], t[2]))
  BY DEF Hits
<1>2. Known(g)
  BY <1>1 DEF CacheGood, Indexed
<1>3. ASSUME t[1] # "key"
      PROVE  g.id = t[2]
  <2>1. t[2] \in DOMAIN cache.byId /\ v = cache.byId[t[2]]
    BY <1>1, <1>3 DEF Candidates
  <2> QED
    BY <1>1, <2>1 DEF CacheGood, Indexed
<1> QED
  BY <1>1, <1>2, <1>3 DEF Fits, Matches

(* One lookup moves on. *)
LEMMA LookupMoves ==
  ASSUME LookGood(look), NEW l \in DOMAIN look, Looked(l, look'[l]),
         DOMAIN look' = DOMAIN look, \A m \in DOMAIN look : m # l => look'[m] = look[m]
  PROVE  LookGood(look')
<1> QED
  BY DEF LookGood

(* A lookup keeps the cache good, and adds to it only what PD reported. *)
LEMMA LookupStepGood ==
  ASSUME HistoryInv, CacheGood(cache), LookGood(look), LoadersGood(inFlight),
         NEW l \in DOMAIN look, LookupStep(l)
  PROVE  /\ UNCHANGED <<hist, now, pd>>
         /\ CacheGood(cache') /\ LookGood(look') /\ LoadersGood(inFlight')
<1>1. UNCHANGED <<hist, now, pd>>
  BY DEF LookupStep, clusterVars, Fault
<1>2. Looked(l, look[l])
  BY DEF LookGood
<1>3. ASSUME NEW pc, pc \notin {"add", "done"}, Goto(l, pc)
      PROVE  LookGood(look')
  <2>1. Looked(l, [look[l] EXCEPT !.pc = pc])
    BY <1>2, <1>3 DEF Looked
  <2>2. /\ look'[l] = [look[l] EXCEPT !.pc = pc] /\ DOMAIN look' = DOMAIN look
        /\ \A m \in DOMAIN look : m # l => look'[m] = look[m]
    BY <1>3 DEF Goto
  <2> QED
    BY <2>1, <2>2, LookupMoves
<1>4. ASSUME NEW pc, NEW g, Fits(g, l[2]), look' = [look EXCEPT ![l].pc = pc, ![l].region = g]
      PROVE  LookGood(look')
  <2>1. Looked(l, [look[l] EXCEPT !.pc = pc, !.region = g])
    BY <1>2, <1>4 DEF Looked
  <2>2. /\ look'[l] = [look[l] EXCEPT !.pc = pc, !.region = g] /\ DOMAIN look' = DOMAIN look
        /\ \A m \in DOMAIN look : m # l => look'[m] = look[m]
    BY <1>4
  <2> QED
    BY <2>1, <2>2, LookupMoves
<1>5. CASE CheckMiss(l) \/ AwaitNotified(l) \/ FetchFails(l)
  BY <1>1, <1>3, <1>5 DEF CheckMiss, AwaitNotified, FetchFails
<1>6. CASE ClearInFlight(l)
  <2>1. cache' = cache /\ LookGood(look')
    BY <1>3, <1>6 DEF ClearInFlight
  <2>2. LoadersGood(inFlight')
    BY <1>6 DEF ClearInFlight, LoadersGood, Without
  <2> QED
    BY <1>1, <2>1, <2>2
<1>7. CASE CheckHit(l)
  <2>1. PICK g \in Hits(cache, l[2]) : look' = [look EXCEPT ![l].pc = "done", ![l].region = g]
    BY <1>7 DEF CheckHit
  <2>2. LookGood(look')
    BY <1>4, <2>1, HitsFit
  <2> QED
    BY <1>1, <1>7, <2>2 DEF CheckHit
<1>8. CASE JoinInFlight(l)
  <2>1. cache' = cache
    BY <1>8 DEF JoinInFlight
  <2>2. CASE l[2] \in DOMAIN inFlight
    <3>1. /\ look' = [look EXCEPT ![l].pc = "joined", ![l].of = inFlight[l[2]]]
          /\ inFlight' = inFlight
      BY <1>8, <2>2 DEF JoinInFlight
    <3>2. inFlight[l[2]] \in Requests
      BY <2>2 DEF LoadersGood
    <3>3. Looked(l, [look[l] EXCEPT !.pc = "joined", !.of = inFlight[l[2]]])
      BY <1>2, <3>2 DEF Looked
    <3>4. /\ look'[l] = [look[l] EXCEPT !.pc = "joined", !.of = inFlight[l[2]]]
          /\ DOMAIN look' = DOMAIN look /\ \A m \in DOMAIN look : m # l => look'[m] = look[m]
      BY <3>1
    <3>5. LookGood(look')
      BY <3>3, <3>4, LookupMoves
    <3> QED
      BY <1>1, <2>1, <3>1, <3>5
  <2>3. CASE l[2] \notin DOMAIN inFlight
    <3>1. Goto(l, "double") /\ inFlight' = With(inFlight, l[2], l[1])
      BY <1>8, <2>3 DEF JoinInFlight
    <3>2. LoadersGood(inFlight')
      BY <1>2, <3>1 DEF LoadersGood, With, Looked
    <3> QED
      BY <1>1, <1>3, <2>1, <3>1, <3>2
  <2> QED
    BY <2>2, <2>3
<1>9. CASE DoubleCheck(l)
  <2>1. UNCHANGED <<cache, inFlight>>
    BY <1>9 DEF DoubleCheck
  <2>2. Goto(l, "fetch") \/ \E g \in Hits(cache, l[2]) :
                              look' = [look EXCEPT ![l].pc = "clear", ![l].region = g]
    BY <1>9 DEF DoubleCheck
  <2>3. LookGood(look')
    BY <1>3, <1>4, <2>2, HitsFit
  <2> QED
    BY <1>1, <2>1, <2>3
<1>10. CASE FetchAnswer(l)
  <2>1. UNCHANGED <<cache, inFlight>>
    BY <1>10 DEF FetchAnswer
  <2>2. Goto(l, "clear") \/ \E g \in RegionsFor(hist[pd], l[2]) :
                              look' = [look EXCEPT ![l].pc = "add", ![l].region = g]
    BY <1>10 DEF FetchAnswer
  <2>3. LookGood(look')
    BY <1>3, <1>4, <2>2, PdRegionsFit
  <2> QED
    BY <1>1, <2>1, <2>3
<1>11. CASE AddFetched(l)
  <2>1. Known(look[l].region) /\ cache' = AddRegion(cache, look[l].region)
    BY <1>2, <1>11 DEF AddFetched, Looked, Fits
  <2>2. CacheGood(cache')
    BY <2>1, AddRegionApart, AddRegionIndexed DEF CacheGood
  <2> QED
    BY <1>1, <1>3, <1>11, <2>2 DEF AddFetched
<1>12. CASE NotifyWaiters(l)
  <2>1. ASSUME NEW m \in DOMAIN look
        PROVE  Looked(m, Wake(m, l))
    <3>1. Looked(m, look[m])
      BY DEF LookGood
    <3>2. CASE m = l
      <4>1. Wake(m, l) = [look[m] EXCEPT !.pc = IF look[m].region = None THEN "failed" ELSE "done"]
        BY <3>2, SMTT(20) DEF Wake
      <4> QED
        BY <3>1, <4>1, SMTT(20) DEF Looked
    <3>3. CASE m # l
      <4>1. \/ Wake(m, l) = [look[m] EXCEPT !.pc = "check", !.of = None]
            \/ Wake(m, l) = [look[m] EXCEPT !.pc = "orphan"]
            \/ Wake(m, l) = look[m]
        BY <3>3, SMTT(20) DEF Wake
      <4>2. CASE Wake(m, l) = [look[m] EXCEPT !.pc = "check", !.of = None]
        BY <3>1, <4>2 DEF Looked
      <4>3. CASE Wake(m, l) = [look[m] EXCEPT !.pc = "orphan"]
        BY <3>1, <4>3 DEF Looked
      <4> QED
        BY <3>1, <4>1, <4>2, <4>3
    <3> QED
      BY <3>2, <3>3
  <2>2. LookGood(look')
    BY <1>12, <2>1 DEF NotifyWaiters, LookGood
  <2> QED
    BY <1>1, <1>12, <2>2 DEF NotifyWaiters
<1> QED
  BY <1>5, <1>6, <1>7, <1>8, <1>9, <1>10, <1>11, <1>12 DEF LookupStep

(* Time goes forward. *)
NotBack == hist' = hist /\ \A i \in 1..now : i \in 1..now'

(* The environment keeps the histories, the cache and the lookups good. *)
LEMMA EnvironmentGood ==
  ASSUME HistoryInv, CacheGood(cache), LookGood(look), LoadersGood(inFlight), Environment
  PROVE  NotBack /\ HistoryInv' /\ CacheGood(cache') /\ LookGood(look') /\ LoadersGood(inFlight')
<1>1. CASE (ClusterChange \/ PdCatchUp) /\ UNCHANGED <<cacheVars, planVars, scan>>
  <2>1. UNCHANGED <<hist, cache, inFlight, look>>
    BY <1>1 DEF ClusterChange, PdCatchUp, cacheVars
  <2>2. now' \in 1..Len(hist) /\ pd' \in 1..now' /\ \A i \in 1..now : i \in 1..now'
    BY <1>1, Layouts, SMTT(20) DEF ClusterChange, PdCatchUp, HistoryInv
  <2>3. HistoryInv'
    BY <2>1, <2>2 DEF HistoryInv
  <2> QED
    BY <2>1, <2>2, <2>3 DEF NotBack
<1>2. CASE EntryExpires
  <2>1. UNCHANGED <<hist, now, pd>> /\ UNCHANGED <<inFlight, look>>
    BY <1>2 DEF EntryExpires, Expire, Fault
  <2>2. /\ DOMAIN cache' = DOMAIN cache
        /\ cache'.regions = cache.regions
        /\ cache'.byKey = cache.byKey
        /\ cache'.byId = cache.byId
        /\ cache'.expired \subseteq DOMAIN cache.regions
    <3>1. PICK v \in DOMAIN cache.regions : cache' = [cache EXCEPT !.expired = @ \cup {v}]
      BY <1>2 DEF EntryExpires, Expire
    <3>2. /\ DOMAIN cache = {"regions", "byKey", "byId", "expired"}
          /\ cache.expired \subseteq DOMAIN cache.regions
      BY DEF CacheGood, Indexed
    <3>3. cache'.expired = cache.expired \cup {v}
      BY <3>1, <3>2
    <3> QED
      BY <3>1, <3>2, <3>3
  <2>3. CacheGood(cache')
    BY <2>2 DEF CacheGood, Indexed, Apart
  <2> QED
    BY <2>1, <2>3 DEF HistoryInv, NotBack
<1>3. CASE (\E s \in Stores : SlowEnds(s)) /\ UNCHANGED scan
  BY <1>3 DEF SlowEnds, clusterVars, cacheVars, HistoryInv, NotBack
<1> QED
  BY <1>1, <1>2, <1>3 DEF Environment

(* The inductive invariant holds at first. *)
LEMMA InitIInv == Init => IInv
<1> SUFFICES ASSUME Init PROVE IInv
  OBVIOUS
<1>1. HistoryInv
  <2>1. PICK s \in Scenarios : ClusterInit(s)
    BY DEF Init
  <2> QED
    <3>1. hist = s.hist /\ now = 1 /\ pd = 1
      BY <2>1 DEF ClusterInit
    <3>2. Len(s.hist) \in Nat \ {0}
      BY ScenariosAssumption
    <3> QED
      BY <3>1, <3>2, SMTT(20) DEF HistoryInv
<1>2. CacheGood(cache)
  BY DEF Init, EmptyCache, EmptyFcn, CacheGood, Indexed, Apart
<1>3. LookGood(look)
  <2>1. look = [l \in {KeyLookup(r, FirstLookup(work[r])) :
                         r \in {q \in Requests : work[q].kind # "idle"}} |-> NewLookup]
    BY DEF Init
  <2>2. ASSUME NEW l \in DOMAIN look
        PROVE  l[1] \in Requests /\ look[l] = NewLookup
    <3>1. \E r \in Requests : l = KeyLookup(r, FirstLookup(work[r]))
      BY <2>1
    <3>2. look[l] = NewLookup
      BY <2>1
    <3> QED
      BY <3>1, <3>2, OwnLookup
  <2>3. \A l : l[1] \in Requests => Looked(l, NewLookup)
    BY DEF NewLookup, Looked
  <2> QED
    BY <2>2, <2>3 DEF LookGood
<1>4. LoadersGood(inFlight)
  BY DEF Init, EmptyFcn, LoadersGood
<1> QED
  BY <1>1, <1>2, <1>3, <1>4 DEF IInv

(* Every step preserves it. *)
LEMMA NextIInv == IInv /\ [Next]_vars => IInv' /\ NotBack
<1> SUFFICES ASSUME IInv, [Next]_vars PROVE IInv' /\ NotBack
  OBVIOUS
<1> DEFINE After == /\ NotBack /\ HistoryInv' /\ CacheGood(cache')
                    /\ LookGood(look') /\ LoadersGood(inFlight')
<1>1. HistoryInv /\ CacheGood(cache) /\ LookGood(look) /\ LoadersGood(inFlight)
  BY DEF IInv
<1>2. After
  <2>1. ASSUME UNCHANGED <<hist, now, pd>> PROVE HistoryInv' /\ NotBack
    BY <1>1, <2>1 DEF HistoryInv, NotBack
  <2>2. CASE \E l \in DOMAIN look : LookupStep(l)
    BY <1>1, <2>1, <2>2, LookupStepGood
  <2>3. ASSUME NEW r \in Requests, PlanStep(r) \/ ScanStep(r)
        PROVE  After
    <3>1. StepGood
      BY <1>1, <2>3, PlanStepGood, ScanStepGood
    <3> QED
      BY <1>1, <2>1, <3>1, KeptIsGood DEF StepGood
  <2>4. CASE Environment
    BY <1>1, <2>4, EnvironmentGood
  <2>5. CASE UNCHANGED vars
    BY <1>1, <2>1, <2>5 DEF vars, clusterVars, cacheVars
  <2> QED
    BY <2>2, <2>3, <2>4, <2>5 DEF Next
<1>3. Indexed(cache)' /\ Apart(cache)'
  BY <1>2 DEF CacheGood, Indexed, Apart, Known, NotBack
<1>4. LookGood(look)'
  BY <1>2 DEF LookGood, Looked, Fits, Known, NotBack
<1> QED
  BY <1>2, <1>3, <1>4 DEF IInv, CacheGood, LoadersGood

(* The inductive invariant gives both properties. *)
LEMMA IInvImplies == IInv => IndexesAgree /\ NoIntersection
<1> QED
  BY DEF IInv, CacheGood, Indexed, Apart, IndexesAgree, NoIntersection

(* In every behaviour, whatever order PD's answers are cached in, the three  *)
(* indexes of the region cache name the same regions.                        *)
THEOREM CacheIndexesAgree == Spec => []IndexesAgree
<1> QED
  BY InitIInv, NextIInv, IInvImplies, PTL DEF Spec

(* In every behaviour no two regions of the cache intersect, although        *)
(* add_region stops its backward scan at the first region out of reach.      *)
THEOREM CacheNeverIntersects == Spec => []NoIntersection
<1> QED
  BY InitIInv, NextIInv, IInvImplies, PTL DEF Spec
----------------------------------------------------------------------------
(* Each key is answered once.  At any time the plans, the shards and the     *)
(* answers of a request divide its keys among them.                          *)

PlanFields == {"keys", "rest", "groups", "attempt", "tries", "top"}
TaskFields == {"pc", "keys", "region", "peer", "addr", "attempt", "tries", "locks"}

(* A plan divides its keys among the groups it has formed and the rest. *)
PlanOK(p) ==
  /\ DOMAIN p = PlanFields
  /\ \A k : k \in p.keys <=> k \in p.rest \/ \E s \in p.groups : k \in s.keys
  /\ \A s \in p.groups : \A k \in s.keys : k \notin p.rest
  /\ \A s, u \in p.groups : s # u => \A k \in s.keys : k \notin u.keys

TaskOK(t) == DOMAIN t = TaskFields

(* No two elements of S share a key; no element of S shares one with T's. *)
Distinct(S)    == \A a, b \in S : a # b => \A k \in a.keys : k \notin b.keys
Separate(S, T) == \A a \in S, b \in T : \A k \in a.keys : k \notin b.keys
KeyOf(k, S)    == \E a \in S : k \in a.keys

Divided(P, T, R) ==
  /\ Distinct(P) /\ Distinct(T) /\ Distinct(R)
  /\ Separate(P, T) /\ Separate(P, R) /\ Separate(T, R)

Covers(P, T, R, K) == \A k : k \in K <=> KeyOf(k, P) \/ KeyOf(k, T) \/ KeyOf(k, R)

ShardsOK(r) ==
  /\ \A p \in planning[r] : PlanOK(p)
  /\ \A t \in tasks[r] : TaskOK(t)
  /\ Divided(planning[r], tasks[r], results[r])
  /\ status[r] # "running" \/ work[r].kind # "plan" => planning[r] = {} /\ tasks[r] = {}
  /\ work[r].kind = "plan" /\ status[r] # "failed" =>
       Covers(planning[r], tasks[r], results[r], work[r].keys)

ShardDomains ==
  DOMAIN planning = Requests /\ DOMAIN tasks = Requests /\ DOMAIN results = Requests
  /\ DOMAIN status = Requests

ShardInv == ShardDomains /\ \A r \in Requests : ShardsOK(r)
----------------------------------------------------------------------------
(* Lemmas on dividing keys *)

(* A shard is replaced by one with its keys. *)
LEMMA SwapTask ==
  ASSUME NEW P, NEW T, NEW R, NEW t \in T, NEW u, u.keys = t.keys, Divided(P, T, R)
  PROVE  /\ Divided(P, (T \ {t}) \cup {u}, R)
         /\ \A K : Covers(P, T, R, K) => Covers(P, (T \ {t}) \cup {u}, R, K)
<1>1. Distinct((T \ {t}) \cup {u}) /\ Separate(P, (T \ {t}) \cup {u}) /\ Separate((T \ {t}) \cup {u}, R)
  BY DEF Divided, Distinct, Separate
<1>2. \A k : KeyOf(k, T) <=> KeyOf(k, (T \ {t}) \cup {u})
  BY DEF KeyOf
<1> QED
  BY <1>1, <1>2 DEF Divided, Covers

(* A plan is replaced by one with its keys. *)
LEMMA SwapPlan ==
  ASSUME NEW P, NEW T, NEW R, NEW p \in P, NEW q, q.keys = p.keys, Divided(P, T, R)
  PROVE  /\ Divided((P \ {p}) \cup {q}, T, R)
         /\ \A K : Covers(P, T, R, K) => Covers((P \ {p}) \cup {q}, T, R, K)
<1>1. Distinct((P \ {p}) \cup {q}) /\ Separate((P \ {p}) \cup {q}, T) /\ Separate((P \ {p}) \cup {q}, R)
  BY DEF Divided, Distinct, Separate
<1>2. \A k : KeyOf(k, P) <=> KeyOf(k, (P \ {p}) \cup {q})
  BY DEF KeyOf
<1> QED
  BY <1>1, <1>2 DEF Divided, Covers

(* A shard becomes a plan. *)
LEMMA TaskToPlan ==
  ASSUME NEW P, NEW T, NEW R, NEW t \in T, NEW p, p.keys = t.keys, Divided(P, T, R)
  PROVE  /\ Divided(P \cup {p}, T \ {t}, R)
         /\ \A K : Covers(P, T, R, K) => Covers(P \cup {p}, T \ {t}, R, K)
<1>1. /\ Distinct(P \cup {p}) /\ Distinct(T \ {t}) /\ Separate(P \cup {p}, T \ {t})
      /\ Separate(P \cup {p}, R) /\ Separate(T \ {t}, R)
  BY DEF Divided, Distinct, Separate
<1>2. \A k : KeyOf(k, P) \/ KeyOf(k, T) <=> KeyOf(k, P \cup {p}) \/ KeyOf(k, T \ {t})
  BY DEF KeyOf
<1> QED
  BY <1>1, <1>2 DEF Divided, Covers

(* A shard becomes an answer. *)
LEMMA TaskToAnswer ==
  ASSUME NEW P, NEW T, NEW R, NEW t \in T, NEW a, a.keys = t.keys, Divided(P, T, R)
  PROVE  /\ Divided(P, T \ {t}, R \cup {a})
         /\ \A K : Covers(P, T, R, K) => Covers(P, T \ {t}, R \cup {a}, K)
<1>1. /\ Distinct(R \cup {a}) /\ Distinct(T \ {t}) /\ Separate(P, T \ {t})
      /\ Separate(P, R \cup {a}) /\ Separate(T \ {t}, R \cup {a})
  BY DEF Divided, Distinct, Separate
<1>2. \A k : KeyOf(k, T) \/ KeyOf(k, R) <=> KeyOf(k, T \ {t}) \/ KeyOf(k, R \cup {a})
  BY DEF KeyOf
<1> QED
  BY <1>1, <1>2 DEF Divided, Covers

(* A plan becomes an answer: its error. *)
LEMMA PlanToAnswer ==
  ASSUME NEW P, NEW T, NEW R, NEW p \in P, NEW a, a.keys = p.keys, Divided(P, T, R)
  PROVE  /\ Divided(P \ {p}, T, R \cup {a})
         /\ \A K : Covers(P, T, R, K) => Covers(P \ {p}, T, R \cup {a}, K)
<1>1. /\ Distinct(R \cup {a}) /\ Distinct(P \ {p}) /\ Separate(P \ {p}, T)
      /\ Separate(P \ {p}, R \cup {a}) /\ Separate(T, R \cup {a})
  BY DEF Divided, Distinct, Separate
<1>2. \A k : KeyOf(k, P) \/ KeyOf(k, R) <=> KeyOf(k, P \ {p}) \/ KeyOf(k, R \cup {a})
  BY DEF KeyOf
<1> QED
  BY <1>1, <1>2 DEF Divided, Covers

(* A plan becomes the shards of its groups. *)
LEMMA PlanToTasks ==
  ASSUME NEW P, NEW T, NEW R, NEW p \in P, NEW U, Divided(P, T, R), Distinct(U),
         \A k : KeyOf(k, U) <=> k \in p.keys
  PROVE  /\ Divided(P \ {p}, T \cup U, R)
         /\ \A K : Covers(P, T, R, K) => Covers(P \ {p}, T \cup U, R, K)
<1>1. \A u \in U : \A k \in u.keys : k \in p.keys
  BY DEF KeyOf
<1>2. /\ Distinct(P \ {p}) /\ Separate(P \ {p}, T \cup U)
      /\ Separate(P \ {p}, R) /\ Separate(T \cup U, R)
  BY <1>1 DEF Divided, Distinct, Separate
<1>3. Distinct(T \cup U)
  <2>1. \A t \in T, u \in U : \A k : ~(k \in t.keys /\ k \in u.keys)
    BY <1>1 DEF Divided, Separate
  <2> QED
    BY <2>1 DEF Divided, Distinct
<1>4. \A k : KeyOf(k, P) <=> KeyOf(k, P \ {p}) \/ k \in p.keys
  BY DEF KeyOf
<1>5. \A k : KeyOf(k, T \cup U) <=> KeyOf(k, T) \/ KeyOf(k, U)
  BY DEF KeyOf
<1> QED
  BY <1>2, <1>3, <1>4, <1>5 DEF Divided, Covers

----------------------------------------------------------------------------
(* The ways a step changes the shards of a request *)

OthersStay(r) ==
  /\ work' = work /\ ShardDomains'
  /\ \A q \in Requests \ {r} : /\ planning'[q] = planning[q] /\ tasks'[q] = tasks[q]
                               /\ results'[q] = results[q] /\ status'[q] = status[q]

(* Only the request that takes the step matters. *)
LEMMA OthersKept ==
  ASSUME ShardInv, NEW r \in Requests, OthersStay(r), ShardsOK(r)'
  PROVE  ShardInv'
<1>1. ASSUME NEW q \in Requests \ {r}
      PROVE  ShardsOK(q)'
  <2>1. ShardsOK(q)
    BY DEF ShardInv
  <2> QED
    BY <2>1 DEF ShardsOK, OthersStay
<1> QED
  BY <1>1 DEF ShardInv, OthersStay

(* Nothing but the status of a request that is not a plan. *)
LEMMA SameShards ==
  ASSUME ShardInv, UNCHANGED <<work, planning, tasks, results>>,
         DOMAIN status' = Requests,
         \A r \in Requests : work[r].kind = "plan" => status'[r] = status[r]
  PROVE  ShardInv'
<1>1. ASSUME NEW r \in Requests
      PROVE  ShardsOK(r)'
  <2>1. ShardsOK(r)
    BY DEF ShardInv
  <2> QED
    BY <2>1 DEF ShardsOK
<1> QED
  BY <1>1 DEF ShardInv, ShardDomains

LEMMA UpdateTaskKeeps ==
  ASSUME ShardInv, NEW r \in Requests, NEW t \in tasks[r], NEW u, TaskOK(u), u.keys = t.keys,
         UpdateTask(r, t, u), work' = work
  PROVE  ShardInv'
<1>1. /\ planning' = planning /\ results' = results /\ status' = status
      /\ tasks'[r] = (tasks[r] \ {t}) \cup {u}
  BY DEF UpdateTask, ShardInv, ShardDomains
<1>2. OthersStay(r)
  BY <1>1 DEF UpdateTask, ShardInv, ShardDomains, OthersStay
<1>3. ShardsOK(r)
  BY DEF ShardInv
<1>4. /\ Divided(planning[r], (tasks[r] \ {t}) \cup {u}, results[r])
      /\ \A K : Covers(planning[r], tasks[r], results[r], K) =>
                Covers(planning[r], (tasks[r] \ {t}) \cup {u}, results[r], K)
  BY <1>3, SwapTask DEF ShardsOK
<1>5. ShardsOK(r)'
  BY <1>1, <1>2, <1>3, <1>4 DEF ShardsOK, OthersStay
<1> QED
  BY <1>2, <1>5, OthersKept

(* A new plan has formed no group yet. *)
LEMMA NewPlanOK ==
  ASSUME NEW keys, NEW attempt, NEW tries, NEW top
  PROVE  PlanOK(NewPlan(keys, attempt, tries, top)) /\ NewPlan(keys, attempt, tries, top).keys = keys
  BY DEF PlanOK, NewPlan, PlanFields

(* A shard is planned again. *)
LEMMA ReplanKeeps ==
  ASSUME ShardInv, NEW r \in Requests, NEW t \in tasks[r], NEW attempt, NEW tries,
         Replan(r, t, attempt, tries), work' = work
  PROVE  ShardInv'
<1> DEFINE p == NewPlan(t.keys, attempt, tries, FALSE)
<1>1. PlanOK(p) /\ p.keys = t.keys
  BY NewPlanOK
<1>2. /\ planning'[r] = planning[r] \cup {p} /\ results' = results /\ status' = status
      /\ tasks'[r] = tasks[r] \ {t}
  BY DEF Replan, ShardInv, ShardDomains
<1>3. OthersStay(r)
  BY <1>2 DEF Replan, ShardInv, ShardDomains, OthersStay
<1> HIDE DEF p
<1>4. ShardsOK(r)
  BY DEF ShardInv
<1>5. /\ Divided(planning[r] \cup {p}, tasks[r] \ {t}, results[r])
      /\ \A K : Covers(planning[r], tasks[r], results[r], K) =>
                Covers(planning[r] \cup {p}, tasks[r] \ {t}, results[r], K)
  BY <1>1, <1>4, TaskToPlan DEF ShardsOK
<1>6. ShardsOK(r)'
  BY <1>1, <1>2, <1>3, <1>4, <1>5 DEF ShardsOK, OthersStay
<1> QED
  BY <1>3, <1>6, OthersKept

(* An error ends the request, or is the answer of what it came from. *)
LEMMA LeaveKeeps ==
  ASSUME ShardInv, NEW r \in Requests, NEW plans, NEW shards, NEW keys, NEW top,
         LeaveWithError(r, plans, shards, keys, top), work' = work,
         \/ \E t \in tasks[r] : plans = {} /\ shards = {t} /\ keys = t.keys
         \/ \E p \in planning[r] : plans = {p} /\ shards = {} /\ keys = p.keys
  PROVE  ShardInv'
<1> DEFINE a == [keys |-> keys, ok |-> FALSE]
<1>1. a.keys = keys
  OBVIOUS
<1>2. ShardsOK(r)
  BY DEF ShardInv
<1>3. CASE work[r].preserve /\ ~top
  <2>1. /\ planning'[r] = planning[r] \ plans /\ tasks'[r] = tasks[r] \ shards
        /\ results'[r] = results[r] \cup {a} /\ status' = status
    BY <1>3 DEF LeaveWithError, ShardInv, ShardDomains
  <2>2. OthersStay(r)
    BY <1>3, <2>1 DEF LeaveWithError, ShardInv, ShardDomains, OthersStay
  <2> HIDE DEF a
  <2>3. /\ Divided(planning'[r], tasks'[r], results'[r])
        /\ \A K : Covers(planning[r], tasks[r], results[r], K) =>
                  Covers(planning'[r], tasks'[r], results'[r], K)
    <3>1. CASE \E t \in tasks[r] : plans = {} /\ shards = {t} /\ keys = t.keys
      <4>1. PICK t \in tasks[r] : plans = {} /\ shards = {t} /\ keys = t.keys
        BY <3>1
      <4>2. planning'[r] = planning[r] /\ tasks'[r] = tasks[r] \ {t}
        BY <2>1, <4>1
      <4>3. a.keys = t.keys /\ Divided(planning[r], tasks[r], results[r])
        BY <1>1, <1>2, <4>1 DEF ShardsOK
      <4>4. /\ Divided(planning[r], tasks[r] \ {t}, results[r] \cup {a})
            /\ \A K : Covers(planning[r], tasks[r], results[r], K) =>
                      Covers(planning[r], tasks[r] \ {t}, results[r] \cup {a}, K)
        BY <4>1, <4>3, TaskToAnswer
      <4> QED
        BY <2>1, <4>2, <4>4
    <3>2. CASE \E p \in planning[r] : plans = {p} /\ shards = {} /\ keys = p.keys
      <4>1. PICK p \in planning[r] : plans = {p} /\ shards = {} /\ keys = p.keys
        BY <3>2
      <4>2. planning'[r] = planning[r] \ {p} /\ tasks'[r] = tasks[r]
        BY <2>1, <4>1
      <4>3. a.keys = p.keys /\ Divided(planning[r], tasks[r], results[r])
        BY <1>1, <1>2, <4>1 DEF ShardsOK
      <4>4. /\ Divided(planning[r] \ {p}, tasks[r], results[r] \cup {a})
            /\ \A K : Covers(planning[r], tasks[r], results[r], K) =>
                      Covers(planning[r] \ {p}, tasks[r], results[r] \cup {a}, K)
        BY <4>1, <4>3, PlanToAnswer
      <4> QED
        BY <2>1, <4>2, <4>4
    <3> QED
      BY <3>1, <3>2
  <2>4. ShardsOK(r)'
    BY <1>2, <2>1, <2>2, <2>3 DEF ShardsOK, OthersStay
  <2> QED
    BY <2>2, <2>4, OthersKept
<1>4. CASE ~(work[r].preserve /\ ~top)
  <2>1. /\ planning'[r] = {} /\ tasks'[r] = {} /\ results' = results /\ status'[r] = "failed"
    BY <1>4 DEF LeaveWithError, ShardInv, ShardDomains
  <2>2. OthersStay(r)
    BY <1>4, <2>1 DEF LeaveWithError, ShardInv, ShardDomains, OthersStay
  <2>3. Divided({}, {}, results[r])
    BY <1>2 DEF ShardsOK, Divided, Distinct, Separate
  <2>4. ShardsOK(r)'
    BY <1>2, <2>1, <2>2, <2>3 DEF ShardsOK, OthersStay
  <2> QED
    BY <2>2, <2>4, OthersKept
<1> QED
  BY <1>3, <1>4

LEMMA FailTaskKeeps ==
  ASSUME ShardInv, NEW r \in Requests, NEW t \in tasks[r], FailTask(r, t), work' = work
  PROVE  ShardInv'
  BY LeaveKeeps DEF FailTask

LEMMA BackoffKeeps ==
  ASSUME ShardInv, NEW r \in Requests, NEW t \in tasks[r], NEW attempt,
         BackoffOrFail(r, t, attempt), work' = work
  PROVE  ShardInv'
  BY ReplanKeeps, FailTaskKeeps DEF BackoffOrFail

----------------------------------------------------------------------------
(* The steps of a plan *)

(* The keys a group takes leave the rest. *)
LEMMA GroupTaken ==
  ASSUME NEW p, PlanOK(p), NEW g,
         NEW q, q = [p EXCEPT !.rest = @ \ GroupOf(p.rest, g),
                              !.groups = @ \cup {[keys |-> GroupOf(p.rest, g), region |-> g]}]
  PROVE  PlanOK(q) /\ q.keys = p.keys
<1> DEFINE taken == GroupOf(p.rest, g)
           s == [keys |-> taken, region |-> g]
<1>1. taken \subseteq p.rest
  BY DEF GroupOf
<1>2. /\ DOMAIN q = PlanFields /\ q.keys = p.keys /\ q.rest = p.rest \ taken
      /\ q.groups = p.groups \cup {s}
  BY DEF PlanOK, PlanFields
<1>3. s.keys = taken
  OBVIOUS
<1> HIDE DEF s, taken
<1>4. \A k : k \in q.keys <=> k \in q.rest \/ \E u \in q.groups : k \in u.keys
  <2>1. \A k : (\E u \in q.groups : k \in u.keys) <=> k \in taken \/ \E u \in p.groups : k \in u.keys
    BY <1>2, <1>3
  <2> QED
    BY <1>1, <1>2, <2>1 DEF PlanOK
<1>5. \A u \in q.groups : \A k \in u.keys : k \notin q.rest
  BY <1>1, <1>2, <1>3 DEF PlanOK
<1>6. \A u, v \in q.groups : u # v => \A k \in u.keys : k \notin v.keys
  <2>1. \A u \in p.groups : \A k \in u.keys : k \notin taken
    BY <1>1 DEF PlanOK
  <2> QED
    BY <1>2, <1>3, <2>1 DEF PlanOK
<1> QED
  BY <1>2, <1>4, <1>5, <1>6 DEF PlanOK

(* The shards of a plan whose keys are all grouped. *)
LEMMA PlanTasks ==
  ASSUME NEW q, PlanOK(q), q.rest = {}, NEW U, U = {NewTask(q, s) : s \in q.groups}
  PROVE  /\ \A t \in U : TaskOK(t)
         /\ Distinct(U)
         /\ \A k : KeyOf(k, U) <=> k \in q.keys
<1>1. \A s : TaskOK(NewTask(q, s)) /\ NewTask(q, s).keys = s.keys
  BY DEF NewTask, TaskOK, TaskFields
<1>2. \A t \in U : \E s \in q.groups : t = NewTask(q, s)
  OBVIOUS
<1>3. Distinct(U)
  <2> SUFFICES ASSUME NEW a \in U, NEW b \in U, a # b, NEW k \in a.keys
               PROVE  k \notin b.keys
    BY DEF Distinct
  <2>1. PICK s \in q.groups : a = NewTask(q, s)
    BY <1>2
  <2>2. PICK u \in q.groups : b = NewTask(q, u)
    BY <1>2
  <2>3. s # u /\ k \in s.keys /\ b.keys = u.keys
    BY <1>1, <2>1, <2>2
  <2> QED
    BY <2>3 DEF PlanOK
<1>4. \A k : KeyOf(k, U) <=> \E s \in q.groups : k \in s.keys
  BY <1>1, <1>2 DEF KeyOf
<1>5. \A k : KeyOf(k, U) <=> k \in q.keys
  BY <1>4 DEF PlanOK
<1>6. \A t \in U : TaskOK(t)
  BY <1>1, <1>2
<1> QED
  BY <1>3, <1>5, <1>6

(* group_keys_by_region moves keys from the rest to a group, and in the end  *)
(* the groups to shards.                                                     *)
LEMMA GroupKeysKeeps ==
  ASSUME ShardInv, NEW r \in Requests, GroupKeys(r)
  PROVE  ShardInv'
<1>1. PICK p \in planning[r] :
        LET l == KeyLookup(r, FirstOf(p.rest))
            g == look[l].region
            taken == GroupOf(p.rest, g)
            q == [p EXCEPT !.rest = @ \ taken, !.groups = @ \cup {[keys |-> taken, region |-> g]}]
        IN /\ IF q.rest = {}
              THEN /\ planning' = [planning EXCEPT ![r] = @ \ {p}]
                   /\ tasks' = [tasks EXCEPT ![r] = @ \cup {NewTask(q, s) : s \in q.groups}]
              ELSE /\ planning' = [planning EXCEPT ![r] = (@ \ {p}) \cup {q}]
                   /\ UNCHANGED tasks
           /\ UNCHANGED <<work, results, status>>
  BY DEF GroupKeys
<1> DEFINE g == look[KeyLookup(r, FirstOf(p.rest))].region
           taken == GroupOf(p.rest, g)
           q == [p EXCEPT !.rest = @ \ taken, !.groups = @ \cup {[keys |-> taken, region |-> g]}]
           U == {NewTask(q, s) : s \in q.groups}
<1>2. ShardsOK(r)
  BY DEF ShardInv
<1>3. PlanOK(q) /\ q.keys = p.keys
  BY <1>2, GroupTaken DEF ShardsOK
<1>4. CASE q.rest = {}
  <2>1. /\ planning' = [planning EXCEPT ![r] = @ \ {p}]
        /\ tasks' = [tasks EXCEPT ![r] = @ \cup U]
        /\ UNCHANGED <<work, results, status>>
    BY <1>1, <1>4
  <2>2. /\ \A t \in U : TaskOK(t)
        /\ Distinct(U)
        /\ \A k : KeyOf(k, U) <=> k \in q.keys
    BY <1>3, <1>4, PlanTasks
  <2> HIDE DEF q, U
  <2>3. planning'[r] = planning[r] \ {p} /\ tasks'[r] = tasks[r] \cup U
    BY <2>1 DEF ShardInv, ShardDomains
  <2>4. OthersStay(r)
    BY <2>1 DEF ShardInv, ShardDomains, OthersStay
  <2>5. /\ Divided(planning[r] \ {p}, tasks[r] \cup U, results[r])
        /\ \A K : Covers(planning[r], tasks[r], results[r], K) =>
                  Covers(planning[r] \ {p}, tasks[r] \cup U, results[r], K)
    <3>1. Divided(planning[r], tasks[r], results[r]) /\ \A k : KeyOf(k, U) <=> k \in p.keys
      BY <1>2, <1>3, <2>2 DEF ShardsOK
    <3> QED
      BY <2>2, <3>1, PlanToTasks
  <2>6. ShardsOK(r)'
    <3>1. /\ \A t \in tasks'[r] : TaskOK(t)
          /\ \A t \in planning'[r] : PlanOK(t)
      BY <1>2, <2>2, <2>3 DEF ShardsOK
    <3> QED
      BY <1>2, <2>1, <2>3, <2>5, <3>1 DEF ShardsOK
  <2> QED
    BY <2>4, <2>6, OthersKept
<1>5. CASE q.rest # {}
  <2>1. /\ planning' = [planning EXCEPT ![r] = (@ \ {p}) \cup {q}]
        /\ UNCHANGED <<work, tasks, results, status>>
    BY <1>1, <1>5
  <2> HIDE DEF q
  <2>2. planning'[r] = (planning[r] \ {p}) \cup {q}
    BY <2>1 DEF ShardInv, ShardDomains
  <2>3. OthersStay(r)
    BY <2>1 DEF ShardInv, ShardDomains, OthersStay
  <2>4. /\ Divided((planning[r] \ {p}) \cup {q}, tasks[r], results[r])
        /\ \A K : Covers(planning[r], tasks[r], results[r], K) =>
                  Covers((planning[r] \ {p}) \cup {q}, tasks[r], results[r], K)
    <3>1. Divided(planning[r], tasks[r], results[r])
      BY <1>2 DEF ShardsOK
    <3> QED
      BY <1>3, <3>1, SwapPlan
  <2>5. ShardsOK(r)'
    BY <1>2, <1>3, <2>1, <2>2, <2>4 DEF ShardsOK
  <2> QED
    BY <2>3, <2>5, OthersKept
<1> QED
  BY <1>4, <1>5

(* A response is the answer of its shard. *)
LEMMA RespondKeeps ==
  ASSUME ShardInv, NEW r \in Requests, Respond(r)
  PROVE  ShardInv'
<1>1. PICK t \in tasks[r], kind \in {"ok", "key_error"} :
        /\ results' = [results EXCEPT ![r] = @ \cup {[keys |-> t.keys, ok |-> kind = "ok"]}]
        /\ tasks' = [tasks EXCEPT ![r] = @ \ {t}]
        /\ UNCHANGED <<work, planning, status>>
  BY DEF Respond
<1> DEFINE a == [keys |-> t.keys, ok |-> kind = "ok"]
<1>2. ShardsOK(r)
  BY DEF ShardInv
<1>3. a.keys = t.keys
  OBVIOUS
<1>4. results'[r] = results[r] \cup {a} /\ tasks'[r] = tasks[r] \ {t}
  BY <1>1 DEF ShardInv, ShardDomains
<1>5. OthersStay(r)
  BY <1>1 DEF ShardInv, ShardDomains, OthersStay
<1> HIDE DEF a
<1>6. /\ Divided(planning[r], tasks[r] \ {t}, results[r] \cup {a})
      /\ \A K : Covers(planning[r], tasks[r], results[r], K) =>
                Covers(planning[r], tasks[r] \ {t}, results[r] \cup {a}, K)
  <2>1. Divided(planning[r], tasks[r], results[r])
    BY <1>2 DEF ShardsOK
  <2> QED
    BY <1>3, <2>1, TaskToAnswer
<1>7. ShardsOK(r)'
  BY <1>1, <1>2, <1>4, <1>6 DEF ShardsOK
<1> QED
  BY <1>5, <1>7, OthersKept

(* A region error. *)
LEMMA RegionErrorKeeps ==
  ASSUME ShardInv, NEW r \in Requests, NEW t \in tasks[r], NEW e, NEW rt, OnRegionError(r, t, e, rt)
  PROVE  ShardInv'
<1>1. work' = work
  BY DEF OnRegionError
<1>2. \/ FailTask(r, t)
      \/ Replan(r, t, NextAttempt(t.attempt), t.tries)
      \/ BackoffOrFail(r, t, NextAttempt(t.attempt))
  BY SMTT(20) DEF OnRegionError
<1> QED
  BY <1>1, <1>2, FailTaskKeeps, ReplanKeeps, BackoffKeeps

(* A step of a plan or of one of its shards. *)
LEMMA PlanStepKeeps ==
  ASSUME ShardInv, NEW r \in Requests, PlanStep(r)
  PROVE  ShardInv'
<1>1. \A t \in tasks[r] : TaskOK(t)
  BY DEF ShardInv, ShardsOK
<1>2. CASE GroupKeys(r) \/ Respond(r)
  BY <1>2, GroupKeysKeeps, RespondKeeps
<1>3. CASE PlanFails(r)
  <2>1. PICK p \in planning[r] : LeaveWithError(r, {p}, {}, p.keys, p.top)
    BY <1>3 DEF PlanFails
  <2> QED
    BY <1>3, <2>1, LeaveKeeps DEF PlanFails
<1>4. CASE LeaderNotFound(r) \/ GrpcError(r)
  <2>1. PICK t \in tasks[r] : BackoffOrFail(r, t, NextAttempt(NextAttempt(t.attempt)))
    BY <1>4 DEF LeaderNotFound, GrpcError
  <2> QED
    BY <1>4, <2>1, BackoffKeeps DEF LeaderNotFound, GrpcError
<1>5. CASE MapFails(r) \/ OtherError(r)
  <2>1. PICK t \in tasks[r] : FailTask(r, t)
    BY <1>5 DEF MapFails, OtherError
  <2> QED
    BY <1>5, <2>1, FailTaskKeeps DEF MapFails, OtherError
<1>6. CASE SelectReadPeer(r)
  <2>1. PICK t \in tasks[r] : \E peer : UpdateTask(r, t, [t EXCEPT !.pc = "map", !.peer = peer])
    BY <1>6 DEF SelectReadPeer
  <2>2. PICK peer : UpdateTask(r, t, [t EXCEPT !.pc = "map", !.peer = peer])
    BY <2>1
  <2>3. TaskOK([t EXCEPT !.pc = "map", !.peer = peer])
        /\ [t EXCEPT !.pc = "map", !.peer = peer].keys = t.keys
    BY <1>1 DEF TaskOK, TaskFields
  <2>4. work' = work
    BY <1>6 DEF SelectReadPeer
  <2> QED
    BY <2>2, <2>3, <2>4, UpdateTaskKeeps
<1>7. CASE MapRegionToStore(r)
  <2>1. work' = work
    BY <1>7 DEF MapRegionToStore
  <2>2. PICK t \in tasks[r] : \/ FailTask(r, t)
                              \/ \E y, z : UpdateTask(r, t, [t EXCEPT !.pc = "send", !.addr = y, !.tries = z])
    BY <1>7 DEF MapRegionToStore
  <2>3. CASE FailTask(r, t)
    BY <2>1, <2>3, FailTaskKeeps
  <2>4. ASSUME NEW y, NEW z, UpdateTask(r, t, [t EXCEPT !.pc = "send", !.addr = y, !.tries = z])
        PROVE  ShardInv'
    <3>1. TaskOK([t EXCEPT !.pc = "send", !.addr = y, !.tries = z])
          /\ [t EXCEPT !.pc = "send", !.addr = y, !.tries = z].keys = t.keys
      BY <1>1 DEF TaskOK, TaskFields
    <3> QED
      BY <2>1, <2>4, <3>1, UpdateTaskKeeps
  <2> QED
    BY <2>2, <2>3, <2>4
<1>8. CASE AcquirePermit(r)
  <2>1. PICK t \in tasks[r] : UpdateTask(r, t, [t EXCEPT !.pc = "exec"])
    BY <1>8 DEF AcquirePermit
  <2>2. TaskOK([t EXCEPT !.pc = "exec"]) /\ [t EXCEPT !.pc = "exec"].keys = t.keys
    BY <1>1 DEF TaskOK, TaskFields
  <2>3. work' = work
    BY <1>8 DEF AcquirePermit
  <2> QED
    BY <2>1, <2>2, <2>3, UpdateTaskKeeps
<1>9. CASE DataIsNotReady(r) \/ StaleCommandOnReplica(r)
  <2>1. work' = work
    BY <1>9 DEF DataIsNotReady, StaleCommandOnReplica
  <2>2. PICK t \in tasks[r] : FailTask(r, t) \/ Replan(r, t, NextAttempt(t.attempt), t.tries)
    BY <1>9 DEF DataIsNotReady, StaleCommandOnReplica
  <2> QED
    BY <2>1, <2>2, FailTaskKeeps, ReplanKeeps
<1>10. CASE RegionError(r) \/ LockedStaleRead(r)
  <2>1. PICK t \in tasks[r] : \E e, rt : OnRegionError(r, t, e, rt)
    BY <1>10 DEF RegionError, LockedStaleRead
  <2> QED
    BY <2>1, RegionErrorKeeps
<1>11. CASE Locked(r)
  <2>1. work' = work
    BY <1>11 DEF Locked
  <2>2. PICK t \in tasks[r] : FailTask(r, t) \/ \E x : UpdateTask(r, t, [t EXCEPT !.locks = x])
    BY <1>11 DEF Locked
  <2>3. CASE FailTask(r, t)
    BY <2>1, <2>3, FailTaskKeeps
  <2>4. ASSUME NEW x, UpdateTask(r, t, [t EXCEPT !.locks = x])
        PROVE  ShardInv'
    <3>1. TaskOK([t EXCEPT !.locks = x]) /\ [t EXCEPT !.locks = x].keys = t.keys
      BY <1>1 DEF TaskOK, TaskFields
    <3> QED
      BY <2>1, <2>4, <3>1, UpdateTaskKeeps
  <2> QED
    BY <2>2, <2>3, <2>4
<1>12. CASE PlanDone(r)
  <2>1. /\ planning[r] = {} /\ tasks[r] = {} /\ UNCHANGED <<work, planning, tasks, results>>
        /\ status'[r] = "done" /\ status[r] = "running"
    BY <1>12 DEF PlanDone, ShardInv, ShardDomains
  <2>2. OthersStay(r)
    BY <1>12 DEF PlanDone, ShardInv, ShardDomains, OthersStay
  <2>3. ShardsOK(r)
    BY DEF ShardInv
  <2>4. ShardsOK(r)'
    BY <2>1, <2>3 DEF ShardsOK
  <2> QED
    BY <2>2, <2>4, OthersKept
<1> QED
  BY <1>2, <1>3, <1>4, <1>5, <1>6, <1>7, <1>8, <1>9, <1>10, <1>11, <1>12 DEF PlanStep

(* Scans, lookups and the environment leave the shards alone. *)
LEMMA OtherStepsKeep ==
  ASSUME ShardInv,
         \/ \E l \in DOMAIN look : LookupStep(l)
         \/ \E r \in Requests : ScanStep(r)
         \/ Environment
         \/ UNCHANGED vars
  PROVE  ShardInv'
<1>1. ASSUME UNCHANGED <<work, planning, tasks, results, status>>
      PROVE  ShardInv'
  BY <1>1, SameShards DEF ShardInv, ShardDomains
<1>2. CASE \E l \in DOMAIN look : LookupStep(l)
  BY <1>1, <1>2 DEF LookupStep, planVars
<1>3. ASSUME NEW r \in Requests, ScanStep(r)
      PROVE  ShardInv'
  <2>1. work[r].kind = "scan" /\ UNCHANGED <<work, planning, tasks, results>>
    <3>1. CASE ScanRegionFound(r) \/ ScanStoreFound(r) \/ ScanLookupFails(r)
      BY <1>3, <3>1 DEF ScanStep, ScanRegionFound, ScanStoreFound, ScanLookupFails, ScanUnchanged
    <3>2. CASE ScanOk(r) \/ ScanRegionError(r) \/ ScanError(r)
      BY <1>3, <3>2 DEF ScanStep, ScanOk, ScanRegionError, ScanError, ScanUnchanged
    <3> QED
      BY <1>3, <3>1, <3>2 DEF ScanStep
  <2>2. status' = status \/ \E x : status' = [status EXCEPT ![r] = x]
    <3>1. CASE ScanRegionFound(r) \/ ScanStoreFound(r)
      BY <3>1 DEF ScanRegionFound, ScanStoreFound
    <3>2. CASE ScanLookupFails(r) \/ ScanError(r)
      BY <3>2 DEF ScanLookupFails, ScanError, EndScan
    <3>3. CASE ScanOk(r)
      BY <3>3 DEF ScanOk, ScanAdvance
    <3>4. CASE ScanRegionError(r)
      BY <3>4 DEF ScanRegionError, EndScan
    <3> QED
      BY <1>3, <3>1, <3>2, <3>3, <3>4 DEF ScanStep
  <2>3. DOMAIN status' = Requests /\ \A q \in Requests : work[q].kind = "plan" => status'[q] = status[q]
    BY <2>1, <2>2 DEF ShardInv, ShardDomains
  <2> QED
    BY <2>1, <2>3, SameShards
<1>4. CASE Environment
  BY <1>1, <1>4 DEF Environment, EntryExpires, SlowEnds, planVars
<1>5. CASE UNCHANGED vars
  BY <1>1, <1>5 DEF vars, planVars
<1> QED
  BY <1>2, <1>3, <1>4, <1>5

(* At first a plan holds all keys of its request. *)
LEMMA ShardsInitially == Init => ShardInv
<1> SUFFICES ASSUME Init
             PROVE  ShardInv
  OBVIOUS
<1>1. /\ planning = [r \in Requests |->
                       IF work[r].kind = "plan" THEN {NewPlan(work[r].keys, 0, 0, TRUE)} ELSE {}]
      /\ tasks = [r \in Requests |-> {}] /\ results = [r \in Requests |-> {}]
      /\ status = [r \in Requests |-> IF work[r].kind = "idle" THEN "done" ELSE "running"]
  BY DEF Init, PlanInit
<1>2. ASSUME NEW r \in Requests
      PROVE  ShardsOK(r)
  <2> DEFINE p == NewPlan(work[r].keys, 0, 0, TRUE)
  <2>1. PlanOK(p) /\ p.keys = work[r].keys
    BY NewPlanOK
  <2> HIDE DEF p
  <2>2. CASE work[r].kind = "plan"
    <3>1. planning[r] = {p} /\ tasks[r] = {} /\ results[r] = {} /\ status[r] = "running"
      BY <1>1, <2>2 DEF p
    <3>2. Divided({p}, {}, {}) /\ Covers({p}, {}, {}, work[r].keys)
      BY <2>1 DEF Divided, Distinct, Separate, Covers, KeyOf
    <3> QED
      BY <2>1, <2>2, <3>1, <3>2 DEF ShardsOK
  <2>3. CASE work[r].kind # "plan"
    <3>1. planning[r] = {} /\ tasks[r] = {} /\ results[r] = {}
      BY <1>1, <2>3
    <3> QED
      BY <2>3, <3>1 DEF ShardsOK, Divided, Distinct, Separate
  <2> QED
    BY <2>2, <2>3
<1> QED
  BY <1>1, <1>2 DEF ShardInv, ShardDomains

(* Whatever the invariant says of a finished request is what it promises. *)
LEMMA ShardsSay == ShardInv => EachKeyAnsweredOnce
<1> SUFFICES ASSUME ShardInv, NEW r \in Requests
             PROVE  /\ \A a, b \in results[r] : a # b => a.keys \cap b.keys = {}
                    /\ \A a \in results[r], s \in planning[r] \cup tasks[r] :
                         a.keys \cap s.keys = {}
                    /\ work[r].kind = "plan" /\ status[r] = "done" =>
                         UNION {a.keys : a \in results[r]} = work[r].keys
  BY DEF EachKeyAnsweredOnce
<1>1. ShardsOK(r)
  BY DEF ShardInv
<1>2. \A a, b \in results[r] : a # b => a.keys \cap b.keys = {}
  BY <1>1 DEF ShardsOK, Divided, Distinct
<1>3. \A a \in results[r], s \in planning[r] \cup tasks[r] : a.keys \cap s.keys = {}
  BY <1>1 DEF ShardsOK, Divided, Separate
<1>4. ASSUME work[r].kind = "plan", status[r] = "done"
      PROVE  UNION {a.keys : a \in results[r]} = work[r].keys
  <2>1. Covers({}, {}, results[r], work[r].keys)
    BY <1>1, <1>4 DEF ShardsOK
  <2> QED
    BY <2>1 DEF Covers, KeyOf
<1> QED
  BY <1>2, <1>3, <1>4

(* A request that succeeds has one answer for each of its keys, however the  *)
(* regions split and merge between its attempts; no two answers of a request *)
(* share a key, and no key with an answer is planned or sent again.          *)
THEOREM KeysAnsweredOnce == Spec => []EachKeyAnsweredOnce
<1>1. ShardInv /\ [Next]_vars => ShardInv'
  BY PlanStepKeeps, OtherStepsKeep DEF Next
<1> QED
  BY <1>1, ShardsInitially, ShardsSay, PTL DEF Spec
----------------------------------------------------------------------------
(* Requests keep their types.  A shard was formed for a known region and is  *)
(* sent to a store; no leader read is sent as a stale read.                  *)

PeerTyped(mode, peer) == peer.store \in Stores /\ (mode # "stale" => ~peer.stale)

TaskTyped(mode, t) ==
  /\ Known(t.region)
  /\ t.tries \in 0..MaxAttempts /\ t.locks \in 0..MaxLockAttempts
  /\ t.pc # "select" => PeerTyped(mode, t.peer)

PlanTyped(p) == p.tries \in 0..MaxAttempts /\ \A s \in p.groups : Known(s.region)

PlansTyped(P) == \A p \in P : PlanTyped(p)
TasksTyped(mode, T) == \A t \in T : TaskTyped(mode, t)

Typed(P, T, S) ==
  \A r \in Requests : /\ PlansTyped(P[r]) /\ TasksTyped(work[r].mode, T[r])
                      /\ S[r] \in {"running", "done", "failed"}

RoutingTyped(x) == DOMAIN x = {"forced", "pinned", "pending"} /\ x.pending \subseteq Stores
RoutingsGood(f) == DOMAIN f = Requests /\ \A r \in Requests : RoutingTyped(f[r])
StoresGood(f) == DOMAIN f \subseteq Stores

(* A step of request r adds at most the plans P and the shards T. *)
Effect(r, P, T) ==
  /\ \A q \in Requests \ {r} : /\ planning'[q] = planning[q] /\ tasks'[q] = tasks[q]
                               /\ status'[q] = status[q]
  /\ planning'[r] \subseteq planning[r] \cup P /\ tasks'[r] \subseteq tasks[r] \cup T
  /\ status'[r] \in {status[r], "done", "failed"}

(* What it adds is what must have its type. *)
LEMMA EffectTyped ==
  ASSUME Typed(planning, tasks, status), NEW r \in Requests, NEW P, NEW T, Effect(r, P, T),
         PlansTyped(P), TasksTyped(work[r].mode, T)
  PROVE  Typed(planning', tasks', status')
<1>1. ASSUME NEW q \in Requests
      PROVE  /\ PlansTyped(planning'[q]) /\ TasksTyped(work[q].mode, tasks'[q])
             /\ status'[q] \in {"running", "done", "failed"}
  <2>1. CASE q = r
    BY <2>1 DEF Effect, Typed, PlansTyped, TasksTyped
  <2>2. CASE q # r
    BY <2>2 DEF Effect, Typed
  <2> QED
    BY <2>1, <2>2
<1> QED
  BY <1>1 DEF Typed

(* The effects of the parts of an action. *)
LEMMA Effects ==
  ASSUME ShardDomains, NEW r \in Requests, NEW t
  PROVE  /\ \A u : UpdateTask(r, t, u) => Effect(r, {}, {u})
         /\ \A n, m : Replan(r, t, n, m) => Effect(r, {NewPlan(t.keys, n, m, FALSE)}, {})
         /\ FailTask(r, t) => Effect(r, {}, {})
         /\ \A p : LeaveWithError(r, {p}, {}, p.keys, p.top) => Effect(r, {}, {})
<1>1. ASSUME NEW plans, NEW shards, NEW keys, NEW top, LeaveWithError(r, plans, shards, keys, top)
      PROVE  Effect(r, {}, {})
  <2>1. CASE work[r].preserve /\ ~top
    BY <1>1, <2>1 DEF LeaveWithError, Effect, ShardDomains
  <2>2. CASE ~(work[r].preserve /\ ~top)
    BY <1>1, <2>2 DEF LeaveWithError, Effect, ShardDomains
  <2> QED
    BY <2>1, <2>2
<1>2. ASSUME NEW u, UpdateTask(r, t, u)
      PROVE  Effect(r, {}, {u})
  BY <1>2 DEF UpdateTask, Effect, ShardDomains
<1>3. ASSUME NEW n, NEW m, Replan(r, t, n, m)
      PROVE  Effect(r, {NewPlan(t.keys, n, m, FALSE)}, {})
  BY <1>3 DEF Replan, Effect, ShardDomains
<1> QED
  BY <1>1, <1>2, <1>3 DEF FailTask

(* A shard that is planned again, backs off or fails keeps the types. *)
LEMMA TypedAgain ==
  ASSUME ShardDomains, Typed(planning, tasks, status), NEW r \in Requests, NEW t \in tasks[r]
  PROVE  /\ \A n : Replan(r, t, n, t.tries) => Typed(planning', tasks', status')
         /\ \A n : BackoffOrFail(r, t, n) => Typed(planning', tasks', status')
         /\ FailTask(r, t) => Typed(planning', tasks', status')
<1>1. t.tries \in 0..MaxAttempts /\ MaxAttempts \in Nat
  BY PlanAssumption DEF Typed, TasksTyped, TaskTyped
<1>2. ASSUME NEW n, NEW m \in 0..MaxAttempts, Replan(r, t, n, m)
      PROVE  Typed(planning', tasks', status')
  <2>1. PlanTyped(NewPlan(t.keys, n, m, FALSE))
    BY DEF PlanTyped, NewPlan
  <2>2. Effect(r, {NewPlan(t.keys, n, m, FALSE)}, {})
    BY <1>2, Effects
  <2>3. PlansTyped({NewPlan(t.keys, n, m, FALSE)}) /\ TasksTyped(work[r].mode, {})
    BY <2>1 DEF PlansTyped, TasksTyped
  <2> QED
    BY <2>2, <2>3, EffectTyped
<1>3. ASSUME FailTask(r, t)
      PROVE  Typed(planning', tasks', status')
  <2>1. Effect(r, {}, {})
    BY <1>3, Effects
  <2>2. PlansTyped({}) /\ TasksTyped(work[r].mode, {})
    BY DEF PlansTyped, TasksTyped
  <2> QED
    BY <2>1, <2>2, EffectTyped
<1>4. ASSUME NEW n, BackoffOrFail(r, t, n)
      PROVE  Typed(planning', tasks', status')
  <2>1. CASE t.tries < MaxAttempts
    <3>1. t.tries + 1 \in 0..MaxAttempts
      BY <1>1, <2>1, SMTT(20)
    <3>2. Replan(r, t, n, t.tries + 1)
      BY <1>4, <2>1 DEF BackoffOrFail
    <3> QED
      BY <1>2, <3>1, <3>2
  <2>2. CASE ~(t.tries < MaxAttempts)
    BY <1>3, <1>4, <2>2 DEF BackoffOrFail
  <2> QED
    BY <2>1, <2>2
<1> QED
  BY <1>1, <1>2, <1>3, <1>4

(* Pins and pending backoffs. *)
LEMMA RoutingChanges ==
  ASSUME NEW x, RoutingTyped(x), NEW i, NEW s
  PROVE  /\ RoutingTyped(PinStore(x, i, s)) /\ RoutingTyped(ClearPin(x, i))
         /\ RoutingTyped(TakePendingBackoff(x, s)) /\ RoutingTyped(ForceLeader(x))
         /\ s \in Stores => RoutingTyped(AddPendingBackoff(x, s))
<1>1. RoutingTyped(PinStore(x, i, s)) /\ RoutingTyped(ClearPin(x, i))
  BY DEF RoutingTyped, PinStore, ClearPin
<1>2. RoutingTyped(TakePendingBackoff(x, s)) /\ RoutingTyped(ForceLeader(x))
  BY DEF RoutingTyped, TakePendingBackoff, ForceLeader
<1>3. s \in Stores => RoutingTyped(AddPendingBackoff(x, s))
  BY DEF RoutingTyped, AddPendingBackoff
<1> QED
  BY <1>1, <1>2, <1>3

(* A read is sent to a store, and only in mode "stale" as a stale read. *)
LEMMA PeerChosen ==
  ASSUME NEW g, Known(g), g.leader # None, NEW mode, NEW rt, NEW set, NEW attempt,
         NEW peer \in SelectPeer(mode, rt, set, g, attempt)
  PROVE  PeerTyped(mode, peer)
<1>1. g.leader \in Stores /\ g.peers \subseteq Stores
  BY DEF Known
<1>2. /\ NonWitness(g) \subseteq Stores /\ Followers(g) \subseteq Stores
      /\ LearnerPeers(g) \subseteq Stores
  BY <1>1 DEF NonWitness, Followers, LearnerPeers
<1>3. ASSUME NEW C \in SUBSET Stores
      PROVE  /\ PickPeer(C, g) \subseteq Stores
             /\ \A prefer : SelectPeerByScore(g, C, set, prefer) \subseteq Stores
  BY <1>1 DEF PickPeer, SelectPeerByScore
<1>4. ASSUME NEW s, NEW replica, NEW stale, peer = ReadPeer(s, replica, stale), s \in Stores,
             mode # "stale" => ~stale
      PROVE  PeerTyped(mode, peer)
  BY <1>4 DEF ReadPeer, PeerTyped
<1> DEFINE replicas == Followers(g) \cup LearnerPeers(g)
           pin == IF attempt > 0 /\ g.id \in DOMAIN rt.pinned
                  THEN NonWitness(g) \cap {rt.pinned[g.id]} ELSE {}
<1>5. CASE peer = ReadPeer(g.leader, FALSE, FALSE)
  BY <1>1, <1>4, <1>5
<1>6. CASE \E s \in pin : peer = ReadPeer(s, mode # "stale" /\ s # g.leader, mode = "stale")
  <2>1. PICK s \in pin : peer = ReadPeer(s, mode # "stale" /\ s # g.leader, mode = "stale")
    BY <1>6
  <2>2. s \in Stores
    BY <1>2, <2>1
  <2> QED
    BY <1>4, <2>1, <2>2
<1>7. CASE mode = "stale" /\ \E s \in IF attempt = 0 THEN PickPeer(replicas, g) ELSE {g.leader} :
                               peer = ReadPeer(s, FALSE, TRUE)
  <2>1. PICK s \in IF attempt = 0 THEN PickPeer(replicas, g) ELSE {g.leader} :
          peer = ReadPeer(s, FALSE, TRUE)
    BY <1>7
  <2>2. replicas \in SUBSET Stores
    BY <1>2
  <2>3. s \in Stores
    BY <1>1, <1>3, <2>1, <2>2
  <2> QED
    BY <1>4, <1>7, <2>1, <2>3
<1>8. CASE \E s \in Stores : peer = ReadPeer(s, s # g.leader, FALSE)
  BY <1>4, <1>8
<1>9. \/ peer = ReadPeer(g.leader, FALSE, FALSE)
      \/ \E s \in pin : peer = ReadPeer(s, mode # "stale" /\ s # g.leader, mode = "stale")
      \/ mode = "stale" /\ \E s \in IF attempt = 0 THEN PickPeer(replicas, g) ELSE {g.leader} :
                               peer = ReadPeer(s, FALSE, TRUE)
      \/ \E s \in Stores : peer = ReadPeer(s, s # g.leader, FALSE)
  <2> DEFINE targets ==
        CASE mode = "leader" -> {g.leader}
          [] mode = "prefer_leader" /\ attempt = 0 ->
               SelectPeerByScore(g, IF g.leader \in set /\ replicas # {}
                                    THEN replicas ELSE g.peers, set, TRUE)
          [] mode = "prefer_leader" /\ attempt > 0 ->
               SelectPeerByScore(g, g.peers, set, FALSE)
          [] mode = "follower" /\ attempt = 0 -> PickPeer(Followers(g), g)
          [] mode = "learner" /\ attempt = 0 -> PickPeer(LearnerPeers(g), g)
          [] mode = "mixed" /\ attempt = 0 -> SelectPeerByScore(g, g.peers, set, FALSE)
          [] OTHER -> {g.leader}
  <2>1. {g.leader} \subseteq Stores
    BY <1>1
  <2>2. /\ SelectPeerByScore(g, IF g.leader \in set /\ replicas # {}
                                THEN replicas ELSE g.peers, set, TRUE) \subseteq Stores
        /\ SelectPeerByScore(g, g.peers, set, FALSE) \subseteq Stores
        /\ PickPeer(Followers(g), g) \subseteq Stores
        /\ PickPeer(LearnerPeers(g), g) \subseteq Stores
    <3>1. (IF g.leader \in set /\ replicas # {} THEN replicas ELSE g.peers) \in SUBSET Stores
      BY <1>1, <1>2
    <3>2. {g.peers, Followers(g), LearnerPeers(g)} \subseteq SUBSET Stores
      BY <1>1, <1>2
    <3> QED
      BY <1>3, <3>1, <3>2
  <2>3. targets \subseteq Stores
    BY <2>1, <2>2
  <2>4. \/ peer = ReadPeer(g.leader, FALSE, FALSE)
        \/ \E s \in pin : peer = ReadPeer(s, mode # "stale" /\ s # g.leader, mode = "stale")
        \/ mode = "stale" /\ \E s \in IF attempt = 0 THEN PickPeer(replicas, g) ELSE {g.leader} :
                               peer = ReadPeer(s, FALSE, TRUE)
        \/ \E s \in targets : peer = ReadPeer(s, s # g.leader, FALSE)
    BY DEF SelectPeer
  <2> HIDE DEF targets
  <2> QED
    BY <2>3, <2>4
<1> HIDE DEF pin, replicas
<1> QED
  BY <1>5, <1>6, <1>7, <1>8, <1>9

TypesInv == Typed(planning, tasks, status) /\ RoutingsGood(routing) /\ StoresGood(storeCache)

TypedNext ==
  Typed(planning', tasks', status') /\ RoutingsGood(routing') /\ StoresGood(storeCache')

(* The routing state of one request changes. *)
LEMMA RoutingSet ==
  ASSUME RoutingsGood(routing), NEW r \in Requests, NEW x, RoutingTyped(x),
         routing' = [routing EXCEPT ![r] = x]
  PROVE  RoutingsGood(routing')
  BY DEF RoutingsGood

(* Stores are cached and dropped. *)
LEMMA StoreSet ==
  ASSUME StoresGood(storeCache)
  PROVE  /\ \A S : StoresGood(Without(storeCache, S))
         /\ \A s \in Stores : \A x : StoresGood(With(storeCache, s, x))
         /\ \A e, s : StoresGood(StoresAfter(e, s))
  BY DEF StoresGood, With, Without, StoresAfter, InvalidateStore

(* A region error keeps the types. *)
LEMMA RegionErrorTyped ==
  ASSUME ShardDomains, TypesInv, NEW r \in Requests, NEW t \in tasks[r], t.pc = "exec",
         NEW e, NEW rt, RoutingTyped(rt), OnRegionError(r, t, e, rt)
  PROVE  TypedNext
<1>1. t.peer.store \in Stores
  BY DEF TypesInv, Typed, TasksTyped, TaskTyped, PeerTyped
<1>2. StoresGood(storeCache')
  BY StoreSet DEF OnRegionError, TypesInv
<1>3. \/ FailTask(r, t)
      \/ Replan(r, t, NextAttempt(t.attempt), t.tries)
      \/ BackoffOrFail(r, t, NextAttempt(t.attempt))
  BY DEF OnRegionError
<1>4. Typed(planning', tasks', status')
  BY <1>3, TypedAgain DEF TypesInv
<1>5. RoutingTyped(Pinning(rt, e, t)) /\ RoutingTyped(AddPendingBackoff(Pinning(rt, e, t), t.peer.store))
  <2>1. RoutingTyped(Pinning(rt, e, t))
    BY RoutingChanges DEF Pinning
  <2> QED
    BY <1>1, <2>1, RoutingChanges
<1>6. \/ routing' = [routing EXCEPT ![r] = Pinning(rt, e, t)]
      \/ routing' = [routing EXCEPT ![r] = AddPendingBackoff(Pinning(rt, e, t), t.peer.store)]
  BY DEF OnRegionError
<1>7. RoutingsGood(routing')
  BY <1>5, <1>6, RoutingSet DEF TypesInv
<1> QED
  BY <1>2, <1>4, <1>7 DEF TypedNext

(* The keys of a plan are grouped by known regions. *)
LEMMA GroupKeysTyped ==
  ASSUME LookGood(look), ShardInv, TypesInv, NEW r \in Requests, GroupKeys(r)
  PROVE  TypedNext
<1>1. PICK p \in planning[r] :
        LET l == KeyLookup(r, FirstOf(p.rest))
            g == look[l].region
            taken == GroupOf(p.rest, g)
            q == [p EXCEPT !.rest = @ \ taken,
                           !.groups = @ \cup {[keys |-> taken, region |-> g]}]
        IN /\ l \in DOMAIN look /\ look[l].pc = "done"
           /\ \/ /\ planning' = [planning EXCEPT ![r] = @ \ {p}]
                 /\ tasks' = [tasks EXCEPT ![r] = @ \cup {NewTask(q, s) : s \in q.groups}]
              \/ /\ planning' = [planning EXCEPT ![r] = (@ \ {p}) \cup {q}]
                 /\ UNCHANGED tasks
           /\ UNCHANGED <<routing, status, storeCache>>
  BY DEF GroupKeys
<1> DEFINE l == KeyLookup(r, FirstOf(p.rest))
           g == look[l].region
           taken == GroupOf(p.rest, g)
           q == [p EXCEPT !.rest = @ \ taken, !.groups = @ \cup {[keys |-> taken, region |-> g]}]
<1>2. Known(g)
  <2>1. Looked(l, look[l]) /\ look[l].pc = "done"
    BY <1>1 DEF LookGood
  <2> QED
    BY <2>1 DEF Looked, Fits
<1>3. PlanOK(p) /\ PlanTyped(p)
  BY DEF ShardInv, ShardsOK, TypesInv, Typed, PlansTyped
<1>4. q.tries = p.tries /\ q.groups = p.groups \cup {[keys |-> taken, region |-> g]}
  BY <1>3 DEF PlanOK, PlanFields
<1>5. [keys |-> taken, region |-> g].region = g
  OBVIOUS
<1>6. \/ /\ planning' = [planning EXCEPT ![r] = @ \ {p}]
         /\ tasks' = [tasks EXCEPT ![r] = @ \cup {NewTask(q, s) : s \in q.groups}]
      \/ planning' = [planning EXCEPT ![r] = (@ \ {p}) \cup {q}] /\ UNCHANGED tasks
  BY <1>1
<1>7. UNCHANGED <<routing, status, storeCache>>
  BY <1>1
<1> HIDE DEF q, g, taken
<1>8. PlanTyped(q)
  BY <1>2, <1>3, <1>4, <1>5 DEF PlanTyped
<1>9. \A s \in q.groups : TaskTyped(work[r].mode, NewTask(q, s))
  <2>1. 0 \in 0..MaxLockAttempts
    BY PlanAssumption, SMTT(20)
  <2> QED
    BY <1>8, <2>1 DEF NewTask, TaskTyped, PlanTyped
<1>10. ShardDomains
  BY DEF ShardInv
<1>11. Typed(planning', tasks', status')
  <2>1. CASE /\ planning' = [planning EXCEPT ![r] = @ \ {p}]
             /\ tasks' = [tasks EXCEPT ![r] = @ \cup {NewTask(q, s) : s \in q.groups}]
    <3>1. Effect(r, {}, {NewTask(q, s) : s \in q.groups})
      BY <1>7, <1>10, <2>1 DEF Effect, ShardDomains
    <3>2. PlansTyped({}) /\ TasksTyped(work[r].mode, {NewTask(q, s) : s \in q.groups})
      BY <1>9 DEF PlansTyped, TasksTyped
    <3> QED
      BY <3>1, <3>2, EffectTyped DEF TypesInv
  <2>2. CASE planning' = [planning EXCEPT ![r] = (@ \ {p}) \cup {q}] /\ UNCHANGED tasks
    <3>1. Effect(r, {q}, {})
      BY <1>7, <1>10, <2>2 DEF Effect, ShardDomains
    <3>2. PlansTyped({q}) /\ TasksTyped(work[r].mode, {})
      BY <1>8 DEF PlansTyped, TasksTyped
    <3> QED
      BY <3>1, <3>2, EffectTyped DEF TypesInv
  <2> QED
    BY <1>6, <2>1, <2>2
<1> QED
  BY <1>7, <1>11 DEF TypedNext, TypesInv

(* A step of a plan or of one of its shards keeps the types. *)
LEMMA PlanStepTyped ==
  ASSUME LookGood(look), ShardInv, TypesInv, NEW r \in Requests, PlanStep(r)
  PROVE  TypedNext
<1>1. ShardDomains /\ \A t \in tasks[r] : TaskOK(t) /\ TaskTyped(work[r].mode, t)
  BY DEF ShardInv, ShardsOK, TypesInv, Typed, TasksTyped
<1>2. RoutingTyped(routing[r]) /\ Typed(planning, tasks, status) /\ RoutingsGood(routing)
      /\ StoresGood(storeCache)
  BY DEF TypesInv, RoutingsGood
<1>3. ASSUME NEW t \in tasks[r], NEW u, UpdateTask(r, t, u), TaskTyped(work[r].mode, u)
      PROVE  Typed(planning', tasks', status')
  <2>1. Effect(r, {}, {u})
    BY <1>1, <1>3, Effects
  <2>2. PlansTyped({}) /\ TasksTyped(work[r].mode, {u})
    BY <1>3 DEF PlansTyped, TasksTyped
  <2> QED
    BY <1>2, <2>1, <2>2, EffectTyped
<1>4. CASE GroupKeys(r)
  BY <1>4, GroupKeysTyped
<1>5. CASE PlanFails(r)
  <2>1. PICK p \in planning[r] : LeaveWithError(r, {p}, {}, p.keys, p.top)
    BY <1>5 DEF PlanFails
  <2>2. Effect(r, {}, {})
    BY <1>1, <2>1, Effects
  <2>3. PlansTyped({}) /\ TasksTyped(work[r].mode, {})
    BY DEF PlansTyped, TasksTyped
  <2>4. Typed(planning', tasks', status')
    BY <1>2, <2>2, <2>3, EffectTyped
  <2> QED
    BY <1>2, <1>5, <2>4 DEF PlanFails, TypedNext
<1>6. CASE LeaderNotFound(r) \/ GrpcError(r)
  <2>1. PICK t \in tasks[r] : BackoffOrFail(r, t, NextAttempt(NextAttempt(t.attempt)))
    BY <1>6 DEF LeaderNotFound, GrpcError
  <2>2. Typed(planning', tasks', status')
    BY <1>1, <1>2, <2>1, TypedAgain
  <2>3. routing' = routing /\ StoresGood(storeCache')
    BY <1>2, <1>6, StoreSet DEF LeaderNotFound, GrpcError, InvalidateStore
  <2> QED
    BY <1>2, <2>2, <2>3 DEF TypedNext
<1>7. CASE MapFails(r) \/ OtherError(r)
  <2>1. PICK t \in tasks[r] : FailTask(r, t)
    BY <1>7 DEF MapFails, OtherError
  <2>2. Typed(planning', tasks', status')
    BY <1>1, <1>2, <2>1, TypedAgain
  <2> QED
    BY <1>2, <1>7, <2>2 DEF TypedNext, MapFails, OtherError
<1>8. CASE SelectReadPeer(r)
  <2>1. PICK t \in tasks[r] :
          /\ t.region.leader # None
          /\ \E peer \in SelectPeer(work[r].mode, routing[r], slow, t.region, t.attempt) :
               UpdateTask(r, t, [t EXCEPT !.pc = "map", !.peer = peer])
    BY <1>8 DEF SelectReadPeer
  <2>2. PICK peer \in SelectPeer(work[r].mode, routing[r], slow, t.region, t.attempt) :
          UpdateTask(r, t, [t EXCEPT !.pc = "map", !.peer = peer])
    BY <2>1
  <2> DEFINE u == [t EXCEPT !.pc = "map", !.peer = peer]
  <2>3. PeerTyped(work[r].mode, peer)
    <3>1. Known(t.region)
      BY <1>1 DEF TaskTyped
    <3> QED
      BY <2>1, <2>2, <3>1, PeerChosen
  <2>4. u.peer = peer /\ u.region = t.region /\ u.tries = t.tries /\ u.locks = t.locks
    BY <1>1 DEF TaskOK, TaskFields
  <2>5. TaskTyped(work[r].mode, u)
    <3> HIDE DEF u
    <3> QED
      BY <1>1, <2>3, <2>4 DEF TaskTyped
  <2> QED
    BY <1>2, <1>3, <1>8, <2>2, <2>5 DEF TypedNext, SelectReadPeer
<1>9. CASE MapRegionToStore(r)
  <2>1. PICK t \in tasks[r] :
          /\ t.pc = "map"
          /\ storeCache' = With(storeCache, t.peer.store, AddressOf(t.peer.store))
          /\ routing' = [routing EXCEPT ![r] = TakePendingBackoff(@, t.peer.store)]
          /\ IF t.peer.store \in routing[r].pending /\ t.tries >= MaxAttempts
             THEN FailTask(r, t)
             ELSE UpdateTask(r, t, [t EXCEPT !.pc = "send", !.addr = AddressOf(t.peer.store),
                                             !.tries = IF t.peer.store \in routing[r].pending
                                                       THEN @ + 1 ELSE @])
    BY <1>9 DEF MapRegionToStore
  <2>2. StoresGood(storeCache')
    BY <1>1, <1>2, <2>1, StoreSet DEF TaskTyped, PeerTyped
  <2>3. RoutingsGood(routing')
    <3>1. routing' = [routing EXCEPT ![r] = TakePendingBackoff(routing[r], t.peer.store)]
      BY <2>1
    <3>2. RoutingTyped(TakePendingBackoff(routing[r], t.peer.store))
      BY <1>2, RoutingChanges
    <3> QED
      BY <1>2, <3>1, <3>2, RoutingSet
  <2>4. CASE t.peer.store \in routing[r].pending /\ t.tries >= MaxAttempts
    BY <1>1, <1>2, <2>1, <2>2, <2>3, <2>4, TypedAgain DEF TypedNext
  <2>5. CASE ~(t.peer.store \in routing[r].pending /\ t.tries >= MaxAttempts)
    <3> DEFINE m == IF t.peer.store \in routing[r].pending THEN t.tries + 1 ELSE t.tries
               u == [t EXCEPT !.pc = "send", !.addr = AddressOf(t.peer.store), !.tries = m]
    <3>1. UpdateTask(r, t, u)
      BY <2>1, <2>5
    <3>2. m \in 0..MaxAttempts
      BY <1>1, <2>5, PlanAssumption, SMTT(20) DEF TaskTyped
    <3>3. u.peer = t.peer /\ u.region = t.region /\ u.tries = m /\ u.locks = t.locks
      BY <1>1 DEF TaskOK, TaskFields
    <3> HIDE DEF u, m
    <3>4. TaskTyped(work[r].mode, u)
      BY <1>1, <2>1, <3>2, <3>3 DEF TaskTyped
    <3> QED
      BY <1>3, <2>2, <2>3, <3>1, <3>4 DEF TypedNext
  <2> QED
    BY <2>4, <2>5
<1>10. CASE AcquirePermit(r)
  <2>1. PICK t \in tasks[r] : t.pc = "send" /\ UpdateTask(r, t, [t EXCEPT !.pc = "exec"])
    BY <1>10 DEF AcquirePermit
  <2> DEFINE u == [t EXCEPT !.pc = "exec"]
  <2>2. u.peer = t.peer /\ u.region = t.region /\ u.tries = t.tries /\ u.locks = t.locks
    BY <1>1 DEF TaskOK, TaskFields
  <2> HIDE DEF u
  <2>3. TaskTyped(work[r].mode, u)
    BY <1>1, <2>1, <2>2 DEF TaskTyped
  <2> QED
    BY <1>2, <1>3, <1>10, <2>1, <2>3 DEF TypedNext, AcquirePermit, u
<1>11. CASE Respond(r)
  <2>1. PICK t \in tasks[r], kind \in {"ok", "key_error"} :
          /\ tasks' = [tasks EXCEPT ![r] = @ \ {t}]
          /\ routing' = IF kind = "ok" THEN [routing EXCEPT ![r] = ClearPin(@, t.region.id)]
                        ELSE routing
          /\ UNCHANGED <<planning, status, storeCache>>
    BY <1>11 DEF Respond
  <2>2. Effect(r, {}, {})
    BY <1>1, <2>1 DEF Effect, ShardDomains
  <2>3. PlansTyped({}) /\ TasksTyped(work[r].mode, {})
    BY DEF PlansTyped, TasksTyped
  <2>4. Typed(planning', tasks', status')
    BY <1>2, <2>2, <2>3, EffectTyped
  <2>5. RoutingsGood(routing')
    <3>1. routing' = routing \/ routing' = [routing EXCEPT ![r] = ClearPin(routing[r], t.region.id)]
      BY <2>1
    <3>2. RoutingTyped(ClearPin(routing[r], t.region.id))
      BY <1>2, RoutingChanges
    <3> QED
      BY <1>2, <3>1, <3>2, RoutingSet
  <2> QED
    BY <1>2, <2>1, <2>4, <2>5 DEF TypedNext
<1>12. CASE DataIsNotReady(r)
  <2>1. PICK t \in tasks[r] : FailTask(r, t) \/ Replan(r, t, NextAttempt(t.attempt), t.tries)
    BY <1>12 DEF DataIsNotReady
  <2>2. Typed(planning', tasks', status')
    BY <1>1, <1>2, <2>1, TypedAgain
  <2> QED
    BY <1>2, <1>12, <2>2 DEF TypedNext, DataIsNotReady
<1>13. CASE StaleCommandOnReplica(r)
  <2>1. PICK t \in tasks[r] :
          /\ FailTask(r, t) \/ Replan(r, t, NextAttempt(t.attempt), t.tries)
          /\ routing' = [routing EXCEPT ![r] = ClearPin(@, t.region.id)]
          /\ storeCache' = storeCache
    BY <1>13 DEF StaleCommandOnReplica
  <2>2. Typed(planning', tasks', status')
    BY <1>1, <1>2, <2>1, TypedAgain
  <2>3. routing' = [routing EXCEPT ![r] = ClearPin(routing[r], t.region.id)]
    BY <2>1
  <2>4. RoutingsGood(routing')
    BY <1>2, <2>3, RoutingChanges, RoutingSet
  <2> QED
    BY <1>2, <2>1, <2>2, <2>4 DEF TypedNext
<1>14. CASE RegionError(r)
  <2>1. PICK t \in tasks[r] : t.pc = "exec" /\ \E e : OnRegionError(r, t, e, routing[r])
    BY <1>14 DEF RegionError
  <2> QED
    BY <1>1, <1>2, <2>1, RegionErrorTyped
<1>15. CASE LockedStaleRead(r)
  <2>1. PICK t \in tasks[r] : t.pc = "exec" /\ \E e : OnRegionError(r, t, e, ForceLeader(routing[r]))
    BY <1>15 DEF LockedStaleRead
  <2>2. RoutingTyped(ForceLeader(routing[r]))
    BY <1>2, RoutingChanges
  <2> QED
    BY <1>1, <2>1, <2>2, RegionErrorTyped
<1>16. CASE Locked(r)
  <2>1. PICK t \in tasks[r], live \in BOOLEAN :
          /\ t.pc = "exec"
          /\ IF MaxLockAttempts = 0 \/ (live /\ t.locks >= MaxLockAttempts)
             THEN FailTask(r, t)
             ELSE UpdateTask(r, t, [t EXCEPT !.locks = IF live THEN @ + 1 ELSE @])
    BY <1>16 DEF Locked
  <2>2. Typed(planning', tasks', status')
    <3>1. CASE MaxLockAttempts = 0 \/ (live /\ t.locks >= MaxLockAttempts)
      BY <1>1, <1>2, <2>1, <3>1, TypedAgain
    <3>2. CASE ~(MaxLockAttempts = 0 \/ (live /\ t.locks >= MaxLockAttempts))
      <4> DEFINE m == IF live THEN t.locks + 1 ELSE t.locks
                 u == [t EXCEPT !.locks = m]
      <4>1. UpdateTask(r, t, u)
        BY <2>1, <3>2
      <4>2. m \in 0..MaxLockAttempts
        BY <1>1, <3>2, PlanAssumption, SMTT(20) DEF TaskTyped
      <4>3. u.peer = t.peer /\ u.region = t.region /\ u.tries = t.tries /\ u.locks = m /\ u.pc = t.pc
        BY <1>1 DEF TaskOK, TaskFields
      <4> HIDE DEF u, m
      <4>4. TaskTyped(work[r].mode, u)
        BY <1>1, <4>2, <4>3 DEF TaskTyped
      <4> QED
        BY <1>3, <4>1, <4>4
    <3> QED
      BY <3>1, <3>2
  <2> QED
    BY <1>2, <1>16, <2>2 DEF TypedNext, Locked
<1>17. CASE PlanDone(r)
  <2>1. Effect(r, {}, {})
    BY <1>1, <1>17 DEF PlanDone, Effect, ShardDomains
  <2>2. PlansTyped({}) /\ TasksTyped(work[r].mode, {})
    BY DEF PlansTyped, TasksTyped
  <2>3. Typed(planning', tasks', status')
    BY <1>2, <2>1, <2>2, EffectTyped
  <2> QED
    BY <1>2, <1>17, <2>3 DEF TypedNext, PlanDone
<1> QED
  BY <1>4, <1>5, <1>6, <1>7, <1>8, <1>9, <1>10, <1>11, <1>12, <1>13, <1>14, <1>15, <1>16, <1>17
     DEF PlanStep

----------------------------------------------------------------------------
(* A retry that costs nothing has news. *)

AllNews == \A q \in Requests : \A t \in tasks[q] : RetriedAtOnce(q, t) => RoutedAnew(t)

(* Without a new plan nothing is retried. *)
LEMMA NoNewPlan ==
  ASSUME NEW r \in Requests, NEW T, Effect(r, {}, T)
  PROVE  AllNews
<1>1. ASSUME NEW q \in Requests, NEW t \in tasks[q], RetriedAtOnce(q, t)
      PROVE  FALSE
  <2>1. CASE q = r
    BY <1>1, <2>1 DEF Effect, RetriedAtOnce
  <2>2. CASE q # r
    BY <1>1, <2>2 DEF Effect, RetriedAtOnce
  <2> QED
    BY <2>1, <2>2
<1> QED
  BY <1>1 DEF AllNews

(* A shard planned again costs an attempt, or the cache has changed. *)
LEMMA ReplanNews ==
  ASSUME ShardDomains, NEW r \in Requests, NEW t \in tasks[r], NEW n, NEW m, Replan(r, t, n, m),
         m # t.tries \/ IsReplicaReadMode(work[r].mode) \/ RoutedAnew(t)
  PROVE  AllNews
<1>1. /\ planning'[r] = planning[r] \cup {NewPlan(t.keys, n, m, FALSE)}
      /\ tasks'[r] = tasks[r] \ {t}
  BY DEF Replan, ShardDomains
<1>2. \A q \in Requests \ {r} : tasks'[q] = tasks[q]
  BY DEF Replan, ShardDomains
<1>3. NewPlan(t.keys, n, m, FALSE).tries = m
  BY DEF NewPlan
<1>4. ASSUME NEW q \in Requests, NEW u \in tasks[q], RetriedAtOnce(q, u)
      PROVE  RoutedAnew(u)
  <2>1. q = r /\ u = t
    BY <1>1, <1>2, <1>4 DEF RetriedAtOnce
  <2>2. m = t.tries /\ ~IsReplicaReadMode(work[r].mode)
    BY <1>1, <1>3, <1>4, <2>1 DEF RetriedAtOnce
  <2> QED
    BY <2>1, <2>2
<1> QED
  BY <1>4 DEF AllNews

(* A failing shard is not retried, one that backs off pays for it. *)
LEMMA BackoffNews ==
  ASSUME ShardDomains, Typed(planning, tasks, status), NEW r \in Requests, NEW t \in tasks[r]
  PROVE  /\ FailTask(r, t) => AllNews
         /\ \A n : BackoffOrFail(r, t, n) => AllNews
<1>1. ASSUME FailTask(r, t)
      PROVE  AllNews
  BY <1>1, Effects, NoNewPlan
<1>2. t.tries \in 0..MaxAttempts /\ MaxAttempts \in Nat
  BY PlanAssumption DEF Typed, TasksTyped, TaskTyped
<1>3. t.tries + 1 # t.tries
  BY <1>2, SMTT(20)
<1>4. ASSUME NEW n, BackoffOrFail(r, t, n)
      PROVE  AllNews
  <2>1. FailTask(r, t) \/ Replan(r, t, n, t.tries + 1)
    BY <1>4 DEF BackoffOrFail
  <2> QED
    BY <1>1, <1>3, <2>1, ReplanNews
<1> QED
  BY <1>1, <1>4

(* After a region error that is retried at once, one of the two caches has   *)
(* dropped or replaced what sent the shard there.                            *)
LEMMA RetryRoutedAnew ==
  ASSUME CacheGood(cache), NEW t, NEW e, LeaderNamed(e, t.peer.store),
         Verdict(e, t.region) = "retry",
         cache' = RegionAfter(e, t.region), storeCache' = StoresAfter(e, t.peer.store)
  PROVE  RoutedAnew(t)
<1> DEFINE v == VerId(t.region)
<1>1. \/ e.kind = "not_leader" /\ e.leader # None
      \/ e.kind = "store_not_match"
      \/ e.kind = "region_not_found"
      \/ e.kind = "epoch_not_match" /\ EpochVerdict(t.region, e.regions) # "backoff"
  BY DEF Verdict, EpochVerdict
<1>2. CASE e.kind = "not_leader" /\ e.leader # None
  <2>1. cache' = UpdateLeader(cache, v, e.leader) /\ e.leader # t.peer.store
    BY <1>2 DEF RegionAfter, LeaderNamed
  <2>2. CASE v \in DOMAIN cache.regions
    <3>1. DOMAIN cache = {"regions", "byKey", "byId", "expired"} /\ Known(cache.regions[v])
      BY <2>2 DEF CacheGood, Indexed
    <3>2. cache'.regions = With(cache.regions, v, [cache.regions[v] EXCEPT !.leader = e.leader])
      BY <2>1, <2>2, <3>1 DEF UpdateLeader
    <3>3. cache'.regions[v].leader = e.leader
      BY <3>1, <3>2 DEF With, Known
    <3> QED
      BY <2>1, <3>3 DEF RoutedAnew
  <2>3. CASE v \notin DOMAIN cache.regions
    BY <2>1, <2>3 DEF UpdateLeader, RoutedAnew
  <2> QED
    BY <2>2, <2>3
<1>3. CASE e.kind = "store_not_match"
  BY <1>3 DEF StoresAfter, InvalidateStore, Without, RoutedAnew
<1>4. CASE \/ e.kind = "region_not_found"
           \/ e.kind = "epoch_not_match" /\ EpochVerdict(t.region, e.regions) # "backoff"
  <2>1. cache' = InvalidateRegion(cache, v)
    BY <1>4 DEF RegionAfter
  <2>2. v \notin DOMAIN cache'.regions
    <3>1. CASE v \in DOMAIN cache.regions
      <4>1. cache' = Evict(cache, {v})
        BY <2>1, <3>1 DEF InvalidateRegion
      <4>2. Evict(cache, {v}).regions = Without(cache.regions, {v})
        BY DEF Evict
      <4> QED
        BY <4>1, <4>2 DEF Without
    <3>2. CASE v \notin DOMAIN cache.regions
      BY <2>1, <3>2 DEF InvalidateRegion
    <3> QED
      BY <3>1, <3>2
  <2> QED
    BY <2>2 DEF RoutedAnew
<1> QED
  BY <1>1, <1>2, <1>3, <1>4

(* Every step of a plan gives the news. *)
LEMMA PlanStepNews ==
  ASSUME HistoryInv, CacheGood(cache), ShardInv, TypesInv, NEW r \in Requests, PlanStep(r)
  PROVE  AllNews
<1>1. ShardDomains /\ Typed(planning, tasks, status)
  BY DEF ShardInv, TypesInv
<1>2. CASE GroupKeys(r)
  <2>1. \A q \in Requests : tasks[q] \subseteq tasks'[q]
    BY <1>1, <1>2 DEF GroupKeys, ShardDomains
  <2> QED
    BY <2>1 DEF AllNews, RetriedAtOnce
<1>3. CASE PlanFails(r)
  <2>1. PICK p \in planning[r] : LeaveWithError(r, {p}, {}, p.keys, p.top)
    BY <1>3 DEF PlanFails
  <2> QED
    BY <1>1, <2>1, Effects, NoNewPlan
<1>4. CASE LeaderNotFound(r) \/ GrpcError(r)
  <2>1. PICK t \in tasks[r] : BackoffOrFail(r, t, NextAttempt(NextAttempt(t.attempt)))
    BY <1>4 DEF LeaderNotFound, GrpcError
  <2> QED
    BY <1>1, <2>1, BackoffNews
<1>5. CASE MapFails(r) \/ OtherError(r)
  <2>1. PICK t \in tasks[r] : FailTask(r, t)
    BY <1>5 DEF MapFails, OtherError
  <2> QED
    BY <1>1, <2>1, BackoffNews
<1>6. CASE SelectReadPeer(r) \/ AcquirePermit(r) \/ Respond(r) \/ PlanDone(r)
  <2>1. planning' = planning
    BY <1>6 DEF SelectReadPeer, AcquirePermit, Respond, PlanDone, UpdateTask
  <2> QED
    BY <2>1 DEF AllNews, RetriedAtOnce
<1>7. CASE MapRegionToStore(r) \/ Locked(r)
  <2>1. planning' = planning \/ \E t \in tasks[r] : FailTask(r, t)
    BY <1>7 DEF MapRegionToStore, Locked, UpdateTask
  <2>2. ASSUME planning' = planning PROVE AllNews
    BY <2>2 DEF AllNews, RetriedAtOnce
  <2> QED
    BY <1>1, <2>1, <2>2, BackoffNews
<1>8. CASE DataIsNotReady(r)
  <2>1. PICK t \in tasks[r] :
          /\ Receive(t, Answer("data_is_not_ready"))
          /\ FailTask(r, t) \/ Replan(r, t, NextAttempt(t.attempt), t.tries)
    BY <1>8 DEF DataIsNotReady
  <2>2. Answer("data_is_not_ready") \in StoreAnswers(hist[now], t.region, t.peer, t.addr)
                                          \cup FaultyAnswers(t.region, t.peer, t.addr)
    BY <2>1 DEF Receive
  <2>3. t.peer.stale
    <3>1. Answer("data_is_not_ready").kind = "data_is_not_ready"
      BY DEF Answer
    <3> QED
      BY <2>2, <3>1, AnswersNameStores
  <2>4. IsReplicaReadMode(work[r].mode)
    BY <1>1, <2>1, <2>3 DEF Typed, TasksTyped, TaskTyped, PeerTyped, Receive, IsReplicaReadMode
  <2> QED
    BY <1>1, <2>1, <2>4, BackoffNews, ReplanNews
<1>9. CASE StaleCommandOnReplica(r)
  <2>1. PICK t \in tasks[r] :
          /\ IsReplicaReadMode(work[r].mode)
          /\ FailTask(r, t) \/ Replan(r, t, NextAttempt(t.attempt), t.tries)
    BY <1>9 DEF StaleCommandOnReplica
  <2> QED
    BY <1>1, <2>1, BackoffNews, ReplanNews
<1>10. ASSUME NEW t \in tasks[r], NEW e, NEW rt, OnRegionError(r, t, e, rt),
              LeaderNamed(e, t.peer.store)
       PROVE  AllNews
  <2>1. \/ FailTask(r, t)
        \/ BackoffOrFail(r, t, NextAttempt(t.attempt))
        \/ /\ Replan(r, t, NextAttempt(t.attempt), t.tries)
           /\ Verdict(e, t.region) = "retry" \/ FastRetry(r, t, e)
    BY <1>10 DEF OnRegionError
  <2>2. cache' = RegionAfter(e, t.region) /\ storeCache' = StoresAfter(e, t.peer.store)
    BY <1>10 DEF OnRegionError
  <2>3. Verdict(e, t.region) = "retry" \/ FastRetry(r, t, e) =>
          IsReplicaReadMode(work[r].mode) \/ RoutedAnew(t)
    BY <1>10, <2>2, RetryRoutedAnew DEF FastRetry
  <2> QED
    BY <1>1, <2>1, <2>3, BackoffNews, ReplanNews
<1>11. CASE RegionError(r)
  <2>1. PICK t \in tasks[r] : \E e :
          /\ e \in StoreAnswers(hist[now], t.region, t.peer, t.addr)
                    \cup FaultyAnswers(t.region, t.peer, t.addr)
          /\ OnRegionError(r, t, e, routing[r])
    BY <1>11 DEF RegionError
  <2>2. PICK e :
          /\ e \in StoreAnswers(hist[now], t.region, t.peer, t.addr)
                    \cup FaultyAnswers(t.region, t.peer, t.addr)
          /\ OnRegionError(r, t, e, routing[r])
    BY <2>1
  <2>3. LeaderNamed(e, t.peer.store)
    BY <2>2, AnswersNameStores
  <2> QED
    BY <1>10, <2>2, <2>3
<1>12. CASE LockedStaleRead(r)
  <2>1. PICK t \in tasks[r] : OnRegionError(r, t, EpochNotMatch({}), ForceLeader(routing[r]))
    BY <1>12 DEF LockedStaleRead
  <2>2. LeaderNamed(EpochNotMatch({}), t.peer.store)
    BY SMTT(20) DEF LeaderNamed, EpochNotMatch
  <2> QED
    BY <1>10, <2>1, <2>2
<1> QED
  BY <1>2, <1>3, <1>4, <1>5, <1>6, <1>7, <1>8, <1>9, <1>11, <1>12 DEF PlanStep

----------------------------------------------------------------------------
(* Scans in order.  While it runs, a scan has got only keys below the next   *)
(* one: the region it goes on from ends no lower than the one that answers.  *)

ScanFields == {"pc", "cur", "left", "got", "region", "store", "addr", "tries"}

Ascending(q) == \A i, j \in 1..Len(q) : i < j => q[i] < q[j]

InOrder(w, s) ==
  /\ s.pc # "end" => /\ w.start <= s.cur /\ s.cur < w.end
                     /\ \A i \in 1..Len(s.got) : s.got[i] < s.cur
  /\ \A i \in 1..Len(s.got) : InScanRange(w, w.start, s.got[i])
  /\ Ascending(s.got)

ScanGood(w, s) ==
  /\ DOMAIN s = ScanFields
  /\ s.cur \in Nat /\ s.left \in Nat /\ s.got \in Seq(Nat)
  /\ s.pc \in {"byId", "exec"} => Known(s.region) /\ Contains(s.region, s.cur)
  /\ s.pc = "exec" => Known(s.store) /\ s.store.id = s.region.id
  /\ BeforeLast(w) /\ EndsOnlyShrink => InOrder(w, s)

ScansGood(f) ==
  DOMAIN f = Requests /\ \A r \in Requests : work[r].kind = "scan" => ScanGood(work[r], f[r])

ScanWork ==
  \A r \in Requests : work[r].kind = "scan" =>
    {work[r].start, work[r].end, work[r].limit} \subseteq Nat

ScansInv == ScanWork /\ ScansGood(scan)

(* What a region answers to a scan. *)
LEMMA Answered ==
  ASSUME NEW w, NEW cur, NEW left \in Nat, NEW g, NEW kvs \in ScanAnswers(w, cur, left, g)
  PROVE  /\ kvs \in Seq(Nat) /\ Len(kvs) \in Nat /\ Len(kvs) <= left
         /\ \A i \in 1..Len(kvs) : Contains(g, kvs[i]) /\ InScanRange(w, cur, kvs[i])
         /\ Ascending(kvs)
<1> DEFINE S == {k \in Present : Contains(g, k) /\ InScanRange(w, cur, k)}
<1>1. PICK n \in 0..left : kvs \in [1..n -> S]
  BY DEF ScanAnswers
<1>2. S \subseteq Nat
  BY ScanAssumption
<1>3. \A i, j \in DOMAIN kvs : i < j => kvs[i] < kvs[j]
  BY DEF ScanAnswers
<1>4. \A i \in 1..n : Contains(g, kvs[i]) /\ InScanRange(w, cur, kvs[i])
  BY <1>1
<1> HIDE DEF S
<1>5. n \in Nat /\ n <= left
  BY <1>1, SMTT(20)
<1>6. kvs \in Seq(Nat) /\ Len(kvs) = n
  <2>1. kvs \in [1..n -> Nat]
    BY <1>1, <1>2
  <2>2. kvs \in Seq(Nat)
    BY <1>5, <2>1, SMTT(20)
  <2> QED
    BY <1>5, <2>1, <2>2, SMTT(20)
<1> QED
  BY <1>1, <1>3, <1>4, <1>5, <1>6 DEF Ascending

(* The region that answers is the one the stores have now, so it ends no     *)
(* higher than the region the scan goes on from.                             *)
LEMMA AnsweredBelow ==
  ASSUME HistoryInv, NEW w, NEW s, ScanGood(w, s), BeforeLast(w), EndsOnlyShrink, s.pc = "exec",
         {w.start, w.end} \subseteq Nat, NEW peer,
         Answer("ok") \in StoreAnswers(hist[now], s.store, peer, s.addr)
  PROVE  /\ s.region.end # NoKey /\ s.cur < s.region.end
         /\ \A k \in Nat : Contains(s.store, k) => k < s.region.end
<1>1. Known(s.region) /\ Known(s.store) /\ s.store.id = s.region.id /\ Contains(s.region, s.cur)
  BY DEF ScanGood
<1>2. PICK i \in 1..now : \E h \in hist[i].regions : VerId(h) = VerId(s.region) /\ SameRange(h, s.region)
  BY <1>1 DEF Known
<1>3. PICK f \in hist[i].regions : VerId(f) = VerId(s.region) /\ SameRange(f, s.region)
  BY <1>2
<1> DEFINE h == RegionWithId(hist[now], s.store.id)
<1>4. h \in hist[now].regions /\ VerId(h) = VerId(s.store)
  <2>1. HasId(hist[now], s.store.id) /\ VerId(h) = VerId(s.store)
    BY SMTT(20) DEF StoreAnswers, Answer, NotLeader, EpochNotMatch
  <2>2. h \in hist[now].regions
    BY <2>1 DEF HasId, RegionWithId
  <2> QED
    BY <2>1, <2>2
<1> HIDE DEF h
<1>5. now \in 1..Len(hist) /\ now \in 1..now /\ i \in 1..Len(hist) /\ i <= now
  BY <1>2, Layouts, SMTT(20) DEF HistoryInv
<1>6. SameRange(h, s.store)
  <2>1. PICK j \in 1..now : \E e \in hist[j].regions : VerId(e) = VerId(s.store) /\ SameRange(e, s.store)
    BY <1>1 DEF Known
  <2>2. PICK e \in hist[j].regions : VerId(e) = VerId(s.store) /\ SameRange(e, s.store)
    BY <2>1
  <2>3. SameRange(h, e)
    BY <1>4, <1>5, <2>1, <2>2, Layouts
  <2> QED
    BY <2>2, <2>3 DEF SameRange
<1>7. f.id = h.id
  BY <1>1, <1>3, <1>4 DEF VerId
<1>8. /\ s.region.start \in Nat /\ s.region.end \in Nat /\ s.store.end \in Nat /\ s.cur \in Nat
      /\ s.cur < w.end /\ w.end \in Nat
  BY <1>1 DEF Known, ScanGood, InOrder
<1>9. s.region.end # NoKey
  <2>1. f.end = NoKey => w.end <= f.start
    BY <1>3, <1>5 DEF BeforeLast
  <2> QED
    BY <1>1, <1>3, <1>8, <2>1, SMTT(20) DEF SameRange, Contains
<1>10. h.end # NoKey /\ h.end <= f.end
  <2>1. f.end # NoKey
    BY <1>3, <1>9 DEF SameRange
  <2> QED
    BY <1>3, <1>4, <1>5, <1>7, <2>1 DEF EndsOnlyShrink
<1>11. s.store.end # NoKey /\ s.store.end <= s.region.end
  BY <1>3, <1>6, <1>10 DEF SameRange
<1> QED
  BY <1>1, <1>8, <1>9, <1>11, SMTT(20) DEF Contains, NoKey

(* Only the scan of request r changes, to u. *)
ScanSet(r, u) ==
  DOMAIN scan' = DOMAIN scan /\ scan'[r] = u /\ \A q \in Requests \ {r} : scan'[q] = scan[q]

LEMMA ScanSetGood ==
  ASSUME ScansGood(scan), NEW r \in Requests, NEW u, ScanGood(work[r], u), ScanSet(r, u)
  PROVE  ScansGood(scan')
  BY DEF ScansGood, ScanSet

(* A scan that ends, or that looks its region up again, keeps its order. *)
LEMMA ScanEnds ==
  ASSUME NEW w, NEW s, ScanGood(w, s)
  PROVE  /\ ScanGood(w, [s EXCEPT !.pc = "end"])
         /\ s.pc # "end" => \A n : ScanGood(w, [s EXCEPT !.pc = "byKey", !.tries = n])
<1>1. ScanGood(w, [s EXCEPT !.pc = "end"])
  <2> DEFINE u == [s EXCEPT !.pc = "end"]
  <2>1. /\ DOMAIN u = ScanFields /\ u.pc = "end" /\ u.cur = s.cur /\ u.left = s.left
        /\ u.got = s.got
    BY SMTT(20) DEF ScanGood, ScanFields
  <2> HIDE DEF u
  <2>2. InOrder(w, s) => InOrder(w, u)
    BY <2>1 DEF InOrder
  <2>3. ScanGood(w, u)
    BY <2>1, <2>2 DEF ScanGood
  <2> QED
    BY <2>3 DEF u
<1>2. ASSUME NEW n, s.pc # "end"
      PROVE  ScanGood(w, [s EXCEPT !.pc = "byKey", !.tries = n])
  <2> DEFINE u == [s EXCEPT !.pc = "byKey", !.tries = n]
  <2>1. /\ DOMAIN u = ScanFields /\ u.pc = "byKey" /\ u.cur = s.cur /\ u.left = s.left
        /\ u.got = s.got
    BY SMTT(20) DEF ScanGood, ScanFields
  <2> HIDE DEF u
  <2>2. InOrder(w, s) => InOrder(w, u)
    BY <1>2, <2>1 DEF InOrder
  <2>3. ScanGood(w, u)
    BY <1>2, <2>1, <2>2 DEF ScanGood
  <2> QED
    BY <2>3 DEF u
<1> QED
  BY <1>1, <1>2

(* A scan that found the region of its next key, then the one of that id. *)
LEMMA ScanFinds ==
  ASSUME NEW w, NEW s, ScanGood(w, s), s.pc # "end", NEW g, Known(g), NEW a
  PROVE  /\ Contains(g, s.cur) => ScanGood(w, [s EXCEPT !.pc = "byId", !.region = g])
         /\ s.pc = "byId" /\ g.id = s.region.id =>
              ScanGood(w, [s EXCEPT !.pc = "exec", !.store = g, !.addr = a])
<1>1. ASSUME Contains(g, s.cur)
      PROVE  ScanGood(w, [s EXCEPT !.pc = "byId", !.region = g])
  <2> DEFINE u == [s EXCEPT !.pc = "byId", !.region = g]
  <2>1. /\ DOMAIN u = ScanFields /\ u.pc = "byId" /\ u.cur = s.cur /\ u.left = s.left
        /\ u.got = s.got /\ u.region = g
    BY SMTT(20) DEF ScanGood, ScanFields
  <2> HIDE DEF u
  <2>2. InOrder(w, s) => InOrder(w, u)
    BY <1>1, <2>1 DEF InOrder
  <2>3. ScanGood(w, u)
    BY <1>1, <2>1, <2>2 DEF ScanGood
  <2> QED
    BY <2>3 DEF u
<1>2. ASSUME s.pc = "byId", g.id = s.region.id
      PROVE  ScanGood(w, [s EXCEPT !.pc = "exec", !.store = g, !.addr = a])
  <2> DEFINE u == [s EXCEPT !.pc = "exec", !.store = g, !.addr = a]
  <2>1. /\ DOMAIN u = ScanFields /\ u.pc = "exec" /\ u.cur = s.cur /\ u.left = s.left
        /\ u.got = s.got /\ u.region = s.region /\ u.store = g
    BY SMTT(20) DEF ScanGood, ScanFields
  <2> HIDE DEF u
  <2>2. InOrder(w, s) => InOrder(w, u)
    BY <1>2, <2>1 DEF InOrder
  <2>3. ScanGood(w, u)
    BY <1>2, <2>1, <2>2 DEF ScanGood
  <2> QED
    BY <2>3 DEF u
<1> QED
  BY <1>1, <1>2

(* A scan that goes on adds keys that lie above those it has and below the   *)
(* end of the region it goes on from.                                        *)
LEMMA ScanGrows ==
  ASSUME HistoryInv, NEW w, {w.start, w.end, w.limit} \subseteq Nat, NEW s, ScanGood(w, s),
         BeforeLast(w), EndsOnlyShrink, s.pc = "exec", NEW peer,
         Answer("ok") \in StoreAnswers(hist[now], s.store, peer, s.addr),
         NEW kvs \in ScanAnswers(w, s.cur, s.left, s.store)
  PROVE  /\ \A i \in 1..Len(s.got \o kvs) : /\ InScanRange(w, w.start, (s.got \o kvs)[i])
                                            /\ (s.got \o kvs)[i] < s.region.end
         /\ Ascending(s.got \o kvs)
         /\ w.start <= s.region.end
<1>1. /\ s.cur \in Nat /\ s.got \in Seq(Nat) /\ s.left \in Nat /\ InOrder(w, s)
      /\ s.region.end \in Nat
  BY DEF ScanGood, Known
<1>2. s.cur < s.region.end /\ \A k \in Nat : Contains(s.store, k) => k < s.region.end
  BY AnsweredBelow
<1>3. /\ kvs \in Seq(Nat) /\ Len(kvs) \in Nat /\ Ascending(kvs)
      /\ \A i \in 1..Len(kvs) : Contains(s.store, kvs[i]) /\ InScanRange(w, s.cur, kvs[i])
  BY <1>1, Answered
<1>4. \A i \in 1..Len(kvs) : /\ kvs[i] \in Nat /\ s.cur <= kvs[i] /\ kvs[i] < s.region.end
                             /\ (w.end = NoKey \/ kvs[i] < w.end)
  BY <1>1, <1>2, <1>3, SMTT(20) DEF InScanRange
<1>5. /\ w.start <= s.cur /\ s.cur < w.end
      /\ \A i \in 1..Len(s.got) : /\ s.got[i] \in Nat /\ s.got[i] < s.cur /\ w.start <= s.got[i]
                                  /\ (w.end = NoKey \/ s.got[i] < w.end)
  BY <1>1, SMTT(20) DEF InOrder, InScanRange
<1> DEFINE all == s.got \o kvs
<1>6. /\ Len(s.got) \in Nat /\ Len(all) = Len(s.got) + Len(kvs)
      /\ \A i \in 1..Len(all) :
           \/ i \in 1..Len(s.got) /\ all[i] = s.got[i]
           \/ i \notin 1..Len(s.got) /\ i - Len(s.got) \in 1..Len(kvs)
                /\ all[i] = kvs[i - Len(s.got)]
  BY <1>1, <1>3, SMTT(20)
<1> HIDE DEF all
<1>7. ASSUME NEW i \in 1..Len(all)
      PROVE  InScanRange(w, w.start, all[i]) /\ all[i] < s.region.end
  <2>1. CASE i \in 1..Len(s.got) /\ all[i] = s.got[i]
    BY <1>1, <1>2, <1>5, <2>1, SMTT(20) DEF InScanRange
  <2>2. CASE i - Len(s.got) \in 1..Len(kvs) /\ all[i] = kvs[i - Len(s.got)]
    <3>1. /\ all[i] \in Nat /\ s.cur <= all[i] /\ all[i] < s.region.end
          /\ (w.end = NoKey \/ all[i] < w.end)
      BY <1>4, <2>2
    <3> QED
      BY <1>1, <1>5, <3>1, SMTT(20) DEF InScanRange
  <2> QED
    BY <1>6, <2>1, <2>2
<1>8. Ascending(all)
  <2>1. SUFFICES ASSUME NEW i \in 1..Len(all), NEW j \in 1..Len(all), i < j
                 PROVE  all[i] < all[j]
    BY DEF Ascending
  <2>2. CASE j \in 1..Len(s.got)
    <3>1. i \in 1..Len(s.got)
      BY <1>6, <2>1, <2>2, SMTT(20)
    <3> QED
      BY <1>1, <1>6, <2>1, <2>2, <3>1 DEF InOrder, Ascending
  <2>3. CASE j \notin 1..Len(s.got)
    <3>1. CASE i \in 1..Len(s.got)
      <4>1. all[i] \in Nat /\ all[i] < s.cur
        BY <1>5, <1>6, <3>1
      <4>2. all[j] \in Nat /\ s.cur <= all[j]
        BY <1>4, <1>6, <2>3
      <4> QED
        BY <1>1, <4>1, <4>2, SMTT(20)
    <3>2. CASE i \notin 1..Len(s.got)
      <4>1. i - Len(s.got) < j - Len(s.got)
        BY <1>6, <2>1, SMTT(20)
      <4> QED
        BY <1>3, <1>6, <2>3, <3>2, <4>1 DEF Ascending
    <3> QED
      BY <3>1, <3>2
  <2> QED
    BY <2>2, <2>3
<1> QED
  BY <1>1, <1>2, <1>5, <1>7, <1>8, SMTT(20) DEF all

(* A scan that succeeds was answered by the stores as they are now. *)
LEMMA OkIsCurrent ==
  ASSUME NEW r, ScanReceive(r, Answer("ok"))
  PROVE  Answer("ok") \in StoreAnswers(hist[now], scan[r].store, ScanPeer(r), scan[r].addr)
<1>1. ASSUME NEW g, NEW peer, NEW addr, Answer("ok") \in FaultyAnswers(g, peer, addr)
      PROVE  FALSE
  <2>1. /\ \A k : Answer(k).kind = k
        /\ \A s : NotLeader(s).kind = "not_leader" /\ EpochNotMatch(s).kind = "epoch_not_match"
    BY SMTT(20) DEF Answer, NotLeader, EpochNotMatch
  <2>2. \/ \E k \in {"grpc", "other", "key_error", "server_is_busy", "stale_command",
                     "read_index_not_ready", "raft_entry_too_large", "unknown"} :
             Answer("ok") = Answer(k)
        \/ Answer("ok") = NotLeader(None) \/ Answer("ok") = EpochNotMatch({})
        \/ Answer("ok") = Answer("data_is_not_ready")
    BY <1>1 DEF FaultyAnswers
  <2> QED
    BY <2>1, <2>2
<1> QED
  BY <1>1 DEF ScanReceive

(* A scan that got an answer goes on in order, or ends. *)
LEMMA ScanOkInOrder ==
  ASSUME HistoryInv, ScansInv, NEW r \in Requests, work[r].kind = "scan", ScanOk(r)
  PROVE  ScansGood(scan')
<1> DEFINE w == work[r]
           s == scan[r]
<1>1. PICK kvs \in ScanAnswers(w, s.cur, s.left, s.store) : ScanAdvance(r, kvs)
  BY DEF ScanOk
<1>2. /\ ScanGood(w, s) /\ {w.start, w.end, w.limit} \subseteq Nat /\ DOMAIN scan = Requests
      /\ s.pc = "exec"
      /\ Answer("ok") \in StoreAnswers(hist[now], s.store, ScanPeer(r), s.addr)
  BY OkIsCurrent DEF ScansInv, ScansGood, ScanWork, ScanOk, ScanReceive
<1>3. /\ s.cur \in Nat /\ s.left \in Nat /\ s.got \in Seq(Nat) /\ s.region.end \in Nat
      /\ DOMAIN s = ScanFields
  BY <1>2 DEF ScanGood, Known
<1>4. kvs \in Seq(Nat) /\ Len(kvs) \in Nat /\ Len(kvs) <= s.left
  BY <1>3, Answered
<1>5. s.got \o kvs \in Seq(Nat) /\ s.left - Len(kvs) \in Nat
  BY <1>3, <1>4, SMTT(20)
<1>6. BeforeLast(w) /\ EndsOnlyShrink =>
        /\ \A i \in 1..Len(s.got \o kvs) : /\ InScanRange(w, w.start, (s.got \o kvs)[i])
                                           /\ (s.got \o kvs)[i] < s.region.end
        /\ Ascending(s.got \o kvs)
        /\ w.start <= s.region.end /\ w.end # NoKey
  BY <1>2, ScanGrows DEF BeforeLast
<1> DEFINE all == s.got \o kvs
           left == s.left - Len(kvs)
<1>7. CASE left = 0 \/ (w.end # NoKey /\ w.end <= s.region.end)
  <2> DEFINE u == [s EXCEPT !.pc = "end", !.got = all, !.left = left]
  <2>1. scan' = [scan EXCEPT ![r].pc = "end", ![r].got = @ \o kvs, ![r].left = left]
    BY <1>1, <1>7 DEF ScanAdvance
  <2>2. ScanSet(r, u)
    BY <1>2, <2>1, SMTT(20) DEF ScanSet
  <2>3. /\ DOMAIN u = ScanFields /\ u.pc = "end" /\ u.cur = s.cur /\ u.left = left
        /\ u.got = all
    BY <1>3, SMTT(20) DEF ScanFields
  <2> HIDE DEF u, all, left
  <2>4. BeforeLast(w) /\ EndsOnlyShrink => InOrder(w, u)
    BY <1>6, <2>3 DEF InOrder, all
  <2>5. ScanGood(w, u)
    BY <1>3, <1>5, <2>3, <2>4 DEF ScanGood, all, left
  <2> QED
    BY <2>2, <2>5, ScanSetGood DEF ScansInv
<1>8. CASE ~(left = 0 \/ (w.end # NoKey /\ w.end <= s.region.end))
  <2> DEFINE u == [NewScan(w) EXCEPT !.cur = s.region.end, !.left = left, !.got = all]
  <2>1. scan' = [scan EXCEPT ![r] = u]
    BY <1>1, <1>8 DEF ScanAdvance
  <2>2. ScanSet(r, u)
    BY <1>2, <2>1 DEF ScanSet
  <2>3. /\ DOMAIN u = ScanFields /\ u.pc = "byKey" /\ u.cur = s.region.end /\ u.left = left
        /\ u.got = all
    BY SMTT(20) DEF ScanFields, NewScan
  <2> HIDE DEF u, all, left
  <2>4. BeforeLast(w) /\ EndsOnlyShrink => InOrder(w, u)
    <3>1. w.end # NoKey => s.region.end < w.end
      BY <1>2, <1>3, <1>8, SMTT(20)
    <3> QED
      BY <1>6, <2>3, <3>1 DEF InOrder, all
  <2>5. ScanGood(w, u)
    BY <1>3, <1>5, <2>3, <2>4 DEF ScanGood, all, left
  <2> QED
    BY <2>2, <2>5, ScanSetGood DEF ScansInv
<1> QED
  BY <1>7, <1>8

(* A step of a scan keeps all scans in order. *)
LEMMA ScanStepInOrder ==
  ASSUME HistoryInv, LookGood(look), ScansInv, NEW r \in Requests, ScanStep(r)
  PROVE  ScansGood(scan')
<1> DEFINE w == work[r]
           s == scan[r]
<1>1. work[r].kind = "scan" /\ ScanGood(w, s) /\ DOMAIN scan = Requests /\ ScansGood(scan)
  BY DEF ScanStep, ScansInv, ScansGood
<1>2. ASSUME scan' = [scan EXCEPT ![r].pc = "end"]
      PROVE  ScansGood(scan')
  <2>1. ScanSet(r, [s EXCEPT !.pc = "end"])
    BY <1>1, <1>2 DEF ScanSet
  <2> QED
    BY <1>1, <2>1, ScanEnds, ScanSetGood
<1>3. CASE ScanRegionFound(r)
  <2> DEFINE l == ScanKeyLookup(r)
             g == look[l].region
  <2>1. /\ s.pc = "byKey" /\ l \in DOMAIN look /\ look[l].pc = "done"
        /\ scan' = [scan EXCEPT ![r].pc = "byId", ![r].region = g]
    BY <1>3 DEF ScanRegionFound
  <2>2. Known(g) /\ Contains(g, s.cur)
    <3>1. Looked(l, look[l])
      BY <2>1 DEF LookGood
    <3>2. Fits(g, l[2]) /\ l[2][1] = "key" /\ l[2][2] = s.cur
      BY <2>1, <3>1 DEF Looked, ScanKeyLookup, KeyLookup
    <3> QED
      BY <3>2 DEF Fits, Matches
  <2>3. ScanSet(r, [s EXCEPT !.pc = "byId", !.region = g])
    BY <1>1, <2>1, SMTT(20) DEF ScanSet
  <2>4. ScanGood(w, [s EXCEPT !.pc = "byId", !.region = g])
    BY <1>1, <2>1, <2>2, ScanFinds
  <2> QED
    BY <1>1, <2>3, <2>4, ScanSetGood
<1>4. CASE ScanStoreFound(r)
  <2> DEFINE l == ScanIdLookup(r)
             g == look[l].region
             a == AddressOf(g.leader)
  <2>1. /\ s.pc = "byId" /\ l \in DOMAIN look /\ look[l].pc = "done"
        /\ scan' = [scan EXCEPT ![r].pc = "exec", ![r].store = g, ![r].addr = a]
    BY <1>4 DEF ScanStoreFound
  <2>2. Known(g) /\ g.id = s.region.id
    <3>1. Looked(l, look[l])
      BY <2>1 DEF LookGood
    <3>2. Fits(g, l[2]) /\ l[2][1] = "id" /\ l[2][2] = s.region.id
      BY <2>1, <3>1 DEF Looked, ScanIdLookup
    <3> QED
      BY <3>2 DEF Fits, Matches
  <2> HIDE DEF a
  <2>3. ScanSet(r, [s EXCEPT !.pc = "exec", !.store = g, !.addr = a])
    BY <1>1, <2>1, SMTT(20) DEF ScanSet
  <2>4. ScanGood(w, [s EXCEPT !.pc = "exec", !.store = g, !.addr = a])
    BY <1>1, <2>1, <2>2, ScanFinds
  <2> QED
    BY <1>1, <2>3, <2>4, ScanSetGood
<1>5. CASE ScanLookupFails(r) \/ ScanError(r)
  BY <1>2, <1>5 DEF ScanLookupFails, ScanError, EndScan
<1>6. CASE ScanOk(r)
  BY <1>1, <1>6, ScanOkInOrder
<1>7. CASE ScanRegionError(r)
  <2>1. CASE scan' = [scan EXCEPT ![r].pc = "end"]
    BY <1>2, <2>1
  <2>2. ASSUME NEW n, scan' = [scan EXCEPT ![r].pc = "byKey", ![r].tries = n]
        PROVE  ScansGood(scan')
    <3>1. ScanSet(r, [s EXCEPT !.pc = "byKey", !.tries = n])
      BY <1>1, <2>2, SMTT(20) DEF ScanSet
    <3>2. s.pc # "end"
      BY <1>7 DEF ScanRegionError
    <3>3. ScanGood(w, [s EXCEPT !.pc = "byKey", !.tries = n])
      BY <1>1, <3>2, ScanEnds
    <3> QED
      BY <1>1, <3>1, <3>3, ScanSetGood
  <2>3. \/ scan' = [scan EXCEPT ![r].pc = "end"]
        \/ \E n : scan' = [scan EXCEPT ![r].pc = "byKey", ![r].tries = n]
    <3>1. PICK e : \/ scan' = [scan EXCEPT ![r].pc = "end"]
                   \/ scan' = [scan EXCEPT ![r].pc = "byKey",
                                           ![r].tries = IF Verdict(e, scan[r].store) = "retry"
                                                        THEN @ ELSE @ + 1]
      BY <1>7 DEF ScanRegionError, EndScan
    <3>2. CASE scan' = [scan EXCEPT ![r].pc = "byKey",
                                    ![r].tries = IF Verdict(e, scan[r].store) = "retry"
                                                 THEN @ ELSE @ + 1]
      <4>1. scan' = [scan EXCEPT ![r].pc = "byKey",
                                 ![r].tries = IF Verdict(e, scan[r].store) = "retry"
                                              THEN s.tries ELSE s.tries + 1]
        BY <1>1, <3>2, SMTT(20) DEF ScanGood, ScanFields
      <4> QED
        BY <4>1
    <3> QED
      BY <3>1, <3>2
  <2> QED
    BY <2>1, <2>2, <2>3
<1> QED
  BY <1>3, <1>4, <1>5, <1>6, <1>7 DEF ScanStep

(* A step of a scan keeps the types, and plans nothing. *)
LEMMA ScanStepTyped ==
  ASSUME LookGood(look), ShardDomains, TypesInv, NEW r \in Requests, ScanStep(r)
  PROVE  TypedNext /\ UNCHANGED <<work, planning, tasks>>
<1>1. UNCHANGED <<work, planning, tasks, routing>>
  BY DEF ScanStep, ScanRegionFound, ScanStoreFound, ScanLookupFails, ScanOk, ScanRegionError,
         ScanError, ScanUnchanged
<1>2. status' = status \/ \E v \in {"done", "failed"} : status' = [status EXCEPT ![r] = v]
  BY DEF ScanStep, ScanRegionFound, ScanStoreFound, ScanLookupFails, ScanOk, ScanRegionError,
         ScanError, EndScan, ScanAdvance
<1>3. Effect(r, {}, {})
  BY <1>1, <1>2 DEF Effect, ShardDomains
<1>4. PlansTyped({}) /\ TasksTyped(work[r].mode, {})
  BY DEF PlansTyped, TasksTyped
<1>5. Typed(planning', tasks', status')
  BY <1>3, <1>4, EffectTyped DEF TypesInv
<1>6. StoresGood(storeCache')
  <2>1. CASE ScanStoreFound(r)
    <3> DEFINE l == ScanIdLookup(r)
               g == look[l].region
    <3>1. /\ l \in DOMAIN look /\ look[l].pc = "done" /\ g.leader # None
          /\ storeCache' = With(storeCache, g.leader, AddressOf(g.leader))
      BY <2>1 DEF ScanStoreFound
    <3>2. Known(g)
      BY <3>1 DEF LookGood, Looked, Fits
    <3>3. g.leader \in Stores
      BY <3>1, <3>2 DEF Known
    <3> QED
      BY <3>1, <3>3, StoreSet DEF TypesInv
  <2>2. CASE ScanRegionError(r)
    <3>1. \E e, g : storeCache' = StoresAfter(e, g)
      BY <2>2 DEF ScanRegionError
    <3> QED
      BY <3>1, StoreSet DEF TypesInv
  <2>3. CASE ScanRegionFound(r) \/ ScanLookupFails(r) \/ ScanOk(r) \/ ScanError(r)
    BY <2>3 DEF ScanRegionFound, ScanLookupFails, ScanOk, ScanError, TypesInv
  <2> QED
    BY <2>1, <2>2, <2>3 DEF ScanStep
<1> QED
  BY <1>1, <1>5, <1>6 DEF TypedNext, TypesInv

----------------------------------------------------------------------------
(* The steps together.  No step changes what the requests are for, and a     *)
(* step costs at most one fault.                                             *)

Spends == UNCHANGED work /\ (UNCHANGED faults \/ Fault)

LEMMA NextSpends == [Next]_vars => Spends
<1> SUFFICES ASSUME [Next]_vars PROVE Spends
  OBVIOUS
<1>1. ASSUME NEW t, NEW e, Receive(t, e) PROVE UNCHANGED faults \/ Fault
  BY <1>1 DEF Receive, clusterVars
<1>2. ASSUME NEW r, NEW e, ScanReceive(r, e) PROVE UNCHANGED faults \/ Fault
  BY <1>2 DEF ScanReceive, clusterVars
<1>3. ASSUME NEW l, LookupStep(l) PROVE Spends
  BY <1>3 DEF LookupStep, clusterVars, planVars, Spends
<1>4. ASSUME NEW r, PlanStep(r) PROVE Spends
  <2>1. CASE GroupKeys(r) \/ PlanFails(r) \/ LeaderNotFound(r) \/ SelectReadPeer(r)
    BY <2>1 DEF GroupKeys, PlanFails, LeaderNotFound, SelectReadPeer, clusterVars, Spends
  <2>2. CASE MapRegionToStore(r) \/ AcquirePermit(r) \/ PlanDone(r)
    BY <2>2 DEF MapRegionToStore, AcquirePermit, PlanDone, clusterVars, Spends
  <2>3. CASE MapFails(r) \/ LockedStaleRead(r) \/ Locked(r)
    BY <2>3 DEF MapFails, LockedStaleRead, Locked, OnRegionError, Spends
  <2>4. CASE Respond(r) \/ GrpcError(r) \/ OtherError(r)
    BY <1>1, <2>4 DEF Respond, GrpcError, OtherError, Spends
  <2>5. CASE DataIsNotReady(r) \/ StaleCommandOnReplica(r)
    BY <1>1, <2>5 DEF DataIsNotReady, StaleCommandOnReplica, Spends
  <2>6. CASE RegionError(r)
    BY <1>1, <2>6 DEF RegionError, OnRegionError, Spends
  <2> QED
    BY <1>4, <2>1, <2>2, <2>3, <2>4, <2>5, <2>6 DEF PlanStep
<1>5. ASSUME NEW r, ScanStep(r) PROVE Spends
  <2>1. CASE ScanRegionFound(r) \/ ScanStoreFound(r) \/ ScanLookupFails(r)
    BY <2>1 DEF ScanRegionFound, ScanStoreFound, ScanLookupFails, ScanUnchanged, clusterVars,
                Spends
  <2>2. CASE ScanOk(r) \/ ScanRegionError(r) \/ ScanError(r)
    BY <1>2, <2>2 DEF ScanOk, ScanRegionError, ScanError, ScanUnchanged, Spends
  <2> QED
    BY <1>5, <2>1, <2>2 DEF ScanStep
<1>6. CASE Environment
  BY <1>6 DEF Environment, ClusterChange, PdCatchUp, EntryExpires, SlowEnds, clusterVars,
              planVars, Spends
<1>7. CASE UNCHANGED vars
  BY <1>7 DEF vars, clusterVars, planVars, Spends
<1> QED
  BY <1>3, <1>4, <1>5, <1>6, <1>7 DEF Next

FaultsInv == \E s \in Scenarios : hist = s.hist /\ faults \in 0..s.faults

RInv == IInv /\ ShardInv /\ TypesInv /\ ScansInv /\ FaultsInv

(* Every step keeps types and scans; a retry at once has learned something. *)
LEMMA StepRouted ==
  ASSUME RInv, [Next]_vars
  PROVE  TypedNext /\ ScansGood(scan') /\ AllNews
<1>1. /\ HistoryInv /\ CacheGood(cache) /\ LookGood(look) /\ ShardInv /\ ShardDomains
      /\ TypesInv /\ ScansInv /\ ScansGood(scan)
  BY DEF RInv, IInv, ShardInv, ScansInv
<1>2. ASSUME UNCHANGED <<planning, tasks, routing, status, storeCache, scan>>
      PROVE  TypedNext /\ ScansGood(scan') /\ AllNews
  BY <1>1, <1>2 DEF TypedNext, TypesInv, AllNews, RetriedAtOnce
<1>3. CASE \E l \in DOMAIN look : LookupStep(l)
  BY <1>2, <1>3 DEF LookupStep, planVars
<1>4. ASSUME NEW r \in Requests, PlanStep(r)
      PROVE  TypedNext /\ ScansGood(scan') /\ AllNews
  <2>1. scan' = scan
    BY <1>4 DEF PlanStep
  <2> QED
    BY <1>1, <1>4, <2>1, PlanStepTyped, PlanStepNews
<1>5. ASSUME NEW r \in Requests, ScanStep(r)
      PROVE  TypedNext /\ ScansGood(scan') /\ AllNews
  <2>1. TypedNext /\ UNCHANGED <<work, planning, tasks>>
    BY <1>1, <1>5, ScanStepTyped
  <2>2. AllNews
    BY <2>1 DEF AllNews, RetriedAtOnce
  <2> QED
    BY <1>1, <1>5, <2>1, <2>2, ScanStepInOrder
<1>6. CASE Environment
  BY <1>2, <1>6 DEF Environment, EntryExpires, SlowEnds, planVars
<1>7. CASE UNCHANGED vars
  BY <1>2, <1>7 DEF vars, planVars
<1> QED
  BY <1>3, <1>4, <1>5, <1>6, <1>7 DEF Next

(* The inductive invariant of the requests and scans. *)
LEMMA InitRInv == Init => RInv
<1> SUFFICES ASSUME Init PROVE RInv
  OBVIOUS
<1>1. PICK s \in Scenarios : ClusterInit(s) /\ PlanInit(s)
  BY DEF Init
<1>2. FaultsInv
  <2>1. s.faults \in 0..s.faults
    BY ScenariosAssumption, SMTT(20)
  <2> QED
    BY <1>1, <2>1 DEF FaultsInv, ClusterInit
<1>3. TypesInv
  <2>1. \A r \in Requests : /\ planning[r] \subseteq {NewPlan(work[r].keys, 0, 0, TRUE)}
                            /\ tasks[r] = {} /\ status[r] \in {"running", "done", "failed"}
    BY <1>1 DEF PlanInit
  <2>2. \A r \in Requests : PlanTyped(NewPlan(work[r].keys, 0, 0, TRUE))
    <3>1. 0 \in 0..MaxAttempts
      BY PlanAssumption, SMTT(20)
    <3> QED
      BY <3>1 DEF PlanTyped, NewPlan
  <2>3. Typed(planning, tasks, status)
    BY <2>1, <2>2 DEF Typed, PlansTyped, TasksTyped
  <2>4. RoutingsGood(routing) /\ StoresGood(storeCache)
    BY <1>1 DEF PlanInit, RoutingsGood, RoutingTyped, NewRouting, StoresGood, EmptyFcn
  <2> QED
    BY <2>3, <2>4 DEF TypesInv
<1>4. ScansInv
  <2>1. ScanWork
    BY <1>1, ScanAssumption DEF PlanInit, ScanWork
  <2>2. scan = [r \in Requests |-> IF work[r].kind = "scan" THEN NewScan(work[r]) ELSE None]
    BY DEF Init
  <2>3. ASSUME NEW r \in Requests, work[r].kind = "scan"
        PROVE  ScanGood(work[r], scan[r])
    <3> DEFINE w == work[r]
               u == NewScan(w)
    <3>1. /\ DOMAIN u = ScanFields /\ u.pc = "byKey" /\ u.cur = w.start /\ u.left = w.limit
          /\ u.got = <<>>
      BY DEF NewScan, ScanFields
    <3>2. scan[r] = u /\ w.start \in Nat /\ w.limit \in Nat /\ <<>> \in Seq(Nat)
      BY <2>1, <2>2, <2>3, SMTT(20) DEF ScanWork
    <3>3. Len(<<>>) = 0 /\ \A i \in 1..0 : FALSE
      BY SMTT(20)
    <3>4. w.start <= w.start
      BY <3>2, SMTT(20)
    <3> HIDE DEF u, w
    <3>5. BeforeLast(w) => InOrder(w, u)
      BY <3>1, <3>3, <3>4 DEF InOrder, Ascending, BeforeLast
    <3>6. ScanGood(w, u)
      BY <3>1, <3>2, <3>5 DEF ScanGood
    <3> QED
      BY <3>2, <3>6 DEF w
  <2> QED
    BY <2>1, <2>2, <2>3 DEF ScansInv, ScansGood
<1> QED
  BY <1>2, <1>3, <1>4, InitIInv, ShardsInitially DEF RInv

LEMMA NextRInv == RInv /\ [Next]_vars => RInv' /\ AllNews
<1> SUFFICES ASSUME RInv, [Next]_vars PROVE RInv' /\ AllNews
  OBVIOUS
<1>1. IInv' /\ NotBack
  BY NextIInv DEF RInv
<1>2. ShardInv'
  BY PlanStepKeeps, OtherStepsKeep DEF RInv, Next
<1>3. TypedNext /\ ScansGood(scan') /\ AllNews
  BY StepRouted
<1>4. Spends
  BY NextSpends
<1>5. TypesInv'
  BY <1>1, <1>3, <1>4 DEF TypesInv, TypedNext, Typed, PlansTyped, PlanTyped, TasksTyped, TaskTyped,
                          PeerTyped, RoutingsGood, RoutingTyped, StoresGood, Known, NotBack, Spends
<1>6. ScansInv'
  <2>1. ScanWork'
    BY <1>4 DEF RInv, ScansInv, ScanWork, Spends
  <2>2. ScansGood(scan)'
    BY <1>1, <1>3, <1>4 DEF ScansGood, ScanGood, Known, NotBack, Spends, InOrder, BeforeLast,
                            EndsOnlyShrink
  <2> QED
    BY <2>1, <2>2 DEF ScansInv
<1>7. FaultsInv'
  <2>1. PICK s \in Scenarios : hist = s.hist /\ faults \in 0..s.faults
    BY DEF RInv, FaultsInv
  <2>2. s.faults \in Nat
    BY ScenariosAssumption
  <2>3. faults' \in 0..s.faults
    BY <1>4, <2>1, <2>2, SMTT(20) DEF Spends, Fault
  <2>4. hist' = s.hist
    BY <1>1, <2>1 DEF NotBack
  <2> QED
    BY <2>3, <2>4 DEF FaultsInv
<1> QED
  BY <1>1, <1>2, <1>3, <1>5, <1>6, <1>7 DEF RInv

(* What is cached has the type of a region, and the rest its own. *)
LEMMA RInvTypes == RInv => TypeOK
<1> SUFFICES ASSUME RInv PROVE TypeOK
  OBVIOUS
<1>1. /\ HistoryInv /\ Indexed(cache) /\ LookGood(look) /\ LoadersGood(inFlight)
      /\ Typed(planning, tasks, status) /\ RoutingsGood(routing) /\ StoresGood(storeCache)
  BY DEF RInv, IInv, CacheGood, TypesInv
<1>2. ClusterTypeOK
  BY <1>1 DEF RInv, FaultsInv, HistoryInv, ClusterTypeOK
<1>3. ASSUME NEW g, Known(g) PROVE IsRegion(g)
  <2>1. PICK i \in 1..now : \E h \in hist[i].regions : VerId(h) = VerId(g)
    BY <1>3 DEF Known
  <2>2. PICK h \in hist[i].regions : VerId(h) = VerId(g)
    BY <2>1
  <2>3. IsRegion(h)
    BY <1>1, <2>1, <2>2, Layouts
  <2>4. g.id = h.id /\ g.conf = h.conf /\ g.ver = h.ver
    BY <2>2, SMTT(20) DEF VerId
  <2> QED
    BY <1>3, <2>3, <2>4 DEF Known, IsRegion
<1>4. /\ \A v \in DOMAIN cache.regions : IsRegion(cache.regions[v])
      /\ cache.expired \subseteq DOMAIN cache.regions
  BY <1>1, <1>3 DEF Indexed
<1>5. /\ \A t \in DOMAIN inFlight : inFlight[t] \in Requests
      /\ \A l \in DOMAIN look : l[1] \in Requests /\ look[l].of \in Requests \cup {None}
  BY <1>1 DEF LookGood, Looked, LoadersGood
<1>6. ASSUME NEW r \in Requests, NEW t \in tasks[r]
      PROVE  t.tries <= MaxAttempts /\ t.locks <= MaxLockAttempts
  <2>1. t.tries \in 0..MaxAttempts /\ t.locks \in 0..MaxLockAttempts
    BY <1>1 DEF Typed, TasksTyped, TaskTyped
  <2> QED
    BY <2>1, PlanAssumption, SMTT(20)
<1>7. \A r \in Requests : /\ status[r] \in {"running", "done", "failed"}
                          /\ routing[r].pending \subseteq Stores
  BY <1>1 DEF Typed, RoutingsGood, RoutingTyped
<1> QED
  BY <1>1, <1>2, <1>4, <1>5, <1>6, <1>7 DEF TypeOK, StoresGood

(* In every behaviour the caches, lookups, requests and scans keep their     *)
(* types: no shard spends more attempts or waits for more locks than its     *)
(* backoffs allow, and only stores are cached or owed a backoff.             *)
THEOREM RoutingTypes == Spec => []TypeOK
<1> QED
  BY InitRInv, NextRInv, RInvTypes, PTL DEF Spec

(* In every behaviour a shard that is planned again without spending an      *)
(* attempt no longer finds, in the two caches, the leader that refused it.   *)
THEOREM RetryAtOnceHasNews == Spec => ImmediateRetryHasNews
<1>1. RInv /\ [Next]_vars => RInv'
  BY NextRInv
<1>2. RInv /\ [Next]_vars =>
        [\A r \in Requests : \A t \in tasks[r] : RetriedAtOnce(r, t) => RoutedAnew(t)]_vars
  BY NextRInv DEF AllNews
<1> QED
  BY <1>1, <1>2, InitRInv, PTL DEF Spec, ImmediateRetryHasNews

(* In every behaviour a raw scan whose range ends before the last region     *)
(* returns its keys in ascending order, each once, if no region's end moves  *)
(* up: it goes on from the end of the region it looked up by key, though the *)
(* store it asked was looked up by id.                                       *)
THEOREM ScansInOrder == Spec => []ScanInOrder
<1>1. RInv => ScanInOrder
  BY DEF RInv, ScansInv, ScansGood, ScanGood, InOrder, Ascending, ScanInOrder
<1> QED
  BY <1>1, InitRInv, NextRInv, PTL DEF Spec
============================================================================
