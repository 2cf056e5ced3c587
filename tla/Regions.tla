------------------------------ MODULE Regions ------------------------------
(* The key space as PD and TiKV partition it.  A key is a natural number and *)
(* 0 is the empty key: as an end key it means "no upper bound".  The cluster *)
(* moves through a history of layouts, and PD follows it with a delay.       *)
EXTENDS Integers, Sequences, FiniteSets

CONSTANTS
  Stores,      \* TiKV stores
  None,        \* no leader, no region, no answer
  Scenarios    \* histories of layouts, with what the client does meanwhile
               \* and how many transient failures it may meet

VARIABLES
  hist,        \* the history this behaviour follows
  now,         \* index of the layout of the TiKV stores
  pd,          \* index of the layout PD answers from
  faults       \* transient failures, expiries and outages still to come

clusterVars == <<hist, now, pd, faults>>

NoKey == 0

(* RegionVerId: the identity of a region across time. *)
VerId(r) == [id |-> r.id, conf |-> r.conf, ver |-> r.ver]

(* RegionWithLeader::contains. *)
Contains(r, k) == k >= r.start /\ (k < r.end \/ r.end = NoKey)

IsRegion(r) ==
  /\ DOMAIN r = {"id", "conf", "ver", "start", "end", "peers", "leader"}
  /\ {r.id, r.conf, r.ver, r.start, r.end} \subseteq Nat
  /\ r.end = NoKey \/ r.start < r.end
  /\ r.peers \subseteq Stores
  /\ r.leader \in Stores \cup {None}

IsLayout(l) ==
  /\ DOMAIN l = {"regions", "addr"}
  /\ \A r \in l.regions : IsRegion(r)

(* A version of a region has one range: a split or merge makes a new version. *)
SameRange(r, g) == r.start = g.start /\ r.end = g.end

(* A history is a sequence of layouts, at least one. *)
ASSUME ScenariosAssumption ==
  \A s \in Scenarios :
    /\ Len(s.hist) \in Nat \ {0}
    /\ \A i \in 1..Len(s.hist) : IsLayout(s.hist[i])
    /\ \A i, j \in 1..Len(s.hist) :
         \A r \in s.hist[i].regions, g \in s.hist[j].regions :
           VerId(r) = VerId(g) => SameRange(r, g)
    /\ s.faults \in Nat

(* The region of a key or of an id: of each there is at most one. *)
RegionsFor(layout, target) ==
  {r \in layout.regions :
     IF target[1] = "key" THEN Contains(r, target[2]) ELSE r.id = target[2]}

HasId(layout, i) == \E r \in layout.regions : r.id = i
RegionWithId(layout, i) == CHOOSE r \in layout.regions : r.id = i

(* A split, a merge, a change of peers or leader, a store that moves. *)
ClusterChange ==
  /\ now < Len(hist)
  /\ now' = now + 1
  /\ UNCHANGED <<hist, pd, faults>>

(* A region heartbeat reaches PD. *)
PdCatchUp ==
  /\ pd < now
  /\ pd' = pd + 1
  /\ UNCHANGED <<hist, now, faults>>

(* Something goes wrong that need not. *)
Fault ==
  /\ faults > 0
  /\ faults' = faults - 1
  /\ UNCHANGED <<hist, now, pd>>

ClusterInit(s) ==
  /\ hist = s.hist
  /\ now = 1
  /\ pd = 1
  /\ faults = s.faults

ClusterTypeOK ==
  /\ \E s \in Scenarios : hist = s.hist /\ faults \in 0..s.faults
  /\ now \in 1..Len(hist)
  /\ pd \in 1..now
============================================================================
