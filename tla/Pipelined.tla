----------------------------- MODULE Pipelined -----------------------------
(***************************************************************************)
(* PipelinedTxnState (transaction/pipelined.rs): mutations are flushed to  *)
(* TiKV by a background task while the transaction goes on; after commit   *)
(* or rollback another task resolves the locks of the flushed range.       *)
(* `mutable` keeps the keys alone: every change of a key in the buffer is  *)
(* recorded again, so the recorded mutation is the one of the buffer.      *)
(***************************************************************************)
EXTENDS TxnStore

CONSTANTS MinFlushKeys

VARIABLES
  pipe,       \* the state of the transaction, with the flush task it awaits
  late,       \* flushes whose requests are in the network, awaited by nobody
  resolving   \* the task that resolves the flushed locks

pipeVars == <<pipe, late, resolving>>

(* stage: spawned, checked (the flag was read), running (in select!), ended  *)
(* well or badly.  regions: those that have not executed their request.      *)
NoFlush == [stage |-> "none", muts |-> <<>>, primary |-> NoKey, gen |-> 0, regions |-> {}]
NoTask  == [state |-> "none", commit |-> FALSE, regions |-> {}]

PipeInit ==
  /\ pipe = [generation |-> 0, mutable |-> {}, flushing |-> NoFlush,
             start |-> NoKey, end |-> NoKey,   \* the flushed range [start, end)
             cancelled |-> FALSE,
             failed |-> FALSE,                 \* a flush has failed
             abandoned |-> FALSE]              \* requests of a flush were left behind
  /\ late = {}
  /\ resolving = NoTask
----------------------------------------------------------------------------
(* Mutant: the end of the range is the last key itself. *)
RangeToLastKey(p, ks) ==
  [p EXCEPT !.start = IF @ # NoKey /\ @ <= Min(ks) THEN @ ELSE Min(ks),
            !.end = IF @ >= Max(ks) THEN @ ELSE Max(ks)]

UpdateFlushedRange(p, ks) ==
  [p EXCEPT !.start = IF @ # NoKey /\ @ <= Min(ks) THEN @ ELSE Min(ks),
            !.end = IF @ >= Max(ks) + 1 THEN @ ELSE Max(ks) + 1]

(* start_flush, once no flush is awaited: the mutations leave the buffer.    *)
StartFlush(p, b, primary) ==
  LET ks == p.mutable
  IN [UpdateFlushedRange(p, ks) EXCEPT
        !.generation = @ + 1,
        !.mutable = {},
        !.flushing = [stage |-> "spawned", muts |-> [k \in ks |-> Mutation(b, k)],
                      primary |-> primary, gen |-> p.generation + 1,
                      regions |-> RegionsOf(ks)]]

(* record_mutation for the changed keys.                                     *)
RecordMutations(p, b, ks) == [p EXCEPT !.mutable = (@ \ ks) \cup (ks \cap MutatedKeys(b))]

(* maybe_flush.  A flush that has ended keeps its handle: no other one is    *)
(* started before somebody awaits it.                                        *)
MaybeFlush(p, b) ==
  IF /\ p.flushing.stage = "none" /\ b.primary # NoKey
     /\ Cardinality(p.mutable) >= MinFlushKeys
  THEN StartFlush(p, b, b.primary) ELSE p
----------------------------------------------------------------------------
(* The flush task.                                                           *)

SetFlush(f) == pipe' = [pipe EXCEPT !.flushing = f]

FlushBegins ==
  LET f == pipe.flushing
  IN /\ f.stage = "spawned"
     /\ SetFlush([f EXCEPT !.stage = IF pipe.cancelled THEN "done" ELSE "checked"])
     /\ UNCHANGED <<storeVars, late, resolving>>

(* select! is entered: from here on a cancellation is noticed.               *)
FlushSends ==
  LET f == pipe.flushing
  IN /\ f.stage = "checked"
     /\ SetFlush([f EXCEPT !.stage = "running"])
     /\ UNCHANGED <<storeVars, late, resolving>>

KeysOf(f, regions) == DOMAIN f.muts \cap KeysIn(regions)

FlushRegion(r) ==
  LET f == pipe.flushing
      rest == f.regions \ {r}
  IN /\ f.stage = "running" /\ r \in f.regions
     /\ MayWrite(f.muts, KeysOf(f, {r}), FALSE)
     /\ WriteLocks(f.muts, KeysOf(f, {r}), f.primary, f.gen)
     /\ SetFlush([f EXCEPT !.regions = rest, !.stage = IF rest = {} THEN "done" ELSE @])
     /\ UNCHANGED <<snap, record, newer, mishaps, late, resolving>>

(* A region refuses, or its answer is lost: the flush fails.  What was not   *)
(* answered may be executed later.                                           *)
FlushFails ==
  LET f == pipe.flushing
  IN /\ f.stage = "running"
     /\ \/ Mishap
        \/ ~MayWrite(f.muts, KeysOf(f, f.regions), FALSE) /\ UNCHANGED mishaps
     /\ pipe' = [pipe EXCEPT !.flushing = [f EXCEPT !.stage = "failed"], !.failed = TRUE,
                             !.abandoned = TRUE]
     /\ late' = late \cup {f}
     /\ UNCHANGED <<snap, lock, record, newer, resolving>>

LateFlush(f, r) ==
  LET ks == KeysOf(f, {r})
      rest == [f EXCEPT !.regions = @ \ {r}]
  IN /\ r \in f.regions
     /\ late' = (late \ {f}) \cup {g \in {rest} : g.regions # {}}
     /\ IF MayWrite(f.muts, ks, FALSE) THEN WriteLocks(f.muts, ks, f.primary, f.gen)
        ELSE UNCHANGED lock
     /\ UNCHANGED <<snap, record, newer, mishaps, pipe, resolving>>

(* cancel: a task that waits in select! ends and its requests are abandoned; *)
(* one that has not started sees the flag; one in between sees neither.      *)
Cancel ==
  LET f == pipe.flushing
      waits == f.stage = "running"
  IN /\ pipe' = [pipe EXCEPT !.cancelled = TRUE,
                             !.flushing.stage = IF waits THEN "done" ELSE @,
                             !.abandoned = @ \/ waits]
     /\ late' = IF waits THEN late \cup {f} ELSE late
----------------------------------------------------------------------------
(* resolve_flushed_locks: the regions of the range, each of them once.       *)

RangeRegions == RegionsOf({k \in Keys : pipe.start <= k /\ k < pipe.end})

SpawnResolve(commit) ==
  resolving' = IF pipe.start = NoKey THEN resolving
               ELSE [state |-> IF RangeRegions = {} THEN "done" ELSE "running",
                     commit |-> commit, regions |-> RangeRegions]

ResolveRegion(r) ==
  LET rest == resolving.regions \ {r}
  IN /\ resolving.state = "running" /\ r \in resolving.regions
     /\ ResolveLocks({r}, resolving.commit)
     /\ resolving' = [resolving EXCEPT !.regions = rest,
                                       !.state = IF rest = {} THEN "done" ELSE @]
     /\ UNCHANGED <<snap, newer, mishaps, pipe, late>>

(* A region error is not retried, and PD may fail to name the regions.       *)
ResolveFails ==
  /\ resolving.state = "running"
  /\ Mishap
  /\ resolving' = [resolving EXCEPT !.state = "failed"]
  /\ UNCHANGED <<snap, lock, record, newer, pipe, late>>

FlushTask   == FlushBegins \/ FlushSends \/ FlushFails \/ \E r \in RegionsOf(Keys) : FlushRegion(r)
ResolveTask == ResolveFails \/ \E r \in RegionsOf(Keys) : ResolveRegion(r)
============================================================================
