# TLA+ verification of rust-tikv-client

The client is a library: it turns transactions into requests to TiKV and PD, and it
decides, together with every other client that meets its locks, whether a transaction
commits. This project models that protocol, the transaction object above it and the
routing and connections below it as the code runs them, model-checks them on small
instances with TLC, and proves with TLAPS, for every value of the constants, the safety
of two-phase, async and one-phase commit and that each implements an atomic transaction,
and the safety of the latches, of the connections to PD and TiKV, of the routing of
requests, and of the transaction's reads, locks and commits.

All source paths below are relative to the crate, `src/src/`.

## The parts of the system

| part | source | module |
|---|---|---|
| commit and rollback of an optimistic transaction (two-phase, async, one-phase) | `transaction/transaction.rs`, `transaction/requests.rs` | `Committer` |
| lock resolution by readers (`resolve_locks`), garbage collection of locks (`cleanup_locks`) | `transaction/lock.rs`, `request/plan.rs` | `LockResolver` |
| local latches | `transaction/latch.rs` | `Latches` |
| transaction buffer and key flags | `transaction/buffer.rs`, `transaction/key_flags.rs` | `TxnBuffer` |
| the Transaction object: reads, writes, pessimistic locks, heartbeat, drop | `transaction/transaction.rs` | `Transaction` |
| pipelined transactions | `transaction/pipelined.rs` | `Pipelined` |
| region cache | `region_cache.rs`, `region.rs` | `RegionCache` |
| read routing and replica reads | `request/read_routing.rs`, `request/pending_backoff.rs`, `store/health.rs` | `ReadRouting` |
| request plans: sharding, region errors, retries, locks | `request/plan.rs`, `pd/client.rs` | `RequestPlan` |
| raw scans | `raw/client.rs` | `RawScan` |
| timestamp stream | `pd/timestamp.rs` | `TsoStream` |
| PD retries and reconnects | `pd/retry.rs`, `pd/cluster.rs` | `PdRetry` |
| batch commands | `store/batch_commands.rs` | `BatchCommands` |
| TiKV, the network, PD (external) | used by all of the above | `Tikv`, `TxnStore`, `Regions` |
| keyspace encoding, configuration, metrics, tracing, interceptors, generated code | | not modelled |

`PROJECT.json` lists every part with its sources and what of it is left out, and every
hazard (what can go wrong that a test would hardly reach) at its line.

How they interact: the user's calls go through a `Transaction`, which keeps reads and
writes in its buffer. `commit` optionally takes latches and hands the buffered mutations
to a `Committer`; a pipelined transaction has flushed them before. Every request goes
through a plan, which groups its keys by the regions of the cache, picks a peer, sends
(batch commands), retries, and, when TiKV answers with another transaction's lock,
resolves it. Regions and timestamps come from PD.

The four compositions follow this layering: `TxnSystem` (the commit protocol among
clients), `Transaction` (one transaction object and its tasks), `Routing` (plans, scans
and the region cache), `Rpc` (PD and TiKV connections). Each abstracts the layer below
to its outcomes: a request of `Transaction` or `Committer` succeeds, is refused, or fails
with or without having been executed, which is what a plan can report.

## Modules

**Tikv** is the cluster as one transaction sees it: `locked`, `asyncLocked`, `minCommit`
and `write` are the locks, their `use_async_commit` and `min_commit_ts`, and the commit
record or rollback tombstone of each key; `maxTs` is the read timestamp a region must
keep async commits above. Its behaviour is taken from how the client uses the
requests. `msgs` is the set of all requests ever sent. A request in it may execute at
any time, any number of times, or never (`LateDelivery`): this covers lost, delayed,
reordered and re-sent requests, and a lost answer is a client step that gives up on a
request that stays in `msgs`.

**Committer** is one transaction: `status` is `Transaction.status`, `cpc` is the await
point of the call in progress. `CallCommit`, `PrewriteOk`, `PrewriteRefused`,
`PrewriteFailed`, `PrewriteDone`, `FetchCommitTs`, `FetchCommitTsFailed`,
`CommitPrimaryOk`, `CommitPrimaryRefused`, `CommitPrimaryFailed` are the steps of
`Transaction::commit` and `Committer::commit`; `CallRollback`, `RollbackOk`,
`RollbackDone`, `RollbackFailed` those of `rollback`; `Drop` is the caller letting go of
the transaction. `ShardMode` is what `apply_shard` leaves of the async and one-phase
flags. A result is classified by what the caller can conclude from it: `refused` (a key
error), `lag` (no commit timestamp), `failed` (any other error once the retries are
used up), `undetermined`. What the caller does next is a parameter: `RetryAfter` and
`RollbackAfter` are the results after which it calls `commit()` or `rollback()` again.

**LockResolver** is every other client. A reader reads each key at its timestamp; a lock
that blocks it is cleaned up through the primary and resolved in its own region
(`ReadKey`, `ReadLocked`, `CleanupOk`, `ResolveOk`). The garbage collector runs
`cleanup_locks` in several regions at once with one shared cache `resolved` (`GcScan`,
`GcCached`, `GcStatus`, `GcSecondary`, `GcDecide`, `GcResolve`). `Expiry` says whether
the TTL of a lock that is met may be over; time itself is not modelled.

**TxnSystem** composes the three; **AtomicTxn** is what they promise together: the
transaction is decided once, the caller and all readers learn that one decision, and a
read begun after `commit()` returned sees the writes. `TxnSystem!Outcome` is the
refinement mapping.

**Latches** is the latch scheduler: requests, the scheduler task and the recycle tasks
interleave at the granularity of one slot mutex. It is separate from `Committer`: a
commit that holds its latches is the single state `commit`, which ends in `CommitOk` or
`CommitErr`.

**TxnBuffer** is `Buffer` as a record with operators from one buffer to the next: the eight
forms of an entry, the primary, and the two flags that matter (`PresumeKeyNotExists`,
`PrewriteOnly`). A value is a model value, a missing value is `Absent`. **TxnStore** is
TiKV key by key, with the lock's kind, write, primary and flush generation, and what
other clients do: write a key, or meet an expired lock and settle it. **Pipelined** is
`PipelinedTxnState`: the generation being collected, the flush task with its await points
(`spawned`, `checked`, `running`), requests left behind by a cancelled or failed flush
(`late`), and the task that resolves the flushed range. **Transaction** composes them:
`op` is the call in progress, one at a time since every call borrows the object; `hb` is
the heartbeat task. A multi-region request that fails has been executed by any subset of
its regions. The ghost variable `mine` is what the user wrote last, `surrendered` the
keys that a failed lock request took away, `strays` the primaries named by locks that a
failed lock request left behind.

**Regions** is the cluster: a history of layouts (`hist`), where TiKV is (`now`) and where
PD is (`pd`). **RegionCache** is the cache with its three indexes and the lookups in flight,
one step per acquisition of the map's lock, so that the gap between taking a `Notify` and
listening to it is visible. **ReadRouting** picks a peer for each of the read modes.
**RequestPlan** is `single_plan_handler` and `single_shard_handler`: `planning` holds plans
whose keys are being grouped, `tasks` the shards, `Verdict`, `RegionAfter` and
`StoresAfter` are `handle_region_error`. **RawScan** is `scan_inner`. **Routing** composes
them over one cache.

**TsoStream** is the oracle's two tasks and their shared state: the channel, the queue of
groups, the waker, with the poll of the request stream split where another task can run.
**PdRetry** is the retry loop with the fair read-write lock around the cluster.
**BatchCommands** is `dispatch`, the send loop and one receive loop per stream, with the
map of commands in flight. Both channels are bounded, as in the code: a dispatch waits for room
in `outbound` (`OutboundCap`) before its timer is armed, and the send loop waits for room in the
channel of an open stream (`StreamCap`). `Transmit` is the transport (external) taking a request out
of that channel; what it has taken (the first `taken` of a stream's `reqs`) TiKV may execute,
what is still in the channel is lost when the transport drops the receiver. **Rpc** composes them for callers that take a timestamp, a
region, or send a command (**RpcClients**).

**TxnInvariants** holds the inductive invariants of `TxnSystem`. **TwoPhaseProofs** proves those
of two-phase and of one-phase commit inductive, states the theorems about two-phase commit, and
proves the refinement for whatever mode keeps a short list of facts (`Recorded`, `HistoryInv`).
**AsyncProofs** does the same for async commit, and **ModesProofs** puts the modes together
and states the theorems for all of them. **LatchesProofs** and **RpcProofs** hold the proofs about
the latches and the connections, **RoutingProofs** those about the region cache, the requests and
the scans; **TransactionProofs** (reads, locks, and the invariants behind commits and rollbacks) and
**CommitProofs** (one lemma per action, that a commit loses nothing and that a rollback leaves
no lock) those about the transaction object.
`MCTxnSystem`, `MCLatches`, `MCRouting`, `MCRpc` and `MCTransaction`
give the constants their values for TLC.

## Runs

| run | shows |
|---|---|
| `latches` | commits under latches have disjoint keys, stale marks are justified, no conflict inside the expiry window is missed, no wakeup is lost, every request is served |
| `two_phase` | `TypeOK`, `Atomicity`, `AtomicVisibility`, `AckedIsDurable`, `RefusedIsUncommitted`, `RolledBackIsDiscarded`, readers finish, and the refinement of `AtomicTxn` |
| `async_commit` | the same core properties for async and one-phase commit with concurrent recovery, plus `NoPanic` and `RecoveryDecides` |
| `transaction` | reads and scans agree with own writes, locks are held through partial failures, a successful commit loses no write, a rollback leaves no lock, background tasks end |
| `routing` | cached regions never intersect and the indexes agree, each key is answered once, scans are in order, an immediate retry has learned something, requests end |
| `client_rpc` | timestamps are distinct and ordered, each caller gets its own answer, the map of commands in flight is exact, nothing is executed twice, every call returns unless TiKV keeps the send loop waiting for ever |
| `undetermined` | *violation*: a lost answer to the commit of the primary is reported as a definite error |
| `rollback_after_commit` | *violation*: `rollback()` after such an error breaks atomicity |
| `async_fallback` | *violation*: a region's `min_commit_ts = 0` is ignored when another region's is not 0 |
| `async_cleanup` | *violation*: a reader rolls back an acknowledged async commit transaction |
| `lookups` | *violation*: a lookup that joins another one can miss its notification and wait for ever |
| `lost_write` | *violation*: a key inserted, deleted and put again is prewritten but not committed, and `commit()` succeeds |

The six violations are disagreements between the code and its own comments or docs;
`PROJECT.json` quotes the lines under `findings`.

### Bounds

`TxnSystem`: three keys, because a secondary in the primary's region, the primary and a
secondary in another region behave differently; two regions, the fewest that can be
half-done; one reader; `MaxTs = 4`, so that a reader's and two commit timestamps
fit after the start timestamp in either order; `MaxCalls = 2`, a call and one retry or
rollback. The async run uses both layouts (one region and two), since one-phase commit
needs a single region.

`Latches`: three transactions over three keys in two slots; key orders that would
deadlock unsorted, a repeated key, two keys that share a slot; list, expiry and check
limits small enough that both kinds of recycling happen within `MaxTs = 6`; at most one
dropped `commit()` future.

`Transaction` (`MCTransaction`): three keys in two regions, so that a multi-region request
can be half done and a range can hold a key that was not written; two values; a flush is
due at one key. Each scenario gives the kind of the transaction, the snapshot, the
writes the user may make, the number of calls (4 or 5) and of mishaps (failures and
interventions of other clients, up to 2): `Reading` mixes reads with every kind of write,
`Locking` locks, fails, releases and locks again, `Straying` leaves a lock behind under a
primary that is then given up, `Committing` and `Piping` commit and roll
back through failures. Keys of a scan are 1 to 3 with limits 1 and 2, in both directions.

`Routing` (`MCRouting`): keys 1 to 4, two stores that can lead and a learner, two requests.
A scenario is a history of two or three layouts (split, split and move, merge, election, store
moved, split below the last region, merge with the region below), what the requests do, and the number of faults (0 to
2). All bounds on attempts are 1 and there is one permit, so that every bound is hit.

`Rpc` (`MCRpc`): three callers, groups of two requests and one pending group, so that three
timestamps overflow both; two attempts and two reconnects; up to two mishaps. `OutboundCap` and
`StreamCap` are 1 where the code has 1024, and one scenario has three commands: one in the hand of
the send loop, one in the channel and one that waits for room; or one in the channel of the stream,
one in the hand of the loop, which waits for room there, and one that follows.

Deadlock checking is off in every run: all clients may be done, and the timestamps and calls
are bounded.

### What the passing runs assume

- `RetryAfter` and `RollbackAfter` are `{"refused", "lag"}`: after an error that is no
  verdict the caller neither retries nor rolls back. This is necessary: with `failed`
  in `RollbackAfter` atomicity fails (run `rollback_after_commit`), and with `failed` in
  `RetryAfter` the retry takes a second commit timestamp and `AtomicVisibility` fails.
- In `async_commit`, `SafeWindow = 9` is larger than any timestamp, so no region falls back,
  and `Expiry = {FALSE}`: readers do not find expired locks of an async commit
  transaction. Both are necessary (runs `async_fallback` and `async_cleanup`). The fallback
  branch of recovery is therefore not exercised in that run.
- In `two_phase`, `Expiry = {TRUE}`: every lock a reader meets has expired, so `ReadersFinish` is
  about expired locks. A lock that is kept alive may hold a reader up for as long.
- `CheckKeys = {}`: with a CheckNotExists key in one-phase mode `NoPanic` fails
  (hazard at `transaction/requests.rs:349`).
- `NothingLost` promises nothing after a failed flush, since the mutations of that flush are gone
  and a second `commit()` commits the rest; and leaves out keys that are still marked
  `PrewriteOnly` when written again (run `lost_write`) or when pipelined. It also leaves out
  a pessimistic transaction that left a lock behind whose primary is another key that
  it commits (see `transaction/requests.rs:849` below).
- `ScansAgree` is about ranges in which the transaction has inserted no key: those
  are missing from its scans (hazard at `transaction/buffer.rs:209`).
- `LocksHeld` leaves out keys whose lock expired and was rolled back, and keys that a later
  failed lock request rolled back (hazard at `transaction/transaction.rs:1644`).
- `RollbackCleans` leaves out a resolve task that failed, flushes abandoned with requests
  still under way, and prewritten keys of a pessimistic transaction.
- `RequestsEnd` leaves out lookups that nobody will wake (`Stranded`): run `lookups` shows
  that they occur. `ScanInOrder` is about ranges that end before the last region;
  a scan that runs into the last region starts again (hazard at `raw/client.rs:953`). It also
  assumes that no region is merged with the one above it (`EndsOnlyShrink`; see
  `raw/client.rs:934` below).
- `CallsReturn` leaves out a dispatch that finds the channel to the send loop full while the loop
  waits for ever for TiKV to accept a stream or to take requests from one: it has no timer yet
  (see `store/batch_commands.rs:149` below). Without the exception TLC finds such a dispatch.

### Fairness

`two_phase`: weak fairness of each reader's own steps, because a read is a task that the
runtime keeps polling and its plan retries. Nothing is assumed of the transaction, the
garbage collector or the network. A reader's step includes the execution of its request,
so this says that a request that is retried is eventually answered.
`latches`: weak fairness of each request's steps and of the scheduler task, which are
tokio tasks on uncontended mutexes; none of recycling, of dropping a future, or of beginning
a transaction.
`transaction`: weak fairness of the spawned flush, resolve and heartbeat tasks, which the
runtime polls whether or not the object lives; none of the user's calls.
`routing`, `lookups`: weak fairness of each request's own steps (its futures are polled,
stores answer or fail) and of PD catching up with the cluster. Faults are bounded, so
they cannot go on for ever.
`client_rpc`: weak fairness of each caller, of the oracle's two tasks, of the send loop where it
can go on, and of PD answering an open stream: `get_timestamp` has no timeout, so without
the last it may wait for ever. Nothing is assumed of TiKV and the transport: they need not accept a
stream (`Connect`), take requests from it (`Transmit`) or answer. A dispatch whose command
is in the channel ends by its timer; one that waits for room there has none, which is the
exception that `CallsReturn` states.

## Theorems

`TwoPhaseProofs` proves `TwoPhaseOnly => (Spec => []P)` for `TypeOK`, `Atomicity`,
`AtomicVisibility`, `AckedIsDurable`, `RefusedIsUncommitted` and `RolledBackIsDiscarded`.
`TwoPhaseOnly` says that the mode is two-phase commit and that the caller retries or rolls
back only after a verdict, which is what the `two_phase` run assumes. The constants are
otherwise arbitrary, under the named assumptions of the modules: any keys (with or
without CheckNotExists keys), regions, assignment of keys to regions, readers, expiry,
scanned regions, number of calls and of timestamps.

None of the properties is inductive. `TwoPhaseInv` strengthens them to `TypeOK` and:

- `ModeInv`: nothing of async or one-phase commit is in use;
- `StoreInv`: the primary decides; a committed key carries the primary's timestamp and a
  tombstone is due to a rolled-back primary or to `rollback()`;
- `MsgInv`: all Commit requests carry one timestamp, those of secondaries and ResolveLock
  follow the primary's record, and none is sent before every key is prewritten;
- `ClientInv`: what the client's await point and status say about the requests it has sent;
- `ReaderInv`: what a reader has seen agrees with its timestamp and the primary's record;
- `GcInv`: a cached status is the primary's record.

The core is that at most one commit timestamp can ever take effect: a retry of `commit()`
takes another one only if no Commit was sent before or the primary is already
rolled back. Each action is first shown to be a `StoreStep`, a summary of what any step may
do to locks and records; frame lemmas then give every conjunct that the action does not touch,
and what is left is one lemma per action.

`TwoPhaseProofs` also proves `TwoPhaseOnly => (Spec => ImplementsAtomicTxn)`: under the mapping
`Outcome` the initial states are those of `AtomicTxn`, and every step is a step of it or a
stutter. The proof does not look into the invariant of the mode. It rests on two state
predicates that each mode implies, and on the fact that records stay: `Recorded` says that all
commit records and all that the caller and the readers were told agree on one timestamp, and
that a tombstone that decides excludes a commit; `HistoryInv` says that the caller is
answered once and that an idle reader has no timestamp yet.

`ModesProofs` proves `AsyncAssumption => (Spec => []P)` for the same six properties and for
`RecoveryDecides`, and `AsyncAssumption => (Spec => ImplementsAtomicTxn)`, in every commit mode:
all that the `async_commit` run checks. `AsyncAssumption` is what that run assumes: finitely many
keys, none of them CheckNotExists, no lock that a reader takes for expired, no timestamp beyond
`SafeWindow`, and a caller that calls again only after a verdict. The runs `async_fallback` and
`async_cleanup` show that the third and the fourth cannot be dropped. Regions, their keys, readers,
calls and timestamps are arbitrary. `PrewriteNeverPanics` (`NoPanic`) needs only the first two.

Three cases, of which one holds for good (`ModesInv`): all keys are in one region that tries
one-phase commit (`OneShard`), every region is prewritten for async commit (`AsyncShards`), or
every region is prewritten for two-phase commit (`PlainShards`, where `TwoPhaseInv` holds).

In async commit no key decides alone. `AsyncInv` says

- `LocksInv`: a key's `min_commit_ts` is set once and stays after the lock is gone, and a key is
  committed only when every key has one, at their maximum. So all who compute the commit
  timestamp, the committer from its replies and recovery from the locks it is shown, compute the
  same one (`Decided`). A tombstone means that the transaction is `Lost`: some key has a
  tombstone or a newer version and never had a lock, so it will never be prewritten, or
  `commit()` was never called and cannot be any more;
- `ClockInv`: no `min_commit_ts` is later than the next timestamp of PD, and a region's
  `max_ts` is one that PD has given out;
- `AsyncMsgInv`: a Commit or ResolveLock carries the decided timestamp; a rollback is sent only
  when the transaction is lost;
- `AsyncClientInv`: the replies the committer has are the `min_commit_ts` of their shards, and
  success is acknowledged only when it has all of them;
- `AsyncReaderInv`: a key that a reader passed has, or will get, a `min_commit_ts` later than the
  read, because the region's `max_ts` covers the read;
- `AsyncGcInv`: what recovery has collected is part of the decision, and its cached status is the
  decision or the loss.

In one-phase commit there are no locks: the one request commits all keys or none, and
`OneStoreInv`, `OneMsgInv`, `OneClientInv` and `OneReaderInv` say so. TLC checks `ModesInv` over all
modes and layouts of three keys (3,330,266 distinct states).

`LatchesProofs` proves `Spec => []P` for `TypeOK`, `GuardMeansAcquired`, `CommitsDisjoint`,
`StaleIsJustified`, `NoMissedConflict` and `NoLostWakeup` of module `Latches`, for any
requests, keys, slots, hash and bounds. The inductive invariant `LatchInv` adds

- `OwnInv`: each latch a request has acquired, a prefix of its sorted keys, names it as the
  holder, which is why requests that share a key exclude each other;
- `WakeInv`: a waiter's latch is held, or the scheduler is about to retry a request for it.
  A retried request that turns out stale does not take the latch and wakes nobody
  behind it, so the invariant needs that the retried one is not stale and that its start is not
  below the node's last commit;
- `RememberInv` and `CheckedInv`: a commit is under its latch, in the node of each of its keys, or
  older than the expiry, and the latch that a request has acquired guards against every newer
  commit that is not.

TLC checks `LatchInv` on the 62,335 states of the `latches` instance.

`RpcProofs` proves `Spec => []P` for `TypeOK`, `TimestampsOrdered`, `InflightMatches`,
`AnswerIsOwn` and `ExecutedAtMostOnce` of module `Rpc`, for any callers, jobs, mishaps and
bounds. Two invariants do not meet but in `TypeOK`. `BatchInv` says that an id names
one dispatch, that a request is at one place at most (the outbound channel, the hand of the send
loop, one stream, or executed), that the channels keep their bounds, and that requests and answers carry the id of their caller, so
that the receive loop of an old stream cannot answer someone else. `PdInv` says that

- a call that waits for its timestamp holds the read lock, and reconnecting takes the write
  lock, so nobody replaces the oracle under a waiter; a waiter is in the channel or in a group
  of the oracle in use, and in one place only (theorem `WaitersAreKnown`);
- the responses not yet shared out are ranges of timestamps, each above the one before and all
  above what callers have, so that a group gets timestamps above every earlier one,
  whether or not the group before it failed.

TLC checks both on the 530,952 states of the `client_rpc` instance.

`RoutingProofs` proves `Spec => []P` for `TypeOK`, `IndexesAgree`, `NoIntersection`,
`EachKeyAnsweredOnce` and `ScanInOrder`, and `Spec => ImmediateRetryHasNews`, of module `Routing`:
all that the `routing` run checks but liveness. Stores, requests, their work, faults and bounds are
arbitrary, and so are the histories in which the regions of a layout do not overlap and a version
of a region has one range (`ScenariosAssumption`, `PlanAssumption`, `ScanAssumption`).

- The cache (`IInv`): every cached region has the range of a region of the history under its version
  (`Indexed`), and the region a lookup is about to add came from PD (`LookGood`). The argument
  is about `add_region`: its backward scan stops at the first region that ends before the new
  one starts, and because cached regions do not intersect, no earlier one can reach into it;
  what is evicted leaves all three indexes.
- The requests (`ShardInv`): the plans being grouped, the shards under way and the shards
  answered divide the keys of the request among them. A retry that groups again, a split
  into a shard and a plan for the rest, and an answer each keep the division, so at the end every
  key has one answer. Answers are a set, in which a second answer equal to the first would not
  show; `EachKeyAnsweredOnce` therefore also says that no key with an answer is planned or
  sent again.
- The types (`TypesInv`) of shards, routing states and store caches, with the attempts of each
  shard; `ImmediateRetryHasNews` follows from what `handle_region_error` writes to the cache.
- The scans (`ScanGood`): the region looked up contains the next key, and the store that answered
  did so for the current version of that region, which ends no higher than the one looked up
  by key as long as ends only shrink; so what is returned lies below the next key to go on from.

`TransactionProofs` proves `Spec => []P` for `GetsAgree`, `ScansAgree` and `LocksHeld` of module
`Transaction`, for any keys, values, regions and scenarios. `BufferInv` says of each entry that
it holds the last write or the snapshot's value, or that the key was never written, and
what a pending lock call will write. A scan fetches the limit and as many keys more as the
buffer has deleted; `FetchedEnough` shows by counting that this suffices: before the first
stored key that is not fetched there are so many fetched ones that the limit is reached even
without the deleted ones. While a pessimistic transaction is active
(`Locking`), `Quiet` adds that nothing of it is committed and no task of it runs, so that only
its own calls and other clients touch its locks.

`CommitProofs` proves `Spec => []NothingLost`: when `commit()` has returned Ok, the last write of
every key is what a reader finds, for optimistic, pessimistic and pipelined transactions alike, with
resolvers of other clients, lost answers and background flushes in between. A commit record
is several steps away from the write that it stands for, and `CommitInv` follows the write:

- `WrittenInv`: a written key has an entry that carries a write, and the primary is one of them;
- `PlainInv` (optimistic and pessimistic): nothing is committed before the primary, and a lock
  names the primary or a stray one;
- `FlushInv` and `FlushedInv` (pipelined): a written key is in the mutable buffer, in the
  running flush with its last write, or settled; a lock's generation is at most the
  current one, so an older flush never overwrites a newer write;
- `LostAnswerInv`: if the commit of the primary took effect and its answer was lost, all that
  is locked, recorded or under way is already the last write, and `commit()` can be
  called again;
- `SettledInv` (from the commit of the primary on): each write is recorded, or locked under
  the primary, or has been rolled back together with the primary, which a committed primary
  excludes; what a resolver does to any other lock rolls back none of the keys to be committed.

The invariant speaks of a transaction that may still commit (`Live`) and to which none of the
exceptions applies. TLC checks `CommitInv` on the 576,449 states of the `transaction` instance.

`CommitProofs` also proves `Spec => []RollbackCleans`: once `rollback()` has returned Ok and its
resolve task is done, no key to be committed is locked. The property speaks of the end only;
`CleanInv` says where locks can be before:

- `LockInv`: a key that is committed is not locked. `WriteLocks` takes from TiKV that a key the
  transaction has committed is not locked again by a late prewrite or flush;
- `ReleasedInv` (optimistic and pessimistic): nothing is committed before `commit()` has succeeded,
  and `rollback()` has released every key but the prewritten ones of a pessimistic transaction;
- `SpanInv` (pipelined): the flushed range holds every key that is locked, in the running flush,
  or in a request of an abandoned one. This is where `update_flushed_range` matters: it is called
  before the flush is sent, and its end lies past the last key;
- `ResolvedInv` (pipelined): after `rollback()` no flush runs, and the region of every lock is
  still among those that the resolve task has before it, so none is left when they are done.

TLC checks `CleanInv` on the same states.

Only model-checked:

- liveness (`ReadersFinish`, `RequestsServed`, `RequestsEnd`, `CallsReturn`, `TasksEnd`), which is
  out of the prover's reach;
- async commit where a region falls back or a lock is found expired: the violation runs show that the
  properties fail there.

## Abstractions and what is left out

- One batch per region: `TXN_COMMIT_BATCH_SIZE` would only split a region's shard further.
- `TxnSystem` and `Transaction` follow one transaction in full; others appear as newer
  versions, readers and resolvers. Lost and late requests of two-phase commit, async
  commit and latches are the matter of `Committer` and `Latches`, not repeated in `Transaction`.
- A reader resolves one lock at a time; `clean_regions` matters only for several.
- The assignment of keys to regions changes in `Routing` only; elsewhere region errors and
  re-sharding appear as retries.
- The `Empty` request that primes a stream is left out of its channel, where it takes one place until
  the transport has it. `send` on a channel whose other end is gone fails at once; that of the send
  loop goes only with the client.
- Values are model values; keys are numbers, whose order is that of the bytes.
- Time is not modelled: a timer may fire whenever it is armed, a lock may have expired whenever
  it is met unless its heartbeat runs, and delays of a backoff are counted, not measured.
- Flags of a key other than `PresumeKeyNotExists` and `PrewriteOnly`, assertions, and
  `LockOptions` other than the defaults only change fields of requests.

### Not modelled

- Pure conversions: keyspace and key encoding, protobuf requests, timestamps as
  numbers. They hold no state and their unit tests reach them.
- Configuration, metrics, tracing, interceptors, request sources: no protocol state.
- `RetryableAllStores` and the merge operators of plans, health feedback scores, cached safe
  timestamps, store labels: they choose a field or a preference and guard no invariant.
- PD member discovery, the end of the send loop when a client is dropped.
- Reverse raw scans and the other raw operations: a single request over a plan, or the
  loop of `RawScan` with other bounds.
- `pd/low_resolution_ts.rs`, `pd/read_ts_validation.rs` and `pd/stale_timestamp.rs` are
  compiled for tests only.
- Generated code (`generated/`, more than a third of the crate's lines) and the unit tests
  inside the source files (about a quarter). This is why the mapped lines are about 8% of
  the crate as a whole, and about a fifth of its hand-written code without tests; what
  remains unmapped of the latter is mostly option types, builders, delegation to plans and
  conversions.

### Behaviours met while modelling that no property is about

- `pd/retry.rs:91`: a configured `max_reconnect_attempts` of 0 underflows.
- `backoff.rs:49`: the delay doubles by a shift without saturation and can reach 0, for which
  the jitter panics.
- `request/plan.rs:310`: a store that cannot be connected to fails the request at once, while
  an RPC that breaks is retried; `request/plan.rs:973`: the comment promises a
  reroute to the leader without a backoff, and an empty EpochNotMatch is answered with one.
- `raw/client.rs:934`: `scan_inner` goes on from the end of the region it looked up by key, while
  the store to ask is looked up again by the region's id. If the region was merged with the one
  above it in between, the answer reaches beyond the end from which the scan goes on, and keys are
  returned twice and out of order, against "ordered by the key" (`raw/client.rs:660`): with
  regions [0,2) and [2,4) merged into [0,4) beside a read of key 1, a scan of [1,4) with limit 4
  returns keys 1, 2, 3, 2. If it was split in between, the keys of the upper part are skipped.
  `ScanInOrder` leaves the former out through `EndsOnlyShrink` and says nothing of the latter.
- `store/batch_commands.rs:149`: `dispatch` awaits a place in the channel to the send loop before it
  arms its timer (line 165), and the send loop awaits the stream (line 251) and a place in its channel
  (line 216) without one. While TiKV does not accept the stream or stops reading from it, the
  channel fills up and further requests wait for ever, against "If the request does not complete
  within timeout, the request is cancelled and an error returned to the user" (`config.rs:114`).
- `transaction/pipelined.rs:96`: `resolve_flushed_locks` does not retry region errors.
- `transaction/transaction.rs:1264`: `commit()` asserts that an empty buffer has no primary.
  `Buffer::unlock` (`transaction/buffer.rs:251`) drops a released key and keeps the primary, so
  the assertion fails in the `Locking` scenarios: keys 1 and 3, in two regions, are locked; a
  second lock request is refused in one region and key 1 is released; a third is refused in the
  other and key 3 is released; `commit()` then finds a primary and no mutation. TLC reaches
  `status = "Panicked"` in ten states when its negation is given as an invariant.
- `transaction/transaction.rs:1281`: a pipelined `commit()` may choose another primary than the
  one its flushed locks name; `transaction/transaction.rs:1862`: `rollback()` after a lost
  commit answer resolves the flushed locks as rolled back, beside a committed primary.
  `RollbackCleans` is about the locks, which are gone.
- `transaction/requests.rs:849`: `new_check_txn_status_request` does not ask TiKV to verify
  that the key is the primary. A pessimistic lock request for keys 1 and 3 that executes in the
  region of key 3 and fails leaves a lock on key 3 that names key 1. If the user then locks and
  writes keys 2 and 1, key 2 is the primary; before it is committed, a client that meets the
  expired lock on key 3 checks key 1 and rolls it back, and the write of key 1 is lost
  although `commit()` returns Ok. `NothingLost` leaves this out through `strays`.
- `transaction/lock.rs:63`: every lock is judged by its own TTL while the heartbeat
  extends the primary's only.
