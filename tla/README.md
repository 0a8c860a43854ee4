# A TLA+ development for wotcrawler

wotcrawler crawls the nostr web of trust. Starting at an anchor key it fetches the
newest follow list (kind 3) of every key it knows from a set of relays, stores the
follow edges in Postgres, adds the followees as new keys, and, as a daemon, fetches
every list again when it is older than a TTL. The code is Rust on tokio, so what is
hard to test is how tasks, timers, SQL statements and relays interleave, and what a
failure between two of their steps leaves behind. These modules model that.

Paths below are relative to the repository (`src/crawl/...` is `src/src/crawl/...` of
the paths in PROJECT.json).

## Inventory

| Component | State | Operations | Why it is hard |
|---|---|---|---|
| pubkeys and follows store (`store/pubkeys.rs`, `store/follows.rs`, migrations 0001, 0002) | one row per key: status, lease time, last fetch, attempts, applied list; the edges of each follower | upsert, status update, `apply_follow_list` | the edge diff is computed from a read outside the transaction that writes it; every UPDATE has the bare predicate `id = $1` |
| frontier (`crawl/frontier.rs`) | none of its own | `seed_anchor`, `claim_batch`, three reclaims, `requeue_or_fail` | SKIP LOCKED, leases that crashes orphan, resets by age that race live batches |
| batch worker (`crawl/apply.rs`) | the claimed authors, what was fetched for each | `process_batch`, `apply_validated`, `fallback_recover` | every await is a point where another task runs or the statement fails; `?` abandons the rest |
| one-shot crawl (`crawl/mod.rs`) | the semaphore, the join handles | `run_crawl`, `join_worker` | when is an empty claim the end? |
| daemon (`daemon/loop_.rs`, `daemon/mod.rs`, `daemon/sampler.rs`) | the same, a cancellation token, timers | `run_daemon_loop`, `drain_all`, `staleness_timer`, `in_run_reclaim_timer`, `run` | shutdown at any point, sweeps that outlive the token, restart |
| paged fetch (`relay/fetch.rs`) | `until`, the page count, the ids seen | `page_back`, `paginate_chunk`, `fetch_window_with_deadline`, `fetch_complete_with_timeout` | events that share a second, relays that cut windows, stores that change meanwhile, relays that ignore the filter |
| relay health and admission (`relay/health.rs`, the closures of `daemon/mod.rs`, `relay/mod.rs`) | a score, a slot count and a probe time per relay; two maps of semaphores | `try_mark_attempt`, `admit_per_relay`, `record_*`, `fetch_union`, `relay_list_fetch`, `fallback_fetch`, `handle_relay_message` | check, wait and count are separate steps; slots must survive errors and panics |
| ingest gate (`ingest/*.rs`) | none | verify, dedup, group, newest wins, extract, bound | any order, repeats, forged copies of a genuine id, dates at the end of the word |
| relay lists (`ingest/relay_list.rs`, `store/relays.rs`) | the advertised relays of each key, in rows of their own | `resolve_relay_list`, `apply_relay_list`, `lookup_write_relays` | a DELETE and many INSERTs that must be one; replaced without comparing dates, looked up again only when empty |
| rate limiter (`relay/rate_limit.rs`) | a GCRA limiter and a failure count per relay key | `acquire`, `record_notice`, `reset` | callers share a limiter across awaits; the backoff's shift overflows; the delay is recorded and never waited for |
| NIP-11 cache (`relay/nip11.rs`) | the limits per relay key | `get_or_fetch` | misses are not coordinated; documents may claim anything |
| process (`main.rs`, `daemon/mod.rs`, `daemon/config.rs`, `daemon/observe.rs`, `store/mod.rs`) | the configuration, the readiness flag, where start-up or shutdown stands | `main`, `run`, `validate`, `ready_handler` | a signal during set-up, a probe that holds the shutdown, tasks that never end |

How they interact: the loop claims rows and spawns workers; workers share the two
tables with the loop, with each other and with the two timers, and nothing else. A
worker calls the daemon's fetch closures, which ask the health registry which relays
to visit and when, and page through each visited relay; the ingest gate reduces the
union to at most one list per author. A task of its own feeds relay notices into
the registry. Cancellation is one shared token.

What makes each part correct is stated as its properties below; PROJECT.json lists
the hazards, each at its line, with the properties that would catch them.

## Modules

| Module | Models |
|---|---|
| `PubkeyStore` | the tables and every SQL statement on them, as operators on rows |
| `BatchWorkers` | the spawned workers, one step for each await; the loop's statements; the properties of the tables that crawl and daemon share |
| `RunCrawl` | `run_crawl` around the workers, with restarts of the process |
| `DaemonLoop` | the daemon's loop around the same workers, with timers, signal, crash and restart |
| `Daemon` | the process around `DaemonLoop`: configuration, set-up, server and readiness probe, bounded drain, exit |
| `Frontier` | the abstract specification: a queue of keys under exclusive leases, each with its edges |
| `Pagination` | the paged fetch against a pool of relays whose stores change |
| `RelayHealth` | the registry and the three fetch closures of concurrent batches |
| `Ingest` | the ingest pipeline, each loop a function of its rounds, and a reference over the set of events |
| `RelayLists` | the same gate for relay lists, the table of write relays statement by statement, and the look-up of `fallback_recover` |
| `Politeness` | limiters, NIP-11 cache and failure counts under concurrent fetches and notices |
| `MC...` | instances for TLC |
| `WorkerProofs`, `FrontierProofs` | lemmas on a worker's steps: what they preserve, and which abstract steps they are |
| `RunCrawlProofs`, `DaemonProofs`, `PaginationProofs`, `HealthProofs`, `PolitenessProofs`, `IngestProofs` | the theorems |

`PubkeyStore` <- `BatchWorkers` <- `RunCrawl`, `DaemonLoop` <- `Daemon` is the chain of
EXTENDS: the two loops compose the same worker with a different environment, and the
lemmas of `WorkerProofs` and `FrontierProofs` serve both. `Pagination`, `RelayHealth`, `Politeness` and
`Ingest` are the detail behind one step of a worker (`FetchOk`, `FetchErr`), and
`RelayLists`, which extends `Ingest`, behind `Recover`; the worker abstracts them to: any
list of the author, none, or an error. `Frontier` is instantiated by both loops.

*The abstract specification.* In `Frontier` a key is unknown, open, held, orphaned or
done, and its edges change only in the step that ends its lease, to the followees of one
of its lists, all of whom are known. `RunCrawl` implements it with `Refreshing` false,
`DaemonLoop` with `Refreshing` true. The refinement mapping (`Phases`) reads the phase
off the status, except that `in_progress` is held while a task or the loop still has the
author and orphaned otherwise: so that the same row changes phase when a process dies,
without a statement. Upserts, diffs, retries and confirmations map to one abstract step
or to a stutter; the whole of `apply_follow_list` maps to its commit.

### State and actions against the code

*Tables.* A key that was never inserted has the row `NoRow`. `row[p].applied` stands
for `applied_event_id` and `applied_created_at`, since an id determines its event. Ids
grow in insertion order. The churn counters and the `last_confirmed`, `last_changed`
stamps are left out: nothing reads them.

*A worker* is a record with a program counter. `FetchOk`/`FetchErr` is the fetch and
its error branch; `Requeue` is one `requeue_or_fail`; `NotFound`, `Recover` and
`BeginApply` decide one author; `UpsertFollowee`, `CheckApplied`, `Confirm`,
`ReadEdges` and `Commit` are the awaits of `apply_validated` and
`apply_follow_list`. `TaskFail` is a store error or a panic anywhere; taken after a
write it is also a commit whose acknowledgement was lost. The authors of a batch are
taken in any order (the code: the order of the batch), and join handles are joined in
any order (the code: spawn order); both only add behaviours. Which rows SKIP LOCKED
passes over is any subset of those that a running statement may hold locked.

*The loops.* One action for each statement or branch. An error of the loop's own
statement returns and detaches the tasks still running, as dropping a JoinHandle
does. A lost acknowledgement of the loop's own claim is not modelled. In the daemon a
sweep that is past its `select!` when the token is cancelled lands later (`late`).

*Time* is the database's clock in abstract units, of which a second has `Second`. Leases
and fetched rows carry it; the crawler's own clock (`AppNow`), at most `Skew` units off and
read in whole seconds, stamps the `not_found` and `failed` rows of a batch. TTL and reclaim
age are whole seconds, as `as_secs` cuts them. `OlderThan` is strict as in SQL, so a `Ttl`
of 0 is any TTL below one second. The one-shot crawl reads its clock once and nothing
compares its stamps, so there one clock is enough. `Punctual` is the assumption that a
batch ends within `reclaim_age` of its claim; the code's comments make it, nothing
enforces it, and the runs that need it say so.

*The process.* `Daemon` adds where `main` and `run` stand, and decides when the process
exits; `DaemonLoop` alone lets it exit at any time after the signal, which is what an
expired drain looks like to the tables. A bad configuration is spelled out by what it
would do: no permits block, a zero rate panics, a negative LIMIT is an SQL error, and a
zero interval, which `validate` does not look at, panics the task of its timer or sampler
(`Panics`), which then never sweeps. `misconfigured` remembers the fields something broke on.

*Relay lists.* `rows` is what is committed and `tx` what the open transaction sees. One
author suffices, since rows are keyed by author and leases let one worker recover it.

*Politeness.* A unit of time is what a limiter takes to replenish one cell, `tats` are the
theoretical arrival times of the limiters in memory, and a task that waits holds a
reference to one; `sent` lists, for each key, when its limiter let a window through.
`Wide`, `Bits`, `SaturateAt` scale down the 128-bit word, its shift (`shl`, bit by bit) and
the early saturation of the backoff, in the code's order: the shift loses bits before it
is refused. `SaturatesInTime` says of the base what the code's comment says of one second:
none of its bits is lost before the delay saturates. The jitter, in the upper half of the delay, is left out.

*Pagination.* A relay answers a window with its newest matching events up to its
limit, cutting a tie anyhow; the SDK merges the answers of the whole pool, whichever
relay the call is made for, and nothing cuts the result down, so that a window of N relays
may hold N times `cap`. Every relay of the pool is taken to answer every window (a silent
one is the timeout). A `hostile` pool sends any events at all, asked for or not, up to
`Flood` in one window: the code has no bound of its own there.

*RelayHealth.* Scores are in thousandths with integer rounding, the smoothing factor
in tenths. The gate's two reads, the slot count and the permits, are one step. A
fetch of one relay is one step between taking and giving back its slot. The ceilings
are about the registry's count: since the SDK asks the whole pool, what a relay
itself sees is not bounded by it.

*Ingest.* `Word` and `MaxDate` scale down 2^64 and the range of `DateTime<Utc>`; the
conversion from u64 through i64 keeps its wrap and its fallback to the epoch.

## Runs

| Run | Shows |
|---|---|
| `Crawl` | two keys that follow each other, two workers, relay and store errors, a crash and restart at any point: `LeaseExclusive`, `EdgesMirrorApplied`, `TerminalStamped`, `AttemptBudget`, `NoRedo` (a resolved row is never touched again), `ImplementsFrontier`, `DrainComplete` (Ok means every known key is resolved and every followee known), and `Termination` |
| `DaemonSafety` | both timers, signals, crashes, a second start, the fallback; four clock values, a crawler's clock that is one unit off and counts in seconds of two, so that rows are fetched, age, are fetched again and a batch spans a tick: `LeaseExclusive`, `EdgesMirrorApplied`, `CleanShutdown` (no orphaned lease after a shutdown without failure), `LastFetchedMonotone` (the age of knowledge never runs backwards, although two clocks write it), `ImplementsFrontier` |
| `DaemonShutdown` | the process, started with a good configuration, one of four that `validate` refuses, or one with two zero intervals: of what passes `validate` only zero intervals break anything later (`DiesEarly`), readiness is the loop's (`ReadyIsRunning`), a cancelled loop comes to its end (`DrainCompletes`), and the process exits though tasks and database are stuck (`ProcessExits`) |
| `Paging` | two chunks, a cap of two, one relay. Honest, with three events in one second and a store that changes: Ok has every event it stored all along (`StoredThroughoutIsFetched`, `PagedDownToUntil`). Hostile, with any three events to any window: a chunk ends after `MAX_PAGES_PER_CHUNK` windows and holds no more than they brought (`ChunkMemoryBounded`). Either way the budget ends no chunk with fewer events than it has pages (`BudgetSparesHonest`) |
| `HealthGate` | three batches at a time, four in all, two permits, a write relay and a curated relay that is also somebody's write relay: slots are given back on every exit (`SlotAccounting`), each map of semaphores keeps its ceiling (`HardCeiling`), one probe per interval (`ProbeExclusive`), and a batch that is held up at the gate or at a semaphore waits for a fetch in flight there (`WaitsForAFetch`) |
| `IngestUnion` | every stream of up to four out of fifteen events resolves as the reference says, for follow lists and for relay lists; the stored relay list is always one whole list (`OneListStored`), and the fallback is routed to its write relays (`RoutesToWriteRelays`) |
| `Politeness` | two tasks on a curated and a write relay, documents with absurd limits, notices to the end of the counter: the windows under one key keep to one quota (`KeyQuota`), a document is asked for at most once by each task (`DocumentAskedOnce`), page sizes are usable (`CapUsable`), the backoff only grows until a fetch completes (`BackoffEscalates`) |
| `DaemonEdgesOverrun`, `NewestListApplied`, `PagingMerged`, `HealthSkipped`, `RelayQuota` | violations, see below |

*Bounds.* Two keys and two lists of the anchor suffice for what the tables can get
wrong: a followee that is claimed while its follower still upserts it, a list
replaced by another, two workers on one author, a requeue next to a resolution. One
task slot more than `concurrency` is needed because the loop reaps only after it has
spawned. The daemon run takes one attempt per author to afford four clock values:
with a TTL of one second, which is two units, the fewest with which a row is fetched, is older
than that and is fetched again. Its skew of one unit and the truncation of up to another make
the stamps lag by as much as the TTL, the most that `LastFetchedMonotone` allows. The crawl
run takes two attempts, so that retries happen. Events of the paging run share a second beyond the cap, which forces the stall and the
re-asked boundary, and a hostile window holds one event more than the cap.
In `HealthGate` one failure takes a relay below the threshold (smoothing 0.8), so degraded routing and probes happen within a few steps. The
shutdown run needs no second batch of clock values; a clock of two instants lets a sweep
reopen a row during a drain. Relay lists of three tags suffice for a url that is
repeated with another marker, before and after a third. The backoff run's word of six
bits is one that the base overflows before the counter (of seven values) ends, between
the saturation and the refused shift, as 2^128 nanoseconds is. Two instants and a quota
of two let a limiter spend its burst, wait and be replenished. Constants
named `Max...` that the comment calls a bound exist for TLC only.

*Symmetry* is used for task slots, batches and fetchers, only in runs without
liveness.

*Fairness.* Weak fairness of the loop and of each worker, nothing else, in `Crawl`,
`NewestListApplied` and the premise `TasksRun` of `DrainCompletes`: the runtime
polls every task, a statement or a fetch returns (fetches have a deadline for each
window and a page budget for each chunk). Timers, signals, crashes, failures,
notices and the clock owe nothing. Fair progress of a worker may be a panic or an
error; liveness then says the task ends, not that it succeeds. `ProcessExits` does
without all of that, and assumes only what the code itself bounds by a timer: `main` is
polled, a ping is answered or times out (`MainStep`), and `SHUTDOWN_TIMEOUT` expires.

### Disagreements between the code and what it says of itself

Each has a run in which TLC finds the violation, and a finding in PROJECT.json.

- `DaemonEdgesOverrun`: without `Punctual` the in-run sweep resets the lease of a
  live batch, a second worker gets the author, and two diffs against the same old
  edges leave edges that belong to neither list. The lease age counts from the claim,
  before the wait for a permit, and covers every relay, page and fallback of a batch.
- `NewestListApplied`: `apply_follow_list` compares ids only, so a refresh that yields an
  older list replaces the newer one, without any failure and with one worker. Migration 0001
  says `applied_created_at` is used for newest-wins; nothing reads it.
- `PagingMerged`: with a dense relay, cut at the cap, and a sparse one whose matching events are
  older, the oldest event of the merged window is the sparse one's, the next window starts
  there, and what the dense relay cut off above it is never asked for; the fetch returns Ok.
- `HealthSkipped`: with every curated relay degraded and no probe due, the fan-out
  asks nobody and returns Ok, and the batch becomes `not_found`.
- `RelayQuota`: a window takes a token of the relay it is made for and is then sent to
  every relay of the pool, so each of N curated relays receives N times its quota.

Further ones met on the way, which the models follow the code in: the comment that puts the
worst case of a chunk at `MAX_PAGES_PER_CHUNK * cap` counts on a pool of one relay that respects
`limit`; "a healthy or degraded relay always eventually admits" (`relay/health.rs`) is not
promised to any one waiter, as the gate is polled without a queue and later batches may take
every slot that falls free; with a TTL below one second or a crawler's clock that lags by more
than the TTL, `last_fetched_at` may go back when a row is asked again; a list
replaced between two windows is in neither, and Ok turns its author into `not_found`;
nothing consults the failure count that `relay/mod.rs` says the fetch path's backoff
consults, and no relay is ever parked; concurrent misses ask for a NIP-11 document that
its module says is fetched once; migration 0004 says a winning relay list replaces the
stored one, but with a write relay stored none is fetched again; `validate` promises to
fail fast on what would crash later and lets zero intervals through, which panic in the
timers' tasks, and a `LIMIT 0` that it calls a Postgres error is an empty claim;
`claimed_at` stays
set on resolved rows (migration 0002 says NULL when not leased); the TTL scan makes
fetched keys `discovered` again (SCHEMA.md says not yet fetched); an error while
reaping detaches the remaining workers (WR-04 says it must not); a boundary second
with exactly `cap` events ends in a stall error although all of it was fetched; a
relay of the pool with a smaller limit than the one the cap was read from is cut
short unnoticed; batches that pass the health gate together exceed the health-scaled
ceiling; a write relay that is also curated has two semaphores (`HardCeiling` says so);
and `fallback_fetch` is answered by the curated pool, because write relays are never
added to the client.

## Proofs

Eight modules hold theorems. Every invariant and action property of every passing run is
stated by one of them, for every value of the constants, or for every value that meets the premises named
below; PROJECT.json lists them.
`Null` is assumed to be no value throughout, and sets of keys, tasks, relays and events to
be finite where something is counted.

*The one-shot crawl* (`RunCrawlProofs`): for any keys, lists, tasks, batch size,
concurrency, attempt cap and number of restarts: `TypeOK`, `LeaseExclusive`,
`EdgesMirrorApplied`, `TerminalStamped`, `AttemptBudget`, the action property `NoRedo`,
`DrainComplete` and `ImplementsFrontier`. Assumptions: keys are finite (`PubkeysFinite`;
ids are counted), lists are well typed (`ListsTyped`), `Null` is no value
(`NullDistinct`), sizes are at least one (`WorkerConstants`, `RestartBound`). The
configuration does not itself demand `max_attempts >= 1`.

The inductive invariant is `IndInv == TypeOK /\ WorkersInv /\ NothingHeldAtStartup`.
None of its parts stands alone. `EdgesMirrorApplied` needs that the edges a task read
are still the edges when it commits (`AppliesWhatItHolds`), which needs that nobody
else applies a list to its author (`LeaseExclusive`); that survives the startup reset
only because nothing is held then (`NothingHeldAtStartup`); and an upsert preserves
it only because a missing key has no leftover columns (`AbsentIsBlank`).
`WorkerProofs` has one lemma for each kind of step: a task advances without writing,
inserts rows, resolves one of its authors; the loop claims, spawns, seeds, resets.
`ResetInv` is stated for any set of rows outside `Held`, as the daemon needs it.

`DrainComplete` (theorem `OkMeansDrained`) rests on `DrainInv`: until the loop gives up,
every task has its join handle, and a leased row has a holder that is alive or has
failed and is not joined yet. The crawl ends when a claim is empty and no handle is
left: then no task runs, so no row is locked, and a claim that skips nothing would take
the open row with the smallest id if there were one; nor is a row leased, as it would
have a holder with a handle. The second half, that followees of stored edges are known
keys, is `FolloweesKnown`.

`ImplementsFrontier` maps each row to a phase: `unknown`, `open`, `held`, `orphan`,
`done`. A lease is `held` while its holder lives and `orphan` afterwards. `FrontierProofs`
shows, for each step of a worker, which keys change phase, and that this is one abstract
step or none. That edges are published to known keys only needs `FolloweesKnown`: a worker has
inserted every followee of a list, or still has it to insert, before it writes edges.

*The daemon* (`DaemonProofs`): `TypeOK`, `LeaseExclusive`, `EdgesMirrorApplied`,
`CleanShutdown`, `LastFetchedMonotone` and `ImplementsFrontier`, for the same constants
and any TTL, reclaim age, clock bound and number of starts, each under the assumption
`Punctual`: a batch ends within `reclaim_age` of its claim. Without it
`EdgesMirrorApplied` is false (run `DaemonEdgesOverrun`). `DaemonInv` adds to
`WorkersInv` that nothing is held outside of a running loop (`NothingHeldOutside`) and
that every held lease is young (`LeasesYoung`). The latter is where the assumption
enters, at the tick of the clock, and from where it reaches the sweep, which then resets
orphans only. `CleanShutdown` needs `HandlesInv` (a `stopped` loop has joined every
task, and a lease without a holder means a failure), `LastFetchedMonotone` needs
`StampsOrdered`: a row that can be claimed was last asked for more than a TTL ago, so a row that a
task holds is no fresher than the task's stamp, however the crawler's clock cuts it. The
property, and so the theorem, has the premise that a stamp lags by at most a TTL
(`StampLag`).

*The process* (same module, second half). `ReadyIsRunning` and `DiesEarly` need no
`Punctual`: `DiesEarly` says that whatever breaks after the set-up began broke on a zero interval. `ProcessInv` adds to them where `main` stands (`Stages`), and that only a
validated configuration gets past `validate`. For the rest a step of the process is a
step of `DaemonLoop` or one of start-up before the loop (`BeforeTheLoop`), and the
latter keeps `DaemonInv`, `HandlesInv`, `StampsOrdered` and the phases: so what is proved
of the loop holds of the process, with its set-up, bounded drain, kills and restarts
(`ProcessShutdownIsClean`, `ProcessImplementsFrontier`, `ProcessKeepsTheTables`,
`ProcessKeepsTheAge`).

*Without `Punctual`* (same module, last part). `OverrunsAreContained` says how far the
violation that `DaemonEdgesOverrun` finds can go: however long batches take and whatever
the sweep resets under them, types hold, a resolved row is stamped, and every stored edge
leads to a known key and comes from some list of its follower. Two tasks may mix the
edges of two lists; they cannot invent one. `OverrunInv` drops the exclusiveness of
leases and keeps, for each task, that what it still has to write is its own author's
list (`OwnWork`).

*The paged fetch* (`PaginationProofs`): `StoredThroughoutIsFetched` for any events,
chunks, cap and page budget, if the pool is one relay (`OneRelay`) whose limit is not
below the cap (`CapServed`) and that serves its newest events (not `hostile`). Both premises are
needed: of two relays the statement is false (run `PagingMerged`). The invariant is
`PagedDownToUntil`: what is not fetched yet lies at or before `until`. It needs lemmas on
what an honest window is: everything that matches if it is below the cap, and otherwise
closed upwards from its oldest second. `TypeOK`, `ChunkMemoryBounded` and
`BudgetSparesHonest` hold for any pool. `BudgetInv` says that the pages read are no more
than the events collected, as every page but the last brings a new one, and the events no
more than the pages times what one window holds (`WindowBound`): `Flood` of a hostile pool,
the cap of each relay of an honest one, which counts the union (`MergedWindowBounded`).

*Health and admission* (`HealthProofs`): `TypeOK`, `SlotAccounting`, `HardCeiling`,
`ProbeExclusive` and `WaitsForAFetch` for any batches, relays, permits, threshold, smoothing and interval.
`HealthInv` adds where each batch stands on its path of relays (`OnPath`); that neither
map of semaphores gives out more permits than it has (`SemaphoresHold`), from which the
ceiling of a relay that is in both maps is twice one map's; and that a batch under way to
a relay has marked its attempt there (`ProbesMarked`): a second batch that read the same
stale score finds the mark, since check and mark of the probe time share a lock. That waits are
for fetches in flight follows from the exact count and from the floor of `permits`.

*Limiters, cache and backoff* (`PolitenessProofs`): `KeyQuota`, `DocumentAskedOnce`,
`CapUsable` and `BackoffEscalates` for any fetchers, relays, quota, documents and limits.
`Paced` relates a limiter's arrival time to every window it let through: one unit for the
window and one for each since, whence the quota over any stretch; it needs that no two
keys share a limiter and that a fetch that waits holds its key's (`OwnLimiter`). `Asked`
counts the requests under way while the cache has no entry. The backoff grows with each
notice because no bit is lost before the early saturation (`SaturatesInTime`, which TLC
evaluates for the instance; for the code's base of one second, 2^30 nanoseconds, and its
saturation at 64 shifts of a word of 128 bits it holds). For a base above 2^65
nanoseconds it fails; the program uses one second only.

*The ingest gate and relay lists* (`IngestProofs`): `IngestIsReference`,
`EmittedTimeIsEventTime`, `ListsOnlyAdvance`, `RelayListIsReference`, `OneListStored`
and `RoutesToWriteRelays` for every set of events and streams of any
length. Two valid events with one id are one event (the id is a hash). After each round
of the gate's loop, `seen` holds the ids and `by_author` the events of what was accepted
so far, each once, whatever forgeries came before (`GateKeepsTheGenuine`); the winner of a
group is the greatest of it within the clamp (`WinnerIsBest`), so the emitted lists are
those of the reference (`GateIsReference`). `StoreHolds` says what is committed (the rows of one whole
list) and what the open transaction sees (the rows of a prefix of the new list's tags).

*Induction over data.* The library states induction with an operator as parameter,
which the provers cannot instantiate. `IngestProofs` and `PolitenessProofs` obtain it from
the well-founded order of the naturals instead: a non-empty set of numbers has a least
one, so a set that has 0 and every successor up to N has them all (`Rounds`,
`BitByBit`). The same argument shows that the recursive functions (`rounds`, the `best`
of `pick_winner`, `shl`) exist and are what their definitions say.

Only model-checked: liveness (`Termination`, `DrainCompletes`, `ProcessExits`),
which is out of the prover's reach, and the five violations.

## Plan

Done: all of the modules above, their runs, and a theorem for every safety property.
Next:

1. The lease protocol for two workers on one author's relay list, when a lease was reset
   under the first: model, then invariant.
2. An abstract specification of the limiter as a quota, with `Politeness` as its
   implementation.

### Not modelled

Metrics, gauges, the progress log and tracing (output only; the sampler reads counts and
writes nothing), parsing and redaction of the configuration, the DDL itself and the
contract views (projections), error types, reconnects (nostr-sdk), the state inside a
GCRA cell beyond its arrival time (governor), the jitter of the backoff, and the functions
without a caller in the program: `route_allowed`, `mark_attempt`, `backoff`,
`acquire_validated_lists_client`, `fetch_complete`.
