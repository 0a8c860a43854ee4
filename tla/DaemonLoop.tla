------------------------------ MODULE DaemonLoop ------------------------------
(****************************************************************************)
(* The daemon: run_daemon_loop (daemon/loop_.rs) with the staleness and     *)
(* in-run reclaim timers (daemon/sampler.rs) and the start, signal and      *)
(* bounded-drain shutdown of run (daemon/mod.rs), around the same workers   *)
(* as the one-shot crawl.                                                   *)
(****************************************************************************)
EXTENDS BatchWorkers

CONSTANTS
    Second,        \* units of the database's clock in a second
    Skew,          \* how far the crawler's clock may be from the database's
    Ttl,           \* ttl: age at which a terminal row is stale, in whole seconds
                   \*   (as_secs(): "500ms" passes validate and is 0 here)
    ReclaimAge,    \* reclaim_age: age at which an in_progress lease is orphaned,
                   \*   in whole seconds too
    Punctual,      \* assume every batch ends within ReclaimAge of its claim
    MaxStarts      \* bound on process starts, for model checking only

ASSUME DaemonConstants ==
    /\ Second \in Nat \ {0}
    /\ Skew \in Nat
    /\ Ttl \in Nat /\ Ttl % Second = 0
    /\ ReclaimAge \in Nat /\ ReclaimAge % Second = 0
    /\ Punctual \in BOOLEAN
    /\ MaxStarts \in Nat

VARIABLES
    loop,        \* where the claim loop stands; "off" when no process runs
    handles,     \* `workers`: the join handles not yet joined
    first_err,   \* drain_all has met a failed worker
    cancelled,   \* the shared CancellationToken
    late,        \* sweeps that were under way when the token was cancelled
    loop_alive,  \* the readiness flag of /health/ready
    starts,      \* how often the process was started
    faulted      \* history: a failure since the last startup reclaim

loopVars == <<loop, handles, first_err, cancelled, late, loop_alive, starts, faulted>>
vars == <<row, edges, clock, task, batch, loop, handles, first_err, cancelled,
          late, loop_alive, starts, faulted>>

Ended == {"stopped", "failed"}
LoopStates == {"off", "seed", "reclaim", "check", "claim", "permit", "drain", "idle", "final"} \cup Ended
Timers == {"staleness_timer", "in_run_reclaim_timer"}

Init ==
    /\ WorkersInit
    /\ loop = "off"
    /\ handles = {}
    /\ first_err = FALSE
    /\ cancelled = FALSE
    /\ late = {}
    /\ loop_alive = FALSE
    /\ starts = 0
    /\ faulted = FALSE

-----------------------------------------------------------------------------
(* The process: start, SIGTERM, bounded drain, crash *)

Start ==
    /\ loop = "off"
    /\ starts < MaxStarts
    /\ starts' = starts + 1
    /\ loop' = "seed"
    /\ UNCHANGED <<handles, first_err, cancelled, late, loop_alive, faulted>>
    /\ UNCHANGED workerVars

\* The signal listener cancels the token; a sweep already past its select! runs
\* on and lands later.
Signal ==
    /\ loop # "off"
    /\ ~cancelled
    /\ cancelled' = TRUE
    /\ late' \in SUBSET Timers
    /\ UNCHANGED <<loop, handles, first_err, loop_alive, starts, faulted>>
    /\ UNCHANGED workerVars

Off ==
    /\ ProcessGone
    /\ loop' = "off"
    /\ handles' = {}
    /\ first_err' = FALSE
    /\ cancelled' = FALSE
    /\ late' = {}
    /\ loop_alive' = FALSE
    /\ UNCHANGED starts

\* run returns: the server is down and either every task was joined or
\* SHUTDOWN_TIMEOUT cut the drain short.
Exit ==
    /\ cancelled
    /\ Off
    /\ faulted' = (faulted \/ loop # "stopped")

Crash ==
    /\ loop # "off"
    /\ Off
    /\ faulted' = TRUE

-----------------------------------------------------------------------------
(* run_daemon_loop *)

Seed ==
    /\ loop = "seed"
    /\ SeedAnchor
    /\ loop' = "reclaim"
    /\ UNCHANGED <<handles, first_err, cancelled, late, loop_alive, starts, faulted>>

Reclaim ==
    /\ loop = "reclaim"
    /\ ReclaimOnStartup
    /\ loop' = "check"
    /\ loop_alive' = TRUE
    /\ faulted' = FALSE
    /\ UNCHANGED <<handles, first_err, cancelled, late, starts>>

\* Mutants: a cancelled loop stops without its final drain; the token is ignored.
CheckToken_no_drain ==
    /\ loop = "check"
    /\ loop' = IF cancelled THEN "stopped" ELSE "claim"
    /\ UNCHANGED <<handles, first_err, cancelled, late, loop_alive, starts, faulted>>
    /\ UNCHANGED workerVars
CheckToken_ignored ==
    /\ loop = "check"
    /\ loop' = "claim"
    /\ UNCHANGED <<handles, first_err, cancelled, late, loop_alive, starts, faulted>>
    /\ UNCHANGED workerVars

\* token.is_cancelled() at the top of the loop: the only place that stops claims.
CheckToken ==
    /\ loop = "check"
    /\ loop' = IF cancelled THEN "final" ELSE "claim"
    /\ UNCHANGED <<handles, first_err, cancelled, late, loop_alive, starts, faulted>>
    /\ UNCHANGED workerVars

\* claim_batch; an empty claim drains the workers and then idles.
Claim ==
    /\ loop = "claim"
    /\ TakeBatch
    /\ loop' = IF batch' # {} THEN "permit" ELSE "drain"
    /\ UNCHANGED <<handles, first_err, cancelled, late, loop_alive, starts, faulted>>

\* What Timestamp::now() may be: the second that the crawler's own clock, at most Skew
\* away from the database's, is in.
AppNow == {s \in 0..(clock + Skew) : s % Second = 0 /\ clock - Skew < s + Second}

\* Acquire a permit, spawn with a fresh timestamp (taken as the task starts), reap
\* the finished handles; a failed one returns at once and detaches the tasks still
\* running.
Spawn(w) ==
    /\ loop = "permit"
    /\ \E stamp \in AppNow : SpawnBatch(w, stamp)
    /\ LET failed == \E h \in handles : task[h].pc = "err"
       IN  /\ handles' = IF failed THEN {}
                         ELSE {h \in handles : task[h].pc \notin Finished} \cup {w}
           /\ loop' = IF failed THEN "failed" ELSE "check"
           /\ loop_alive' = ~failed
    /\ UNCHANGED <<first_err, cancelled, late, starts, faulted>>

\* drain_all: join every handle, remember whether one failed.
JoinNext(w) ==
    /\ loop \in {"drain", "final"}
    /\ w \in handles
    /\ Joined(w)
    /\ first_err' = (first_err \/ task[w].pc = "err")
    /\ handles' = handles \ {w}
    /\ UNCHANGED <<loop, cancelled, late, loop_alive, starts, faulted>>

\* All handles joined: the first error returns from the loop, else the drain of
\* an empty claim goes idle and the final drain stops the loop.
Drained ==
    /\ loop \in {"drain", "final"}
    /\ handles = {}
    /\ loop' = IF first_err THEN "failed"
               ELSE IF loop = "drain" THEN "idle" ELSE "stopped"
    /\ loop_alive' = (loop' = "idle")
    /\ UNCHANGED <<handles, first_err, cancelled, late, starts, faulted>>
    /\ UNCHANGED workerVars

\* The idle select!: cancellation breaks the loop, the poll interval continues it.
Wake ==
    /\ loop = "idle"
    /\ \/ loop' = "check"
       \/ cancelled /\ loop' = "final"
    /\ UNCHANGED <<handles, first_err, cancelled, late, loop_alive, starts, faulted>>
    /\ UNCHANGED workerVars

\* Mutant: an error skips the line that clears the readiness flag.
LoopFail_still_alive ==
    /\ loop \in {"seed", "reclaim", "claim"}
    /\ loop' = "failed"
    /\ handles' = {}
    /\ faulted' = TRUE
    /\ UNCHANGED <<first_err, cancelled, late, loop_alive, starts>>
    /\ UNCHANGED workerVars

\* A StoreError of the loop's own statements returns from run_daemon_loop.
LoopFail ==
    /\ loop \in {"seed", "reclaim", "claim"}
    /\ loop' = "failed"
    /\ handles' = {}
    /\ loop_alive' = FALSE
    /\ faulted' = TRUE
    /\ UNCHANGED <<first_err, cancelled, late, starts>>
    /\ UNCHANGED workerVars

-----------------------------------------------------------------------------
(* The timers *)

Fires(timer) == /\ loop # "off"
                /\ ~cancelled \/ timer \in late
                /\ late' = late \ {timer}

\* staleness_timer: terminal rows past the TTL go back to the frontier.
StalenessTimer ==
    /\ Fires("staleness_timer")
    /\ row' = reclaim_stale_by_ttl(row, Ttl, clock)
    /\ UNCHANGED <<edges, clock, task, batch, loop, handles, first_err, cancelled,
                   loop_alive, starts, faulted>>

\* in_run_reclaim_timer: leases past the age go back to the frontier.
InRunReclaimTimer ==
    /\ Fires("in_run_reclaim_timer")
    /\ row' = reclaim_in_progress_older_than(row, ReclaimAge, clock)
    /\ UNCHANGED <<edges, clock, task, batch, loop, handles, first_err, cancelled,
                   loop_alive, starts, faulted>>

-----------------------------------------------------------------------------
\* Under Punctual a live lease never outlives ReclaimAge: the premise of the
\* comment on reclaim_in_progress_older_than.
DaemonTick ==
    /\ Tick
    /\ Punctual => \A p \in Held : ~OlderThan(row[p].claimed_at, ReclaimAge, clock + 1)
    /\ UNCHANGED loopVars

WorkerStep(w) == TaskStep(w) /\ UNCHANGED loopVars

WorkerFail(w) ==
    /\ TaskFail(w)
    /\ faulted' = TRUE
    /\ UNCHANGED <<loop, handles, first_err, cancelled, late, loop_alive, starts>>

LoopStep ==
    \/ Seed \/ Reclaim \/ CheckToken \/ Claim
    \/ \E w \in Tasks : Spawn(w) \/ JoinNext(w)
    \/ Drained \/ Wake

\* No process runs and none will be started.
Rest == loop = "off" /\ UNCHANGED vars

Next ==
    \/ Start \/ Signal \/ Exit \/ Crash
    \/ LoopStep \/ LoopFail
    \/ StalenessTimer \/ InRunReclaimTimer
    \/ \E w \in Tasks : WorkerStep(w) \/ WorkerFail(w)
    \/ DaemonTick
    \/ Rest

Spec == Init /\ [][Next]_vars

\* The runtime polls the loop and every task; signals, crashes, failures and the
\* timers owe nothing.
FairSpec == Spec /\ WF_vars(LoopStep) /\ \A w \in Tasks : WF_vars(WorkerStep(w))

-----------------------------------------------------------------------------
TypeOK ==
    /\ WorkersTypeOK
    /\ loop \in LoopStates
    /\ handles \in SUBSET Tasks
    /\ first_err \in BOOLEAN
    /\ cancelled \in BOOLEAN
    /\ late \in SUBSET Timers
    /\ loop_alive \in BOOLEAN
    /\ starts \in Nat
    /\ faulted \in BOOLEAN

\* OPS-02, as loop_.rs states it: after a shutdown with no failure since the last
\* startup reclaim there is no orphaned in_progress lease.
CleanShutdown ==
    loop \in {"stopped", "off"} /\ ~faulted =>
        WithStatus(row, {"in_progress"}) = {}

Refreshed == INSTANCE Frontier WITH
    Keys <- Pubkeys, Offered <- OfferedEdges, Refreshing <- TRUE,
    phase <- Phases, graph <- edges

\* While batches end within reclaim_age the daemon is the abstract frontier too,
\* with the TTL scan as its only way to reopen a resolved key: neither timer nor
\* shutdown nor crash takes a lease from a live worker or splits a list.
ImplementsFrontier == Refreshed!Spec

\* The age of knowledge never runs backwards: last_fetched_at only grows, although
\* fetched rows carry the database's now() and not_found and failed rows the
\* crawler's whole seconds, read when the batch was spawned.  It takes a ttl of at
\* least StampLag, the most a stamp is behind the database: with less (a ttl below
\* one second, a clock that lags) a row can become older by being asked again.
StampLag == Skew + Second - 1
LastFetchedMonotone ==
    [][StampLag <= Ttl =>
          \A p \in Pubkeys : row[p].last_fetched_at # Null =>
              /\ row'[p].last_fetched_at # Null
              /\ row'[p].last_fetched_at >= row[p].last_fetched_at]_vars

\* The schema's "created_at of the currently applied kind-3 event; used for
\* newest-wins resolution": the list recorded for an author is never replaced by an
\* older one.
NewestListApplied ==
    [][\A p \in Pubkeys : row[p].applied # Null =>
          /\ row'[p].applied # Null
          /\ row'[p].applied.created_at >= row[p].applied.created_at]_vars

\* OPS-02: once the token is cancelled the loop comes to its end, whatever the
\* timers put back into the frontier meanwhile.
ShutdownCompletes == cancelled ~> loop \in Ended \cup {"off"}
=============================================================================
