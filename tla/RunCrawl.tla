------------------------------- MODULE RunCrawl -------------------------------
(****************************************************************************)
(* run_crawl (crawl/mod.rs): the one-shot crawl.  Seed the anchor, reclaim  *)
(* crash orphans, then claim batches and spawn workers until a claim is     *)
(* empty with no worker left.  The process may die at any point and be      *)
(* started again on the same database.                                      *)
(****************************************************************************)
EXTENDS BatchWorkers

CONSTANT MaxRestarts   \* bound on process restarts, for model checking only

ASSUME RestartBound == MaxRestarts \in Nat

VARIABLES
    loop,      \* where the claim loop stands
    handles,   \* `workers`: the join handles not yet joined
    started,   \* `now`, the caller's timestamp: no property compares it with the database's
    restarts   \* how often the process was started again

crawlVars == <<loop, handles, started, restarts>>
vars == <<row, edges, clock, task, batch, loop, handles, started, restarts>>

LoopStates == {"seed", "reclaim", "claim", "permit", "join", "done", "failed"}

Init ==
    /\ WorkersInit
    /\ loop = "seed"
    /\ handles = {}
    /\ started = 0
    /\ restarts = 0

-----------------------------------------------------------------------------
Seed ==
    /\ loop = "seed"
    /\ SeedAnchor
    /\ started' = clock
    /\ loop' = "reclaim"
    /\ UNCHANGED <<handles, restarts>>

Reclaim ==
    /\ loop = "reclaim"
    /\ ReclaimOnStartup
    /\ loop' = "claim"
    /\ UNCHANGED <<handles, started, restarts>>

\* Mutant: an empty claim ends the crawl with workers still in flight.
Claim_ends_early ==
    /\ loop = "claim"
    /\ TakeBatch
    /\ loop' = IF batch' # {} THEN "permit" ELSE "done"
    /\ UNCHANGED <<handles, started, restarts>>

\* claim_batch, and the branch on an empty batch: break with no worker left,
\* else join them all and look again.
Claim ==
    /\ loop = "claim"
    /\ TakeBatch
    /\ loop' = IF batch' # {} THEN "permit"
               ELSE IF handles = {} THEN "done" ELSE "join"
    /\ UNCHANGED <<handles, started, restarts>>

\* Acquire a permit, spawn the batch, then reap: finished handles are joined
\* (an error returns from run_crawl and detaches the rest), the others kept.
Spawn(w) ==
    /\ loop = "permit"
    /\ SpawnBatch(w, started)
    /\ LET failed == \E h \in handles : task[h].pc = "err"
       IN  /\ handles' = IF failed THEN {}
                         ELSE {h \in handles : task[h].pc \notin Finished} \cup {w}
           /\ loop' = IF failed THEN "failed" ELSE "claim"
    /\ UNCHANGED <<started, restarts>>

\* join_worker on one handle; an error drops the remaining handles, whose tasks run
\* on detached.  The code joins in spawn order, the model in any order.
JoinNext(w) ==
    /\ loop = "join"
    /\ w \in handles
    /\ Joined(w)
    /\ LET failed == task[w].pc = "err" IN
       /\ handles' = IF failed THEN {} ELSE handles \ {w}
       /\ loop' = IF failed THEN "failed" ELSE "join"
    /\ UNCHANGED <<started, restarts>>

JoinedAll ==
    /\ loop = "join"
    /\ handles = {}
    /\ loop' = "claim"
    /\ UNCHANGED <<row, edges, clock, task, batch, handles, started, restarts>>

\* A StoreError of the loop's own statements: run_crawl returns it.
LoopFail ==
    /\ loop \in {"seed", "reclaim", "claim"}
    /\ loop' = "failed"
    /\ handles' = {}
    /\ UNCHANGED <<row, edges, clock, task, batch, started, restarts>>

\* The process ends, by a crash or after run_crawl returned, and is started again.
Restart ==
    /\ restarts < MaxRestarts
    /\ ProcessGone
    /\ restarts' = restarts + 1
    /\ loop' = "seed"
    /\ handles' = {}
    /\ UNCHANGED started

\* run_crawl has returned and no task is left.
Returned ==
    /\ loop \in {"done", "failed"}
    /\ RunningTasks = {}
    /\ UNCHANGED vars

LoopStep ==
    \/ Seed \/ Reclaim \/ Claim
    \/ \E w \in Tasks : Spawn(w) \/ JoinNext(w)
    \/ JoinedAll

WorkerStep(w) == TaskStep(w) /\ UNCHANGED crawlVars
WorkerFail(w) == TaskFail(w) /\ UNCHANGED crawlVars
CrawlTick == Tick /\ UNCHANGED crawlVars

Next ==
    \/ LoopStep
    \/ LoopFail
    \/ \E w \in Tasks : WorkerStep(w) \/ WorkerFail(w)
    \/ CrawlTick
    \/ Restart
    \/ Returned

Spec == Init /\ [][Next]_vars

\* The runtime polls the loop and every task, statements and relay fetches
\* return (fetches are bounded by timeouts and page budgets).
FairSpec == Spec /\ WF_vars(LoopStep) /\ \A w \in Tasks : WF_vars(WorkerStep(w))

-----------------------------------------------------------------------------
TypeOK ==
    /\ WorkersTypeOK
    /\ loop \in LoopStates
    /\ handles \in SUBSET Tasks
    /\ started \in Nat
    /\ restarts \in Nat

\* While a restarted process seeds and reclaims it holds nothing; a claimed batch
\* exists only while it waits for a permit.
NothingHeldAtStartup ==
    /\ loop \in {"seed", "reclaim"} => RunningTasks = {}
    /\ loop # "permit" => batch = {}

\* The inductive invariant behind LeaseExclusive, EdgesMirrorApplied,
\* TerminalStamped, AttemptBudget and NoRedo.
IndInv == TypeOK /\ WorkersInv /\ NothingHeldAtStartup

\* CRAWL-03, no redo: once a row is terminal nothing in a one-shot crawl touches
\* it again, not the claim, not a late worker, not a restart after a crash.
NoRedo ==
    [][\A p \in Pubkeys : row[p].status \in Terminal =>
          row'[p] = row[p] /\ edges'[p] = edges[p]]_vars

\* CRAWL-01: when run_crawl returns Ok the component is exhausted: every known
\* key is resolved, and every followee of an applied list is a known key.
DrainComplete ==
    loop = "done" =>
        \A p \in Present(row) :
            /\ row[p].status \in Terminal
            /\ edges[p] \subseteq Present(row)

Crawled == INSTANCE Frontier WITH
    Keys <- Pubkeys, Offered <- OfferedEdges, Refreshing <- FALSE,
    phase <- Phases, graph <- edges

\* The one-shot crawl is the abstract frontier: an author's edges change only under
\* its lease, in one step, to those of one of its lists, all of known keys, and
\* leases are reclaimed only from the dead, although each lease is resolved by a
\* dozen statements that interleave with those of other workers and with crashes.
ImplementsFrontier == Crawled!Spec

\* The crawl comes to an end whatever the relays answer: the attempt cap keeps
\* an unfetchable author from bouncing between discovered and in_progress.
Termination == <>[](loop \in {"done", "failed"})
=============================================================================
