----------------------------- MODULE BatchWorkers -----------------------------
(****************************************************************************)
(* The crawl workers: spawned tasks that each run process_batch (apply.rs)  *)
(* on one claimed batch against the shared database.  Every await on the    *)
(* pool or on a relay is a step of its own, so the statements of two tasks, *)
(* of the claim loop and of the timers interleave freely.                   *)
(*                                                                          *)
(* What a relay yields for an author is any of the author's lists or none:  *)
(* relays may serve an old list, or nothing, at any time.                   *)
(****************************************************************************)
EXTENDS PubkeyStore

CONSTANTS
    Tasks,            \* slots for spawned tasks
    BadKeys,          \* stored keys that PublicKey::from_slice rejects
    MaxAttempts,      \* max_attempts
    Anchor,           \* anchor_pubkey
    BatchSize,        \* batch_size
    Concurrency,      \* concurrency: permits of the worker semaphore
    FallbackEnabled,  \* fallback_enabled: the NIP-65 write-relay fallback
    MaxTime           \* bound on the clock, for model checking only

ASSUME WorkerConstants ==
    /\ BadKeys \subseteq Pubkeys
    /\ MaxAttempts \in Nat \ {0}
    /\ Anchor \in Pubkeys
    /\ BatchSize \in Nat \ {0}
    /\ Concurrency \in Nat \ {0}
    /\ FallbackEnabled \in BOOLEAN
    /\ MaxTime \in Nat

VARIABLES
    row,     \* the pubkeys table
    edges,   \* the follows table: follower |-> set of followees
    clock,   \* the database's now(), in abstract units
    task,    \* the spawned tasks
    batch    \* the batch the loop has claimed and not yet spawned

workerVars == <<row, edges, clock, task, batch>>

Running  == {"fetch", "requeue", "resolve", "upsert", "confirm", "diff", "commit"}
Applying == {"upsert", "confirm", "diff", "commit"}
Finished == {"ok", "err"}

TaskType == [pc    : {"free"} \cup Running \cup Finished,
             todo  : SUBSET Pubkeys,                  \* rest of the batch
             got   : [Pubkeys -> Lists \cup {Null}],  \* by_author
             cur   : Pubkeys \cup {Null},             \* author being applied
             ups   : SUBSET Pubkeys,                  \* followees to upsert
             snap  : SUBSET Pubkeys,                  \* current_set, as read
             stamp : Time]                            \* `now` of the batch, the crawler's

NoLists == [p \in Pubkeys |-> Null]

FreeTask == [pc |-> "free", todo |-> {}, got |-> NoLists, cur |-> Null,
             ups |-> {}, snap |-> {}, stamp |-> Null]

SpawnedTask(authors, stamp) ==
    [FreeTask EXCEPT !.pc = "fetch", !.todo = authors, !.stamp = stamp]

RunningTasks == {w \in Tasks : task[w].pc \in Running}

WorkersInit ==
    /\ row = [p \in Pubkeys |-> NoRow]
    /\ edges = [p \in Pubkeys |-> {}]
    /\ clock = 0
    /\ task = [w \in Tasks |-> FreeTask]
    /\ batch = {}

\* One author of the batch is done: the loop of process_batch moves on.
Resolved(t, a) == [t EXCEPT !.pc = "resolve", !.todo = @ \ {a},
                            !.cur = Null, !.ups = {}, !.snap = {}]

-----------------------------------------------------------------------------
(* The batch fetch and its error branch *)

\* The cross-relay fetch returned Ok and ingest picked at most one list per
\* requested author; a malformed key is never requested.
FetchOk(w) ==
    /\ task[w].pc = "fetch"
    /\ \E got \in [Pubkeys -> Lists \cup {Null}] :
          /\ \A p \in Pubkeys : got[p] # Null =>
                /\ p \in task[w].todo \ BadKeys
                /\ got[p].follower = p
          /\ task' = [task EXCEPT ![w].pc = "resolve", ![w].got = got]
    /\ UNCHANGED <<row, edges, clock, batch>>

\* The fetch returned a RelayError: every claimed author is requeued or failed.
FetchErr(w) ==
    /\ task[w].pc = "fetch"
    /\ task' = [task EXCEPT ![w].pc = "requeue"]
    /\ UNCHANGED <<row, edges, clock, batch>>

Requeue(w) ==
    /\ task[w].pc = "requeue"
    /\ \E a \in task[w].todo :
          /\ row' = [row EXCEPT ![a] =
                        requeue_or_fail(@, MaxAttempts, task[w].stamp)]
          /\ task' = [task EXCEPT ![w].todo = @ \ {a}]
    /\ UNCHANGED <<edges, clock, batch>>

-----------------------------------------------------------------------------
(* Per-author resolution *)

\* No list from the curated relays, and none from the fallback (or no fallback).
NotFound(w) ==
    /\ task[w].pc = "resolve"
    /\ \E a \in task[w].todo :
          /\ task[w].got[a] = Null
          /\ row' = [row EXCEPT ![a] =
                        set_fetch_status(@, "not_found", task[w].stamp)]
          /\ task' = [task EXCEPT ![w] = Resolved(@, a)]
    /\ UNCHANGED <<edges, clock, batch>>

\* fallback_recover found a list on the author's write relays.
Recover(w) ==
    /\ task[w].pc = "resolve"
    /\ FallbackEnabled
    /\ \E a \in task[w].todo \ BadKeys, l \in Lists :
          /\ task[w].got[a] = Null
          /\ l.follower = a
          /\ task' = [task EXCEPT ![w].got[a] = l]
    /\ UNCHANGED <<row, edges, clock, batch>>

\* Mutant: edges are written before their followees have rows.
BeginApply_no_upserts(w) ==
    /\ task[w].pc = "resolve"
    /\ \E a \in task[w].todo :
          /\ task[w].got[a] # Null
          /\ row' = upsert_pubkey(row, a)
          /\ task' = [task EXCEPT ![w].pc = "upsert", ![w].cur = a, ![w].ups = {}]
    /\ UNCHANGED <<edges, clock, batch>>

\* apply_validated: upsert the follower, then each followee on its own.
BeginApply(w) ==
    /\ task[w].pc = "resolve"
    /\ \E a \in task[w].todo :
          /\ task[w].got[a] # Null
          /\ row' = upsert_pubkey(row, a)
          /\ task' = [task EXCEPT ![w].pc = "upsert", ![w].cur = a,
                                  ![w].ups = task[w].got[a].followees]
    /\ UNCHANGED <<edges, clock, batch>>

UpsertFollowee(w) ==
    /\ task[w].pc = "upsert"
    /\ \E f \in task[w].ups :
          /\ row' = upsert_pubkey(row, f)
          /\ task' = [task EXCEPT ![w].ups = @ \ {f}]
    /\ UNCHANGED <<edges, clock, batch>>

\* apply_follow_list (1): is this list the one already applied?
CheckApplied(w) ==
    /\ task[w].pc = "upsert"
    /\ task[w].ups = {}
    /\ LET a == task[w].cur IN
       task' = [task EXCEPT ![w].pc =
                   IF row[a].applied = task[w].got[a] THEN "confirm" ELSE "diff"]
    /\ UNCHANGED <<row, edges, clock, batch>>

Confirm(w) ==
    /\ task[w].pc = "confirm"
    /\ LET a == task[w].cur IN
       /\ row' = [row EXCEPT ![a] = confirm_applied(@, clock)]
       /\ task' = [task EXCEPT ![w] = Resolved(@, a)]
    /\ UNCHANGED <<edges, clock, batch>>

\* apply_follow_list (3): read the current edges, outside the transaction.
ReadEdges(w) ==
    /\ task[w].pc = "diff"
    /\ task' = [task EXCEPT ![w].pc = "commit", ![w].snap = edges[task[w].cur]]
    /\ UNCHANGED <<row, edges, clock, batch>>

\* apply_follow_list (4): the diff and the freshness update commit together.
Commit(w) ==
    /\ task[w].pc = "commit"
    /\ LET a == task[w].cur
           l == task[w].got[a]
       IN  /\ edges' = [edges EXCEPT ![a] =
                           write_diff(@, task[w].snap, wanted_edges(l))]
           /\ row' = [row EXCEPT ![a] = record_applied(@, l, clock)]
           /\ task' = [task EXCEPT ![w] = Resolved(@, a)]
    /\ UNCHANGED <<clock, batch>>

-----------------------------------------------------------------------------
(* How a task ends *)

Finish(w) ==
    /\ task[w].pc \in {"requeue", "resolve"}
    /\ task[w].todo = {}
    /\ task' = [task EXCEPT ![w].pc = "ok"]
    /\ UNCHANGED <<row, edges, clock, batch>>

\* A StoreError (or a panic) ends the task where it stands: `?` abandons the
\* rest of the batch.  Taken after the write it also covers a commit whose
\* acknowledgement was lost.
TaskFail(w) ==
    /\ task[w].pc \in Running
    /\ task' = [task EXCEPT ![w].pc = "err"]
    /\ UNCHANGED <<row, edges, clock, batch>>

TaskStep(w) ==
    \/ FetchOk(w) \/ FetchErr(w) \/ Requeue(w)
    \/ NotFound(w) \/ Recover(w) \/ BeginApply(w)
    \/ UpsertFollowee(w) \/ CheckApplied(w) \/ Confirm(w)
    \/ ReadEdges(w) \/ Commit(w) \/ Finish(w)

Tick == /\ clock < MaxTime
        /\ clock' = clock + 1
        /\ UNCHANGED <<row, edges, task, batch>>

\* Rows a running statement may hold locked, which SKIP LOCKED passes over:
\* followees under upsert and followees of edges under insertion.
MaybeLocked ==
    UNION {CASE task[w].pc = "upsert" -> task[w].ups
             [] task[w].pc = "commit" ->
                   wanted_edges(task[w].got[task[w].cur]) \ task[w].snap
             [] OTHER -> {} : w \in Tasks}

\* The loop's claim_batch transaction.
TakeBatch ==
    /\ \E locked \in SUBSET MaybeLocked :
          batch' = claim_selection(row, BatchSize, locked)
    /\ row' = claim_batch(row, batch', clock)
    /\ UNCHANGED <<edges, clock, task>>

\* A permit is free: the batch becomes a task that owns the permit until it ends,
\* with `stamp` as the crawler's time, and the handles that have finished are reaped.
SpawnBatch(w, stamp) ==
    /\ Cardinality(RunningTasks) < Concurrency
    /\ task[w].pc = "free"
    /\ task' = [v \in Tasks |->
                  IF v = w THEN SpawnedTask(batch, stamp)
                  ELSE IF task[v].pc \in Finished THEN FreeTask ELSE task[v]]
    /\ batch' = {}
    /\ UNCHANGED <<row, edges, clock>>

\* A joined handle leaves the vector of workers.
Joined(w) ==
    /\ task[w].pc \in Finished
    /\ task' = [task EXCEPT ![w] = FreeTask]
    /\ UNCHANGED <<row, edges, clock, batch>>

\* seed_anchor: the anchor is a discovered row like any other.
SeedAnchor ==
    /\ row' = upsert_pubkey(row, Anchor)
    /\ UNCHANGED <<edges, clock, task, batch>>

ReclaimOnStartup ==
    /\ row' = reclaim_stale_on_startup(row)
    /\ UNCHANGED <<edges, clock, task, batch>>

\* The process dies: its tasks and its memory are gone, the tables stay.
ProcessGone ==
    /\ task' = [w \in Tasks |-> FreeTask]
    /\ batch' = {}
    /\ UNCHANGED <<row, edges, clock>>

-----------------------------------------------------------------------------
(* Properties of the tables, shared by the one-shot crawl and the daemon *)

WorkersTypeOK ==
    /\ row \in [Pubkeys -> RowType]
    /\ edges \in [Pubkeys -> SUBSET Pubkeys]
    /\ clock \in Nat
    /\ task \in [Tasks -> TaskType]
    /\ batch \in SUBSET Pubkeys

\* The authors a task has claimed and not yet resolved.
Leased(w) == IF task[w].pc \in Running THEN task[w].todo ELSE {}

\* The authors some live task, or the loop itself, is still working on.
Held == batch \cup UNION {Leased(w) : w \in Tasks}

\* The rows as phases of the Frontier: a lease is held while its holder lives.
Phases ==
    LET held == Held
    IN  [p \in Pubkeys |->
            CASE row[p].status = "absent"     -> "unknown"
              [] row[p].status = "discovered" -> "open"
              [] row[p].status \in Terminal   -> "done"
              [] OTHER -> IF p \in held THEN "held" ELSE "orphan"]

\* The sets of followees that an author's lists carry.
OfferedEdges ==
    [p \in Pubkeys |-> {wanted_edges(l) : l \in {m \in Lists : m.follower = p}}]

\* "Two concurrent workers therefore never claim the same row" (frontier.rs): an
\* author is held by at most one task or by the batch that waits for a permit,
\* and its row stays in_progress, reset by nobody, until its holder resolves it.
LeaseExclusive ==
    /\ \A v, w \in Tasks : v # w => Leased(v) \cap Leased(w) = {}
    /\ \A w \in Tasks : Leased(w) \cap batch = {}
    /\ \A p \in Held : row[p].status = "in_progress"

\* The stored edges of a follower are exactly the followees of the list recorded
\* as applied, although apply_follow_list diffs against edges it read before the
\* transaction that writes them.
EdgesMirrorApplied ==
    \A p \in Pubkeys :
        edges[p] = IF row[p].applied = Null THEN {}
                   ELSE wanted_edges(row[p].applied)

\* FRESH-01: a row with a terminal status carries last_fetched_at, without which
\* the TTL scan could never re-enqueue it.
TerminalStamped ==
    \A p \in Pubkeys :
        row[p].status \in Terminal => row[p].last_fetched_at # Null

\* The retry budget: a claimable or leased row has attempts left, and no row was
\* charged more attempts than the cap that requeue_or_fail enforces.
AttemptBudget ==
    \A p \in Pubkeys :
        /\ row[p].fetch_attempts <= MaxAttempts
        /\ row[p].status \in {"discovered", "in_progress"} =>
              row[p].fetch_attempts < MaxAttempts

\* A task applies the list it fetched for the author it holds, and from its read
\* of the edges to its commit nobody else writes them.
AppliesWhatItHolds ==
    \A w \in Tasks : task[w].pc \in Running =>
        /\ task[w].stamp # Null
        /\ \A p \in Pubkeys : task[w].got[p] # Null => task[w].got[p].follower = p
        /\ task[w].pc \in Applying =>
              /\ task[w].cur \in task[w].todo
              /\ task[w].got[task[w].cur] # Null
        /\ task[w].pc = "commit" => task[w].snap = edges[task[w].cur]

\* A key that is not in the table has no column of its own.
AbsentIsBlank == \A p \in Pubkeys : row[p].status = "absent" => row[p] = NoRow

\* What every step of the workers and of the loops around them preserves.
WorkersInv ==
    /\ WorkersTypeOK
    /\ AbsentIsBlank
    /\ LeaseExclusive
    /\ AppliesWhatItHolds
    /\ EdgesMirrorApplied
    /\ TerminalStamped
    /\ AttemptBudget
=============================================================================
