---------------------------- MODULE RunCrawlProofs ----------------------------
(****************************************************************************)
(* run_crawl for every set of keys, lists and tasks, every batch size,      *)
(* concurrency and attempt cap, any number of restarts and any clock.       *)
(*                                                                          *)
(* IndInv is inductive: WorkersInv carries the leases and the tables,       *)
(* NothingHeldAtStartup says why the startup reclaim, which resets every    *)
(* in_progress row, takes no lease away from a live task.                   *)
(****************************************************************************)
EXTENDS RunCrawl, FrontierProofs, WellFoundedInduction

\* With no task running and no batch claimed nothing is held.
LEMMA NothingHeld ==
    ASSUME RunningTasks = {}, batch = {}
    PROVE  Held = {}
BY DEF RunningTasks, Held, Leased

\* The loop's own bookkeeping stays well typed.
LEMMA LoopTypeStep ==
    ASSUME TypeOK, Next, WorkersTypeOK'
    PROVE  TypeOK'
<1> USE DEF TypeOK, LoopStates
<1>0. handles \in SUBSET Tasks /\ clock \in Nat
  BY DEF WorkersTypeOK
<1>1. CASE LoopStep
  <2>1. CASE Seed
    BY <1>0, <2>1 DEF Seed
  <2>2. CASE Reclaim
    BY <2>2 DEF Reclaim
  <2>3. CASE Claim
    BY <2>3 DEF Claim
  <2>4. ASSUME NEW w \in Tasks, Spawn(w) PROVE TypeOK'
    BY <1>0, <2>4 DEF Spawn
  <2>5. ASSUME NEW w \in Tasks, JoinNext(w) PROVE TypeOK'
    BY <1>0, <2>5 DEF JoinNext
  <2>6. CASE JoinedAll
    BY <2>6 DEF JoinedAll
  <2> QED BY <1>1, <2>1, <2>2, <2>3, <2>4, <2>5, <2>6 DEF LoopStep
<1>2. CASE LoopFail
  BY <1>2 DEF LoopFail
<1>3. ASSUME NEW w \in Tasks, WorkerStep(w) \/ WorkerFail(w) PROVE TypeOK'
  BY <1>3 DEF WorkerStep, WorkerFail, crawlVars
<1>4. CASE CrawlTick
  BY <1>4 DEF CrawlTick, crawlVars
<1>5. CASE Restart
  BY <1>5 DEF Restart
<1>6. CASE Returned
  BY <1>6 DEF Returned, vars
<1> QED BY <1>1, <1>2, <1>3, <1>4, <1>5, <1>6 DEF Next

\* Every step of run_crawl preserves the tables' and the leases' invariant.
LEMMA WorkersInvStep ==
    ASSUME IndInv, Next
    PROVE  WorkersInv'
<1> USE DEF IndInv, TypeOK
<1>0. clock \in Nat /\ started \in Nat
  BY DEF WorkersTypeOK
<1>1. CASE Seed
  BY <1>1, SeedInv DEF Seed
<1>2. CASE Reclaim
  <2>1. Held = {}
    BY <1>2, NothingHeld DEF NothingHeldAtStartup, Reclaim
  <2> QED BY <1>2, <2>1, ReclaimInv DEF Reclaim
<1>3. CASE Claim
  <2>1. batch = {}
    BY <1>3 DEF NothingHeldAtStartup, Claim
  <2> QED BY <1>3, <2>1, TakeBatchInv DEF Claim
<1>4. ASSUME NEW w \in Tasks, Spawn(w) PROVE WorkersInv'
  BY <1>0, <1>4, SpawnInv DEF Spawn
<1>5. ASSUME NEW w \in Tasks, JoinNext(w) PROVE WorkersInv'
  BY <1>5, TaskEndInv DEF JoinNext
<1>6. CASE JoinedAll \/ LoopFail \/ Returned
  BY <1>0, <1>6, WorkersStutter DEF JoinedAll, LoopFail, Returned, vars
<1>7. ASSUME NEW w \in Tasks, WorkerStep(w) PROVE WorkersInv'
  BY <1>7, TaskStepInv DEF WorkerStep
<1>8. ASSUME NEW w \in Tasks, WorkerFail(w) PROVE WorkersInv'
  BY <1>8, TaskEndInv DEF WorkerFail
<1>9. CASE CrawlTick
  BY <1>0, <1>9, WorkersStutter DEF CrawlTick, Tick
<1>10. CASE Restart
  BY <1>10, GoneInv DEF Restart
<1> QED BY <1>1, <1>2, <1>3, <1>4, <1>5, <1>6, <1>7, <1>8, <1>9, <1>10 DEF Next, LoopStep

\* A step of the loop, of a task or a restart never leaves a lease behind in the
\* startup states.
LEMMA StartupStep ==
    ASSUME IndInv, Next
    PROVE  NothingHeldAtStartup'
<1> USE DEF IndInv, NothingHeldAtStartup
<1>1. CASE Seed \/ Reclaim
  BY <1>1 DEF Seed, Reclaim, SeedAnchor, ReclaimOnStartup, RunningTasks
<1>2. CASE Claim
  BY <1>2 DEF Claim
<1>3. ASSUME NEW w \in Tasks, Spawn(w) PROVE NothingHeldAtStartup'
  BY <1>3 DEF Spawn, SpawnBatch
<1>4. ASSUME NEW w \in Tasks, JoinNext(w) PROVE NothingHeldAtStartup'
  BY <1>4 DEF JoinNext, Joined
<1>5. CASE JoinedAll \/ LoopFail \/ Returned
  BY <1>5 DEF JoinedAll, LoopFail, Returned, vars, RunningTasks
<1>6. ASSUME NEW w \in Tasks, WorkerStep(w) \/ WorkerFail(w)
      PROVE  NothingHeldAtStartup'
  <2>1. task[w].pc \in Running
    BY <1>6 DEF WorkerStep, WorkerFail, TaskStep, TaskFail, FetchOk, FetchErr, Requeue,
                NotFound, Recover, BeginApply, UpsertFollowee, CheckApplied, Confirm,
                ReadEdges, Commit, Finish, Running
  <2>2. loop \notin {"seed", "reclaim"} /\ loop' = loop
    BY <1>6, <2>1 DEF RunningTasks, WorkerStep, WorkerFail, crawlVars
  <2>3. batch' = batch
    BY <1>6 DEF WorkerStep, WorkerFail, TaskStep, TaskFail, FetchOk, FetchErr, Requeue,
                NotFound, Recover, BeginApply, UpsertFollowee, CheckApplied, Confirm,
                ReadEdges, Commit, Finish
  <2> QED BY <2>2, <2>3
<1>7. CASE CrawlTick
  BY <1>7 DEF CrawlTick, crawlVars, Tick, RunningTasks
<1>8. CASE Restart
  BY <1>8, GoneInv DEF Restart
<1> QED BY <1>1, <1>2, <1>3, <1>4, <1>5, <1>6, <1>7, <1>8 DEF Next, LoopStep

\* IndInv is an invariant of run_crawl.
THEOREM IndInvInvariant == Spec => []IndInv
<1>1. Init => IndInv
  <2> SUFFICES ASSUME Init PROVE IndInv
    OBVIOUS
  <2>1. WorkersInv
    BY WorkersInitInv DEF Init
  <2>2. TypeOK
    BY <2>1 DEF WorkersInv, TypeOK, Init, LoopStates
  <2>3. NothingHeldAtStartup
    BY DEF Init, WorkersInit, FreeTask, NothingHeldAtStartup, RunningTasks, Running
  <2> QED BY <2>1, <2>2, <2>3 DEF IndInv
<1>2. IndInv /\ [Next]_vars => IndInv'
  <2> SUFFICES ASSUME IndInv, [Next]_vars PROVE IndInv'
    OBVIOUS
  <2>1. CASE Next
    <3>1. WorkersInv'
      BY <2>1, WorkersInvStep
    <3>2. TypeOK'
      BY <2>1, <3>1, LoopTypeStep DEF IndInv, WorkersInv
    <3>3. NothingHeldAtStartup'
      BY <2>1, StartupStep
    <3> QED BY <3>1, <3>2, <3>3 DEF IndInv
  <2>2. CASE UNCHANGED vars
    <3>1. WorkersInv'
      BY <2>2, WorkersStutter DEF IndInv, TypeOK, WorkersTypeOK, vars
    <3>2. TypeOK'
      BY <2>2, <3>1 DEF IndInv, TypeOK, WorkersInv, vars
    <3>3. NothingHeldAtStartup'
      BY <2>2 DEF IndInv, NothingHeldAtStartup, RunningTasks, vars
    <3> QED BY <3>1, <3>2, <3>3 DEF IndInv
  <2> QED BY <2>1, <2>2
<1> QED BY <1>1, <1>2, PTL DEF Spec

\* Type correctness of the one-shot crawl.
THEOREM TypeCorrect == Spec => []TypeOK
<1>1. IndInv => TypeOK
  BY DEF IndInv
<1> QED BY <1>1, IndInvInvariant, PTL

\* Two workers never hold the same author, and nothing resets a held row, across
\* any interleaving of claims, workers, failures and restarts.
THEOREM LeasesAreExclusive == Spec => []LeaseExclusive
<1>1. IndInv => LeaseExclusive
  BY DEF IndInv, WorkersInv
<1> QED BY <1>1, IndInvInvariant, PTL

\* The stored edges are always those of the applied list, although the diff is
\* computed outside the transaction that writes it.
THEOREM EdgesAreTheAppliedList == Spec => []EdgesMirrorApplied
<1>1. IndInv => EdgesMirrorApplied
  BY DEF IndInv, WorkersInv
<1> QED BY <1>1, IndInvInvariant, PTL

\* FRESH-01: a resolved row has the time of its last fetch.
THEOREM ResolvedRowsAreStamped == Spec => []TerminalStamped
<1>1. IndInv => TerminalStamped
  BY DEF IndInv, WorkersInv
<1> QED BY <1>1, IndInvInvariant, PTL

\* D-09: no row is attempted more often than requeue_or_fail allows, whichever
\* workers, restarts and sweeps return it to the queue.
THEOREM AttemptsAreBounded == Spec => []AttemptBudget
<1>1. IndInv => AttemptBudget
  BY DEF IndInv, WorkersInv
<1> QED BY <1>1, IndInvInvariant, PTL

-----------------------------------------------------------------------------
(* No redo *)

\* A task writes only rows it holds, and a held row is not terminal.
LEMMA TaskLeavesTerminal ==
    ASSUME WorkersInv, NEW w \in Tasks, TaskStep(w),
           NEW p \in Pubkeys, row[p].status \in Terminal
    PROVE  row'[p] = row[p] /\ edges'[p] = edges[p]
<1>0. /\ row \in [Pubkeys -> RowType] /\ edges \in [Pubkeys -> SUBSET Pubkeys]
      /\ task[w] \in TaskType
  BY DEF WorkersInv, WorkersTypeOK
<1>1. p \notin Leased(w)
  BY DEF WorkersInv, LeaseExclusive, Held, Terminal
<1>2. task[w].pc \in Running => p \notin task[w].todo
  BY <1>1 DEF Leased
<1>3. task[w].pc \in Applying => task[w].cur \in task[w].todo /\ task[w].pc \in Running
  BY DEF WorkersInv, AppliesWhatItHolds, Applying, Running
<1>4. CASE FetchOk(w) \/ FetchErr(w) \/ Recover(w) \/ CheckApplied(w)
           \/ ReadEdges(w) \/ Finish(w)
  BY <1>4 DEF FetchOk, FetchErr, Recover, CheckApplied, ReadEdges, Finish
<1>5. CASE Requeue(w) \/ NotFound(w)
  BY <1>0, <1>2, <1>5 DEF Requeue, NotFound, Running
<1>6. CASE BeginApply(w) \/ UpsertFollowee(w)
  <2>1. PICK f \in Pubkeys : row' = upsert_pubkey(row, f) /\ edges' = edges
    BY <1>0, <1>6 DEF BeginApply, UpsertFollowee, TaskType
  <2> QED BY <1>0, <2>1, UpsertEffect DEF Terminal
<1>7. CASE Confirm(w) \/ Commit(w)
  BY <1>0, <1>2, <1>3, <1>7 DEF Confirm, Commit, Applying
<1> QED BY <1>4, <1>5, <1>6, <1>7 DEF TaskStep

\* CRAWL-03: no step of the one-shot crawl touches a resolved row or its edges.
THEOREM ResolvedRowsStay == Spec => NoRedo
<1>1. IndInv /\ [Next]_vars =>
        [\A p \in Pubkeys : row[p].status \in Terminal =>
            row'[p] = row[p] /\ edges'[p] = edges[p]]_vars
  <2> SUFFICES ASSUME IndInv, Next, NEW p \in Pubkeys, row[p].status \in Terminal
               PROVE  row'[p] = row[p] /\ edges'[p] = edges[p]
    OBVIOUS
  <2>0. row \in [Pubkeys -> RowType] /\ row[p].status \notin {"discovered", "in_progress"}
    BY DEF IndInv, TypeOK, WorkersTypeOK, Terminal
  <2>1. CASE Seed
    BY <2>0, <2>1, UpsertEffect, WorkerConstants DEF Seed, SeedAnchor, Terminal
  <2>2. CASE Reclaim
    BY <2>0, <2>2 DEF Reclaim, ReclaimOnStartup, reclaim_stale_on_startup
  <2>3. CASE Claim
    <3>1. p \notin batch'
      BY <2>0, <2>3 DEF Claim, TakeBatch, claim_selection, WithStatus
    <3> QED BY <2>3, <3>1 DEF Claim, TakeBatch, claim_batch
  <2>4. ASSUME NEW w \in Tasks, Spawn(w) \/ JoinNext(w) \/ WorkerFail(w)
        PROVE  row'[p] = row[p] /\ edges'[p] = edges[p]
    BY <2>4 DEF Spawn, SpawnBatch, JoinNext, Joined, WorkerFail, TaskFail
  <2>5. CASE JoinedAll \/ LoopFail \/ CrawlTick \/ Restart \/ Returned
    BY <2>5 DEF JoinedAll, LoopFail, CrawlTick, Tick, Restart, ProcessGone, Returned, vars
  <2>6. ASSUME NEW w \in Tasks, WorkerStep(w)
        PROVE  row'[p] = row[p] /\ edges'[p] = edges[p]
    BY <2>6, TaskLeavesTerminal DEF WorkerStep, IndInv
  <2> QED BY <2>1, <2>2, <2>3, <2>4, <2>5, <2>6 DEF Next, LoopStep
<1> QED BY <1>1, IndInvInvariant, PTL DEF Spec, NoRedo

-----------------------------------------------------------------------------
(* The one-shot crawl implements the abstract frontier *)

\* The two instances of the Frontier have the same steps.
LEMMA SameFrontier ==
    /\ Abstract!Next => Crawled!Next
    /\ UNCHANGED Abstract!fvars => UNCHANGED Crawled!fvars
BY DEF Abstract!Next, Crawled!Next, Abstract!fvars, Crawled!fvars,
       Abstract!Discover, Crawled!Discover, Abstract!Lease, Crawled!Lease,
       Abstract!Release, Crawled!Release, Abstract!Settle, Crawled!Settle,
       Abstract!Publish, Crawled!Publish, Abstract!Abandon, Crawled!Abandon,
       Abstract!Reclaim, Crawled!Reclaim, Abstract!Expire, Crawled!Expire,
       Abstract!Move, Crawled!Move, Abstract!In, Crawled!In,
       Abstract!Known, Crawled!Known

\* Every step of run_crawl keeps FolloweesKnown.
LEMMA FolloweesKnownStep ==
    ASSUME IndInv, FolloweesKnown, Next
    PROVE  FolloweesKnown'
<1> USE DEF IndInv
<1>0. clock \in Nat /\ started \in Nat
  BY DEF TypeOK, WorkersTypeOK
<1>10. WorkersTypeOK /\ \A w \in Tasks : OwnWork(task[w])
  BY WorkersOwn
<1>1. CASE Seed
  BY <1>1, <1>10, LoopFollowees DEF Seed
<1>2. CASE Reclaim
  <2> DEFINE S == {p \in Pubkeys : row[p].status = "in_progress"}
  <2>1. row' = [p \in Pubkeys |-> IF p \in S THEN ResetRow(row[p]) ELSE row[p]]
    BY <1>2 DEF Reclaim, ReclaimOnStartup, reclaim_stale_on_startup
  <2>2. S \in SUBSET Pubkeys
    OBVIOUS
  <2> HIDE DEF S
  <2> QED BY <1>2, <2>1, <2>2, <1>10, ResetFollowees DEF Reclaim, ReclaimOnStartup
<1>3. CASE Claim
  BY <1>3, <1>10, LoopFollowees DEF Claim
<1>4. ASSUME NEW w \in Tasks, Spawn(w) PROVE FolloweesKnown'
  BY <1>0, <1>4, <1>10, LoopFollowees DEF Spawn
<1>5. ASSUME NEW w \in Tasks, JoinNext(w) \/ WorkerFail(w) PROVE FolloweesKnown'
  BY <1>5, <1>10, LoopFollowees DEF JoinNext, WorkerFail
<1>6. CASE JoinedAll \/ LoopFail \/ CrawlTick \/ Returned
  BY <1>6, <1>10, LoopFollowees DEF JoinedAll, LoopFail, CrawlTick, Tick, Returned, vars
<1>7. ASSUME NEW w \in Tasks, WorkerStep(w) PROVE FolloweesKnown'
  BY <1>7, <1>10, TaskStepFollowees DEF WorkerStep
<1>8. CASE Restart
  BY <1>8, <1>10, LoopFollowees DEF Restart
<1> QED BY <1>1, <1>2, <1>3, <1>4, <1>5, <1>6, <1>7, <1>8 DEF Next, LoopStep

\* Every step of run_crawl is a step of the Frontier or invisible to it.
LEMMA StepMaps ==
    ASSUME IndInv, FolloweesKnown, Next
    PROVE  Abstract!Next \/ UNCHANGED Abstract!fvars
<1> USE DEF IndInv
<1>1. CASE Seed
  BY <1>1, SeedMaps DEF Seed
<1>2. CASE Reclaim
  <2> DEFINE S == {p \in Pubkeys : row[p].status = "in_progress"}
  <2>1. row' = [p \in Pubkeys |-> IF p \in S THEN ResetRow(row[p]) ELSE row[p]]
    BY <1>2 DEF Reclaim, ReclaimOnStartup, reclaim_stale_on_startup
  <2>2. S \in SUBSET Pubkeys /\ \A p \in S : row[p].status = "in_progress"
    OBVIOUS
  <2>3. Held = {}
    BY <1>2, NothingHeld DEF NothingHeldAtStartup, Reclaim
  <2>4. S \cap Held = {} /\ UNCHANGED <<edges, task, batch>>
    BY <1>2, <2>3 DEF Reclaim, ReclaimOnStartup
  <2> HIDE DEF S
  <2> QED BY <2>1, <2>2, <2>4, ResetMaps
<1>3. CASE Claim
  BY <1>3, TakeBatchMaps DEF Claim, NothingHeldAtStartup
<1>4. ASSUME NEW w \in Tasks, Spawn(w) PROVE UNCHANGED Abstract!fvars
  BY <1>4, SpawnMaps DEF Spawn
<1>5. ASSUME NEW w \in Tasks, JoinNext(w) PROVE UNCHANGED Abstract!fvars
  BY <1>5, JoinMaps DEF JoinNext
<1>6. CASE JoinedAll \/ LoopFail \/ CrawlTick \/ Returned
  <2>1. UNCHANGED <<row, edges, task, batch>>
    BY <1>6 DEF JoinedAll, LoopFail, CrawlTick, Tick, Returned, vars
  <2>2. Held' = Held
    BY <2>1 DEF Held, Leased
  <2> QED BY <2>1, <2>2, SamePhases DEF Abstract!fvars
<1>7. ASSUME NEW w \in Tasks, WorkerStep(w)
      PROVE  Abstract!Next \/ UNCHANGED Abstract!fvars
  BY <1>7, TaskStepMaps DEF WorkerStep
<1>8. ASSUME NEW w \in Tasks, WorkerFail(w) PROVE Abstract!Next
  BY <1>8, TaskFailMaps DEF WorkerFail
<1>9. CASE Restart
  BY <1>9, GoneMaps DEF Restart
<1> QED BY <1>1, <1>2, <1>3, <1>4, <1>5, <1>6, <1>7, <1>8, <1>9 DEF Next, LoopStep

\* Followees are known before edges to them are stored, in every reachable state.
THEOREM FolloweesAreKnown == Spec => []FolloweesKnown
<1>1. Init => FolloweesKnown
  BY FolloweesInit DEF Init
<1>2. IndInv /\ FolloweesKnown /\ [Next]_vars => FolloweesKnown'
  <2>1. ASSUME FolloweesKnown, UNCHANGED vars PROVE FolloweesKnown'
    BY <2>1, FolloweesStay DEF vars
  <2> QED BY <2>1, FolloweesKnownStep
<1> QED BY <1>1, <1>2, IndInvInvariant, PTL DEF Spec

\* The one-shot crawl is the abstract frontier: leases are exclusive and are taken
\* back only from the dead, and edges change only under their author's lease, in
\* one step, to a list of known followees, for any number of keys, workers, batches
\* and restarts.
THEOREM CrawlImplementsFrontier == Spec => ImplementsFrontier
<1>1. Init => Crawled!Init
  <2> SUFFICES ASSUME Init PROVE Crawled!Init
    OBVIOUS
  <2>1. row = [p \in Pubkeys |-> NoRow] /\ edges = [p \in Pubkeys |-> {}]
    BY DEF Init, WorkersInit
  <2>2. \A p \in Pubkeys : PhaseOf(row[p].status, p \in Held) = "unknown"
    BY <2>1 DEF NoRow, PhaseOf
  <2>3. Phases = [p \in Pubkeys |-> "unknown"]
    BY <2>2, PhaseRule
  <2> QED BY <2>1, <2>3 DEF Crawled!Init
<1>2. IndInv /\ FolloweesKnown /\ [Next]_vars => [Crawled!Next]_Crawled!fvars
  <2> SUFFICES ASSUME IndInv, FolloweesKnown, [Next]_vars
               PROVE  Crawled!Next \/ UNCHANGED Crawled!fvars
    BY DEF Crawled!fvars
  <2>1. CASE Next
    BY <2>1, StepMaps, SameFrontier
  <2>2. CASE UNCHANGED vars
    <3>1. Held' = Held
      BY <2>2 DEF vars, Held, Leased
    <3>2. Phases' = Phases
      BY <2>2, <3>1, SamePhases DEF vars
    <3> QED BY <2>2, <3>2 DEF vars, Crawled!fvars
  <2> QED BY <2>1, <2>2
<1> QED BY <1>1, <1>2, IndInvInvariant, FolloweesAreKnown, PTL
        DEF Spec, ImplementsFrontier, Crawled!Spec

-----------------------------------------------------------------------------
(* An empty claim with no worker left is the end *)

\* A claim that no lock hinders finds a row if there is one.
LEMMA ClaimFindsOpen ==
    ASSUME NEW rows \in [Pubkeys -> RowType], NEW limit \in Nat \ {0},
           claim_selection(rows, limit, {}) = {}
    PROVE  WithStatus(rows, {"discovered"}) = {}
<1> DEFINE open == WithStatus(rows, {"discovered"})
           ids == {rows[p].id : p \in open}
<1> SUFFICES ASSUME open # {} PROVE FALSE
  OBVIOUS
<1>1. open \subseteq Pubkeys
  BY DEF WithStatus
<1>2. ids \subseteq Nat /\ ids # {}
  BY <1>1 DEF RowType
<1>3. PICK m \in ids : \A n \in ids : ~(<<n, m>> \in OpToRel(<, Nat))
  BY <1>2, NatLessThanWellFounded, WFMin
<1>4. PICK p \in open : rows[p].id = m
  OBVIOUS
<1>5. \A q \in open : ~(rows[q].id < rows[p].id)
  BY <1>1, <1>2, <1>3, <1>4 DEF OpToRel
<1>6. {q \in open : rows[q].id < rows[p].id} = {}
  BY <1>5
<1>7. Cardinality({q \in open : rows[q].id < rows[p].id}) < limit
  <2>1. Cardinality({q \in open : rows[q].id < rows[p].id}) = 0
    BY <1>6, FS_EmptySet, Zenon
  <2>2. 0 < limit
    OBVIOUS
  <2> QED BY <2>1, <2>2, Zenon
<1>8. p \in claim_selection(rows, limit, {})
  BY <1>4, <1>7 DEF claim_selection
<1> QED BY <1>8

\* Authors that a failed task has abandoned and nobody has reclaimed.
Abandoned == UNION {task[w].todo : w \in {v \in Tasks : task[v].pc = "err"}}

\* Until the loop gives up, every task has its handle, and a leased row has a live
\* holder or a failed one that the loop has yet to join; when the loop is done no
\* row is open.
DrainInv ==
    /\ loop # "failed" => \A w \in Tasks : task[w].pc # "free" => w \in handles
    /\ loop \in {"seed", "reclaim"} => handles = {}
    /\ loop \in {"claim", "permit", "join", "done"} =>
          \A p \in Pubkeys :
             row[p].status = "in_progress" => p \in Held \cup Abandoned
    /\ loop = "done" => handles = {} /\ WithStatus(row, {"discovered"}) = {}

\* Each step of run_crawl keeps what makes an empty claim the end.
LEMMA DrainStep ==
    ASSUME IndInv, DrainInv, Next
    PROVE  DrainInv'
<1> USE DEF IndInv
<1>0. /\ task \in [Tasks -> TaskType] /\ row \in [Pubkeys -> RowType]
      /\ batch \in SUBSET Pubkeys /\ FreeTask.pc = "free"
  BY DEF TypeOK, WorkersTypeOK, FreeTask
<1>1. CASE Seed
  <2>1. loop' = "reclaim" /\ loop = "seed" /\ UNCHANGED <<task, handles>>
    BY <1>1 DEF Seed, SeedAnchor
  <2> QED BY <2>1 DEF DrainInv
<1>2. CASE Reclaim
  <2>1. loop' = "claim" /\ loop = "reclaim" /\ UNCHANGED <<task, handles>>
    BY <1>2 DEF Reclaim, ReclaimOnStartup
  <2>2. \A p \in Pubkeys : row'[p].status # "in_progress"
    BY <1>0, <1>2 DEF Reclaim, ReclaimOnStartup, reclaim_stale_on_startup, ResetRow, RowType
  <2> QED BY <2>1, <2>2 DEF DrainInv
<1>3. CASE Claim
  <2>1. /\ loop = "claim" /\ batch = {} /\ UNCHANGED <<task, handles>>
        /\ loop' = IF batch' # {} THEN "permit" ELSE IF handles = {} THEN "done" ELSE "join"
        /\ row' = claim_batch(row, batch', clock)
    BY <1>3 DEF Claim, TakeBatch, NothingHeldAtStartup
  <2>2. \A p \in Pubkeys : p \notin batch' => row'[p] = row[p]
    BY <2>1 DEF claim_batch
  <2>3. Held' = batch' \cup Held /\ Abandoned' = Abandoned
    BY <2>1 DEF Held, Leased, Abandoned
  <2>4. \A p \in Pubkeys :
           row'[p].status = "in_progress" => p \in Held' \cup Abandoned'
    BY <2>1, <2>2, <2>3 DEF DrainInv
  <2>5. ASSUME loop' = "done"
        PROVE  handles' = {} /\ WithStatus(row', {"discovered"}) = {}
    <3>1. batch' = {} /\ handles = {} /\ handles' = {}
      BY <2>1, <2>5
    <3>2. \A w \in Tasks : task[w].pc = "free"
      BY <2>1, <3>1 DEF DrainInv
    <3>3. MaybeLocked = {}
      <4>1. "free" # "upsert" /\ "free" # "commit"
        OBVIOUS
      <4> QED BY <3>2, <4>1, Zenon DEF MaybeLocked
    <3>4. claim_selection(row, BatchSize, {}) = {}
      BY <1>3, <3>1, <3>3 DEF Claim, TakeBatch
    <3>5. WithStatus(row, {"discovered"}) = {}
      BY <1>0, <3>4, ClaimFindsOpen, WorkerConstants
    <3> QED BY <2>2, <3>1, <3>5 DEF WithStatus
  <2>6. /\ loop' \in {"permit", "done", "join"}
        /\ \A w \in Tasks : task'[w].pc # "free" => w \in handles'
    BY <2>1 DEF DrainInv
  <2> QED BY <2>4, <2>5, <2>6 DEF DrainInv
<1>4. ASSUME NEW w \in Tasks, Spawn(w) PROVE DrainInv'
  <2>1. CASE \E h \in handles : task[h].pc = "err"
    BY <1>4, <2>1 DEF Spawn, DrainInv
  <2>2. CASE \A h \in handles : task[h].pc # "err"
    <3>1. /\ loop = "permit" /\ loop' = "claim" /\ row' = row
          /\ handles' = {h \in handles : task[h].pc \notin Finished} \cup {w}
          /\ task' = [v \in Tasks |->
                         IF v = w THEN SpawnedTask(batch, started)
                         ELSE IF task[v].pc \in Finished THEN FreeTask ELSE task[v]]
      BY <1>4, <2>2 DEF Spawn, SpawnBatch
    <3>2. \A v \in Tasks : task[v].pc # "free" => v \in handles
      BY <3>1 DEF DrainInv
    <3>3. \A v \in Tasks : task'[v].pc # "free" => v \in handles'
      BY <1>0, <3>1, <3>2
    <3>4. Abandoned = {}
      BY <2>2, <3>2 DEF Abandoned
    <3>5. Held' = Held
      BY <1>4, SpawnHolds DEF Spawn
    <3>6. \A p \in Pubkeys : row'[p].status = "in_progress" => p \in Held'
      BY <3>1, <3>4, <3>5 DEF DrainInv
    <3> QED BY <3>1, <3>3, <3>6 DEF DrainInv
  <2> QED BY <2>1, <2>2
<1>5. ASSUME NEW w \in Tasks, JoinNext(w) PROVE DrainInv'
  <2>1. CASE task[w].pc = "err"
    BY <1>5, <2>1 DEF JoinNext, DrainInv
  <2>2. CASE task[w].pc # "err"
    <3>1. /\ loop = "join" /\ loop' = "join" /\ UNCHANGED <<row, batch>>
          /\ handles' = handles \ {w} /\ task[w].pc = "ok"
          /\ task' = [task EXCEPT ![w] = FreeTask]
      BY <1>5, <2>2 DEF JoinNext, Joined, Finished
    <3>2. \A v \in Tasks : v # w => task'[v] = task[v]
      BY <1>0, <3>1
    <3>3. task'[w].pc = "free" /\ Leased(w) = {}
      BY <1>0, <3>1 DEF Leased, Running
    <3>4. Held \cup Abandoned \subseteq Held' \cup Abandoned'
      BY <3>1, <3>2, <3>3 DEF Held, Abandoned, Leased
    <3> QED BY <3>1, <3>2, <3>3, <3>4 DEF DrainInv
  <2> QED BY <2>1, <2>2
<1>6. CASE JoinedAll \/ CrawlTick \/ Returned
  <2>1. /\ UNCHANGED <<row, task, batch, handles>>
        /\ \/ loop' = loop
           \/ loop = "join" /\ loop' = "claim"
    BY <1>6 DEF JoinedAll, CrawlTick, Tick, crawlVars, Returned, vars
  <2>2. Held' = Held /\ Abandoned' = Abandoned
    BY <2>1 DEF Held, Leased, Abandoned
  <2> QED BY <2>1, <2>2 DEF DrainInv
<1>7. CASE LoopFail
  BY <1>7 DEF LoopFail, DrainInv
<1>8. ASSUME NEW w \in Tasks, WorkerStep(w) PROVE DrainInv'
  <2>1. /\ batch' = batch /\ loop' = loop /\ handles' = handles
        /\ task[w].pc \in Running /\ task'[w].pc \in Running \cup {"ok"}
        /\ \A v \in Tasks : v # w => task'[v] = task[v]
        /\ \A p \in Pubkeys : row'[p].status = "in_progress" =>
              /\ row[p].status = "in_progress"
              /\ p \in Leased(w) => p \in Leased(w)'
    BY <1>8, TaskStepKeeps DEF WorkerStep, crawlVars
  <2>2. task[w].pc \notin {"free", "err"} /\ task'[w].pc \notin {"free", "err"}
    BY <2>1 DEF Running
  <2>3. loop \notin {"seed", "reclaim"}
    BY <2>1 DEF NothingHeldAtStartup, RunningTasks
  <2>4. loop # "done"
    BY <2>2 DEF DrainInv
  <2>5. Abandoned' = Abandoned /\ \A v \in Tasks : v # w => Leased(v)' = Leased(v)
    BY <2>1, <2>2 DEF Abandoned, Leased
  <2>6. \A p \in Pubkeys : row'[p].status = "in_progress" /\ p \in Held => p \in Held'
    BY <2>1, <2>5 DEF Held
  <2> QED BY <2>1, <2>2, <2>3, <2>4, <2>5, <2>6 DEF DrainInv
<1>9. ASSUME NEW w \in Tasks, WorkerFail(w) PROVE DrainInv'
  <2>1. /\ UNCHANGED <<row, batch, loop, handles>> /\ task[w].pc \in Running
        /\ task'[w].pc = "err" /\ task'[w].todo = task[w].todo
        /\ \A v \in Tasks : v # w => task'[v] = task[v]
    BY <1>0, <1>9 DEF WorkerFail, TaskFail, crawlVars, TaskType
  <2>2. task[w].pc # "free" /\ task'[w].pc \notin Running
    BY <2>1 DEF Running
  <2>3. loop \notin {"seed", "reclaim"}
    BY <2>1 DEF NothingHeldAtStartup, RunningTasks
  <2>4. loop # "done"
    BY <2>2 DEF DrainInv
  <2>5. Held \cup Abandoned \subseteq Held' \cup Abandoned'
    BY <2>1, <2>2 DEF Held, Abandoned, Leased
  <2> QED BY <2>1, <2>2, <2>3, <2>4, <2>5 DEF DrainInv
<1>10. CASE Restart
  BY <1>0, <1>10 DEF Restart, ProcessGone, DrainInv
<1> QED BY <1>1, <1>2, <1>3, <1>4, <1>5, <1>6, <1>7, <1>8, <1>9, <1>10 DEF Next, LoopStep

\* CRAWL-01: when run_crawl returns Ok, every known key is resolved and every
\* followee of an applied list is a known key, with any number of workers, failures
\* and restarts on the way.
THEOREM OkMeansDrained == Spec => []DrainComplete
<1>1. Init => DrainInv
  BY DEF Init, WorkersInit, FreeTask, DrainInv
<1>2. IndInv /\ DrainInv /\ [Next]_vars => DrainInv'
  <2>1. ASSUME DrainInv, UNCHANGED vars PROVE DrainInv'
    <3>1. Held' = Held /\ Abandoned' = Abandoned
      BY <2>1 DEF vars, Held, Leased, Abandoned
    <3> QED BY <2>1, <3>1 DEF vars, DrainInv
  <2> QED BY <2>1, DrainStep
<1>3. IndInv /\ DrainInv /\ FolloweesKnown => DrainComplete
  <2> SUFFICES ASSUME IndInv, DrainInv, FolloweesKnown, loop = "done",
                      NEW p \in Present(row)
               PROVE  row[p].status \in Terminal /\ edges[p] \subseteq Present(row)
    BY DEF DrainComplete
  <2>1. p \in Pubkeys /\ row[p].status # "absent" /\ row[p].status \in Status \cup {"absent"}
    BY DEF Present, IndInv, TypeOK, WorkersTypeOK, RowType
  <2>2. handles = {} /\ batch = {} /\ \A w \in Tasks : task[w].pc = "free"
    BY DEF DrainInv, IndInv, NothingHeldAtStartup
  <2>3. Held = {} /\ Abandoned = {}
    BY <2>2 DEF Held, Leased, Abandoned, Running
  <2>4. row[p].status # "in_progress" /\ row[p].status # "discovered"
    BY <2>1, <2>3 DEF DrainInv, WithStatus
  <2> QED BY <2>1, <2>4 DEF Status, FolloweesKnown
<1> QED BY <1>1, <1>2, <1>3, IndInvInvariant, FolloweesAreKnown, PTL DEF Spec
=============================================================================
