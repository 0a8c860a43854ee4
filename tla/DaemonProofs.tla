----------------------------- MODULE DaemonProofs -----------------------------
(****************************************************************************)
(* The daemon for every set of keys, lists and tasks, every batch size,     *)
(* concurrency, TTL and reclaim age, any number of starts and any clock,    *)
(* under the assumption that the in-run reclaim rests on: a batch ends      *)
(* within reclaim_age of its claim (Punctual).                              *)
(*                                                                          *)
(* LeasesYoung carries that assumption from the clock to the sweep, which   *)
(* then resets orphans only; everything else rests on the same lemmas about *)
(* the workers as the proofs about run_crawl.                               *)
(*                                                                          *)
(* The process around the loop comes last.  What it says of readiness and   *)
(* of bad configurations does without Punctual; and its own steps, before   *)
(* the loop runs and after it, keep what is proved of the loop alone.       *)
(*                                                                          *)
(* The last part drops Punctual and says what still holds when a batch is   *)
(* overrun by the sweep: no edge leads to an unknown key or is made up.     *)
(****************************************************************************)
EXTENDS Daemon, FrontierProofs

\* Outside of a running loop nothing is held, and a claimed batch exists only while
\* it waits for a permit.
NothingHeldOutside ==
    /\ loop \in {"off", "seed", "reclaim"} => RunningTasks = {}
    /\ loop # "permit" => batch = {}

\* No lease that is still held is old enough for the in-run sweep.
LeasesYoung ==
    \A p \in Held : ~OlderThan(row[p].claimed_at, ReclaimAge, clock)

\* The inductive invariant of the daemon's tables and leases.
DaemonInv == TypeOK /\ WorkersInv /\ NothingHeldOutside /\ LeasesYoung

\* The crawler's time is a whole number and lags by at most StampLag.
LEMMA StampNat ==
    ASSUME clock \in Nat, NEW stamp \in AppNow
    PROVE  stamp \in Nat /\ clock - StampLag <= stamp
BY DaemonConstants DEF AppNow, StampLag

\* The loop's own bookkeeping stays well typed.
LEMMA DaemonTypeStep ==
    ASSUME TypeOK, Next, WorkersTypeOK'
    PROVE  TypeOK'
<1> USE DEF TypeOK, LoopStates, Ended
<1>1. CASE Start \/ Signal \/ Exit \/ Crash
  <2>1. CASE Start
    BY <2>1 DEF Start
  <2>2. CASE Signal
    BY <2>2 DEF Signal
  <2>3. CASE Crash
    BY <2>3 DEF Crash, Off
  <2>4. CASE Exit
    <3>1. faulted' \in BOOLEAN
      BY <2>4, Zenon DEF Exit
    <3> QED BY <2>4, <3>1 DEF Exit, Off
  <2> QED BY <1>1, <2>1, <2>2, <2>3, <2>4
<1>2. CASE Seed \/ Reclaim \/ CheckToken \/ Claim
  BY <1>2 DEF Seed, Reclaim, CheckToken, Claim
<1>3. ASSUME NEW w \in Tasks, Spawn(w) PROVE TypeOK'
  BY <1>3 DEF Spawn
<1>4. ASSUME NEW w \in Tasks, JoinNext(w) PROVE TypeOK'
  BY <1>4 DEF JoinNext
<1>5. CASE Drained
  BY <1>5 DEF Drained
<1>6. CASE Wake \/ LoopFail
  BY <1>6 DEF Wake, LoopFail
<1>7. CASE StalenessTimer \/ InRunReclaimTimer
  BY <1>7 DEF StalenessTimer, InRunReclaimTimer, Fires
<1>8. ASSUME NEW w \in Tasks, WorkerStep(w) \/ WorkerFail(w) PROVE TypeOK'
  BY <1>8 DEF WorkerStep, WorkerFail, loopVars
<1>9. CASE DaemonTick \/ Rest
  BY <1>9 DEF DaemonTick, Rest, loopVars, vars
<1> QED BY <1>1, <1>2, <1>3, <1>4, <1>5, <1>6, <1>7, <1>8, <1>9 DEF Next, LoopStep

\* The TTL scan resets resolved rows only, which nobody holds.
LEMMA StalenessSelects ==
    ASSUME WorkersInv, StalenessTimer
    PROVE  \E S \in SUBSET Pubkeys :
              /\ S \cap Held = {}
              /\ \A p \in S : row[p].status \in Terminal
              /\ row' = [p \in Pubkeys |-> IF p \in S THEN ResetRow(row[p]) ELSE row[p]]
              /\ UNCHANGED <<edges, clock, task, batch>>
<1> DEFINE S == {p \in Pubkeys : /\ row[p].status \in Terminal
                                 /\ OlderThan(row[p].last_fetched_at, Ttl, clock)}
<1>1. row' = [p \in Pubkeys |-> IF p \in S THEN ResetRow(row[p]) ELSE row[p]]
  BY DEF StalenessTimer, reclaim_stale_by_ttl
<1>2. S \cap Held = {}
  BY DEF WorkersInv, LeaseExclusive, Terminal
<1>3. S \in SUBSET Pubkeys /\ \A p \in S : row[p].status \in Terminal
  OBVIOUS
<1> HIDE DEF S
<1> QED BY <1>1, <1>2, <1>3 DEF StalenessTimer

\* The in-run sweep resets orphans only: what is held is young.
LEMMA SweepSelects ==
    ASSUME WorkersInv, LeasesYoung, InRunReclaimTimer
    PROVE  \E S \in SUBSET Pubkeys :
              /\ S \cap Held = {}
              /\ \A p \in S : row[p].status = "in_progress"
              /\ row' = [p \in Pubkeys |-> IF p \in S THEN ResetRow(row[p]) ELSE row[p]]
              /\ UNCHANGED <<edges, clock, task, batch>>
<1> DEFINE S == {p \in Pubkeys : /\ row[p].status = "in_progress"
                                 /\ OlderThan(row[p].claimed_at, ReclaimAge, clock)}
<1>1. row' = [p \in Pubkeys |-> IF p \in S THEN ResetRow(row[p]) ELSE row[p]]
  BY DEF InRunReclaimTimer, reclaim_in_progress_older_than
<1>2. S \cap Held = {}
  BY DEF LeasesYoung
<1>3. S \in SUBSET Pubkeys /\ \A p \in S : row[p].status = "in_progress"
  OBVIOUS
<1> HIDE DEF S
<1> QED BY <1>1, <1>2, <1>3 DEF InRunReclaimTimer

\* The startup reclaim resets every leased row, while nothing is held.
LEMMA StartupSelects ==
    ASSUME NothingHeldOutside, Reclaim
    PROVE  \E S \in SUBSET Pubkeys :
              /\ Held = {} /\ S \cap Held = {}
              /\ \A p \in S : row[p].status = "in_progress"
              /\ \A p \in Pubkeys \ S : row[p].status # "in_progress"
              /\ row' = [p \in Pubkeys |-> IF p \in S THEN ResetRow(row[p]) ELSE row[p]]
              /\ UNCHANGED <<edges, clock, task, batch>>
<1> DEFINE S == {p \in Pubkeys : row[p].status = "in_progress"}
<1>1. row' = [p \in Pubkeys |-> IF p \in S THEN ResetRow(row[p]) ELSE row[p]]
  BY DEF Reclaim, ReclaimOnStartup, reclaim_stale_on_startup
<1>2. Held = {}
  BY DEF NothingHeldOutside, Reclaim, Held, RunningTasks, Leased
<1>3. /\ S \in SUBSET Pubkeys
      /\ \A p \in S : row[p].status = "in_progress"
      /\ \A p \in Pubkeys \ S : row[p].status # "in_progress"
  OBVIOUS
<1> HIDE DEF S
<1> QED BY <1>1, <1>2, <1>3 DEF Reclaim, ReclaimOnStartup

\* Every step of the daemon preserves the invariant of tables and leases.
LEMMA DaemonWorkersStep ==
    ASSUME DaemonInv, Next
    PROVE  WorkersInv'
<1> USE DEF DaemonInv
<1>0. clock \in Nat
  BY DEF TypeOK, WorkersTypeOK
<1>1. CASE Start \/ Signal \/ CheckToken \/ Drained \/ Wake \/ LoopFail \/ DaemonTick \/ Rest
  BY <1>0, <1>1, WorkersStutter DEF Start, Signal, CheckToken, Drained, Wake, LoopFail,
     DaemonTick, Tick, Rest, workerVars, vars
<1>2. CASE Exit \/ Crash
  BY <1>2, GoneInv DEF Exit, Crash, Off
<1>3. CASE Seed
  BY <1>3, SeedInv DEF Seed
<1>4. CASE Reclaim
  <2>1. Held = {}
    BY <1>4, StartupSelects
  <2> QED BY <1>4, <2>1, ReclaimInv DEF Reclaim
<1>5. CASE Claim
  BY <1>5, TakeBatchInv DEF Claim, NothingHeldOutside
<1>6. ASSUME NEW w \in Tasks, Spawn(w) PROVE WorkersInv'
  BY <1>0, <1>6, SpawnInv, StampNat DEF Spawn
<1>7. ASSUME NEW w \in Tasks, JoinNext(w) \/ WorkerFail(w) PROVE WorkersInv'
  BY <1>7, TaskEndInv DEF JoinNext, WorkerFail
<1>8. CASE StalenessTimer
  <2>1. PICK S \in SUBSET Pubkeys :
           /\ S \cap Held = {}
           /\ \A p \in S : row[p].status \in Terminal
           /\ row' = [p \in Pubkeys |-> IF p \in S THEN ResetRow(row[p]) ELSE row[p]]
           /\ UNCHANGED <<edges, clock, task, batch>>
    BY <1>8, StalenessSelects
  <2>2. \A p \in S : row[p].status # "absent"
    BY <2>1 DEF Terminal
  <2> QED BY <2>1, <2>2, ResetInv
<1>9. CASE InRunReclaimTimer
  <2>1. PICK S \in SUBSET Pubkeys :
           /\ S \cap Held = {}
           /\ \A p \in S : row[p].status = "in_progress"
           /\ row' = [p \in Pubkeys |-> IF p \in S THEN ResetRow(row[p]) ELSE row[p]]
           /\ UNCHANGED <<edges, clock, task, batch>>
    BY <1>9, SweepSelects
  <2>2. \A p \in S : row[p].status # "absent"
    BY <2>1
  <2> QED BY <2>1, <2>2, ResetInv
<1>10. ASSUME NEW w \in Tasks, WorkerStep(w) PROVE WorkersInv'
  BY <1>10, TaskStepInv DEF WorkerStep
<1> QED BY <1>1, <1>2, <1>3, <1>4, <1>5, <1>6, <1>7, <1>8, <1>9, <1>10 DEF Next, LoopStep

\* Nothing is held before the first claim of a process and after its end.
LEMMA OutsideStep ==
    ASSUME DaemonInv, Next
    PROVE  NothingHeldOutside'
<1> USE DEF DaemonInv, NothingHeldOutside
<1>1. CASE Start \/ Signal \/ CheckToken \/ Drained \/ Wake \/ LoopFail
           \/ DaemonTick \/ Rest \/ StalenessTimer \/ InRunReclaimTimer
  <2>1. /\ UNCHANGED <<task, batch>>
        /\ \/ loop' = loop
           \/ loop = "off" /\ loop' = "seed"
           \/ batch = {} /\ loop' \notin {"off", "seed", "reclaim"}
    BY <1>1 DEF Start, Signal, CheckToken, Drained, Wake, LoopFail, DaemonTick, Tick, Rest,
       StalenessTimer, InRunReclaimTimer, workerVars, loopVars, vars
  <2> QED BY <2>1 DEF RunningTasks
<1>2. CASE Exit \/ Crash
  BY <1>2, GoneInv DEF Exit, Crash, Off
<1>3. CASE Seed \/ Reclaim
  BY <1>3 DEF Seed, Reclaim, SeedAnchor, ReclaimOnStartup, RunningTasks
<1>4. CASE Claim
  BY <1>4 DEF Claim
<1>5. ASSUME NEW w \in Tasks, Spawn(w) PROVE NothingHeldOutside'
  BY <1>5 DEF Spawn, SpawnBatch
<1>6. ASSUME NEW w \in Tasks, JoinNext(w) PROVE NothingHeldOutside'
  BY <1>6 DEF JoinNext, Joined
<1>7. ASSUME NEW w \in Tasks, WorkerStep(w) \/ WorkerFail(w)
      PROVE  NothingHeldOutside'
  <2>1. task[w].pc \in Running /\ batch' = batch /\ loop' = loop
    BY <1>7, TaskStepKeeps DEF WorkerStep, WorkerFail, TaskFail, loopVars
  <2> QED BY <2>1 DEF RunningTasks
<1> QED BY <1>1, <1>2, <1>3, <1>4, <1>5, <1>6, <1>7 DEF Next, LoopStep

\* Where time stands still and held rows keep their rows, leases stay young.
LEMMA YoungStay ==
    ASSUME LeasesYoung, clock' = clock, Held' \subseteq Held,
           \A p \in Held' : row'[p] = row[p]
    PROVE  LeasesYoung'
BY DEF LeasesYoung

\* A lease is young when it is taken, and time passes only while all are.
LEMMA YoungStep ==
    ASSUME Punctual, DaemonInv, Next
    PROVE  LeasesYoung'
<1> USE DEF DaemonInv
<1>0. /\ clock \in Nat /\ row \in [Pubkeys -> RowType] /\ Held \subseteq Pubkeys
      /\ \A p \in Held : row[p].status = "in_progress"
  BY DEF WorkersInv, WorkersTypeOK, LeaseExclusive, Held, Leased, TaskType
<1>1. CASE Start \/ Signal \/ CheckToken \/ Drained \/ Wake \/ LoopFail \/ Rest
  <2>1. UNCHANGED <<row, clock, task, batch>>
    BY <1>1 DEF Start, Signal, CheckToken, Drained, Wake, LoopFail, Rest, workerVars, vars
  <2>2. Held' = Held
    BY <2>1 DEF Held, Leased
  <2> QED BY <2>1, <2>2, YoungStay
<1>2. CASE DaemonTick
  <2>1. UNCHANGED <<row, task, batch>> /\ clock' = clock + 1
    BY <1>2 DEF DaemonTick, Tick
  <2>2. Held' = Held
    BY <2>1 DEF Held, Leased
  <2> QED BY <1>2, <2>1, <2>2 DEF DaemonTick, LeasesYoung
<1>3. CASE Exit \/ Crash
  <2>1. Held' = {}
    BY <1>3 DEF Exit, Crash, Off, ProcessGone, Held, Leased, FreeTask, Running
  <2> QED BY <2>1 DEF LeasesYoung
<1>4. CASE Seed
  <2>1. Held' = Held /\ row' = upsert_pubkey(row, Anchor) /\ clock' = clock
    BY <1>4 DEF Seed, SeedAnchor, Held, Leased
  <2>2. \A p \in Held' : row'[p] = row[p]
    BY <1>0, <2>1, UpsertEffect, WorkerConstants
  <2> QED BY <2>1, <2>2, YoungStay
<1>5. CASE Reclaim \/ StalenessTimer \/ InRunReclaimTimer
  <2>1. PICK S \in SUBSET Pubkeys :
           /\ S \cap Held = {}
           /\ row' = [p \in Pubkeys |-> IF p \in S THEN ResetRow(row[p]) ELSE row[p]]
           /\ UNCHANGED <<edges, clock, task, batch>>
    BY <1>5, StartupSelects, StalenessSelects, SweepSelects
  <2>2. Held' = Held
    BY <2>1 DEF Held, Leased
  <2>3. \A p \in Held' : row'[p] = row[p]
    BY <1>0, <2>1, <2>2
  <2> QED BY <2>1, <2>2, <2>3, YoungStay
<1>6. CASE Claim
  <2>1. /\ batch' \subseteq Pubkeys /\ batch = {}
        /\ row' = claim_batch(row, batch', clock)
        /\ UNCHANGED <<clock, task>>
    BY <1>6 DEF Claim, TakeBatch, claim_selection, WithStatus, NothingHeldOutside
  <2>2. Held' = batch' \cup Held
    BY <2>1 DEF Held, Leased
  <2>3. \A p \in batch' : row'[p].claimed_at = clock
    BY <1>0, <2>1 DEF claim_batch, RowType
  <2>4. \A p \in Held' \ batch' : p \in Held /\ row'[p] = row[p]
    BY <1>0, <2>1, <2>2 DEF claim_batch
  <2>5. ~OlderThan(clock, ReclaimAge, clock)
    BY <1>0, DaemonConstants DEF OlderThan
  <2>6. clock' = clock
    BY <2>1
  <2> QED BY <2>3, <2>4, <2>5, <2>6 DEF LeasesYoung
<1>7. ASSUME NEW w \in Tasks, Spawn(w) PROVE LeasesYoung'
  <2>1. Held' = Held
    BY <1>7, SpawnHolds DEF Spawn
  <2> QED BY <1>7, <2>1, YoungStay DEF Spawn, SpawnBatch
<1>8. ASSUME NEW w \in Tasks, JoinNext(w) \/ WorkerFail(w) PROVE LeasesYoung'
  <2>1. /\ UNCHANGED <<row, clock, batch>> /\ task'[w].pc \notin Running
        /\ \A v \in Tasks : v # w => task'[v] = task[v]
    BY <1>8 DEF JoinNext, Joined, WorkerFail, TaskFail, FreeTask, Running, WorkersInv,
                WorkersTypeOK, TaskType
  <2>2. Held' \subseteq Held
    BY <2>1 DEF Held, Leased
  <2> QED BY <2>1, <2>2, YoungStay
<1>9. ASSUME NEW w \in Tasks, WorkerStep(w) PROVE LeasesYoung'
  <2>1. clock' = clock
    BY <1>9 DEF WorkerStep, TaskStep, FetchOk, FetchErr, Requeue, NotFound, Recover,
                BeginApply, UpsertFollowee, CheckApplied, Confirm, ReadEdges, Commit, Finish
  <2> QED BY <1>9, <2>1, TaskStepKeeps, YoungStay DEF WorkerStep
<1> QED BY <1>1, <1>2, <1>3, <1>4, <1>5, <1>6, <1>7, <1>8, <1>9 DEF Next, LoopStep

\* The invariant holds before the first start.
LEMMA DaemonInitInv ==
    ASSUME Init
    PROVE  DaemonInv
<1>1. WorkersInv
  BY WorkersInitInv DEF Init
<1>2. TypeOK
  BY <1>1 DEF WorkersInv, TypeOK, Init, LoopStates
<1>3. NothingHeldOutside
  BY DEF Init, WorkersInit, FreeTask, NothingHeldOutside, RunningTasks, Running
<1>4. LeasesYoung
  BY DEF Init, WorkersInit, FreeTask, LeasesYoung, Held, Leased, Running
<1> QED BY <1>1, <1>2, <1>3, <1>4 DEF DaemonInv

\* And every step, or none, preserves it.
LEMMA DaemonInvStep ==
    ASSUME Punctual, DaemonInv, [Next]_vars
    PROVE  DaemonInv'
<1>1. CASE Next
  <2>1. WorkersInv'
    BY <1>1, DaemonWorkersStep
  <2>2. TypeOK'
    BY <1>1, <2>1, DaemonTypeStep DEF DaemonInv, WorkersInv
  <2> QED BY <1>1, <2>1, <2>2, OutsideStep, YoungStep DEF DaemonInv
<1>2. CASE UNCHANGED vars
  <2>1. WorkersInv'
    BY <1>2, WorkersStutter DEF DaemonInv, TypeOK, WorkersTypeOK, vars
  <2>2. TypeOK'
    BY <1>2, <2>1 DEF DaemonInv, TypeOK, WorkersInv, vars
  <2>3. NothingHeldOutside'
    BY <1>2 DEF DaemonInv, NothingHeldOutside, RunningTasks, vars
  <2>4. Held' = Held
    BY <1>2 DEF vars, Held, Leased
  <2>5. LeasesYoung'
    BY <1>2, <2>4, YoungStay DEF DaemonInv, vars
  <2> QED BY <2>1, <2>2, <2>3, <2>5 DEF DaemonInv
<1> QED BY <1>1, <1>2

\* While batches are punctual, DaemonInv is an invariant of the daemon.
THEOREM DaemonInvInvariant ==
    ASSUME Punctual
    PROVE  Spec => []DaemonInv
<1>1. Init => DaemonInv
  BY DaemonInitInv
<1>2. DaemonInv /\ [Next]_vars => DaemonInv'
  BY DaemonInvStep
<1> QED BY <1>1, <1>2, PTL DEF Spec

\* Type correctness of the daemon.
THEOREM DaemonTypeCorrect ==
    ASSUME Punctual
    PROVE  Spec => []TypeOK
<1>1. DaemonInv => TypeOK
  BY DEF DaemonInv
<1> QED BY <1>1, DaemonInvInvariant, PTL

\* Two workers never hold the same author and no sweep, restart or shutdown takes a
\* live lease away.
THEOREM DaemonLeasesAreExclusive ==
    ASSUME Punctual
    PROVE  Spec => []LeaseExclusive
<1>1. DaemonInv => LeaseExclusive
  BY DEF DaemonInv, WorkersInv
<1> QED BY <1>1, DaemonInvInvariant, PTL

\* The stored edges are those of the applied list, refresh after refresh.
THEOREM DaemonEdgesAreTheAppliedList ==
    ASSUME Punctual
    PROVE  Spec => []EdgesMirrorApplied
<1>1. DaemonInv => EdgesMirrorApplied
  BY DEF DaemonInv, WorkersInv
<1> QED BY <1>1, DaemonInvInvariant, PTL

-----------------------------------------------------------------------------
(* The daemon implements the abstract frontier *)

\* The steps of the instance that never refreshes are steps of the one that does.
LEMMA RefreshingFrontier ==
    /\ Abstract!Next => Refreshed!Next
    /\ UNCHANGED Abstract!fvars => UNCHANGED Refreshed!fvars
BY DEF Abstract!Next, Refreshed!Next, Abstract!fvars, Refreshed!fvars,
       Abstract!Discover, Refreshed!Discover, Abstract!Lease, Refreshed!Lease,
       Abstract!Release, Refreshed!Release, Abstract!Settle, Refreshed!Settle,
       Abstract!Publish, Refreshed!Publish, Abstract!Abandon, Refreshed!Abandon,
       Abstract!Reclaim, Refreshed!Reclaim, Abstract!Expire, Refreshed!Expire,
       Abstract!Move, Refreshed!Move, Abstract!In, Refreshed!In,
       Abstract!Known, Refreshed!Known

\* The TTL scan expires resolved keys.
LEMMA StalenessMaps ==
    ASSUME WorkersInv, StalenessTimer
    PROVE  Refreshed!Next
<1>1. PICK S \in SUBSET Pubkeys :
         /\ S \cap Held = {}
         /\ \A p \in S : row[p].status \in Terminal
         /\ row' = [p \in Pubkeys |-> IF p \in S THEN ResetRow(row[p]) ELSE row[p]]
         /\ UNCHANGED <<edges, clock, task, batch>>
  BY StalenessSelects
<1>2. Held' = Held
  BY <1>1 DEF Held, Leased
<1>3. \A p \in S : row'[p].status = "discovered"
  BY <1>1 DEF ResetRow, WorkersInv, WorkersTypeOK, RowType
<1>4. \A p \in S : PhaseOf(row'[p].status, p \in Held') = "open"
  BY <1>3 DEF PhaseOf
<1>5. \A p \in Pubkeys \ S : row'[p].status = row[p].status /\ (p \in Held' <=> p \in Held)
  BY <1>1, <1>2
<1>6. Abstract!Move(S, "open")
  BY <1>4, <1>5, Moves
<1>7. Refreshed!Move(S, "open")
  BY <1>6 DEF Abstract!Move, Refreshed!Move
<1>8. S \subseteq Refreshed!In("done")
  BY <1>1, PhaseFacts DEF Refreshed!In
<1> QED BY <1>1, <1>7, <1>8 DEF Refreshed!Expire, Refreshed!Next

\* Every step of the daemon keeps FolloweesKnown.
LEMMA DaemonFolloweesStep ==
    ASSUME DaemonInv, FolloweesKnown, Next
    PROVE  FolloweesKnown'
<1> USE DEF DaemonInv
<1>0. clock \in Nat
  BY DEF TypeOK, WorkersTypeOK
<1>10. WorkersTypeOK /\ \A w \in Tasks : OwnWork(task[w])
  BY WorkersOwn
<1>1. CASE Start \/ Signal \/ CheckToken \/ Drained \/ Wake \/ LoopFail \/ DaemonTick \/ Rest
  BY <1>1, <1>10, LoopFollowees DEF Start, Signal, CheckToken, Drained, Wake, LoopFail,
     DaemonTick, Tick, Rest, workerVars, vars
<1>2. CASE Exit \/ Crash
  BY <1>2, <1>10, LoopFollowees DEF Exit, Crash, Off
<1>3. CASE Seed
  BY <1>3, <1>10, LoopFollowees DEF Seed
<1>4. CASE Reclaim \/ StalenessTimer \/ InRunReclaimTimer
  <2>1. PICK S \in SUBSET Pubkeys :
           /\ row' = [p \in Pubkeys |-> IF p \in S THEN ResetRow(row[p]) ELSE row[p]]
           /\ UNCHANGED <<edges, clock, task, batch>>
    BY <1>4, StartupSelects, StalenessSelects, SweepSelects
  <2> QED BY <2>1, <1>10, ResetFollowees
<1>5. CASE Claim
  BY <1>5, <1>10, LoopFollowees DEF Claim
<1>6. ASSUME NEW w \in Tasks, Spawn(w) PROVE FolloweesKnown'
  BY <1>0, <1>6, <1>10, LoopFollowees, StampNat DEF Spawn
<1>7. ASSUME NEW w \in Tasks, JoinNext(w) \/ WorkerFail(w) PROVE FolloweesKnown'
  BY <1>7, <1>10, LoopFollowees DEF JoinNext, WorkerFail
<1>8. ASSUME NEW w \in Tasks, WorkerStep(w) PROVE FolloweesKnown'
  BY <1>8, <1>10, TaskStepFollowees DEF WorkerStep
<1> QED BY <1>1, <1>2, <1>3, <1>4, <1>5, <1>6, <1>7, <1>8 DEF Next, LoopStep

\* Every step of the daemon is a step of the Frontier or invisible to it.
LEMMA DaemonStepMaps ==
    ASSUME DaemonInv, FolloweesKnown, Next
    PROVE  Refreshed!Next \/ UNCHANGED Refreshed!fvars
<1> USE DEF DaemonInv
<1>1. CASE Start \/ Signal \/ CheckToken \/ Drained \/ Wake \/ LoopFail \/ DaemonTick \/ Rest
  <2>1. UNCHANGED <<row, edges, task, batch>>
    BY <1>1 DEF Start, Signal, CheckToken, Drained, Wake, LoopFail, DaemonTick, Tick, Rest,
       workerVars, vars
  <2>2. Held' = Held
    BY <2>1 DEF Held, Leased
  <2> QED BY <2>1, <2>2, SamePhases DEF Refreshed!fvars
<1>2. CASE Exit \/ Crash
  BY <1>2, GoneMaps, RefreshingFrontier DEF Exit, Crash, Off
<1>3. CASE Seed
  BY <1>3, SeedMaps, RefreshingFrontier DEF Seed
<1>4. CASE Reclaim \/ InRunReclaimTimer
  <2>1. PICK S \in SUBSET Pubkeys :
           /\ S \cap Held = {}
           /\ \A p \in S : row[p].status = "in_progress"
           /\ row' = [p \in Pubkeys |-> IF p \in S THEN ResetRow(row[p]) ELSE row[p]]
           /\ UNCHANGED <<edges, clock, task, batch>>
    BY <1>4, StartupSelects, SweepSelects
  <2> QED BY <2>1, ResetMaps, RefreshingFrontier
<1>5. CASE StalenessTimer
  BY <1>5, StalenessMaps
<1>6. CASE Claim
  BY <1>6, TakeBatchMaps, RefreshingFrontier DEF Claim, NothingHeldOutside
<1>7. ASSUME NEW w \in Tasks, Spawn(w) PROVE UNCHANGED Refreshed!fvars
  BY <1>7, SpawnMaps, RefreshingFrontier DEF Spawn
<1>8. ASSUME NEW w \in Tasks, JoinNext(w) PROVE UNCHANGED Refreshed!fvars
  BY <1>8, JoinMaps, RefreshingFrontier DEF JoinNext
<1>9. ASSUME NEW w \in Tasks, WorkerFail(w) PROVE Refreshed!Next
  BY <1>9, TaskFailMaps, RefreshingFrontier DEF WorkerFail
<1>10. ASSUME NEW w \in Tasks, WorkerStep(w)
       PROVE  Refreshed!Next \/ UNCHANGED Refreshed!fvars
  BY <1>10, TaskStepMaps, RefreshingFrontier DEF WorkerStep
<1> QED BY <1>1, <1>2, <1>3, <1>4, <1>5, <1>6, <1>7, <1>8, <1>9, <1>10 DEF Next, LoopStep

\* The daemon starts as the abstract frontier does.
LEMMA FrontierStarts ==
    ASSUME Init
    PROVE  Refreshed!Init /\ FolloweesKnown
<1>1. row = [p \in Pubkeys |-> NoRow] /\ edges = [p \in Pubkeys |-> {}]
  BY DEF Init, WorkersInit
<1>2. \A p \in Pubkeys : PhaseOf(row[p].status, p \in Held) = "unknown"
  BY <1>1 DEF NoRow, PhaseOf
<1>3. Phases = [p \in Pubkeys |-> "unknown"]
  BY <1>2, PhaseRule
<1> QED BY <1>1, <1>3, FolloweesInit DEF Refreshed!Init, Init

\* And goes on as it does.
LEMMA FrontierSteps ==
    ASSUME DaemonInv, FolloweesKnown, [Next]_vars
    PROVE  FolloweesKnown' /\ [Refreshed!Next]_Refreshed!fvars
<1>1. CASE UNCHANGED vars
  <2>1. Held' = Held
    BY <1>1 DEF vars, Held, Leased
  <2>2. Phases' = Phases
    BY <1>1, <2>1, SamePhases DEF vars
  <2>3. FolloweesKnown'
    BY <1>1, FolloweesStay DEF vars
  <2> QED BY <1>1, <2>2, <2>3 DEF vars, Refreshed!fvars
<1>2. CASE Next
  <2>1. Refreshed!Next \/ UNCHANGED Refreshed!fvars
    BY <1>2, DaemonStepMaps
  <2> QED BY <1>2, <2>1, DaemonFolloweesStep DEF Refreshed!fvars
<1> QED BY <1>1, <1>2

\* While batches are punctual the daemon is the abstract frontier: its timers,
\* shutdowns and crashes take leases from the dead only, the TTL scan alone reopens
\* a resolved key, and edges change as one list of known followees.
THEOREM DaemonImplementsFrontier ==
    ASSUME Punctual
    PROVE  Spec => ImplementsFrontier
<1>1. Init => Refreshed!Init /\ FolloweesKnown
  BY FrontierStarts
<1>2. DaemonInv /\ FolloweesKnown /\ [Next]_vars
         => FolloweesKnown' /\ [Refreshed!Next]_Refreshed!fvars
  BY FrontierSteps
<1> QED BY <1>1, <1>2, DaemonInvInvariant, PTL
        DEF Spec, ImplementsFrontier, Refreshed!Spec

-----------------------------------------------------------------------------
(* Shutdown leaves no orphan *)

\* Until the loop gives up it has the handle of every task, none is left outside of
\* it, and without a failure no task ends in an error and every leased row is held.
HandlesInv ==
    /\ loop # "failed" => \A w \in Tasks : task[w].pc # "free" => w \in handles
    /\ loop \in {"off", "seed", "reclaim", "stopped"} => handles = {}
    /\ ~faulted =>
          /\ \A w \in Tasks : task[w].pc # "err"
          /\ \A p \in Pubkeys : row[p].status = "in_progress" => p \in Held

\* Every step of the daemon keeps track of its tasks and leases.
LEMMA HandlesStep ==
    ASSUME DaemonInv, HandlesInv, Next
    PROVE  HandlesInv'
<1> USE DEF DaemonInv
<1>0. /\ task \in [Tasks -> TaskType] /\ row \in [Pubkeys -> RowType]
      /\ FreeTask.pc = "free" /\ Held \subseteq Pubkeys
  BY DEF TypeOK, WorkersTypeOK, FreeTask, Held, Leased, TaskType
<1>1. CASE Start \/ Signal \/ CheckToken \/ Drained \/ Wake \/ DaemonTick \/ Rest
  <2>1. UNCHANGED <<row, task, batch, handles, faulted>>
    BY <1>1 DEF Start, Signal, CheckToken, Drained, Wake, DaemonTick, Tick, Rest,
       workerVars, loopVars, vars
  <2>2. \/ loop' = loop
        \/ loop = "off" /\ loop' = "seed"
        \/ handles = {} /\ loop' \in {"idle", "stopped", "failed"} /\ loop # "failed"
        \/ loop' \in {"claim", "final", "check"} /\ loop # "failed"
    BY <1>1 DEF Start, Signal, CheckToken, Drained, Wake, DaemonTick, Rest, loopVars, vars
  <2>3. Held' = Held
    BY <2>1 DEF Held, Leased
  <2> QED BY <2>1, <2>2, <2>3 DEF HandlesInv
<1>2. CASE Crash
  BY <1>0, <1>2 DEF Crash, Off, ProcessGone, HandlesInv
<1>3. CASE Exit
  <2>1. /\ loop' = "off" /\ handles' = {} /\ row' = row
        /\ \A w \in Tasks : task'[w].pc = "free"
    BY <1>0, <1>3 DEF Exit, Off, ProcessGone
  <2>2. ASSUME ~faulted'
        PROVE  \A p \in Pubkeys : row'[p].status # "in_progress"
    <3>1. ~faulted /\ loop = "stopped"
      BY <1>3, <2>2, Zenon DEF Exit
    <3>2. batch = {} /\ \A w \in Tasks : task[w].pc = "free"
      BY <3>1 DEF HandlesInv, NothingHeldOutside
    <3>3. Held = {}
      BY <3>2 DEF Held, Leased, Running
    <3> QED BY <2>1, <3>1, <3>3 DEF HandlesInv
  <2> QED BY <2>1, <2>2 DEF HandlesInv
<1>4. CASE Seed
  <2>1. /\ loop = "seed" /\ loop' = "reclaim" /\ UNCHANGED <<task, batch, handles, faulted>>
        /\ row' = upsert_pubkey(row, Anchor)
    BY <1>4 DEF Seed, SeedAnchor
  <2>2. \A p \in Pubkeys : row'[p].status = "in_progress" => row[p].status = "in_progress"
    BY <1>0, <2>1, UpsertEffect, WorkerConstants
  <2>3. Held' = Held
    BY <2>1 DEF Held, Leased
  <2> QED BY <2>1, <2>2, <2>3 DEF HandlesInv
<1>5. CASE Reclaim
  <2>1. PICK S \in SUBSET Pubkeys :
           /\ \A p \in Pubkeys \ S : row[p].status # "in_progress"
           /\ row' = [p \in Pubkeys |-> IF p \in S THEN ResetRow(row[p]) ELSE row[p]]
           /\ UNCHANGED <<edges, clock, task, batch>>
    BY <1>5, StartupSelects
  <2>2. \A p \in Pubkeys : row'[p].status # "in_progress"
    BY <1>0, <2>1 DEF ResetRow, RowType
  <2>3. loop = "reclaim" /\ loop' = "check" /\ handles' = handles
    BY <1>5 DEF Reclaim
  <2>4. \A w \in Tasks : task[w].pc = "free"
    BY <2>3 DEF HandlesInv
  <2> QED BY <2>1, <2>2, <2>3, <2>4 DEF HandlesInv
<1>6. CASE StalenessTimer \/ InRunReclaimTimer
  <2>1. PICK S \in SUBSET Pubkeys :
           /\ row' = [p \in Pubkeys |-> IF p \in S THEN ResetRow(row[p]) ELSE row[p]]
           /\ UNCHANGED <<edges, clock, task, batch>>
    BY <1>6, StalenessSelects, SweepSelects
  <2>2. \A p \in Pubkeys : row'[p].status = "in_progress" => row[p].status = "in_progress"
    BY <1>0, <2>1 DEF ResetRow, RowType
  <2>3. UNCHANGED <<loop, handles, faulted>>
    BY <1>6 DEF StalenessTimer, InRunReclaimTimer
  <2>4. Held' = Held
    BY <2>1 DEF Held, Leased
  <2> QED BY <2>1, <2>2, <2>3, <2>4 DEF HandlesInv
<1>7. CASE Claim
  <2>1. /\ loop = "claim" /\ loop' \in {"permit", "drain"}
        /\ UNCHANGED <<task, handles, faulted>> /\ batch = {}
        /\ row' = claim_batch(row, batch', clock)
    BY <1>7 DEF Claim, TakeBatch, NothingHeldOutside
  <2>2. Held' = batch' \cup Held
    BY <2>1 DEF Held, Leased
  <2>3. \A p \in Pubkeys : p \notin batch' => row'[p] = row[p]
    BY <2>1 DEF claim_batch
  <2> QED BY <2>1, <2>2, <2>3 DEF HandlesInv
<1>8. ASSUME NEW w \in Tasks, Spawn(w) PROVE HandlesInv'
  <2>0. PICK stamp \in AppNow : SpawnBatch(w, stamp)
    BY <1>8 DEF Spawn
  <2>1. /\ loop = "permit" /\ UNCHANGED <<row, faulted>>
        /\ task' = [v \in Tasks |->
                      IF v = w THEN SpawnedTask(batch, stamp)
                      ELSE IF task[v].pc \in Finished THEN FreeTask ELSE task[v]]
        /\ \/ loop' = "failed"
           \/ /\ loop' = "check"
              /\ handles' = {h \in handles : task[h].pc \notin Finished} \cup {w}
    BY <1>8, <2>0 DEF Spawn, SpawnBatch
  <2>2. Held' = Held
    BY <2>0, SpawnHolds DEF DaemonInv
  <2>3. SpawnedTask(batch, stamp).pc = "fetch"
    BY DEF SpawnedTask, FreeTask
  <2>4. \A v \in Tasks : task'[v].pc = "err" => task[v].pc = "err"
    BY <1>0, <2>1, <2>3
  <2>5. loop' = "check" => \A v \in Tasks : task'[v].pc # "free" => v \in handles'
    BY <1>0, <2>1 DEF HandlesInv
  <2> QED BY <2>1, <2>2, <2>4, <2>5 DEF HandlesInv
<1>9. ASSUME NEW w \in Tasks, JoinNext(w) PROVE HandlesInv'
  <2>1. /\ loop \in {"drain", "final"} /\ UNCHANGED <<row, batch, loop, faulted>>
        /\ handles' = handles \ {w} /\ task[w].pc \in Finished
        /\ task'[w].pc = "free" /\ \A v \in Tasks : v # w => task'[v] = task[v]
    BY <1>0, <1>9 DEF JoinNext, Joined
  <2>2. Leased(w) = {} /\ Leased(w)' = {}
    BY <2>1 DEF Leased, Running, Finished
  <2>3. Held' = Held
    BY <2>1, <2>2 DEF Held, Leased
  <2> QED BY <2>1, <2>3 DEF HandlesInv
<1>10. CASE LoopFail
  BY <1>10 DEF LoopFail, HandlesInv
<1>11. ASSUME NEW w \in Tasks, WorkerFail(w) PROVE HandlesInv'
  <2>1. /\ UNCHANGED <<loop, handles>> /\ faulted' /\ task[w].pc \in Running
        /\ \A v \in Tasks : v # w => task'[v] = task[v]
    BY <1>0, <1>11 DEF WorkerFail, TaskFail
  <2> QED BY <2>1 DEF HandlesInv, Running
<1>12. ASSUME NEW w \in Tasks, WorkerStep(w) PROVE HandlesInv'
  <2>1. /\ UNCHANGED <<batch, loop, handles, faulted>>
        /\ task[w].pc \in Running /\ task'[w].pc \in Running \cup {"ok"}
        /\ \A v \in Tasks : v # w => task'[v] = task[v]
        /\ \A p \in Pubkeys : row'[p].status = "in_progress" =>
              /\ row[p].status = "in_progress"
              /\ p \in Leased(w) => p \in Leased(w)'
    BY <1>12, TaskStepKeeps DEF WorkerStep, loopVars
  <2>2. task[w].pc # "free" /\ task'[w].pc # "err"
    BY <2>1 DEF Running
  <2>3. \A v \in Tasks : v # w => Leased(v)' = Leased(v)
    BY <2>1 DEF Leased
  <2>4. \A p \in Pubkeys : row'[p].status = "in_progress" /\ p \in Held => p \in Held'
    BY <2>1, <2>3 DEF Held
  <2> QED BY <2>1, <2>2, <2>4 DEF HandlesInv
<1> QED BY <1>1, <1>2, <1>3, <1>4, <1>5, <1>6, <1>7, <1>8, <1>9, <1>10, <1>11, <1>12
        DEF Next, LoopStep

\* A step that changes nothing keeps track of them too.
LEMMA HandlesStay ==
    ASSUME HandlesInv, UNCHANGED vars
    PROVE  HandlesInv'
<1>1. Held' = Held
  BY DEF vars, Held, Leased
<1> QED BY <1>1 DEF vars, HandlesInv

\* Nothing is held where the process is off or the loop has stopped.
LEMMA HandlesAreClean ==
    ASSUME DaemonInv, HandlesInv
    PROVE  CleanShutdown
<1> SUFFICES ASSUME loop \in {"stopped", "off"}, ~faulted
             PROVE  WithStatus(row, {"in_progress"}) = {}
  BY DEF CleanShutdown
<1>1. batch = {} /\ \A w \in Tasks : task[w].pc = "free"
  BY DEF HandlesInv, DaemonInv, NothingHeldOutside
<1>2. Held = {}
  BY <1>1 DEF Held, Leased, Running
<1> QED BY <1>2 DEF HandlesInv, WithStatus

\* OPS-02: a shutdown without a failure since the last startup reclaim leaves no
\* orphaned lease behind, whatever the timers do during the drain.
THEOREM ShutdownIsClean ==
    ASSUME Punctual
    PROVE  Spec => []CleanShutdown
<1>1. Init => HandlesInv
  BY DEF Init, WorkersInit, FreeTask, NoRow, HandlesInv
<1>2. DaemonInv /\ HandlesInv /\ [Next]_vars => HandlesInv'
  BY HandlesStep, HandlesStay
<1>3. DaemonInv /\ HandlesInv => CleanShutdown
  BY HandlesAreClean
<1> QED BY <1>1, <1>2, <1>3, DaemonInvInvariant, PTL DEF Spec

-----------------------------------------------------------------------------
(* The age of knowledge *)

\* A row that may be claimed, or is, was asked more than a ttl ago, and a row that a
\* task holds is no fresher than that task's stamp.
StampsOrdered ==
    /\ \A p \in Pubkeys :
          row[p].status \notin Terminal /\ row[p].last_fetched_at # Null =>
              row[p].last_fetched_at + Ttl < clock
    /\ \A w \in Tasks : task[w].pc \in Running =>
          \A p \in task[w].todo :
              row[p].last_fetched_at # Null => row[p].last_fetched_at <= task[w].stamp

\* That is so where the stamps lag by no more than a ttl.
AgesOrdered == StampLag <= Ttl => StampsOrdered

\* A row's knowledge does not age backwards in this step.
Rises(p) ==
    row[p].last_fetched_at # Null =>
        /\ row'[p].last_fetched_at # Null
        /\ row'[p].last_fetched_at >= row[p].last_fetched_at

\* Where no row's stamp changes, time does not run back, only aged rows are opened, and
\* a task either keeps its authors and stamp or is stamped after them, nothing goes
\* wrong.
LEMMA StampsStay ==
    ASSUME DaemonInv, StampsOrdered, clock' \in Nat, clock' >= clock,
           \A p \in Pubkeys :
              /\ row'[p].last_fetched_at = row[p].last_fetched_at
              /\ \/ row'[p].status \in Terminal
                 \/ row[p].status \notin Terminal
                 \/ row[p].last_fetched_at + Ttl < clock,
           \A v \in Tasks : task'[v].pc \in Running =>
              /\ task'[v].todo \subseteq Pubkeys
              /\ \/ /\ task[v].pc \in Running
                    /\ task'[v].todo = task[v].todo /\ task'[v].stamp = task[v].stamp
                 \/ \A p \in task'[v].todo : row[p].last_fetched_at # Null =>
                       row[p].last_fetched_at <= task'[v].stamp
    PROVE  StampsOrdered' /\ \A p \in Pubkeys : Rises(p)
<1>0. /\ clock \in Nat /\ Null \notin Nat /\ Ttl \in Nat
      /\ \A p \in Pubkeys : row[p].last_fetched_at \in Nat \cup {Null}
  BY NullDistinct, DaemonConstants
     DEF DaemonInv, WorkersInv, WorkersTypeOK, RowType, Time
<1>1. ASSUME NEW p \in Pubkeys, row'[p].status \notin Terminal,
             row'[p].last_fetched_at # Null
      PROVE  row'[p].last_fetched_at + Ttl < clock'
  <2>1. row[p].last_fetched_at + Ttl < clock
    BY <1>1 DEF StampsOrdered
  <2> QED BY <1>0, <1>1, <2>1
<1>2. ASSUME NEW v \in Tasks, task'[v].pc \in Running, NEW p \in task'[v].todo,
             row'[p].last_fetched_at # Null
      PROVE  row'[p].last_fetched_at <= task'[v].stamp
  BY <1>2 DEF StampsOrdered
<1>3. \A p \in Pubkeys : Rises(p)
  BY <1>0 DEF Rises
<1> QED BY <1>1, <1>2, <1>3 DEF StampsOrdered

\* Inserting a key stamps nothing and opens a row that was never asked.
LEMMA InsertsStampNothing ==
    ASSUME WorkersInv, NEW k \in Pubkeys, row' = upsert_pubkey(row, k), NEW p \in Pubkeys
    PROVE  /\ row'[p].last_fetched_at = row[p].last_fetched_at
           /\ row'[p].status \in Terminal \/ row[p].status \notin Terminal
<1>1. row[p].status = "absent" => row[p].last_fetched_at = Null
  BY DEF WorkersInv, AbsentIsBlank, NoRow
<1>2. row \in [Pubkeys -> RowType]
  BY DEF WorkersInv, WorkersTypeOK
<1> QED BY <1>1, <1>2, UpsertEffect DEF Terminal

\* A task stamps only rows it holds, and with a time no earlier than theirs.
LEMMA TaskStamps ==
    ASSUME DaemonInv, StampsOrdered, NEW w \in Tasks, TaskStep(w)
    PROVE  StampsOrdered' /\ \A p \in Pubkeys : Rises(p)
<1>0. /\ clock \in Nat /\ Null \notin Nat /\ Ttl \in Nat /\ WorkersInv
      /\ task[w] \in TaskType /\ task \in [Tasks -> TaskType]
      /\ row \in [Pubkeys -> RowType]
      /\ \A v \in Tasks : task[v].todo \subseteq Pubkeys
      /\ clock' = clock
  BY NullDistinct, DaemonConstants
     DEF DaemonInv, WorkersInv, WorkersTypeOK, TaskType, TaskStep, FetchOk,
     FetchErr, Requeue, NotFound, Recover, BeginApply, UpsertFollowee, CheckApplied,
     Confirm, ReadEdges, Commit, Finish
<1>1. CASE FetchOk(w) \/ FetchErr(w) \/ Recover(w) \/ CheckApplied(w)
           \/ ReadEdges(w) \/ Finish(w)
  <2>1. /\ row' = row /\ task[w].pc \in Running
        /\ \A v \in Tasks : v # w => task'[v] = task[v]
    BY <1>0, <1>1, QuietStep
  <2>2. task'[w].todo = task[w].todo /\ task'[w].stamp = task[w].stamp
    BY <1>0, <1>1 DEF FetchOk, FetchErr, Recover, CheckApplied, ReadEdges, Finish, TaskType
  <2> QED BY <1>0, <2>1, <2>2, StampsStay
<1>2. CASE BeginApply(w) \/ UpsertFollowee(w)
  <2>1. /\ task[w].pc \in Running
        /\ \A v \in Tasks : v # w => task'[v] = task[v]
    BY <1>0, <1>2, InsertStep
  <2>2. task'[w].todo = task[w].todo /\ task'[w].stamp = task[w].stamp
    <3>1. CASE BeginApply(w)
      <4>1. PICK c, ups :
               task' = [task EXCEPT ![w].pc = "upsert", ![w].cur = c, ![w].ups = ups]
        BY <3>1 DEF BeginApply
      <4> QED BY <1>0, <4>1 DEF TaskType
    <3>2. CASE UpsertFollowee(w)
      <4>1. PICK k \in task[w].ups : task' = [task EXCEPT ![w].ups = @ \ {k}]
        BY <3>2 DEF UpsertFollowee
      <4> QED BY <1>0, <4>1 DEF TaskType
    <3> QED BY <1>2, <3>1, <3>2
  <2>3. PICK k \in Pubkeys : row' = upsert_pubkey(row, k)
    BY <1>0, <1>2, InsertStep
  <2>4. \A p \in Pubkeys :
           /\ row'[p].last_fetched_at = row[p].last_fetched_at
           /\ row'[p].status \in Terminal \/ row[p].status \notin Terminal
    BY <1>0, <2>3, InsertsStampNothing
  <2> QED BY <1>0, <2>1, <2>2, <2>4, StampsStay
<1>3. CASE Requeue(w) \/ NotFound(w) \/ Confirm(w) \/ Commit(w)
  <2>1. /\ task[w].pc \in Running /\ task'[w].pc \in Running
        /\ task'[w].stamp = task[w].stamp
        /\ \A v \in Tasks : v # w => task'[v] = task[v]
    BY <1>0, <1>3, WriteStep
  <2>2. PICK a \in Leased(w) :
           /\ row'[a].last_fetched_at \in {row[a].last_fetched_at, task[w].stamp, clock}
           /\ row'[a].status \in Terminal
                 \/ row'[a].last_fetched_at = row[a].last_fetched_at
           /\ \A p \in Pubkeys \ {a} : row'[p] = row[p]
           /\ Leased(w)' = Leased(w) \ {a}
    BY <1>0, <1>3, WriteStep
  <2>3. a \in task[w].todo /\ a \in Pubkeys /\ task'[w].todo = task[w].todo \ {a}
    BY <1>0, <2>1, <2>2 DEF Leased
  <2>4. row[a].status = "in_progress"
    BY <1>0, <2>2 DEF WorkersInv, LeaseExclusive, Held
  <2>5. /\ task[w].stamp \in Nat
        /\ row[a].last_fetched_at # Null =>
              /\ row[a].last_fetched_at <= task[w].stamp
              /\ row[a].last_fetched_at + Ttl < clock
        /\ \A p \in Pubkeys : row[p].last_fetched_at \in Nat \cup {Null}
    BY <1>0, <2>1, <2>3, <2>4 DEF StampsOrdered, WorkersInv, AppliesWhatItHolds, TaskType,
                                  RowType, Time, Terminal
  <2>6. \A p \in Pubkeys : Rises(p)
    BY <1>0, <2>2, <2>3, <2>5 DEF Rises
  <2>7. ASSUME NEW p \in Pubkeys, row'[p].status \notin Terminal,
               row'[p].last_fetched_at # Null
        PROVE  row'[p].last_fetched_at + Ttl < clock'
    BY <1>0, <2>2, <2>4, <2>7 DEF StampsOrdered, Terminal
  <2>8. ASSUME NEW v \in Tasks, v # w, task[v].pc \in Running
        PROVE  a \notin task[v].todo
    BY <1>0, <2>2, <2>8 DEF WorkersInv, LeaseExclusive, Leased
  <2>9. \A p \in task'[w].todo : row'[p].last_fetched_at # Null =>
           row'[p].last_fetched_at <= task'[w].stamp
    BY <1>0, <2>1, <2>2, <2>3 DEF StampsOrdered
  <2>10. ASSUME NEW v \in Tasks, v # w, task'[v].pc \in Running
         PROVE  \A p \in task'[v].todo : row'[p].last_fetched_at # Null =>
                   row'[p].last_fetched_at <= task'[v].stamp
    BY <1>0, <2>1, <2>2, <2>8, <2>10 DEF StampsOrdered
  <2> QED BY <2>6, <2>7, <2>9, <2>10 DEF StampsOrdered
<1> QED BY <1>1, <1>2, <1>3 DEF TaskStep

\* Every step of the daemon keeps the stamps in order and lets no row's age back: what
\* the TTL scan opens is older than a ttl, and so older than the stamp of the batch
\* that claims it.
LEMMA StampsStep ==
    ASSUME DaemonInv, StampsOrdered, StampLag <= Ttl, Next
    PROVE  StampsOrdered' /\ \A p \in Pubkeys : Rises(p)
<1>0. /\ clock \in Nat /\ WorkersInv /\ FreeTask.pc \notin Running
      /\ Ttl \in Nat /\ StampLag \in Int /\ Null \notin Nat
      /\ row \in [Pubkeys -> RowType] /\ task \in [Tasks -> TaskType]
      /\ batch \subseteq Pubkeys
      /\ \A v \in Tasks : task[v].todo \subseteq Pubkeys
      /\ \A p \in Pubkeys : row[p].last_fetched_at \in Nat \cup {Null}
  BY DaemonConstants, NullDistinct
     DEF DaemonInv, WorkersInv, WorkersTypeOK, TaskType, FreeTask, Running, StampLag,
         RowType, Time
<1>1. CASE Start \/ Signal \/ CheckToken \/ Drained \/ Wake \/ LoopFail \/ DaemonTick \/ Rest
  <2>1. UNCHANGED <<row, task>> /\ clock' \in Nat /\ clock' >= clock
    BY <1>0, <1>1 DEF Start, Signal, CheckToken, Drained, Wake, LoopFail, DaemonTick,
                      Tick, Rest, workerVars, vars
  <2> QED BY <1>0, <2>1, StampsStay
<1>2. CASE Exit \/ Crash
  <2>1. UNCHANGED <<row, clock>> /\ \A v \in Tasks : task'[v].pc \notin Running
    BY <1>0, <1>2 DEF Exit, Crash, Off, ProcessGone
  <2> QED BY <1>0, <2>1, StampsStay
<1>3. CASE Seed
  <2>1. row' = upsert_pubkey(row, Anchor) /\ UNCHANGED <<clock, task>>
    BY <1>3 DEF Seed, SeedAnchor
  <2>2. \A p \in Pubkeys :
           /\ row'[p].last_fetched_at = row[p].last_fetched_at
           /\ row'[p].status \in Terminal \/ row[p].status \notin Terminal
    BY <1>0, <2>1, InsertsStampNothing, WorkerConstants
  <2> QED BY <1>0, <2>1, <2>2, StampsStay
<1>4. CASE Reclaim \/ InRunReclaimTimer
  <2>1. PICK S \in SUBSET Pubkeys :
           /\ \A p \in S : row[p].status = "in_progress"
           /\ row' = [p \in Pubkeys |-> IF p \in S THEN ResetRow(row[p]) ELSE row[p]]
           /\ UNCHANGED <<edges, clock, task, batch>>
    BY <1>4, StartupSelects, SweepSelects DEF DaemonInv
  <2>2. \A p \in Pubkeys :
           /\ row'[p].last_fetched_at = row[p].last_fetched_at
           /\ row'[p].status \in Terminal \/ row[p].status \notin Terminal
    BY <1>0, <2>1 DEF ResetRow, RowType, Terminal
  <2> QED BY <1>0, <2>1, <2>2, StampsStay
<1>5. CASE StalenessTimer
  <2>1. /\ row' = reclaim_stale_by_ttl(row, Ttl, clock)
        /\ UNCHANGED <<edges, clock, task, batch>>
    BY <1>5 DEF StalenessTimer
  <2>2. ASSUME NEW p \in Pubkeys
        PROVE  /\ row'[p].last_fetched_at = row[p].last_fetched_at
               /\ \/ row'[p].status \in Terminal
                  \/ row[p].status \notin Terminal
                  \/ row[p].last_fetched_at + Ttl < clock
    <3>1. CASE row[p].status \in Terminal /\ OlderThan(row[p].last_fetched_at, Ttl, clock)
      <4>1. row'[p] = ResetRow(row[p])
        BY <2>1, <3>1 DEF reclaim_stale_by_ttl
      <4>2. row[p].last_fetched_at + Ttl < clock
        BY <1>0, <3>1 DEF OlderThan
      <4> QED BY <1>0, <4>1, <4>2 DEF ResetRow, RowType
    <3>2. CASE ~(row[p].status \in Terminal /\ OlderThan(row[p].last_fetched_at, Ttl, clock))
      <4>1. row'[p] = row[p]
        BY <2>1, <3>2 DEF reclaim_stale_by_ttl
      <4> QED BY <4>1
    <3> QED BY <3>1, <3>2
  <2> QED BY <1>0, <2>1, <2>2, StampsStay
<1>6. CASE Claim
  <2>1. /\ row' = claim_batch(row, batch', clock) /\ UNCHANGED <<clock, task>>
        /\ \A p \in batch' : row[p].status = "discovered"
    BY <1>6 DEF Claim, TakeBatch, claim_selection, WithStatus
  <2>2. \A p \in Pubkeys :
           /\ row'[p].last_fetched_at = row[p].last_fetched_at
           /\ row'[p].status \in Terminal \/ row[p].status \notin Terminal
    BY <1>0, <2>1 DEF claim_batch, RowType, Terminal
  <2> QED BY <1>0, <2>1, <2>2, StampsStay
<1>7. ASSUME NEW w \in Tasks, Spawn(w)
      PROVE  StampsOrdered' /\ \A p \in Pubkeys : Rises(p)
  <2>0. PICK stamp \in AppNow : SpawnBatch(w, stamp)
    BY <1>7 DEF Spawn
  <2>1. /\ UNCHANGED <<row, clock>>
        /\ task' = [v \in Tasks |->
                      IF v = w THEN SpawnedTask(batch, stamp)
                      ELSE IF task[v].pc \in Finished THEN FreeTask ELSE task[v]]
    BY <2>0 DEF SpawnBatch
  <2>2. SpawnedTask(batch, stamp).todo = batch /\ SpawnedTask(batch, stamp).stamp = stamp
    BY DEF SpawnedTask, FreeTask
  <2>3. task'[w].todo = batch /\ task'[w].stamp = stamp
    BY <2>1, <2>2
  <2>4. \A v \in Tasks : v # w => task'[v] = task[v] \/ task'[v].pc \notin Running
    BY <1>0, <2>1
  <2>5. stamp \in Nat /\ clock - StampLag <= stamp
    BY <1>0, StampNat
  <2>6. ASSUME NEW p \in batch, row[p].last_fetched_at # Null
        PROVE  row[p].last_fetched_at <= stamp
    <3>1. row[p].status \notin Terminal
      BY <1>0 DEF WorkersInv, LeaseExclusive, Held, Terminal
    <3>2. row[p].last_fetched_at + Ttl < clock /\ row[p].last_fetched_at \in Nat
      BY <1>0, <2>6, <3>1 DEF StampsOrdered
    <3> QED BY <1>0, <2>5, <3>2
  <2> QED BY <1>0, <2>1, <2>3, <2>4, <2>6, StampsStay
<1>8. ASSUME NEW w \in Tasks, JoinNext(w) \/ WorkerFail(w)
      PROVE  StampsOrdered' /\ \A p \in Pubkeys : Rises(p)
  <2>1. /\ UNCHANGED <<row, clock>> /\ task'[w].pc \notin Running
        /\ \A v \in Tasks : v # w => task'[v] = task[v]
    BY <1>0, <1>8 DEF JoinNext, Joined, WorkerFail, TaskFail, Running, TaskType
  <2> QED BY <1>0, <2>1, StampsStay
<1>9. ASSUME NEW w \in Tasks, WorkerStep(w)
      PROVE  StampsOrdered' /\ \A p \in Pubkeys : Rises(p)
  BY <1>9, TaskStamps DEF WorkerStep
<1> QED BY <1>1, <1>2, <1>3, <1>4, <1>5, <1>6, <1>7, <1>8, <1>9 DEF Next, LoopStep

\* While the stamps lag by at most a ttl, last_fetched_at only grows, although fetched
\* rows carry the database's now() and the others whole seconds of the crawler's clock,
\* whatever the skew between the two: nobody else stamps a row while a batch holds it,
\* and what the batch found there is more than a ttl old.
THEOREM LastFetchedOnlyGrows ==
    ASSUME Punctual
    PROVE  Spec => LastFetchedMonotone
<1>1. Init => AgesOrdered
  BY DEF Init, WorkersInit, FreeTask, NoRow, Running, StampsOrdered, AgesOrdered
<1>2. DaemonInv /\ AgesOrdered /\ [Next]_vars => AgesOrdered'
  BY StampsStep DEF vars, StampsOrdered, AgesOrdered
<1>3. DaemonInv /\ AgesOrdered /\ [Next]_vars =>
         [StampLag <= Ttl => \A p \in Pubkeys : row[p].last_fetched_at # Null =>
             /\ row'[p].last_fetched_at # Null
             /\ row'[p].last_fetched_at >= row[p].last_fetched_at]_vars
  BY StampsStep DEF Rises, AgesOrdered
<1> QED BY <1>1, <1>2, <1>3, DaemonInvInvariant, PTL DEF Spec, LastFetchedMonotone

-----------------------------------------------------------------------------
(* The process around the loop *)

\* Where main stands, the configuration it holds and has accepted, and that the loop
\* runs exactly while run serves or drains.
Stages ==
    /\ main \in {"off", "validate"} \cup SetUp \cup Serves
    /\ main # "off" => cfg \in Configs
    /\ main \notin {"off", "validate"} => validate(cfg)
    /\ loop \in LoopStates
    /\ main \in Serves <=> loop # "off"

\* The inductive invariant of the process.
ProcessInv == Stages /\ ReadyIsRunning /\ DiesEarly

\* A step of the loop, a timer or a worker.
TasksMove ==
    \/ LoopStep \/ LoopFail
    \/ \E w \in Tasks : WorkerStep(w) \/ WorkerFail(w)
    \/ Signal \/ StalenessTimer \/ InRunReclaimTimer \/ DaemonTick

\* No task starts or ends the process, and none touches the readiness flag except
\* where the loop comes to run or to its end.
LEMMA TasksKeepTheProcess ==
    ASSUME loop \in LoopStates, ReadyIsRunning, TasksMove
    PROVE  loop' \in LoopStates /\ (loop' = "off" <=> loop = "off") /\ ReadyIsRunning'
<1> USE DEF LoopStates, Ended, ReadyIsRunning
<1>1. CASE Seed
  BY <1>1 DEF Seed
<1>2. CASE Reclaim
  BY <1>2 DEF Reclaim
<1>3. CASE CheckToken
  BY <1>3 DEF CheckToken
<1>4. CASE Claim
  BY <1>4 DEF Claim
<1>5. ASSUME NEW w \in Tasks, Spawn(w)
      PROVE  loop' \in LoopStates /\ (loop' = "off" <=> loop = "off") /\ ReadyIsRunning'
  <2>1. CASE \E h \in handles : task[h].pc = "err"
    <3>1. loop = "permit" /\ loop' = "failed" /\ ~loop_alive'
      BY <1>5, <2>1 DEF Spawn
    <3> QED BY <3>1
  <2>2. CASE ~\E h \in handles : task[h].pc = "err"
    <3>1. loop = "permit" /\ loop' = "check" /\ loop_alive'
      BY <1>5, <2>2 DEF Spawn
    <3> QED BY <3>1
  <2> QED BY <2>1, <2>2
<1>6. ASSUME NEW w \in Tasks, JoinNext(w)
      PROVE  loop' \in LoopStates /\ (loop' = "off" <=> loop = "off") /\ ReadyIsRunning'
  BY <1>6 DEF JoinNext
<1>7. CASE Drained
  <2>1. /\ loop \in {"drain", "final"} /\ loop' \in {"failed", "idle", "stopped"}
        /\ loop_alive' <=> loop' = "idle"
    BY <1>7 DEF Drained
  <2> QED BY <2>1
<1>8. CASE Wake
  BY <1>8 DEF Wake
<1>9. CASE LoopFail
  BY <1>9 DEF LoopFail
<1>10. CASE \/ \E w \in Tasks : WorkerStep(w) \/ WorkerFail(w)
            \/ Signal \/ StalenessTimer \/ InRunReclaimTimer \/ DaemonTick
  <2>1. UNCHANGED <<loop, loop_alive>>
    BY <1>10 DEF WorkerStep, WorkerFail, Signal, StalenessTimer, InRunReclaimTimer,
                 Fires, DaemonTick, loopVars
  <2> QED BY <2>1
<1> QED BY <1>1, <1>2, <1>3, <1>4, <1>5, <1>6, <1>7, <1>8, <1>9, <1>10
        DEF TasksMove, LoopStep

\* Every step of the process keeps its invariant: what a step of run finds has been
\* validated, so neither the limiter's rate nor the claim's LIMIT can break on it.
LEMMA ProcessStep ==
    ASSUME ProcessInv, DaemonNext
    PROVE  ProcessInv'
<1> USE DEF ProcessInv, Stages, DiesEarly, SetUp, Serves
<1>1. CASE Load
  <2>1. UNCHANGED <<loop, loop_alive>>
    BY <1>1 DEF Load, vars
  <2> QED BY <1>1, <2>1 DEF Load, ReadyIsRunning
<1>2. CASE Validate
  <2>1. UNCHANGED <<loop, loop_alive>>
    BY <1>2 DEF Validate, vars
  <2>2. (validate(cfg)' <=> validate(cfg)) /\ main' \in {"database", "off"}
        /\ (main' = "database" => validate(cfg))
    BY <1>2 DEF Validate, validate
  <2> QED BY <1>2, <2>1, <2>2 DEF Validate, ReadyIsRunning
<1>3. CASE Connect \/ Probe \/ Answer \/ ServerDown
  <2>1. UNCHANGED <<loop, loop_alive, cfg, misconfigured>>
    BY <1>3 DEF Connect, Probe, Answer, ServerDown, vars
  <2>2. \/ main' = main
        \/ main = "database" /\ main' = "relays"
        \/ main = "serving" /\ main' = "draining"
    BY <1>3 DEF Connect, Probe, Answer, ServerDown
  <2> QED BY <2>1, <2>2 DEF ReadyIsRunning, validate
<1>4. CASE ConnectCurated
  <2>1. main = "relays" /\ cfg.reqs_per_second > 0
    BY <1>4 DEF ConnectCurated, validate
  <2>2. cfg.reqs_per_second # 0
    BY <2>1
  <2>3. main' = "bind" /\ UNCHANGED <<loop, loop_alive, cfg, misconfigured>>
    BY <1>4, <2>2 DEF ConnectCurated, vars
  <2> QED BY <2>1, <2>3 DEF ReadyIsRunning, validate
<1>5. CASE Bind
  <2>1. /\ main' = "serving" /\ main = "bind" /\ loop = "off" /\ loop' = "seed"
        /\ UNCHANGED <<loop_alive, cfg>> /\ misconfigured' = misconfigured \cup Panics(cfg)
    BY <1>5 DEF Bind, Start
  <2> QED BY <2>1 DEF ReadyIsRunning, validate, LoopStates, Ended, Panics
<1>6. CASE SetUpFails \/ Drain \/ ShutdownTimeout \/ Killed
  <2>1. /\ main' = "off" /\ loop' = "off" /\ ~loop_alive'
        /\ UNCHANGED <<cfg, misconfigured>>
    BY <1>6 DEF SetUpFails, Drain, ShutdownTimeout, Killed, Exit, Off
  <2> QED BY <2>1 DEF ReadyIsRunning, LoopStates, Ended
<1>7. CASE SignalInSetUp
  <2>1. UNCHANGED <<loop, loop_alive, main, cfg, misconfigured>>
    BY <1>7 DEF SignalInSetUp, processVars
  <2> QED BY <2>1 DEF ReadyIsRunning, validate
<1>8. CASE LoopError
  <2>1. loop \in {"seed", "reclaim", "claim"}
    BY <1>8 DEF LoopError, LoopFail
  <2>2. cfg.batch_size > 0 /\ cfg.batch_size \in Int
    BY <2>1, ConfigsTyped DEF validate
  <2>3. ~(cfg.batch_size < 0)
    BY <2>2
  <2>4. UNCHANGED <<misconfigured, main, cfg>>
    BY <1>8, <2>3 DEF LoopError
  <2>5. loop' \in LoopStates /\ (loop' = "off" <=> loop = "off") /\ ReadyIsRunning'
    BY <1>8, TasksKeepTheProcess DEF LoopError, TasksMove
  <2> QED BY <2>4, <2>5 DEF validate
<1>9. ASSUME LoopTask \/ (\E w \in Tasks : WorkerTask(w)) \/ Others
      PROVE  ProcessInv'
  <2>1. UNCHANGED <<main, cfg, misconfigured>>
    BY <1>9 DEF LoopTask, WorkerTask, Others, processVars
  <2>2. loop' \in LoopStates /\ (loop' = "off" <=> loop = "off") /\ ReadyIsRunning'
    <3>1. CASE TasksMove
      BY <3>1, TasksKeepTheProcess
    <3>2. CASE Rest
      BY <3>2 DEF Rest, vars, ReadyIsRunning
    <3> QED BY <1>9, <3>1, <3>2 DEF LoopTask, WorkerTask, Others, TasksMove
  <2> QED BY <2>1, <2>2 DEF validate
<1> QED BY <1>1, <1>2, <1>3, <1>4, <1>5, <1>6, <1>7, <1>8, <1>9 DEF DaemonNext, MainStep

\* ProcessInv is an invariant of the process, with no assumption on how long a batch
\* takes.
THEOREM ProcessInvariant == DaemonSpec => []ProcessInv
<1>1. DaemonInit => ProcessInv
  BY DEF DaemonInit, Init, ProcessInv, Stages, ReadyIsRunning, DiesEarly, LoopStates,
         Ended, SetUp, Serves
<1>2. ProcessInv /\ [DaemonNext]_daemonVars => ProcessInv'
  <2>1. ASSUME ProcessInv, UNCHANGED daemonVars PROVE ProcessInv'
    BY <2>1 DEF daemonVars, ProcessInv, Stages, ReadyIsRunning, DiesEarly, validate
  <2> QED BY <2>1, ProcessStep
<1> QED BY <1>1, <1>2, PTL DEF DaemonSpec

\* OBS-03: the readiness flag is up exactly while the loop has seeded and reclaimed
\* and not yet come to any of its ends, in this process.
THEOREM ReadinessTellsTheLoop == DaemonSpec => []ReadyIsRunning
<1>1. ProcessInv => ReadyIsRunning
  BY DEF ProcessInv
<1> QED BY <1>1, ProcessInvariant, PTL

\* OPS-01: whatever the configurations, what validate accepts neither panics the
\* set-up nor fails a claim; what it may still break, on a zero interval, is a timer or
\* a sampler.
THEOREM BadConfigurationsDieEarly == DaemonSpec => []DiesEarly
<1>1. ProcessInv => DiesEarly
  BY DEF ProcessInv
<1> QED BY <1>1, ProcessInvariant, PTL

-----------------------------------------------------------------------------
(* What the loop promises, the process keeps *)

\* Beside the steps of DaemonLoop, the process is signalled and ends during set-up,
\* where no loop runs.
BeforeTheLoop ==
    /\ loop = "off" /\ loop' = "off"
    /\ ProcessGone \/ UNCHANGED workerVars
    /\ handles' = {} \/ handles' = handles
    /\ {first_err', cancelled', loop_alive'} \subseteq BOOLEAN
    /\ late' \in SUBSET Timers
    /\ UNCHANGED <<starts, faulted>>

\* Every step of the process is one of the loop's, or leaves it alone, or is taken
\* before there is a loop.
LEMMA ProcessSteps ==
    ASSUME TypeOK, ProcessInv, [DaemonNext]_daemonVars
    PROVE  [Next]_vars \/ BeforeTheLoop
<1> USE DEF ProcessInv, Stages, SetUp, Serves
<1>1. CASE Load \/ Validate \/ Connect \/ Probe \/ Answer \/ ServerDown
           \/ UNCHANGED daemonVars
  <2>1. UNCHANGED vars
    BY <1>1 DEF Load, Validate, Connect, Probe, Answer, ServerDown, daemonVars, vars
  <2> QED BY <2>1
<1>2. ASSUME loop = "off", Off, UNCHANGED faulted
      PROVE  BeforeTheLoop
  BY <1>2 DEF Off, BeforeTheLoop
<1>3. CASE ConnectCurated
  <2>1. cfg.reqs_per_second # 0
    BY <1>3 DEF ConnectCurated, validate
  <2>2. UNCHANGED vars
    BY <1>3, <2>1 DEF ConnectCurated
  <2> QED BY <2>2
<1>4. CASE Bind
  BY <1>4 DEF Bind, Next
<1>5. CASE SetUpFails
  BY <1>2, <1>5 DEF SetUpFails
<1>6. CASE SignalInSetUp
  <2>1. loop = "off" /\ UNCHANGED workerVars /\ cancelled' = TRUE
        /\ UNCHANGED <<loop, handles, first_err, late, loop_alive, starts, faulted>>
    BY <1>6 DEF SignalInSetUp
  <2> QED BY <2>1 DEF BeforeTheLoop, TypeOK
<1>7. CASE Drain \/ ShutdownTimeout
  BY <1>7 DEF Drain, ShutdownTimeout, Next
<1>8. CASE Killed
  <2>1. CASE loop = "off"
    <3>1. faulted' = faulted
      BY <1>8, <2>1 DEF Killed, TypeOK
    <3> QED BY <1>2, <1>8, <2>1, <3>1 DEF Killed
  <2>2. CASE loop # "off"
    <3>1. faulted' = TRUE
      BY <1>8, <2>2 DEF Killed, TypeOK
    <3> QED BY <1>8, <2>2, <3>1 DEF Killed, Crash, Next
  <2> QED BY <2>1, <2>2
<1>9. CASE LoopTask \/ LoopError \/ (\E w \in Tasks : WorkerTask(w)) \/ Others
  BY <1>9 DEF LoopTask, LoopError, WorkerTask, Others, Next
<1> QED BY <1>1, <1>3, <1>4, <1>5, <1>6, <1>7, <1>8, <1>9 DEF DaemonNext, MainStep

\* Before the loop nobody holds an author and nothing changes that a promise is about.
LEMMA BeforeTheLoopKeeps ==
    ASSUME DaemonInv, BeforeTheLoop
    PROVE  /\ DaemonInv' /\ UNCHANGED <<row, edges, clock>>
           /\ Held = {} /\ Held' = {} /\ RunningTasks' = {}
<1> USE DEF DaemonInv
<1>1. Held = {} /\ RunningTasks = {} /\ batch = {}
  BY DEF BeforeTheLoop, NothingHeldOutside, Held, RunningTasks, Leased
<1>2. UNCHANGED <<row, edges, clock>>
  BY DEF BeforeTheLoop, ProcessGone, workerVars
<1>3. WorkersInv' /\ RunningTasks' = {} /\ batch' = {}
  <2>1. CASE ProcessGone
    BY <2>1, GoneInv
  <2>2. CASE UNCHANGED workerVars
    <3>1. clock' \in Nat
      BY <2>2 DEF workerVars, TypeOK, WorkersTypeOK
    <3> QED BY <1>1, <2>2, <3>1, WorkersStutter DEF workerVars, RunningTasks
  <2> QED BY <2>1, <2>2 DEF BeforeTheLoop
<1>4. Held' = {}
  BY <1>3 DEF Held, Leased, RunningTasks
<1>5. TypeOK'
  BY <1>3 DEF WorkersInv, TypeOK, BeforeTheLoop
<1>6. NothingHeldOutside' /\ LeasesYoung'
  BY <1>3, <1>4 DEF NothingHeldOutside, LeasesYoung
<1> QED BY <1>1, <1>2, <1>3, <1>4, <1>5, <1>6

\* While batches are punctual DaemonInv holds of the whole process too.
THEOREM ProcessKeepsDaemonInv ==
    ASSUME Punctual
    PROVE  DaemonSpec => []DaemonInv
<1>1. DaemonInit => DaemonInv
  <2> SUFFICES ASSUME Init PROVE DaemonInv
    BY DEF DaemonInit
  <2> QED BY DaemonInitInv
<1>2. DaemonInv /\ ProcessInv /\ [DaemonNext]_daemonVars => DaemonInv'
  <2> SUFFICES ASSUME DaemonInv, ProcessInv, [DaemonNext]_daemonVars PROVE DaemonInv'
    OBVIOUS
  <2>1. [Next]_vars \/ BeforeTheLoop
    BY ProcessSteps DEF DaemonInv
  <2> QED BY <2>1, DaemonInvStep, BeforeTheLoopKeeps
<1> QED BY <1>1, <1>2, ProcessInvariant, PTL DEF DaemonSpec

\* OPS-02 for the process: whether the drain completed or set-up was signalled, failed
\* or was killed, a process that met no failure since its startup reclaim leaves no
\* in_progress row behind.
THEOREM ProcessShutdownIsClean ==
    ASSUME Punctual
    PROVE  DaemonSpec => []CleanShutdown
<1>1. DaemonInit => HandlesInv
  BY DEF DaemonInit, Init, WorkersInit, FreeTask, NoRow, HandlesInv
<1>2. DaemonInv /\ ProcessInv /\ HandlesInv /\ [DaemonNext]_daemonVars => HandlesInv'
  <2> SUFFICES ASSUME DaemonInv, ProcessInv, HandlesInv, [DaemonNext]_daemonVars
               PROVE  HandlesInv'
    OBVIOUS
  <2>1. [Next]_vars \/ BeforeTheLoop
    BY ProcessSteps DEF DaemonInv
  <2>2. CASE [Next]_vars
    BY <2>2, HandlesStep, HandlesStay
  <2>3. CASE BeforeTheLoop
    <3>1. \A w \in Tasks : task[w].pc = "free"
      BY <2>3 DEF HandlesInv, BeforeTheLoop
    <3>2. \A w \in Tasks : task'[w].pc = "free"
      BY <2>3, <3>1 DEF BeforeTheLoop, ProcessGone, workerVars, FreeTask
    <3>3. handles' = {} /\ row' = row /\ Held = {} /\ Held' = {} /\ faulted' = faulted
      BY <2>3, BeforeTheLoopKeeps DEF HandlesInv, BeforeTheLoop
    <3> QED BY <3>2, <3>3 DEF HandlesInv
  <2> QED BY <2>1, <2>2, <2>3
<1>3. DaemonInv /\ HandlesInv => CleanShutdown
  BY HandlesAreClean
<1> QED BY <1>1, <1>2, <1>3, ProcessKeepsDaemonInv, ProcessInvariant, PTL DEF DaemonSpec

\* The whole process implements the abstract frontier, start-up and shutdown included.
THEOREM ProcessImplementsFrontier ==
    ASSUME Punctual
    PROVE  DaemonSpec => ImplementsFrontier
<1>1. DaemonInit => Refreshed!Init /\ FolloweesKnown
  BY FrontierStarts DEF DaemonInit
<1>2. DaemonInv /\ ProcessInv /\ FolloweesKnown /\ [DaemonNext]_daemonVars
         => FolloweesKnown' /\ [Refreshed!Next]_Refreshed!fvars
  <2> SUFFICES ASSUME DaemonInv, ProcessInv, FolloweesKnown, [DaemonNext]_daemonVars
               PROVE  FolloweesKnown' /\ [Refreshed!Next]_Refreshed!fvars
    OBVIOUS
  <2>1. [Next]_vars \/ BeforeTheLoop
    BY ProcessSteps DEF DaemonInv
  <2>2. CASE [Next]_vars
    BY <2>2, FrontierSteps
  <2>3. CASE BeforeTheLoop
    <3>1. UNCHANGED <<row, edges>> /\ Held = {} /\ Held' = {} /\ RunningTasks' = {}
      BY <2>3, BeforeTheLoopKeeps
    <3>2. Phases' = Phases
      BY <3>1, SamePhases
    <3>3. \A v \in Tasks : task'[v].pc \notin Applying
      BY <3>1 DEF RunningTasks, Running, Applying
    <3>4. Present(row) \subseteq Present(row')
      BY <3>1
    <3>5. FolloweesKnown'
      BY <3>1, <3>3, <3>4, FolloweesStay
    <3> QED BY <3>1, <3>2, <3>5 DEF Refreshed!fvars
  <2> QED BY <2>1, <2>2, <2>3
<1> QED BY <1>1, <1>2, ProcessKeepsDaemonInv, ProcessInvariant, PTL
        DEF DaemonSpec, ImplementsFrontier, Refreshed!Spec

\* The tables stay well typed, no author is leased twice, the edges are those of the
\* applied lists, resolved rows are stamped and no retry exceeds the cap, through every
\* start-up, shutdown and kill of the process.
THEOREM ProcessKeepsTheTables ==
    ASSUME Punctual
    PROVE  DaemonSpec => [](/\ TypeOK /\ LeaseExclusive /\ EdgesMirrorApplied
                            /\ TerminalStamped /\ AttemptBudget)
<1>1. DaemonInv => /\ TypeOK /\ LeaseExclusive /\ EdgesMirrorApplied
                   /\ TerminalStamped /\ AttemptBudget
  BY DEF DaemonInv, WorkersInv
<1> QED BY <1>1, ProcessKeepsDaemonInv, PTL

\* Nor does the process, between its runs or before the loop, age what is known.
THEOREM ProcessKeepsTheAge ==
    ASSUME Punctual
    PROVE  DaemonSpec => LastFetchedMonotone
<1>1. DaemonInit => AgesOrdered
  BY DEF DaemonInit, Init, WorkersInit, FreeTask, NoRow, Running, StampsOrdered, AgesOrdered
<1>2. DaemonInv /\ ProcessInv /\ AgesOrdered /\ [DaemonNext]_daemonVars
         => AgesOrdered' /\ [StampLag <= Ttl =>
                               \A p \in Pubkeys : row[p].last_fetched_at # Null =>
                                  /\ row'[p].last_fetched_at # Null
                                  /\ row'[p].last_fetched_at >= row[p].last_fetched_at]_vars
  <2> SUFFICES ASSUME DaemonInv, ProcessInv, StampsOrdered, StampLag <= Ttl,
                      [DaemonNext]_daemonVars
               PROVE  StampsOrdered' /\ (vars' = vars \/ \A p \in Pubkeys : Rises(p))
    BY DEF Rises, AgesOrdered
  <2>1. [Next]_vars \/ BeforeTheLoop
    BY ProcessSteps DEF DaemonInv
  <2>2. CASE Next
    BY <2>2, StampsStep
  <2>3. CASE UNCHANGED vars
    BY <2>3 DEF vars, StampsOrdered
  <2>4. CASE BeforeTheLoop
    <3>1. /\ UNCHANGED <<row, clock>> /\ \A w \in Tasks : task'[w].pc \notin Running
          /\ clock \in Nat
      BY <2>4, BeforeTheLoopKeeps DEF RunningTasks, DaemonInv, TypeOK, WorkersTypeOK
    <3>2. clock' \in Nat /\ clock' >= clock
      BY <3>1
    <3> QED BY <3>1, <3>2, StampsStay
  <2> QED BY <2>1, <2>2, <2>3, <2>4
<1> QED BY <1>1, <1>2, ProcessKeepsDaemonInv, ProcessInvariant, PTL
        DEF DaemonSpec, LastFetchedMonotone

-----------------------------------------------------------------------------
(* What holds however long a batch takes *)

\* Whatever diffs overlap, a stored edge comes from some list of its follower.
EdgesOffered == \A p \in Pubkeys : edges[p] \subseteq UNION OfferedEdges[p]

\* The tables, and what each task knows, when a sweep may take any lease.
OverrunTables ==
    /\ WorkersTypeOK
    /\ \A w \in Tasks : OwnWork(task[w])
    /\ TerminalStamped
    /\ EdgesOffered

OverrunInv == TypeOK /\ OverrunTables /\ FolloweesKnown

\* Rows change to well-typed rows that are stamped if terminal, tasks to ones that know
\* their work.
LEMMA TablesMove ==
    ASSUME OverrunTables, row' \in [Pubkeys -> RowType],
           \A p \in Pubkeys : \/ row'[p] = row[p]
                              \/ row'[p].status \in Terminal => row'[p].last_fetched_at # Null,
           task' \in [Tasks -> TaskType],
           \A w \in Tasks : task'[w] = task[w] \/ OwnWork(task'[w]),
           UNCHANGED edges, clock' \in Nat, batch' \in SUBSET Pubkeys
    PROVE  OverrunTables'
<1>1. WorkersTypeOK'
  BY DEF OverrunTables, WorkersTypeOK
<1>2. TerminalStamped'
  BY DEF OverrunTables, TerminalStamped
<1>3. \A w \in Tasks : OwnWork(task[w])'
  BY DEF OverrunTables, OwnWork
<1>4. EdgesOffered'
  BY DEF OverrunTables, EdgesOffered, OfferedEdges
<1> QED BY <1>1, <1>2, <1>3, <1>4 DEF OverrunTables

\* A task writes one row and moves on.
LEMMA TaskWrites ==
    ASSUME OverrunTables, NEW w \in Tasks, NEW t \in TaskType, OwnWork(t),
           task' = [task EXCEPT ![w] = t],
           row' \in [Pubkeys -> RowType],
           \A p \in Pubkeys : \/ row'[p] = row[p]
                              \/ row'[p].status \in Terminal => row'[p].last_fetched_at # Null,
           UNCHANGED <<edges, clock, batch>>
    PROVE  OverrunTables'
<1>1. task \in [Tasks -> TaskType] /\ clock \in Nat /\ batch \in SUBSET Pubkeys
  BY DEF OverrunTables, WorkersTypeOK
<1>2. task' \in [Tasks -> TaskType] /\ \A v \in Tasks : task'[v] = task[v] \/ OwnWork(task'[v])
  BY <1>1
<1> QED BY <1>1, <1>2, TablesMove

\* A task's step keeps it, whoever else holds the author.
LEMMA OverrunTask ==
    ASSUME OverrunTables, NEW w \in Tasks, TaskStep(w)
    PROVE  OverrunTables'
<1> DEFINE t == task[w]
<1>0. /\ t \in TaskType /\ OwnWork(t)
      /\ row \in [Pubkeys -> RowType] /\ edges \in [Pubkeys -> SUBSET Pubkeys]
      /\ task \in [Tasks -> TaskType] /\ clock \in Nat /\ batch \in SUBSET Pubkeys
  BY DEF OverrunTables, WorkersTypeOK
<1>1. CASE FetchOk(w)
  <2>1. PICK got \in [Pubkeys -> Lists \cup {Null}] :
           /\ \A p \in Pubkeys : got[p] # Null =>
                 p \in task[w].todo \ BadKeys /\ got[p].follower = p
           /\ task' = [task EXCEPT ![w].pc = "resolve", ![w].got = got]
    BY <1>1 DEF FetchOk
  <2> DEFINE u == [t EXCEPT !.pc = "resolve", !.got = got]
  <2>2. task' = [task EXCEPT ![w] = u] /\ u \in TaskType
    BY <1>0, <2>1 DEF TaskType, Running
  <2>3. OwnWork(u)
    BY <1>0, <1>1, <2>1 DEF FetchOk, OwnWork, Applying, Running, TaskType
  <2> HIDE DEF u
  <2> QED BY <1>0, <1>1, <2>2, <2>3, TaskWrites DEF FetchOk
<1>2. CASE FetchErr(w)
  <2> DEFINE u == [t EXCEPT !.pc = "requeue"]
  <2>2. task' = [task EXCEPT ![w] = u] /\ u \in TaskType
    BY <1>0, <1>2 DEF FetchErr, TaskType, Running
  <2>3. OwnWork(u)
    BY <1>0, <1>2 DEF FetchErr, OwnWork, Applying, Running, TaskType
  <2> HIDE DEF u
  <2> QED BY <1>0, <1>2, <2>2, <2>3, TaskWrites DEF FetchErr
<1>3. CASE Requeue(w)
  <2>1. PICK a \in task[w].todo :
           /\ row' = [row EXCEPT ![a] = requeue_or_fail(@, MaxAttempts, task[w].stamp)]
           /\ task' = [task EXCEPT ![w].todo = @ \ {a}]
    BY <1>3 DEF Requeue
  <2> DEFINE u == [t EXCEPT !.todo = @ \ {a}]
             r == requeue_or_fail(row[a], MaxAttempts, task[w].stamp)
  <2>2. /\ a \in Pubkeys /\ row[a] \in RowType
        /\ task[w].stamp \in Time /\ task[w].stamp # Null
    BY <1>0, <1>3 DEF Requeue, TaskType, Running, OwnWork
  <2>3. r \in RowType
    BY <2>2, RowStatementTypes
  <2>4. r.status \in Terminal => r.last_fetched_at # Null
    BY <2>2 DEF requeue_or_fail, RowType, Terminal
  <2>5. task' = [task EXCEPT ![w] = u] /\ u \in TaskType
    BY <1>0, <2>1 DEF TaskType
  <2>6. OwnWork(u)
    BY <1>0, <1>3 DEF Requeue, OwnWork, Applying, Running, TaskType
  <2>7. row' = [row EXCEPT ![a] = r] /\ UNCHANGED <<edges, clock, batch>>
    BY <1>0, <1>3, <2>1, <2>2 DEF Requeue
  <2> HIDE DEF u, r
  <2> QED BY <1>0, <2>2, <2>3, <2>4, <2>5, <2>6, <2>7, TaskWrites
<1>4. CASE NotFound(w)
  <2>1. PICK a \in task[w].todo :
           /\ row' = [row EXCEPT ![a] = set_fetch_status(@, "not_found", task[w].stamp)]
           /\ task' = [task EXCEPT ![w] = Resolved(@, a)]
    BY <1>4 DEF NotFound
  <2> DEFINE u == Resolved(t, a)
             r == set_fetch_status(row[a], "not_found", task[w].stamp)
  <2>2. /\ a \in Pubkeys /\ row[a] \in RowType
        /\ task[w].stamp \in Time /\ task[w].stamp # Null
    BY <1>0, <1>4 DEF NotFound, TaskType, Running, OwnWork
  <2>3. r \in RowType
    BY <2>2, RowStatementTypes
  <2>4. r.status \in Terminal => r.last_fetched_at # Null
    BY <2>2 DEF set_fetch_status, RowType
  <2>5. task' = [task EXCEPT ![w] = u] /\ u \in TaskType
    BY <1>0, <2>1 DEF Resolved, TaskType, Running
  <2>6. OwnWork(u)
    BY <1>0, <1>4 DEF NotFound, Resolved, OwnWork, Applying, Running, TaskType
  <2>7. row' = [row EXCEPT ![a] = r] /\ UNCHANGED <<edges, clock, batch>>
    BY <1>0, <1>4, <2>1, <2>2 DEF NotFound
  <2> HIDE DEF u, r
  <2> QED BY <1>0, <2>2, <2>3, <2>4, <2>5, <2>6, <2>7, TaskWrites
<1>5. CASE Recover(w)
  <2>1. PICK a \in task[w].todo \ BadKeys, l \in Lists :
           l.follower = a /\ task' = [task EXCEPT ![w].got[a] = l]
    BY <1>5 DEF Recover
  <2> DEFINE u == [t EXCEPT !.got[a] = l]
  <2>2. task' = [task EXCEPT ![w] = u] /\ u \in TaskType
    BY <1>0, <2>1 DEF TaskType
  <2>3. /\ u.pc = "resolve" /\ u.stamp = task[w].stamp /\ task[w].pc \in Running
        /\ \A p \in Pubkeys : u.got[p] = task[w].got[p] \/ (p = a /\ u.got[p] = l)
    BY <1>0, <1>5 DEF Recover, Running, TaskType
  <2>4. OwnWork(u)
    BY <1>0, <2>1, <2>3 DEF OwnWork, Applying
  <2> HIDE DEF u
  <2> QED BY <1>0, <1>5, <2>2, <2>4, TaskWrites DEF Recover
<1>6. CASE BeginApply(w)
  <2>1. PICK a \in task[w].todo :
           /\ task[w].got[a] # Null
           /\ row' = upsert_pubkey(row, a)
           /\ task' = [task EXCEPT ![w].pc = "upsert", ![w].cur = a,
                                   ![w].ups = task[w].got[a].followees]
    BY <1>6 DEF BeginApply
  <2> DEFINE u == [t EXCEPT !.pc = "upsert", !.cur = a, !.ups = task[w].got[a].followees]
  <2>2. a \in Pubkeys /\ task[w].got[a] \in Lists
    BY <1>0, <2>1 DEF TaskType
  <2>3. task' = [task EXCEPT ![w] = u] /\ u \in TaskType
    BY <1>0, <2>1, <2>2, ListsTyped DEF TaskType, Running, ListType
  <2>4. OwnWork(u)
    BY <1>0, <1>6, <2>1 DEF BeginApply, OwnWork, Applying, Running, TaskType
  <2>5. /\ row' \in [Pubkeys -> RowType]
        /\ \A p \in Pubkeys : row'[p] = row[p] \/ row'[p].status = "discovered"
    BY <1>0, <2>1, <2>2, UpsertType, UpsertEffect
  <2> HIDE DEF u
  <2> QED BY <1>0, <1>6, <2>3, <2>4, <2>5, TaskWrites DEF BeginApply, Terminal
<1>7. CASE UpsertFollowee(w)
  <2>1. PICK f \in task[w].ups :
           /\ row' = upsert_pubkey(row, f)
           /\ task' = [task EXCEPT ![w].ups = @ \ {f}]
    BY <1>7 DEF UpsertFollowee
  <2> DEFINE u == [t EXCEPT !.ups = @ \ {f}]
  <2>2. f \in Pubkeys
    BY <1>0 DEF TaskType
  <2>3. task' = [task EXCEPT ![w] = u] /\ u \in TaskType
    BY <1>0, <2>1 DEF TaskType
  <2>4. OwnWork(u)
    BY <1>0 DEF OwnWork, TaskType
  <2>5. /\ row' \in [Pubkeys -> RowType]
        /\ \A p \in Pubkeys : row'[p] = row[p] \/ row'[p].status = "discovered"
    BY <1>0, <2>1, <2>2, UpsertType, UpsertEffect
  <2> HIDE DEF u
  <2> QED BY <1>0, <1>7, <2>3, <2>4, <2>5, TaskWrites DEF UpsertFollowee, Terminal
<1>8. CASE CheckApplied(w)
  <2> DEFINE pc == IF row[task[w].cur].applied = task[w].got[task[w].cur]
                   THEN "confirm" ELSE "diff"
             u == [t EXCEPT !.pc = pc]
  <2>1. pc \in {"confirm", "diff"} /\ task[w].pc = "upsert" /\ task' = [task EXCEPT ![w] = u]
    BY <1>8 DEF CheckApplied
  <2> HIDE DEF pc
  <2>2. u \in TaskType /\ OwnWork(u)
    BY <1>0, <2>1 DEF OwnWork, Applying, Running, TaskType
  <2> HIDE DEF u
  <2> QED BY <1>0, <1>8, <2>1, <2>2, TaskWrites DEF CheckApplied
<1>9. CASE Confirm(w)
  <2> DEFINE a == task[w].cur
             u == Resolved(t, a)
             r == confirm_applied(row[a], clock)
  <2>1. /\ row' = [row EXCEPT ![a] = r] /\ task' = [task EXCEPT ![w] = u]
        /\ UNCHANGED <<edges, clock, batch>>
    BY <1>9 DEF Confirm
  <2>2. a \in Pubkeys /\ row[a] \in RowType /\ clock \in Time /\ clock # Null
    BY <1>0, <1>9, NullDistinct DEF Confirm, OwnWork, Applying, Running, TaskType, Time
  <2>3. r \in RowType
    BY <2>2, RowStatementTypes
  <2>4. r.status \in Terminal => r.last_fetched_at # Null
    BY <2>2 DEF confirm_applied, RowType
  <2>5. u \in TaskType /\ OwnWork(u)
    BY <1>0, <1>9 DEF Confirm, Resolved, OwnWork, Applying, Running, TaskType
  <2> HIDE DEF a, u, r
  <2> QED BY <1>0, <2>1, <2>2, <2>3, <2>4, <2>5, TaskWrites
<1>10. CASE ReadEdges(w)
  <2> DEFINE u == [t EXCEPT !.pc = "commit", !.snap = edges[task[w].cur]]
  <2>1. task[w].cur \in Pubkeys
    BY <1>0, <1>10 DEF ReadEdges, OwnWork, Applying, Running, TaskType
  <2>2. task' = [task EXCEPT ![w] = u] /\ u \in TaskType
    BY <1>0, <1>10, <2>1 DEF ReadEdges, TaskType, Running
  <2>3. OwnWork(u)
    BY <1>0, <1>10 DEF ReadEdges, OwnWork, Applying, Running, TaskType
  <2> HIDE DEF u
  <2> QED BY <1>0, <1>10, <2>2, <2>3, TaskWrites DEF ReadEdges
<1>11. CASE Commit(w)
  <2> DEFINE a == task[w].cur
             l == task[w].got[a]
             u == Resolved(t, a)
             r == record_applied(row[a], l, clock)
             E == write_diff(edges[a], task[w].snap, wanted_edges(l))
  <2>1. /\ row' = [row EXCEPT ![a] = r] /\ task' = [task EXCEPT ![w] = u]
        /\ edges' = [edges EXCEPT ![a] = E]
        /\ UNCHANGED <<clock, batch>>
    BY <1>11 DEF Commit
  <2>2. /\ a \in Pubkeys /\ l \in Lists /\ l.follower = a
        /\ row[a] \in RowType /\ clock \in Time /\ clock # Null
    BY <1>0, <1>11, NullDistinct DEF Commit, OwnWork, Applying, Running, TaskType, Time
  <2>3. r \in RowType
    BY <2>2, RowStatementTypes
  <2>4. r.status \in Terminal => r.last_fetched_at # Null
    BY <2>2 DEF record_applied, RowType
  <2>5. u \in TaskType /\ OwnWork(u)
    BY <1>0, <1>11 DEF Commit, Resolved, OwnWork, Applying, Running, TaskType
  <2>6. E \subseteq edges[a] \cup wanted_edges(l)
    BY DEF write_diff
  <2>7. wanted_edges(l) \in OfferedEdges[a] /\ wanted_edges(l) \subseteq Pubkeys
    BY <2>2, ListsTyped DEF OfferedEdges, wanted_edges, ListType
  <2>8. edges[a] \subseteq UNION OfferedEdges[a]
    BY <2>2 DEF OverrunTables, EdgesOffered
  <2> HIDE DEF a, l, u, r, E
  <2>9. E \subseteq UNION OfferedEdges[a] /\ E \subseteq Pubkeys
    BY <1>0, <2>2, <2>6, <2>7, <2>8
  <2>10. /\ row' \in [Pubkeys -> RowType] /\ edges' \in [Pubkeys -> SUBSET Pubkeys]
         /\ task' \in [Tasks -> TaskType] /\ clock' \in Nat /\ batch' \in SUBSET Pubkeys
    BY <1>0, <2>1, <2>2, <2>3, <2>5, <2>9
  <2>11. WorkersTypeOK'
    BY <2>10 DEF WorkersTypeOK
  <2>12. TerminalStamped'
    BY <1>0, <2>1, <2>2, <2>4 DEF OverrunTables, TerminalStamped
  <2>13. \A v \in Tasks : OwnWork(task'[v])
    BY <1>0, <2>1, <2>5 DEF OverrunTables
  <2>14. \A v \in Tasks : OwnWork(task[v])'
    BY <2>13 DEF OwnWork
  <2>15. \A p \in Pubkeys : edges'[p] \subseteq UNION OfferedEdges[p]
    BY <1>0, <2>1, <2>2, <2>9 DEF OverrunTables, EdgesOffered
  <2>16. EdgesOffered'
    BY <2>15 DEF EdgesOffered, OfferedEdges
  <2> QED BY <2>11, <2>12, <2>14, <2>16 DEF OverrunTables
<1>12. CASE Finish(w)
  <2> DEFINE u == [t EXCEPT !.pc = "ok"]
  <2>1. task' = [task EXCEPT ![w] = u] /\ u \in TaskType /\ OwnWork(u)
    BY <1>0, <1>12 DEF Finish, OwnWork, Running, Finished, TaskType
  <2> HIDE DEF u
  <2> QED BY <1>0, <1>12, <2>1, TaskWrites DEF Finish
<1> QED BY <1>1, <1>2, <1>3, <1>4, <1>5, <1>6, <1>7, <1>8, <1>9, <1>10, <1>11, <1>12
        DEF TaskStep

\* A reset, whatever it selects, keeps it: what it reopens is not terminal.
LEMMA OverrunReset ==
    ASSUME OverrunTables, FolloweesKnown, NEW S \in SUBSET Pubkeys,
           row' = [p \in Pubkeys |-> IF p \in S THEN ResetRow(row[p]) ELSE row[p]],
           UNCHANGED <<edges, clock, task, batch>>
    PROVE  OverrunTables' /\ FolloweesKnown'
<1>0. WorkersTypeOK
  BY DEF OverrunTables
<1>1. \A p \in Pubkeys : row[p] \in RowType
  BY <1>0 DEF WorkersTypeOK
<1>2. \A p \in Pubkeys : ResetRow(row[p]) \in RowType
  BY <1>1, RowStatementTypes DEF Time
<1>3. \A p \in Pubkeys : ResetRow(row[p]).status \notin Terminal
  BY <1>1 DEF ResetRow, RowType, Terminal
<1>4. /\ row' \in [Pubkeys -> RowType]
      /\ \A p \in Pubkeys : row'[p] = row[p] \/ row'[p].status \notin Terminal
  BY <1>1, <1>2, <1>3
<1>5. task' \in [Tasks -> TaskType] /\ clock' \in Nat /\ batch' \in SUBSET Pubkeys
  BY <1>0 DEF WorkersTypeOK
<1>6. OverrunTables'
  BY <1>4, <1>5, TablesMove
<1> QED BY <1>0, <1>6, ResetFollowees

\* Every other step of the daemon keeps it.
LEMMA OverrunStep ==
    ASSUME OverrunTables, FolloweesKnown, Next
    PROVE  OverrunTables' /\ FolloweesKnown'
<1>0. /\ WorkersTypeOK /\ \A w \in Tasks : OwnWork(task[w])
      /\ row \in [Pubkeys -> RowType] /\ task \in [Tasks -> TaskType]
      /\ clock \in Nat /\ clock \in Time /\ batch \in SUBSET Pubkeys
  BY DEF OverrunTables, WorkersTypeOK, Time
<1>1. OwnWork(FreeTask) /\ FreeTask \in TaskType
  BY DEF OwnWork, FreeTask, Running, TaskType, NoLists, Time
<1>2. CASE Start \/ Signal \/ CheckToken \/ Drained \/ Wake \/ LoopFail \/ DaemonTick \/ Rest
  <2>1. UNCHANGED <<row, edges, task, batch>> /\ clock' \in Nat
    BY <1>0, <1>2 DEF Start, Signal, CheckToken, Drained, Wake, LoopFail, DaemonTick, Tick,
                      Rest, workerVars, vars
  <2> QED BY <1>0, <2>1, TablesMove, LoopFollowees
<1>3. CASE Exit \/ Crash
  <2>1. ProcessGone
    BY <1>3 DEF Exit, Crash, Off
  <2>2. OverrunTables'
    BY <1>0, <1>1, <2>1, TablesMove DEF ProcessGone
  <2> QED BY <1>0, <2>1, <2>2, LoopFollowees
<1>4. CASE Seed
  <2>1. SeedAnchor /\ Anchor \in Pubkeys
    BY <1>4, WorkerConstants DEF Seed
  <2>2. /\ row' \in [Pubkeys -> RowType]
        /\ \A p \in Pubkeys : row'[p] = row[p] \/ row'[p].status = "discovered"
    BY <1>0, <2>1, UpsertType, UpsertEffect DEF SeedAnchor
  <2>3. OverrunTables'
    BY <1>0, <2>1, <2>2, TablesMove DEF SeedAnchor, Terminal
  <2> QED BY <1>0, <2>1, <2>3, LoopFollowees
<1>5. CASE Reclaim
  <2> DEFINE S == {p \in Pubkeys : row[p].status = "in_progress"}
  <2>1. row' = [p \in Pubkeys |-> IF p \in S THEN ResetRow(row[p]) ELSE row[p]]
    BY <1>5 DEF Reclaim, ReclaimOnStartup, reclaim_stale_on_startup
  <2>2. S \in SUBSET Pubkeys
    OBVIOUS
  <2> HIDE DEF S
  <2> QED BY <1>5, <2>1, <2>2, OverrunReset DEF Reclaim, ReclaimOnStartup
<1>6. CASE StalenessTimer
  <2> DEFINE S == {p \in Pubkeys : /\ row[p].status \in Terminal
                                   /\ OlderThan(row[p].last_fetched_at, Ttl, clock)}
  <2>1. row' = [p \in Pubkeys |-> IF p \in S THEN ResetRow(row[p]) ELSE row[p]]
    BY <1>6 DEF StalenessTimer, reclaim_stale_by_ttl
  <2>2. S \in SUBSET Pubkeys
    OBVIOUS
  <2> HIDE DEF S
  <2> QED BY <1>6, <2>1, <2>2, OverrunReset DEF StalenessTimer
<1>7. CASE InRunReclaimTimer
  <2> DEFINE S == {p \in Pubkeys : /\ row[p].status = "in_progress"
                                   /\ OlderThan(row[p].claimed_at, ReclaimAge, clock)}
  <2>1. row' = [p \in Pubkeys |-> IF p \in S THEN ResetRow(row[p]) ELSE row[p]]
    BY <1>7 DEF InRunReclaimTimer, reclaim_in_progress_older_than
  <2>2. S \in SUBSET Pubkeys
    OBVIOUS
  <2> HIDE DEF S
  <2> QED BY <1>7, <2>1, <2>2, OverrunReset DEF InRunReclaimTimer
<1>8. CASE Claim
  <2>1. TakeBatch
    BY <1>8 DEF Claim
  <2>2. batch' \in SUBSET Pubkeys /\ row' = claim_batch(row, batch', clock)
    BY <2>1 DEF TakeBatch, claim_selection, WithStatus
  <2>3. row' \in [Pubkeys -> RowType]
    BY <1>0, <2>2, ClaimType
  <2>4. \A p \in Pubkeys : row'[p] = row[p] \/ row'[p].status = "in_progress"
    BY <1>0, <2>2 DEF claim_batch, RowType
  <2>5. OverrunTables'
    BY <1>0, <2>1, <2>2, <2>3, <2>4, TablesMove DEF TakeBatch, Terminal
  <2> QED BY <1>0, <2>1, <2>5, LoopFollowees
<1>9. ASSUME NEW w \in Tasks, Spawn(w) PROVE OverrunTables' /\ FolloweesKnown'
  <2>1. PICK stamp \in Nat : SpawnBatch(w, stamp)
    <3>1. PICK s \in AppNow : SpawnBatch(w, s)
      BY <1>9 DEF Spawn
    <3> QED BY <1>0, <3>1, StampNat
  <2>2. SpawnedTask(batch, stamp) \in TaskType /\ OwnWork(SpawnedTask(batch, stamp))
    BY <1>0, NullDistinct
       DEF SpawnedTask, FreeTask, TaskType, NoLists, Time, OwnWork, Running, Applying
  <2>3. /\ task' \in [Tasks -> TaskType]
        /\ \A v \in Tasks : task'[v] = task[v] \/ OwnWork(task'[v])
    BY <1>0, <1>1, <2>1, <2>2 DEF SpawnBatch
  <2>4. batch' \in SUBSET Pubkeys /\ UNCHANGED <<row, edges, clock>>
    BY <2>1 DEF SpawnBatch
  <2>5. OverrunTables'
    BY <1>0, <2>3, <2>4, TablesMove
  <2> QED BY <1>0, <2>1, <2>5, LoopFollowees
<1>10. ASSUME NEW w \in Tasks, JoinNext(w) PROVE OverrunTables' /\ FolloweesKnown'
  <2>1. Joined(w)
    BY <1>10 DEF JoinNext
  <2>2. OverrunTables'
    BY <1>0, <1>1, <2>1, TaskWrites DEF Joined
  <2> QED BY <1>0, <2>1, <2>2, LoopFollowees
<1>11. ASSUME NEW w \in Tasks, WorkerFail(w) PROVE OverrunTables' /\ FolloweesKnown'
  <2>1. TaskFail(w)
    BY <1>11 DEF WorkerFail
  <2>2. PICK u : u = [task[w] EXCEPT !.pc = "err"]
    OBVIOUS
  <2>3. task' = [task EXCEPT ![w] = u] /\ u \in TaskType /\ OwnWork(u)
    BY <1>0, <2>1, <2>2 DEF TaskFail, OwnWork, Running, Finished, TaskType
  <2>4. OverrunTables'
    BY <1>0, <2>1, <2>3, TaskWrites DEF TaskFail
  <2> QED BY <1>0, <2>1, <2>4, LoopFollowees
<1>12. ASSUME NEW w \in Tasks, WorkerStep(w) PROVE OverrunTables' /\ FolloweesKnown'
  BY <1>0, <1>12, OverrunTask, TaskStepFollowees DEF WorkerStep
<1> QED BY <1>2, <1>3, <1>4, <1>5, <1>6, <1>7, <1>8, <1>9, <1>10, <1>11, <1>12
        DEF Next, LoopStep

\* Whatever a sweep takes from a live worker, by the process as a whole: types hold,
\* resolved rows are stamped, and every stored edge leads to a known key and comes from
\* a list of its follower.
THEOREM OverrunsAreContained ==
    DaemonSpec => [](TypeOK /\ TerminalStamped /\ EdgesOffered /\ FolloweesKnown)
<1>1. DaemonInit => OverrunInv
  <2> SUFFICES ASSUME Init PROVE OverrunInv
    BY DEF DaemonInit
  <2>1. TypeOK /\ WorkersInv
    BY DaemonInitInv DEF DaemonInv
  <2>2. FolloweesKnown /\ EdgesOffered
    BY FolloweesInit DEF Init, WorkersInit, EdgesOffered
  <2> QED BY <2>1, <2>2, WorkersOwn DEF OverrunInv, OverrunTables, WorkersInv
<1>2. OverrunInv /\ ProcessInv /\ [DaemonNext]_daemonVars => OverrunInv'
  <2> SUFFICES ASSUME OverrunInv, ProcessInv, [DaemonNext]_daemonVars PROVE OverrunInv'
    OBVIOUS
  <2> USE DEF OverrunInv
  <2>0. WorkersTypeOK /\ OwnWork(FreeTask) /\ FreeTask \in TaskType
    BY DEF OverrunTables, OwnWork, FreeTask, Running, TaskType, NoLists, Time
  <2>1. [Next]_vars \/ BeforeTheLoop
    BY ProcessSteps
  <2>2. CASE Next
    <3>1. OverrunTables' /\ FolloweesKnown'
      BY <2>2, OverrunStep
    <3> QED BY <2>2, <3>1, DaemonTypeStep DEF OverrunTables
  <2>3. CASE UNCHANGED vars
    <3>1. UNCHANGED <<row, edges, clock, task, batch>> /\ clock' \in Nat
      BY <2>0, <2>3 DEF vars, WorkersTypeOK
    <3>2. OverrunTables' /\ FolloweesKnown'
      BY <2>0, <3>1, TablesMove, LoopFollowees DEF WorkersTypeOK
    <3> QED BY <2>3, <3>2 DEF vars, TypeOK, OverrunTables
  <2>4. CASE BeforeTheLoop
    <3>1. ProcessGone \/ UNCHANGED workerVars
      BY <2>4 DEF BeforeTheLoop
    <3>2. OverrunTables'
      <4>1. CASE ProcessGone
        BY <2>0, <4>1, TablesMove DEF ProcessGone, WorkersTypeOK
      <4>2. CASE UNCHANGED workerVars
        BY <2>0, <4>2, TablesMove DEF workerVars, WorkersTypeOK
      <4> QED BY <3>1, <4>1, <4>2
    <3>3. FolloweesKnown'
      BY <2>0, <3>1, LoopFollowees DEF workerVars
    <3> QED BY <2>4, <3>2, <3>3 DEF OverrunTables, BeforeTheLoop, TypeOK
  <2> QED BY <2>1, <2>2, <2>3, <2>4
<1>3. OverrunInv => TypeOK /\ TerminalStamped /\ EdgesOffered /\ FolloweesKnown
  BY DEF OverrunInv, OverrunTables
<1> QED BY <1>1, <1>2, <1>3, ProcessInvariant, PTL DEF DaemonSpec
=============================================================================
