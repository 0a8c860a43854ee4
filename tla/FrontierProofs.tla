---------------------------- MODULE FrontierProofs ----------------------------
(****************************************************************************)
(* How each statement of the workers and of the loops around them maps to   *)
(* the abstract Frontier.  run_crawl and the daemon implement the Frontier  *)
(* by these lemmas.                                                         *)
(*                                                                          *)
(* What the mapping needs beyond WorkersInv is FolloweesKnown: edges are    *)
(* only published between keys that are known, because a worker inserts     *)
(* every followee of a list before it touches the edges.                    *)
(****************************************************************************)
EXTENDS WorkerProofs

\* Every stored edge ends in a known key, and a task that applies a list has
\* inserted all of its followees but those it still has to insert.
FolloweesKnown ==
    /\ \A p \in Pubkeys : edges[p] \subseteq Present(row)
    /\ \A w \in Tasks : task[w].pc \in Applying =>
          /\ task[w].got[task[w].cur].followees \subseteq
                Present(row) \cup task[w].ups
          /\ task[w].pc # "upsert" => task[w].ups = {}

\* A task knows its authors' lists and the time of its batch, whoever else may hold
\* its authors meanwhile.
OwnWork(t) ==
    t.pc \in Running =>
        /\ t.stamp # Null
        /\ \A p \in Pubkeys : t.got[p] # Null => t.got[p].follower = p
        /\ t.pc \in Applying => t.cur \in t.todo /\ t.got[t.cur] # Null

Abstract == INSTANCE Frontier WITH
    Keys <- Pubkeys, Offered <- OfferedEdges, Refreshing <- FALSE,
    phase <- Phases, graph <- edges

-----------------------------------------------------------------------------
(* Keys that are known stay known: this needs nobody's lease *)

LEMMA WorkersOwn ==
    ASSUME WorkersInv
    PROVE  WorkersTypeOK /\ \A w \in Tasks : OwnWork(task[w])
BY DEF WorkersInv, AppliesWhatItHolds, OwnWork

\* An insertion keeps every key and adds its own.
LEMMA UpsertPresent ==
    ASSUME NEW rows \in [Pubkeys -> RowType], NEW p \in Pubkeys
    PROVE  Present(upsert_pubkey(rows, p)) = Present(rows) \cup {p}
<1>1. \A q \in Pubkeys : q # p => upsert_pubkey(rows, p)[q] = rows[q]
  BY DEF upsert_pubkey
<1>2. upsert_pubkey(rows, p)[p].status # "absent"
  BY DEF upsert_pubkey, NoRow
<1> QED BY <1>1, <1>2 DEF Present

\* As long as keys stay known and a step leaves edges and appliers alone, or ends
\* their applying, FolloweesKnown is preserved.
LEMMA FolloweesStay ==
    ASSUME FolloweesKnown, Present(row) \subseteq Present(row'), edges' = edges,
           \A v \in Tasks : task'[v] = task[v] \/ task'[v].pc \notin Applying
    PROVE  FolloweesKnown'
BY DEF FolloweesKnown, Present

\* Writing one row with a status of its own loses no key.
LEMMA WritePresent ==
    ASSUME NEW rows \in [Pubkeys -> RowType], NEW a \in Pubkeys,
           NEW r, r.status # "absent"
    PROVE  Present(rows) \subseteq Present([rows EXCEPT ![a] = r])
BY DEF Present

\* A task's step keeps FolloweesKnown: the insertions come before the edges.
LEMMA TaskStepFollowees ==
    ASSUME WorkersTypeOK, FolloweesKnown, NEW w \in Tasks, OwnWork(task[w]), TaskStep(w)
    PROVE  FolloweesKnown'
<1> DEFINE t == task[w]
<1>0. /\ t \in TaskType /\ task \in [Tasks -> TaskType]
      /\ row \in [Pubkeys -> RowType]
      /\ edges \in [Pubkeys -> SUBSET Pubkeys]
      /\ clock \in Time
  BY DEF WorkersTypeOK, Time
<1>1. CASE FetchOk(w) \/ FetchErr(w) \/ Recover(w) \/ Finish(w)
  <2>1. UNCHANGED <<row, edges>> /\ task'[w].pc \notin Applying
        /\ \A v \in Tasks : v # w => task'[v] = task[v]
    BY <1>0, <1>1 DEF FetchOk, FetchErr, Recover, Finish, Applying, TaskType
  <2> QED BY <2>1, FolloweesStay
<1>2. CASE Requeue(w)
  <2>1. PICK a \in task[w].todo :
           /\ row' = [row EXCEPT ![a] = requeue_or_fail(@, MaxAttempts, task[w].stamp)]
           /\ task' = [task EXCEPT ![w].todo = @ \ {a}]
    BY <1>2 DEF Requeue
  <2>2. requeue_or_fail(row[a], MaxAttempts, task[w].stamp).status # "absent"
        /\ a \in Pubkeys
    BY <1>0 DEF requeue_or_fail, RowType, TaskType
  <2>3. Present(row) \subseteq Present(row')
    BY <1>0, <2>1, <2>2, WritePresent
  <2>4. edges' = edges /\ task'[w].pc \notin Applying
        /\ \A v \in Tasks : v # w => task'[v] = task[v]
    BY <1>0, <1>2, <2>1 DEF Requeue, Applying, TaskType
  <2> QED BY <2>3, <2>4, FolloweesStay
<1>3. CASE NotFound(w) \/ Confirm(w)
  <2>1. PICK a \in Pubkeys :
           /\ \E r \in {set_fetch_status(row[a], "not_found", task[w].stamp),
                        confirm_applied(row[a], clock)} :
                 row' = [row EXCEPT ![a] = r]
           /\ task' = [task EXCEPT ![w] = Resolved(@, a)]
    <3>1. CASE NotFound(w)
      BY <1>0, <3>1 DEF NotFound, TaskType
    <3>2. CASE Confirm(w)
      <4>1. task[w].cur \in Pubkeys
        BY <1>0, <3>2 DEF Confirm, OwnWork, Applying, Running, TaskType
      <4> QED BY <3>2, <4>1 DEF Confirm
    <3> QED BY <1>3, <3>1, <3>2
  <2>2. set_fetch_status(row[a], "not_found", task[w].stamp).status # "absent"
        /\ confirm_applied(row[a], clock).status # "absent"
    BY <1>0, <2>1 DEF set_fetch_status, confirm_applied, RowType
  <2>3. Present(row) \subseteq Present(row')
    BY <1>0, <2>1, <2>2, WritePresent
  <2>4. edges' = edges /\ task'[w].pc \notin Applying
        /\ \A v \in Tasks : v # w => task'[v] = task[v]
    BY <1>0, <1>3, <2>1 DEF NotFound, Confirm, Resolved, Applying, TaskType
  <2> QED BY <2>3, <2>4, FolloweesStay
<1>4. CASE BeginApply(w)
  <2>1. PICK a \in task[w].todo :
           /\ task[w].got[a] # Null
           /\ row' = upsert_pubkey(row, a)
           /\ task' = [task EXCEPT ![w].pc = "upsert", ![w].cur = a,
                                   ![w].ups = task[w].got[a].followees]
    BY <1>4 DEF BeginApply
  <2>2. a \in Pubkeys /\ edges' = edges
    BY <1>0, <1>4 DEF TaskType, BeginApply
  <2>3. Present(row) \subseteq Present(row')
    BY <1>0, <2>1, <2>2, UpsertPresent
  <2>4. /\ task'[w].pc = "upsert"
        /\ task'[w].got[task'[w].cur].followees \subseteq task'[w].ups
        /\ \A v \in Tasks : v # w => task'[v] = task[v]
    BY <1>0, <2>1 DEF TaskType
  <2> QED BY <2>2, <2>3, <2>4 DEF FolloweesKnown, Present
<1>5. CASE UpsertFollowee(w)
  <2>1. PICK f \in task[w].ups :
           /\ row' = upsert_pubkey(row, f)
           /\ task' = [task EXCEPT ![w].ups = @ \ {f}]
    BY <1>5 DEF UpsertFollowee
  <2>2. f \in Pubkeys /\ edges' = edges /\ task[w].pc = "upsert"
    BY <1>0, <1>5 DEF TaskType, UpsertFollowee
  <2>3. Present(row') = Present(row) \cup {f}
    BY <1>0, <2>1, <2>2, UpsertPresent
  <2>4. /\ task'[w].pc = "upsert" /\ task'[w].got = task[w].got
        /\ task'[w].cur = task[w].cur /\ task'[w].ups = task[w].ups \ {f}
        /\ \A v \in Tasks : v # w => task'[v] = task[v]
    BY <1>0, <2>1, <2>2 DEF TaskType
  <2>5. task[w].got[task[w].cur].followees \subseteq Present(row) \cup task[w].ups
    BY <2>2 DEF FolloweesKnown, Applying
  <2>6. task'[w].got[task'[w].cur].followees \subseteq Present(row') \cup task'[w].ups
    BY <2>3, <2>4, <2>5
  <2> QED BY <2>2, <2>3, <2>4, <2>6 DEF FolloweesKnown, Present
<1>6. CASE CheckApplied(w) \/ ReadEdges(w)
  <2>1. /\ UNCHANGED <<row, edges>> /\ task[w].pc \in Applying
        /\ task[w].pc = "upsert" => task[w].ups = {}
    BY <1>6 DEF CheckApplied, ReadEdges, Applying
  <2>2. /\ task'[w].got = task[w].got /\ task'[w].cur = task[w].cur
        /\ task'[w].ups = task[w].ups
        /\ \A v \in Tasks : v # w => task'[v] = task[v]
    BY <1>0, <1>6 DEF CheckApplied, ReadEdges, TaskType
  <2> QED BY <2>1, <2>2 DEF FolloweesKnown, Present
<1>7. CASE Commit(w)
  <2> DEFINE a == task[w].cur
             l == task[w].got[a]
             r == record_applied(row[a], l, clock)
             E == write_diff(edges[a], task[w].snap, wanted_edges(l))
  <2>1. /\ row' = [row EXCEPT ![a] = r]
        /\ edges' = [edges EXCEPT ![a] = E]
        /\ task' = [task EXCEPT ![w] = Resolved(@, a)]
        /\ task[w].pc = "commit"
    BY <1>7 DEF Commit
  <2>2. a \in Pubkeys /\ edges[a] \subseteq Present(row)
    BY <1>0, <2>1 DEF OwnWork, Applying, Running, TaskType, FolloweesKnown
  <2>3. l.followees \subseteq Present(row)
    BY <2>1 DEF FolloweesKnown, Applying
  <2>4. E \subseteq Present(row)
    BY <2>2, <2>3 DEF write_diff, wanted_edges
  <2>5. r.status # "absent"
    BY <1>0, <2>2 DEF record_applied, RowType
  <2>6. task'[w].pc \notin Applying /\ \A v \in Tasks : v # w => task'[v] = task[v]
    BY <1>0, <2>1 DEF Resolved, Applying, TaskType
  <2> HIDE DEF a, l, r, E
  <2>7. Present(row) \subseteq Present(row')
    BY <1>0, <2>1, <2>2, <2>5, WritePresent
  <2> QED BY <1>0, <2>1, <2>2, <2>4, <2>6, <2>7 DEF FolloweesKnown, Present
<1> QED BY <1>1, <1>2, <1>3, <1>4, <1>5, <1>6, <1>7 DEF TaskStep

\* The steps of the loops and of dying tasks keep FolloweesKnown as well.
LEMMA LoopFollowees ==
    ASSUME WorkersTypeOK, FolloweesKnown,
           \/ SeedAnchor
           \/ TakeBatch
           \/ ProcessGone
           \/ \E w \in Tasks, stamp \in Nat : SpawnBatch(w, stamp)
           \/ \E w \in Tasks : TaskFail(w) \/ Joined(w)
           \/ UNCHANGED <<row, edges, task>>
    PROVE  FolloweesKnown'
<1>0. row \in [Pubkeys -> RowType] /\ task \in [Tasks -> TaskType]
  BY DEF WorkersTypeOK
<1>1. FreeTask.pc \notin Applying /\ SpawnedTask(batch, 0).pc \notin Applying
  BY DEF FreeTask, SpawnedTask, Applying
<1>2. CASE SeedAnchor
  <2>1. Present(row) \subseteq Present(row')
    BY <1>0, <1>2, UpsertPresent, WorkerConstants DEF SeedAnchor
  <2> QED BY <1>2, <2>1, FolloweesStay DEF SeedAnchor
<1>3. CASE TakeBatch
  <2>1. Present(row) \subseteq Present(row')
    BY <1>0, <1>3 DEF TakeBatch, claim_batch, Present, RowType
  <2> QED BY <1>3, <2>1, FolloweesStay DEF TakeBatch
<1>4. CASE ProcessGone
  BY <1>1, <1>4, FolloweesStay DEF ProcessGone
<1>5. ASSUME NEW w \in Tasks, NEW stamp \in Nat, SpawnBatch(w, stamp)
      PROVE  FolloweesKnown'
  <2>1. SpawnedTask(batch, stamp).pc \notin Applying
    BY DEF FreeTask, SpawnedTask, Applying
  <2>2. \A v \in Tasks : task'[v] = task[v] \/ task'[v].pc \notin Applying
    BY <1>1, <1>5, <2>1 DEF SpawnBatch
  <2> QED BY <1>5, <2>2, FolloweesStay DEF SpawnBatch
<1>6. ASSUME NEW w \in Tasks, TaskFail(w) \/ Joined(w)
      PROVE  FolloweesKnown'
  <2>1. \A v \in Tasks : task'[v] = task[v] \/ task'[v].pc \notin Applying
    BY <1>0, <1>1, <1>6 DEF TaskFail, Joined, Applying, TaskType
  <2> QED BY <1>6, <2>1, FolloweesStay DEF TaskFail, Joined
<1>7. CASE UNCHANGED <<row, edges, task>>
  BY <1>7, FolloweesStay
<1> QED BY <1>2, <1>3, <1>4, <1>5, <1>6, <1>7

\* A reset, whatever selects its rows, loses no key.
LEMMA ResetFollowees ==
    ASSUME WorkersTypeOK, FolloweesKnown, NEW S \in SUBSET Pubkeys,
           row' = [p \in Pubkeys |-> IF p \in S THEN ResetRow(row[p]) ELSE row[p]],
           UNCHANGED <<edges, task>>
    PROVE  FolloweesKnown'
<1>1. Present(row) \subseteq Present(row')
  BY DEF Present, ResetRow, WorkersTypeOK, RowType
<1> QED BY <1>1, FolloweesStay

\* Nothing is stored and nothing runs at first.
LEMMA FolloweesInit ==
    ASSUME WorkersInit
    PROVE  FolloweesKnown
BY DEF WorkersInit, FolloweesKnown, FreeTask, Applying

-----------------------------------------------------------------------------
(* Steps as moves between phases *)

\* The phase of a row with this status, held or not.
PhaseOf(status, held) ==
    IF status = "absent" THEN "unknown"
    ELSE IF status = "discovered" THEN "open"
    ELSE IF status \in Terminal THEN "done"
    ELSE IF held THEN "held" ELSE "orphan"

\* The alternatives of Phases exclude each other.
LEMMA PhaseCases ==
    ASSUME NEW status, NEW held
    PROVE  PhaseOf(status, held) =
              CASE status = "absent"     -> "unknown"
                [] status = "discovered" -> "open"
                [] status \in Terminal   -> "done"
                [] OTHER -> IF held THEN "held" ELSE "orphan"
<1>0. "absent" # "discovered" /\ "absent" \notin Terminal /\ "discovered" \notin Terminal
  BY DEF Terminal
<1>1. CASE status = "absent"
  BY <1>0, <1>1, Zenon DEF PhaseOf
<1>2. CASE status = "discovered"
  BY <1>0, <1>2, Zenon DEF PhaseOf
<1>3. CASE status \in Terminal
  BY <1>0, <1>3, Zenon DEF PhaseOf
<1>4. CASE status \notin Terminal \cup {"absent", "discovered"}
  BY <1>4, Zenon DEF PhaseOf
<1> QED BY <1>1, <1>2, <1>3, <1>4

\* Phases is PhaseOf at every key, before a step and after it.
LEMMA PhaseRule ==
    /\ Phases = [p \in Pubkeys |-> PhaseOf(row[p].status, p \in Held)]
    /\ Phases' = [p \in Pubkeys |-> PhaseOf(row'[p].status, p \in Held')]
<1>1. ASSUME NEW p \in Pubkeys
      PROVE  /\ Phases[p] = PhaseOf(row[p].status, p \in Held)
             /\ Phases'[p] = PhaseOf(row'[p].status, p \in Held')
  BY PhaseCases, Zenon DEF Phases
<1>2. Phases = [p \in Pubkeys |-> Phases[p]] /\ Phases' = [p \in Pubkeys |-> Phases'[p]]
  BY SMT DEF Phases
<1> QED BY <1>1, <1>2, Zenon

\* The keys whose phase a step changes, and to what, make an abstract move.
LEMMA Moves ==
    ASSUME NEW S \in SUBSET Pubkeys, NEW to,
           \A p \in S : PhaseOf(row'[p].status, p \in Held') = to,
           \A p \in Pubkeys \ S :
              row'[p].status = row[p].status /\ (p \in Held' <=> p \in Held)
    PROVE  Abstract!Move(S, to)
<1>1. \A p \in Pubkeys \ S :
         PhaseOf(row'[p].status, p \in Held') = PhaseOf(row[p].status, p \in Held)
  OBVIOUS
<1>2. Phases' = [p \in Pubkeys |-> IF p \in S THEN to ELSE Phases[p]]
  BY <1>1, PhaseRule
<1> QED BY <1>2 DEF Abstract!Move

\* The keys in a phase, by the status of their rows.
LEMMA PhaseFacts ==
    ASSUME WorkersInv, NEW p \in Pubkeys
    PROVE  /\ Phases[p] = "unknown" <=> row[p].status = "absent"
           /\ row[p].status = "discovered" => Phases[p] = "open"
           /\ row[p].status \in Terminal => Phases[p] = "done"
           /\ p \in Held => Phases[p] = "held"
           /\ row[p].status = "in_progress" /\ p \notin Held => Phases[p] = "orphan"
<1>1. p \in Held => row[p].status = "in_progress"
  BY DEF WorkersInv, LeaseExclusive
<1>2. row[p].status \in Status \cup {"absent"}
  BY DEF WorkersInv, WorkersTypeOK, RowType
<1>3. Phases[p] = PhaseOf(row[p].status, p \in Held)
  BY PhaseRule
<1>4. CASE p \in Held
  BY <1>1, <1>3, <1>4 DEF PhaseOf, Terminal
<1>5. CASE p \notin Held
  BY <1>2, <1>3, <1>5 DEF PhaseOf, Status, Terminal
<1> QED BY <1>4, <1>5

\* Where neither a status nor a lease changes, no phase does.
LEMMA SamePhases ==
    ASSUME \A p \in Pubkeys : row'[p].status = row[p].status,
           Held' = Held
    PROVE  Phases' = Phases
BY PhaseRule

\* An insertion discovers a key or changes nothing.
LEMMA InsertMaps ==
    ASSUME WorkersInv, NEW f \in Pubkeys,
           row' = upsert_pubkey(row, f), edges' = edges, Held' = Held
    PROVE  Abstract!Discover \/ UNCHANGED Abstract!fvars
<1>1. row \in [Pubkeys -> RowType]
  BY DEF WorkersInv, WorkersTypeOK
<1>2. CASE row[f].status = "absent"
  <2>1. /\ row'[f].status = "discovered"
        /\ \A p \in Pubkeys \ {f} : row'[p] = row[p]
    BY <1>1, <1>2 DEF upsert_pubkey, NoRow
  <2>2. PhaseOf(row'[f].status, f \in Held') = "open"
    BY <2>1 DEF PhaseOf
  <2>3. Abstract!Move({f}, "open")
    BY <2>1, <2>2, Moves
  <2>4. f \in Abstract!In("unknown")
    BY <1>2, PhaseFacts DEF Abstract!In
  <2> QED BY <2>3, <2>4 DEF Abstract!Discover
<1>3. CASE row[f].status # "absent"
  BY <1>3, SamePhases DEF upsert_pubkey, Abstract!fvars
<1> QED BY <1>2, <1>3

\* A task that resolves an author moves just that author, which it held.
LEMMA ResolveMoves ==
    ASSUME WorkersInv, NEW w \in Tasks, NEW a \in Leased(w), NEW r, NEW t,
           row' = [row EXCEPT ![a] = r],
           task' = [task EXCEPT ![w] = t],
           batch' = batch,
           t.pc \in {"requeue", "resolve"},
           t.todo = task[w].todo \ {a}
    PROVE  /\ a \in Abstract!In("held")
           /\ \A to : PhaseOf(r.status, FALSE) = to => Abstract!Move({a}, to)
<1>1. a \in Pubkeys /\ a \in Held /\ task[w].pc \in Running /\ Held \subseteq Pubkeys
  BY DEF Held, Leased, WorkersInv, WorkersTypeOK, TaskType
<1>2. task'[w] = t /\ \A v \in Tasks : v # w => task'[v] = task[v]
  BY DEF WorkersInv, WorkersTypeOK
<1>3. /\ Leased(w)' = Leased(w) \ {a}
      /\ \A v \in Tasks : v # w => Leased(v)' = Leased(v) /\ a \notin Leased(v)
  BY <1>1, <1>2 DEF Leased, Running, WorkersInv, LeaseExclusive
<1>4. Held' = Held \ {a}
  BY <1>3 DEF Held, WorkersInv, LeaseExclusive
<1>5. row'[a] = r /\ \A p \in Pubkeys \ {a} : row'[p] = row[p]
  BY <1>1 DEF WorkersInv, WorkersTypeOK
<1>6. ASSUME NEW to, PhaseOf(r.status, FALSE) = to
      PROVE  Abstract!Move({a}, to)
  <2>1. (a \in Held') = FALSE
    BY <1>4
  <2>2. PhaseOf(row'[a].status, a \in Held') = to
    BY <1>5, <1>6, <2>1
  <2> QED BY <1>1, <1>4, <1>5, <2>2, Moves
<1>7. a \in Abstract!In("held")
  BY <1>1, PhaseFacts DEF Abstract!In
<1> QED BY <1>6, <1>7

-----------------------------------------------------------------------------
(* Every step of a task, and of the loops, maps to an abstract one *)

\* The steps that only fetch, read or finish change no row and no lease.
LEMMA QuietStep ==
    ASSUME WorkersInv, NEW w \in Tasks,
           \/ FetchOk(w) \/ FetchErr(w) \/ Recover(w) \/ CheckApplied(w)
           \/ ReadEdges(w) \/ Finish(w)
    PROVE  /\ UNCHANGED <<row, edges, batch>>
           /\ task[w].pc \in Running /\ task'[w].pc \in Running \cup {"ok"}
           /\ Leased(w)' = Leased(w)
           /\ \A v \in Tasks : v # w => task'[v] = task[v]
<1>0. task[w] \in TaskType /\ task \in [Tasks -> TaskType]
  BY DEF WorkersInv, WorkersTypeOK
<1>1. task'[w].todo = task[w].todo
  BY <1>0 DEF FetchOk, FetchErr, Recover, CheckApplied, ReadEdges, Finish, TaskType
<1>2. task[w].pc \in Running
  BY DEF FetchOk, FetchErr, Recover, CheckApplied, ReadEdges, Finish, Running
<1>3. task'[w].pc \in Running \/ (task[w].todo = {} /\ task'[w].pc = "ok")
  <2>1. CASE Finish(w)
    BY <1>0, <2>1 DEF Finish, TaskType
  <2>2. CASE CheckApplied(w)
    BY <1>0, <2>2 DEF CheckApplied, Running, TaskType
  <2>3. CASE FetchOk(w) \/ FetchErr(w) \/ Recover(w) \/ ReadEdges(w)
    BY <1>0, <2>3 DEF FetchOk, FetchErr, Recover, ReadEdges, Running, TaskType
  <2> QED BY <2>1, <2>2, <2>3
<1>4. Leased(w)' = Leased(w)
  BY <1>1, <1>2, <1>3 DEF Leased
<1>5. UNCHANGED <<row, edges, batch>> /\ \A v \in Tasks : v # w => task'[v] = task[v]
  BY <1>0 DEF FetchOk, FetchErr, Recover, CheckApplied, ReadEdges, Finish
<1> QED BY <1>2, <1>3, <1>4, <1>5

\* The steps of apply_validated before apply_follow_list insert one key.
LEMMA InsertStep ==
    ASSUME WorkersInv, NEW w \in Tasks, BeginApply(w) \/ UpsertFollowee(w)
    PROVE  /\ \E k \in Pubkeys : row' = upsert_pubkey(row, k)
           /\ UNCHANGED <<edges, batch>>
           /\ task[w].pc \in Running /\ task'[w].pc \in Running
           /\ Leased(w)' = Leased(w)
           /\ \A v \in Tasks : v # w => task'[v] = task[v]
<1>0. task[w] \in TaskType /\ task \in [Tasks -> TaskType]
  BY DEF WorkersInv, WorkersTypeOK
<1>1. \E k \in Pubkeys : row' = upsert_pubkey(row, k)
  BY <1>0 DEF BeginApply, UpsertFollowee, TaskType
<1>2. PICK c, ups : task' = [task EXCEPT ![w].pc = "upsert", ![w].cur = c, ![w].ups = ups]
  <2>1. CASE BeginApply(w)
    BY <2>1 DEF BeginApply
  <2>2. CASE UpsertFollowee(w)
    <3>1. PICK k \in task[w].ups : task' = [task EXCEPT ![w].ups = @ \ {k}]
      BY <2>2 DEF UpsertFollowee
    <3>2. task' = [task EXCEPT ![w].pc = "upsert", ![w].cur = task[w].cur,
                               ![w].ups = task[w].ups \ {k}]
      BY <1>0, <2>2, <3>1 DEF UpsertFollowee, TaskType
    <3> QED BY <3>2
  <2> QED BY <2>1, <2>2
<1>3. /\ task'[w].pc = "upsert" /\ task'[w].todo = task[w].todo
      /\ \A v \in Tasks : v # w => task'[v] = task[v]
  BY <1>0, <1>2 DEF TaskType
<1>4. task[w].pc \in Running /\ task'[w].pc \in Running
  BY <1>3 DEF BeginApply, UpsertFollowee, Running
<1>5. Leased(w)' = Leased(w)
  BY <1>3, <1>4 DEF Leased
<1> QED BY <1>1, <1>3, <1>4, <1>5 DEF BeginApply, UpsertFollowee

\* A task's step is a discovery, the end of one lease, or invisible.
LEMMA TaskStepMaps ==
    ASSUME WorkersInv, FolloweesKnown, NEW w \in Tasks, TaskStep(w)
    PROVE  Abstract!Next \/ UNCHANGED Abstract!fvars
<1> DEFINE t == task[w]
<1>0. /\ t \in TaskType /\ task \in [Tasks -> TaskType]
      /\ row \in [Pubkeys -> RowType]
      /\ edges \in [Pubkeys -> SUBSET Pubkeys]
      /\ clock \in Time
  BY DEF WorkersInv, WorkersTypeOK, Time
<1>1. CASE FetchOk(w) \/ FetchErr(w) \/ Recover(w) \/ CheckApplied(w)
           \/ ReadEdges(w) \/ Finish(w)
  <2>1. /\ UNCHANGED <<row, edges, batch>> /\ Leased(w)' = Leased(w)
        /\ \A v \in Tasks : v # w => task'[v] = task[v]
    BY <1>1, QuietStep
  <2>2. \A v \in Tasks : Leased(v)' = Leased(v)
    BY <2>1 DEF Leased
  <2>3. Held' = Held
    BY <2>1, <2>2 DEF Held
  <2> QED BY <2>1, <2>3, SamePhases DEF Abstract!fvars
<1>2. CASE BeginApply(w) \/ UpsertFollowee(w)
  <2>1. /\ UNCHANGED <<edges, batch>> /\ Leased(w)' = Leased(w)
        /\ \A v \in Tasks : v # w => task'[v] = task[v]
    BY <1>2, InsertStep
  <2>2. PICK k \in Pubkeys : row' = upsert_pubkey(row, k)
    BY <1>2, InsertStep
  <2>3. \A v \in Tasks : Leased(v)' = Leased(v)
    BY <2>1 DEF Leased
  <2>4. Held' = Held
    BY <2>1, <2>3 DEF Held
  <2> QED BY <2>1, <2>2, <2>4, InsertMaps DEF Abstract!Next
<1>3. CASE Requeue(w)
  <2>1. PICK a \in task[w].todo :
           /\ row' = [row EXCEPT ![a] = requeue_or_fail(@, MaxAttempts, task[w].stamp)]
           /\ task' = [task EXCEPT ![w].todo = @ \ {a}]
    BY <1>3 DEF Requeue
  <2> DEFINE u == [t EXCEPT !.todo = @ \ {a}]
             r == requeue_or_fail(row[a], MaxAttempts, task[w].stamp)
  <2>2. a \in Leased(w) /\ a \in Pubkeys
    BY <1>0, <1>3 DEF Requeue, Leased, Running, TaskType
  <2>3. /\ row' = [row EXCEPT ![a] = r] /\ task' = [task EXCEPT ![w] = u]
        /\ edges' = edges /\ batch' = batch
        /\ u.pc = "requeue" /\ u.todo = task[w].todo \ {a}
    BY <1>0, <1>3, <2>1, <2>2 DEF Requeue, TaskType
  <2>4. r.status \in {"failed", "discovered"}
    BY <1>0, <2>2 DEF requeue_or_fail, RowType
  <2>5. PhaseOf(r.status, FALSE) \in {"open", "done"}
    BY <2>4 DEF PhaseOf, Terminal
  <2> HIDE DEF u, r
  <2>6. /\ a \in Abstract!In("held")
        /\ Abstract!Move({a}, "open") \/ Abstract!Move({a}, "done")
    BY <2>2, <2>3, <2>5, ResolveMoves
  <2> QED BY <2>3, <2>6 DEF Abstract!Release, Abstract!Settle, Abstract!Next
<1>4. CASE NotFound(w)
  <2>1. PICK a \in task[w].todo :
           /\ row' = [row EXCEPT ![a] = set_fetch_status(@, "not_found", task[w].stamp)]
           /\ task' = [task EXCEPT ![w] = Resolved(@, a)]
    BY <1>4 DEF NotFound
  <2> DEFINE u == Resolved(t, a)
             r == set_fetch_status(row[a], "not_found", task[w].stamp)
  <2>2. a \in Leased(w) /\ a \in Pubkeys
    BY <1>0, <1>4 DEF NotFound, Leased, Running, TaskType
  <2>3. /\ row' = [row EXCEPT ![a] = r] /\ task' = [task EXCEPT ![w] = u]
        /\ edges' = edges /\ batch' = batch
        /\ u.pc = "resolve" /\ u.todo = task[w].todo \ {a}
    BY <1>0, <1>4, <2>1, <2>2 DEF NotFound, Resolved, TaskType
  <2>4. r.status = "not_found"
    BY <1>0, <2>2 DEF set_fetch_status, RowType
  <2>5. PhaseOf(r.status, FALSE) = "done"
    BY <2>4 DEF PhaseOf, Terminal
  <2> HIDE DEF u, r
  <2>6. a \in Abstract!In("held") /\ Abstract!Move({a}, "done")
    BY <2>2, <2>3, <2>5, ResolveMoves
  <2> QED BY <2>3, <2>6 DEF Abstract!Settle, Abstract!Next
<1>5. CASE Confirm(w)
  <2> DEFINE a == task[w].cur
             u == Resolved(t, a)
             r == confirm_applied(row[a], clock)
  <2>1. /\ row' = [row EXCEPT ![a] = r] /\ task' = [task EXCEPT ![w] = u]
        /\ edges' = edges /\ batch' = batch /\ task[w].pc = "confirm"
    BY <1>5 DEF Confirm
  <2>2. a \in Leased(w) /\ a \in Pubkeys
    BY <1>0, <2>1 DEF WorkersInv, AppliesWhatItHolds, Leased, Running, Applying, TaskType
  <2>3. u.pc = "resolve" /\ u.todo = task[w].todo \ {a}
    BY <1>0 DEF Resolved, TaskType
  <2>4. r.status = "fetched"
    BY <1>0, <2>2 DEF confirm_applied, RowType
  <2>5. PhaseOf(r.status, FALSE) = "done"
    BY <2>4 DEF PhaseOf, Terminal
  <2> HIDE DEF u, r, a
  <2>6. a \in Abstract!In("held") /\ Abstract!Move({a}, "done")
    BY <2>1, <2>2, <2>3, <2>5, ResolveMoves
  <2> QED BY <2>1, <2>6 DEF Abstract!Settle, Abstract!Next
<1>6. CASE Commit(w)
  <2> DEFINE a == task[w].cur
             l == task[w].got[a]
             u == Resolved(t, a)
             r == record_applied(row[a], l, clock)
             E == write_diff(edges[a], task[w].snap, wanted_edges(l))
  <2>1. /\ row' = [row EXCEPT ![a] = r] /\ task' = [task EXCEPT ![w] = u]
        /\ edges' = [edges EXCEPT ![a] = E]
        /\ batch' = batch /\ task[w].pc = "commit"
    BY <1>6 DEF Commit
  <2>2. /\ a \in Leased(w) /\ a \in Pubkeys /\ task[w].snap = edges[a]
        /\ l \in Lists /\ l.follower = a
    BY <1>0, <2>1 DEF WorkersInv, AppliesWhatItHolds, Leased, Running, Applying, TaskType
  <2>3. u.pc = "resolve" /\ u.todo = task[w].todo \ {a}
    BY <1>0 DEF Resolved, TaskType
  <2>4. r.status = "fetched"
    BY <1>0, <2>2 DEF record_applied, RowType
  <2>5. PhaseOf(r.status, FALSE) = "done"
    BY <2>4 DEF PhaseOf, Terminal
  <2>6. E = wanted_edges(l)
    BY <2>2 DEF write_diff
  <2>7. wanted_edges(l) \in OfferedEdges[a]
    BY <2>2 DEF OfferedEdges
  <2>8. wanted_edges(l) \subseteq Abstract!Known
    <3>1. wanted_edges(l) \subseteq Present(row)
      BY <2>1 DEF FolloweesKnown, Applying, wanted_edges
    <3>2. \A p \in Present(row) : p \in Pubkeys /\ Phases[p] # "unknown"
      BY PhaseFacts DEF Present
    <3> QED BY <3>1, <3>2 DEF Abstract!Known
  <2> HIDE DEF u, r, a, l, E
  <2>9. a \in Abstract!In("held") /\ Abstract!Move({a}, "done")
    BY <2>1, <2>2, <2>3, <2>5, ResolveMoves
  <2>10. Abstract!Publish
    BY <2>1, <2>6, <2>7, <2>8, <2>9 DEF Abstract!Publish
  <2> QED BY <2>10 DEF Abstract!Next
<1> QED BY <1>1, <1>2, <1>3, <1>4, <1>5, <1>6 DEF TaskStep

\* seed_anchor discovers the anchor, or finds it known.
LEMMA SeedMaps ==
    ASSUME WorkersInv, SeedAnchor
    PROVE  Abstract!Next \/ UNCHANGED Abstract!fvars
<1>1. Held' = Held
  BY DEF SeedAnchor, Held, Leased
<1> QED BY <1>1, InsertMaps, WorkerConstants DEF SeedAnchor, Abstract!Next

\* A claim leases open keys, none when it is empty.
LEMMA TakeBatchMaps ==
    ASSUME WorkersInv, batch = {}, TakeBatch
    PROVE  Abstract!Next
<1>0. row \in [Pubkeys -> RowType]
  BY DEF WorkersInv, WorkersTypeOK
<1>1. /\ batch' \subseteq WithStatus(row, {"discovered"})
      /\ row' = claim_batch(row, batch', clock)
      /\ UNCHANGED <<edges, clock, task>>
  BY DEF TakeBatch, claim_selection
<1>2. batch' \in SUBSET Pubkeys /\ \A p \in batch' : row[p].status = "discovered"
  BY <1>1 DEF WithStatus
<1>3. Held' = batch' \cup Held
  BY <1>1 DEF Held, Leased
<1>4. \A p \in batch' : row'[p].status = "in_progress" /\ p \in Held'
  BY <1>0, <1>1, <1>2, <1>3 DEF claim_batch, RowType
<1>5. \A p \in batch' : PhaseOf(row'[p].status, p \in Held') = "held"
  BY <1>4 DEF PhaseOf, Terminal
<1>6. \A p \in Pubkeys \ batch' : row'[p].status = row[p].status /\ (p \in Held' <=> p \in Held)
  BY <1>1, <1>3 DEF claim_batch
<1>7. Abstract!Move(batch', "held")
  BY <1>2, <1>5, <1>6, Moves
<1>8. batch' \subseteq Abstract!In("open")
  BY <1>2, PhaseFacts DEF Abstract!In
<1> QED BY <1>1, <1>7, <1>8 DEF Abstract!Lease, Abstract!Next

\* Handing the batch to a task, which reaps others that have finished, lets go of
\* no key.
LEMMA SpawnHolds ==
    ASSUME WorkersInv, NEW w \in Tasks, NEW stamp, SpawnBatch(w, stamp)
    PROVE  Held' = Held
<1> DEFINE u == SpawnedTask(batch, stamp)
<1>1. /\ FreeTask.pc \notin Running /\ u.pc \in Running /\ u.todo = batch
      /\ \A v \in Tasks : task[v].pc \in Finished => task[v].pc \notin Running
  BY DEF FreeTask, SpawnedTask, Running, Finished
<1> HIDE DEF u
<1>2. /\ task'[w] = u /\ task[w].pc \notin Running
      /\ \A v \in Tasks : v # w => \/ task'[v] = task[v]
                                   \/ task'[v] = FreeTask /\ task[v].pc \in Finished
      /\ batch' = {}
  BY DEF SpawnBatch, u, Running
<1>3. /\ Leased(w)' = batch /\ Leased(w) = {}
      /\ \A v \in Tasks : v # w => Leased(v)' = Leased(v)
  BY <1>1, <1>2 DEF Leased
<1> QED BY <1>2, <1>3 DEF Held

\* So it changes no phase.
LEMMA SpawnMaps ==
    ASSUME WorkersInv, NEW w \in Tasks, NEW stamp, SpawnBatch(w, stamp)
    PROVE  UNCHANGED Abstract!fvars
BY SpawnHolds, SamePhases DEF SpawnBatch, Abstract!fvars

\* Joining a finished task changes no phase.
LEMMA JoinMaps ==
    ASSUME WorkersInv, NEW w \in Tasks, Joined(w)
    PROVE  UNCHANGED Abstract!fvars
<1>1. /\ FreeTask.pc \notin Running /\ task[w].pc \notin Running
      /\ task'[w] = FreeTask /\ \A v \in Tasks : v # w => task'[v] = task[v]
      /\ UNCHANGED <<row, edges, batch>>
  BY DEF Joined, FreeTask, Running, Finished, WorkersInv, WorkersTypeOK
<1>2. \A v \in Tasks : Leased(v)' = Leased(v)
  BY <1>1 DEF Leased
<1>3. Held' = Held
  BY <1>1, <1>2 DEF Held
<1> QED BY <1>1, <1>3, SamePhases DEF Abstract!fvars

\* Whoever dies leaves behind, as orphans, the keys that nobody else holds.
LEMMA AbandonMaps ==
    ASSUME WorkersInv, NEW S \in SUBSET Held, Held' = Held \ S,
           UNCHANGED <<row, edges>>
    PROVE  Abstract!Next
<1>1. S \in SUBSET Pubkeys
  BY DEF Held, Leased, WorkersInv, WorkersTypeOK, TaskType
<1>2. \A p \in S : row'[p].status = "in_progress" /\ p \notin Held'
  BY DEF WorkersInv, LeaseExclusive
<1>3. \A p \in S : PhaseOf(row'[p].status, p \in Held') = "orphan"
  BY <1>2 DEF PhaseOf, Terminal
<1>4. Abstract!Move(S, "orphan")
  BY <1>1, <1>3, Moves
<1>5. S \subseteq Abstract!In("held")
  BY <1>1, PhaseFacts DEF Abstract!In
<1> QED BY <1>4, <1>5 DEF Abstract!Abandon, Abstract!Next

\* A task that fails abandons what is left of its batch.
LEMMA TaskFailMaps ==
    ASSUME WorkersInv, NEW w \in Tasks, TaskFail(w)
    PROVE  Abstract!Next
<1>1. /\ task'[w].pc \notin Running
      /\ \A v \in Tasks : v # w => task'[v] = task[v]
      /\ UNCHANGED <<row, edges, batch>>
  BY DEF TaskFail, Running, WorkersInv, WorkersTypeOK, TaskType
<1>2. /\ Leased(w)' = {}
      /\ \A v \in Tasks : v # w => Leased(v)' = Leased(v) /\ Leased(v) \cap Leased(w) = {}
      /\ batch \cap Leased(w) = {}
  BY <1>1 DEF Leased, WorkersInv, LeaseExclusive
<1>3. Held' = Held \ Leased(w) /\ Leased(w) \in SUBSET Held
  BY <1>1, <1>2 DEF Held
<1> QED BY <1>1, <1>3, AbandonMaps

\* A process that ends abandons everything.
LEMMA GoneMaps ==
    ASSUME WorkersInv, ProcessGone
    PROVE  Abstract!Next
<1>1. FreeTask.pc \notin Running
  BY DEF FreeTask, Running
<1>2. Held' = {} /\ UNCHANGED <<row, edges>>
  BY <1>1 DEF ProcessGone, Held, Leased
<1> QED BY <1>2, AbandonMaps

\* A reset of orphans reclaims them.
LEMMA ResetMaps ==
    ASSUME WorkersInv, NEW S \in SUBSET Pubkeys, S \cap Held = {},
           \A p \in S : row[p].status = "in_progress",
           row' = [p \in Pubkeys |-> IF p \in S THEN ResetRow(row[p]) ELSE row[p]],
           UNCHANGED <<edges, task, batch>>
    PROVE  Abstract!Next
<1>1. Held' = Held
  BY DEF Held, Leased
<1>2. \A p \in S : row'[p].status = "discovered"
  BY DEF ResetRow, WorkersInv, WorkersTypeOK, RowType
<1>3. \A p \in S : PhaseOf(row'[p].status, p \in Held') = "open"
  BY <1>2 DEF PhaseOf
<1>4. \A p \in Pubkeys \ S : row'[p].status = row[p].status /\ (p \in Held' <=> p \in Held)
  BY <1>1
<1>5. Abstract!Move(S, "open")
  BY <1>3, <1>4, Moves
<1>6. S \subseteq Abstract!In("orphan")
  BY PhaseFacts DEF Abstract!In
<1> QED BY <1>5, <1>6 DEF Abstract!Reclaim, Abstract!Next

-----------------------------------------------------------------------------
(* What a task's step leaves alone *)

\* A task writes the row of one author at a time, one that it holds, and lets go of
\* it in that step.
LEMMA WriteStep ==
    ASSUME WorkersInv, NEW w \in Tasks,
           Requeue(w) \/ NotFound(w) \/ Confirm(w) \/ Commit(w)
    PROVE  /\ batch' = batch
           /\ task[w].pc \in Running /\ task'[w].pc \in Running
           /\ task'[w].stamp = task[w].stamp
           /\ \A v \in Tasks : v # w => task'[v] = task[v]
           /\ \E a \in Leased(w) :
                 /\ row'[a].status # "in_progress"
                 /\ row'[a].last_fetched_at \in
                       {row[a].last_fetched_at, task[w].stamp, clock}
                 /\ row'[a].status \in Terminal
                       \/ row'[a].last_fetched_at = row[a].last_fetched_at
                 /\ \A p \in Pubkeys \ {a} : row'[p] = row[p]
                 /\ Leased(w)' = Leased(w) \ {a}
                 /\ Held' = Held \ {a}
<1>0. /\ task[w] \in TaskType /\ task \in [Tasks -> TaskType]
      /\ row \in [Pubkeys -> RowType]
  BY DEF WorkersInv, WorkersTypeOK
<1>1. task[w].pc \in Running /\ batch' = batch
  BY DEF Requeue, NotFound, Confirm, Commit, Running
<1>2. PICK a \in task[w].todo :
         /\ row'[a].status # "in_progress"
         /\ row'[a].last_fetched_at \in {row[a].last_fetched_at, task[w].stamp, clock}
         /\ row'[a].status \in Terminal \/ row'[a].last_fetched_at = row[a].last_fetched_at
         /\ \A p \in Pubkeys \ {a} : row'[p] = row[p]
         /\ task'[w].pc \in {"requeue", "resolve"}
         /\ task'[w].stamp = task[w].stamp
         /\ task'[w].todo = task[w].todo \ {a}
         /\ \A v \in Tasks : v # w => task'[v] = task[v]
  <2>1. CASE Requeue(w)
    <3>1. PICK a \in task[w].todo :
             /\ row' = [row EXCEPT ![a] = requeue_or_fail(@, MaxAttempts, task[w].stamp)]
             /\ task' = [task EXCEPT ![w].todo = @ \ {a}]
      BY <2>1 DEF Requeue
    <3> DEFINE r == requeue_or_fail(row[a], MaxAttempts, task[w].stamp)
    <3>2. /\ r.status # "in_progress" /\ a \in Pubkeys
          /\ r.last_fetched_at \in {row[a].last_fetched_at, task[w].stamp}
          /\ r.status \in Terminal \/ r.last_fetched_at = row[a].last_fetched_at
      BY <1>0 DEF requeue_or_fail, RowType, TaskType, Terminal
    <3>3. /\ task'[w].pc = "requeue" /\ task'[w].todo = task[w].todo \ {a}
          /\ task'[w].stamp = task[w].stamp
          /\ \A v \in Tasks : v # w => task'[v] = task[v]
      BY <1>0, <2>1, <3>1 DEF Requeue, TaskType
    <3>4. row' = [row EXCEPT ![a] = r]
      BY <3>1
    <3> HIDE DEF r
    <3> QED BY <1>0, <3>2, <3>3, <3>4
  <2>2. CASE NotFound(w)
    <3>1. PICK a \in task[w].todo :
             /\ row' = [row EXCEPT ![a] = set_fetch_status(@, "not_found", task[w].stamp)]
             /\ task' = [task EXCEPT ![w] = Resolved(@, a)]
      BY <2>2 DEF NotFound
    <3> DEFINE r == set_fetch_status(row[a], "not_found", task[w].stamp)
    <3>2. /\ r.status # "in_progress" /\ a \in Pubkeys
          /\ r.last_fetched_at = task[w].stamp /\ r.status \in Terminal
      BY <1>0 DEF set_fetch_status, RowType, TaskType, Terminal
    <3>3. /\ task'[w].pc = "resolve" /\ task'[w].todo = task[w].todo \ {a}
          /\ task'[w].stamp = task[w].stamp
          /\ \A v \in Tasks : v # w => task'[v] = task[v]
      BY <1>0, <3>1 DEF Resolved, TaskType
    <3>4. row' = [row EXCEPT ![a] = r]
      BY <3>1
    <3> HIDE DEF r
    <3> QED BY <1>0, <3>2, <3>3, <3>4
  <2>3. CASE Confirm(w) \/ Commit(w)
    <3> DEFINE a == task[w].cur
               l == task[w].got[a]
    <3>1. a \in Pubkeys /\ a \in task[w].todo
      BY <1>0, <2>3 DEF Confirm, Commit, WorkersInv, AppliesWhatItHolds, Applying,
                        Running, TaskType
    <3>2. /\ confirm_applied(row[a], clock).status = "fetched"
          /\ confirm_applied(row[a], clock).last_fetched_at = clock
          /\ record_applied(row[a], l, clock).status = "fetched"
          /\ record_applied(row[a], l, clock).last_fetched_at = clock
      BY <1>0, <3>1 DEF confirm_applied, record_applied, RowType
    <3>3. \E r : row' = [row EXCEPT ![a] = r] /\ r.status = "fetched"
                /\ r.last_fetched_at = clock
      BY <2>3, <3>2 DEF Confirm, Commit
    <3>4. task' = [task EXCEPT ![w] = Resolved(@, a)]
      BY <2>3 DEF Confirm, Commit
    <3>5. /\ task'[w].pc = "resolve" /\ task'[w].todo = task[w].todo \ {a}
          /\ task'[w].stamp = task[w].stamp
          /\ \A v \in Tasks : v # w => task'[v] = task[v]
      BY <1>0, <3>4 DEF Resolved, TaskType
    <3> HIDE DEF a, l
    <3> QED BY <1>0, <3>1, <3>3, <3>5 DEF Terminal
  <2> QED BY <2>1, <2>2, <2>3
<1>3. task'[w].pc \in Running
  BY <1>2 DEF Running
<1>4. Leased(w)' = Leased(w) \ {a} /\ a \in Leased(w)
  BY <1>1, <1>2, <1>3 DEF Leased
<1>5. \A v \in Tasks : v # w => Leased(v)' = Leased(v) /\ a \notin Leased(v)
  BY <1>2, <1>4 DEF Leased, WorkersInv, LeaseExclusive
<1>6. Held' = Held \ {a}
  BY <1>1, <1>4, <1>5 DEF Held, WorkersInv, LeaseExclusive
<1> QED BY <1>1, <1>2, <1>3, <1>4, <1>6

\* A task's step neither leases a row nor lets go of one that stays leased, does
\* not fail, and leaves alone every row that stays held.
LEMMA TaskStepKeeps ==
    ASSUME WorkersInv, NEW w \in Tasks, TaskStep(w)
    PROVE  /\ batch' = batch
           /\ task[w].pc \in Running /\ task'[w].pc \in Running \cup {"ok"}
           /\ \A v \in Tasks : v # w => task'[v] = task[v]
           /\ \A p \in Pubkeys : row'[p].status = "in_progress" =>
                 /\ row[p].status = "in_progress"
                 /\ p \in Leased(w) => p \in Leased(w)'
           /\ Held' \subseteq Held
           /\ \A p \in Held' : row'[p] = row[p]
<1>0. row \in [Pubkeys -> RowType] /\ Held \subseteq Pubkeys
  BY DEF WorkersInv, WorkersTypeOK, Held, Leased, TaskType
<1>1. CASE FetchOk(w) \/ FetchErr(w) \/ Recover(w) \/ CheckApplied(w)
           \/ ReadEdges(w) \/ Finish(w)
  <2>1. /\ UNCHANGED <<row, edges, batch>>
        /\ task[w].pc \in Running /\ task'[w].pc \in Running \cup {"ok"}
        /\ Leased(w)' = Leased(w)
        /\ \A v \in Tasks : v # w => task'[v] = task[v]
    BY <1>1, QuietStep
  <2>2. \A v \in Tasks : Leased(v)' = Leased(v)
    BY <2>1 DEF Leased
  <2>3. Held' = Held
    BY <2>1, <2>2 DEF Held
  <2> QED BY <2>1, <2>3
<1>2. CASE BeginApply(w) \/ UpsertFollowee(w)
  <2>1. /\ batch' = batch /\ Leased(w)' = Leased(w)
        /\ task[w].pc \in Running /\ task'[w].pc \in Running
        /\ \A v \in Tasks : v # w => task'[v] = task[v]
    BY <1>2, InsertStep
  <2>2. PICK k \in Pubkeys : row' = upsert_pubkey(row, k)
    BY <1>2, InsertStep
  <2>3. \A p \in Pubkeys :
           \/ row'[p] = row[p]
           \/ row[p].status = "absent" /\ row'[p].status = "discovered"
    BY <1>0, <2>2, UpsertEffect
  <2>4. \A v \in Tasks : Leased(v)' = Leased(v)
    BY <2>1 DEF Leased
  <2>5. Held' = Held
    BY <2>1, <2>4 DEF Held
  <2>6. \A p \in Held' : row'[p] = row[p]
    BY <1>0, <2>3, <2>5 DEF WorkersInv, LeaseExclusive
  <2> QED BY <2>1, <2>3, <2>5, <2>6
<1>3. CASE Requeue(w) \/ NotFound(w) \/ Confirm(w) \/ Commit(w)
  BY <1>0, <1>3, WriteStep
<1> QED BY <1>1, <1>2, <1>3 DEF TaskStep
=============================================================================
