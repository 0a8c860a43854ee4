----------------------------- MODULE WorkerProofs -----------------------------
(****************************************************************************)
(* What the statements of PubkeyStore and the steps of BatchWorkers         *)
(* preserve, for every set of keys, lists and tasks.  The proofs about      *)
(* run_crawl and about the daemon rest on these lemmas.                     *)
(****************************************************************************)
EXTENDS BatchWorkers, FiniteSetTheorems, TLAPS

-----------------------------------------------------------------------------
(* Rows keep their type under every statement *)

\* A row that upsert_pubkey inserts is well typed: the new id is one more than a
\* cardinality.
LEMMA UpsertType ==
    ASSUME NEW rows \in [Pubkeys -> RowType], NEW p \in Pubkeys
    PROVE  upsert_pubkey(rows, p) \in [Pubkeys -> RowType]
<1>1. Cardinality(Present(rows)) \in Nat
  <2>1. Present(rows) \subseteq Pubkeys
    BY DEF Present
  <2> QED BY <2>1, PubkeysFinite, FS_Subset, FS_CardinalityType
<1> DEFINE n == 1 + Cardinality(Present(rows))
<1>2. n \in Nat
  BY <1>1
<1> HIDE DEF n
<1>3. [NoRow EXCEPT !.id = n, !.status = "discovered"] \in RowType
  BY <1>2 DEF NoRow, RowType, Status, Time
<1>4. upsert_pubkey(rows, p) = IF rows[p].status = "absent"
         THEN [rows EXCEPT ![p] = [NoRow EXCEPT !.id = n, !.status = "discovered"]]
         ELSE rows
  BY DEF upsert_pubkey, n
<1> QED BY <1>3, <1>4

\* upsert_pubkey changes nothing but the row it inserts.
LEMMA UpsertEffect ==
    ASSUME NEW rows \in [Pubkeys -> RowType], NEW p \in Pubkeys, NEW q \in Pubkeys
    PROVE  \/ upsert_pubkey(rows, p)[q] = rows[q]
           \/ /\ q = p
              /\ rows[q].status = "absent"
              /\ upsert_pubkey(rows, p)[q].status = "discovered"
              /\ upsert_pubkey(rows, p)[q].claimed_at = Null
              /\ upsert_pubkey(rows, p)[q].last_fetched_at = Null
              /\ upsert_pubkey(rows, p)[q].fetch_attempts = 0
              /\ upsert_pubkey(rows, p)[q].applied = Null
BY DEF upsert_pubkey, NoRow, RowType

\* Every statement on one row yields a well-typed row.
LEMMA RowStatementTypes ==
    ASSUME NEW r \in RowType, NEW t \in Time
    PROVE  /\ ResetRow(r) \in RowType
           /\ requeue_or_fail(r, MaxAttempts, t) \in RowType
           /\ set_fetch_status(r, "not_found", t) \in RowType
           /\ confirm_applied(r, t) \in RowType
           /\ \A l \in Lists : record_applied(r, l, t) \in RowType
<1> USE DEF RowType, Status, Terminal, Time
<1>1. ResetRow(r) \in RowType
  BY DEF ResetRow
<1>2. requeue_or_fail(r, MaxAttempts, t) \in RowType
  <2> DEFINE spent == r.fetch_attempts + 1 >= MaxAttempts
  <2>1. r.fetch_attempts + 1 \in Nat
    OBVIOUS
  <2>2. CASE spent
    BY <2>1, <2>2 DEF requeue_or_fail
  <2>3. CASE ~spent
    BY <2>1, <2>3 DEF requeue_or_fail
  <2> QED BY <2>2, <2>3
<1>3. set_fetch_status(r, "not_found", t) \in RowType
  BY DEF set_fetch_status
<1>4. confirm_applied(r, t) \in RowType
  BY DEF confirm_applied
<1>5. \A l \in Lists : record_applied(r, l, t) \in RowType
  BY DEF record_applied
<1> QED BY <1>1, <1>2, <1>3, <1>4, <1>5

\* claim_batch yields a well-typed table.
LEMMA ClaimType ==
    ASSUME NEW rows \in [Pubkeys -> RowType], NEW S \in SUBSET Pubkeys, NEW t \in Time
    PROVE  claim_batch(rows, S, t) \in [Pubkeys -> RowType]
BY DEF claim_batch, RowType, Status, Time

-----------------------------------------------------------------------------
(* The three shapes of a worker step *)

\* What AppliesWhatItHolds says of one task record, with the edges as a parameter.
SoundTask(t, E) ==
    t.pc \in Running =>
        /\ t.stamp # Null
        /\ \A p \in Pubkeys : t.got[p] # Null => t.got[p].follower = p
        /\ t.pc \in Applying => t.cur \in t.todo /\ t.got[t.cur] # Null
        /\ t.pc = "commit" => t.snap = E[t.cur]

\* A step that only moves one task on, keeping or dropping what the task holds,
\* preserves the invariant.
LEMMA Advance ==
    ASSUME WorkersInv, NEW w \in Tasks, NEW t \in TaskType,
           task' = [task EXCEPT ![w] = t],
           t.pc \in Running => task[w].pc \in Running /\ t.todo = task[w].todo,
           SoundTask(t, edges),
           UNCHANGED <<row, edges, clock, batch>>
    PROVE  WorkersInv'
<1> USE DEF WorkersInv
<1>1. WorkersTypeOK'
  BY DEF WorkersTypeOK
<1>2. task'[w] = t /\ \A v \in Tasks : v # w => task'[v] = task[v]
  BY DEF WorkersTypeOK
<1>3. \A v \in Tasks : Leased(v)' \subseteq Leased(v)
  BY <1>2 DEF Leased
<1>4. LeaseExclusive'
  <2>1. Held' \subseteq Held
    BY <1>3 DEF Held
  <2> QED BY <1>3, <2>1 DEF LeaseExclusive
<1>5. AppliesWhatItHolds'
  BY <1>2 DEF AppliesWhatItHolds, SoundTask
<1>6. AbsentIsBlank' /\ EdgesMirrorApplied' /\ TerminalStamped' /\ AttemptBudget'
  BY DEF AbsentIsBlank, EdgesMirrorApplied, TerminalStamped, AttemptBudget
<1> QED BY <1>1, <1>4, <1>5, <1>6

\* Inserting a key keeps every fact about rows and leases: nobody can hold a key
\* that has no row yet.
LEMMA InsertRows ==
    ASSUME WorkersInv, NEW f \in Pubkeys,
           row' = upsert_pubkey(row, f),
           UNCHANGED <<edges, batch>>,
           Held' = Held, \A v \in Tasks : Leased(v)' = Leased(v)
    PROVE  /\ AbsentIsBlank' /\ EdgesMirrorApplied' /\ TerminalStamped' /\ AttemptBudget'
           /\ LeaseExclusive'
<1> USE DEF WorkersInv
<1>1. row \in [Pubkeys -> RowType]
  BY DEF WorkersTypeOK
<1>2. \A q \in Pubkeys : \/ row'[q] = row[q]
                         \/ /\ row[q].status = "absent"
                            /\ row'[q].status = "discovered"
                            /\ row'[q].fetch_attempts = 0
                            /\ row'[q].applied = Null
  BY <1>1, UpsertEffect
<1>4. Held \subseteq Pubkeys
  BY DEF Held, Leased, WorkersTypeOK, TaskType
<1>5. LeaseExclusive'
  BY <1>2, <1>4 DEF LeaseExclusive
<1>7. AbsentIsBlank'
  BY <1>2 DEF AbsentIsBlank
<1>8. EdgesMirrorApplied'
  BY <1>2 DEF EdgesMirrorApplied, AbsentIsBlank, NoRow
<1>9. TerminalStamped'
  BY <1>2 DEF TerminalStamped, Terminal
<1>10. AttemptBudget'
  BY <1>2, WorkerConstants DEF AttemptBudget
<1> QED BY <1>5, <1>7, <1>8, <1>9, <1>10

\* A step in which a task resolves an author it holds preserves the invariant,
\* as long as the row and the edges it writes agree with each other.
LEMMA Resolve ==
    ASSUME WorkersInv, NEW w \in Tasks, NEW a \in Leased(w),
           NEW r \in RowType, NEW E \in SUBSET Pubkeys, NEW t \in TaskType,
           row' = [row EXCEPT ![a] = r],
           edges' = [edges EXCEPT ![a] = E],
           task' = [task EXCEPT ![w] = t],
           UNCHANGED <<clock, batch>>,
           t.pc \in {"requeue", "resolve"},
           t.todo = task[w].todo \ {a},
           t.got = task[w].got, t.stamp = task[w].stamp,
           r.status \in Terminal \cup {"discovered"},
           r.status \in Terminal => r.last_fetched_at # Null,
           r.fetch_attempts <= MaxAttempts,
           r.status = "discovered" => r.fetch_attempts < MaxAttempts,
           E = IF r.applied = Null THEN {} ELSE wanted_edges(r.applied)
    PROVE  WorkersInv'
<1> USE DEF WorkersInv
<1>0. a \in Pubkeys /\ a \in task[w].todo /\ task[w].pc \in Running
  BY DEF Leased, WorkersTypeOK, TaskType
<1>1. WorkersTypeOK'
  BY <1>0 DEF WorkersTypeOK
<1>2. /\ row'[a] = r /\ edges'[a] = E
      /\ \A q \in Pubkeys : q # a => row'[q] = row[q] /\ edges'[q] = edges[q]
  BY <1>0 DEF WorkersTypeOK
<1>3. task'[w] = t /\ \A v \in Tasks : v # w => task'[v] = task[v]
  BY DEF WorkersTypeOK
<1>4. /\ Leased(w)' = Leased(w) \ {a}
      /\ \A v \in Tasks : v # w => Leased(v)' = Leased(v)
  BY <1>0, <1>3 DEF Leased, Running
<1>5. a \notin batch /\ \A v \in Tasks : v # w => a \notin Leased(v)
  BY DEF LeaseExclusive
<1>6. LeaseExclusive'
  <2>1. Held' \subseteq Held \ {a}
    BY <1>4, <1>5 DEF Held
  <2>2. Held \subseteq Pubkeys
    BY DEF Held, Leased, WorkersTypeOK, TaskType
  <2>3. \A p \in Held' : row'[p].status = "in_progress"
    BY <1>2, <2>1, <2>2 DEF LeaseExclusive
  <2>4. /\ \A u, v \in Tasks : u # v => Leased(u)' \cap Leased(v)' = {}
        /\ \A v \in Tasks : Leased(v)' \cap batch' = {}
    BY <1>4 DEF LeaseExclusive
  <2> QED BY <2>3, <2>4 DEF LeaseExclusive
<1>7. AppliesWhatItHolds'
  <2>1. \A v \in Tasks : v # w /\ task[v].pc = "commit" => task[v].cur # a
    BY <1>5 DEF AppliesWhatItHolds, Leased, Running, Applying
  <2>2. \A v \in Tasks : v # w /\ task[v].pc = "commit" =>
           task[v].cur \in Pubkeys /\ edges'[task[v].cur] = edges[task[v].cur]
    BY <1>2, <2>1 DEF AppliesWhatItHolds, Running, Applying, WorkersTypeOK, TaskType
  <2>3. ASSUME NEW v \in Tasks, v # w, task'[v].pc \in Running
        PROVE  SoundTask(task'[v], edges')
    BY <1>3, <2>2, <2>3 DEF AppliesWhatItHolds, SoundTask
  <2>4. SoundTask(task'[w], edges')
    BY <1>0, <1>3 DEF AppliesWhatItHolds, SoundTask, Applying
  <2> QED BY <2>3, <2>4 DEF AppliesWhatItHolds, SoundTask
<1>8. AbsentIsBlank'
  BY <1>2 DEF AbsentIsBlank, Terminal
<1>9. EdgesMirrorApplied'
  BY <1>2 DEF EdgesMirrorApplied
<1>10. TerminalStamped'
  BY <1>2 DEF TerminalStamped
<1>11. AttemptBudget'
  BY <1>2 DEF AttemptBudget, Terminal
<1> QED BY <1>1, <1>6, <1>7, <1>8, <1>9, <1>10, <1>11

-----------------------------------------------------------------------------
(* Every step of a task *)

\* A task's step preserves the invariant: fetching and reading only advance the
\* task, an upsert inserts, and each write resolves an author the task holds.
LEMMA TaskStepInv ==
    ASSUME WorkersInv, NEW w \in Tasks, TaskStep(w)
    PROVE  WorkersInv'
<1> DEFINE t == task[w]
<1>0. /\ t \in TaskType
      /\ task[w].pc \in Running => SoundTask(t, edges)
      /\ row \in [Pubkeys -> RowType]
      /\ edges \in [Pubkeys -> SUBSET Pubkeys]
      /\ clock \in Time
  BY DEF WorkersInv, WorkersTypeOK, AppliesWhatItHolds, SoundTask, Time
<1>1. CASE FetchOk(w)
  <2>1. PICK got \in [Pubkeys -> Lists \cup {Null}] :
           /\ \A p \in Pubkeys : got[p] # Null =>
                 p \in task[w].todo \ BadKeys /\ got[p].follower = p
           /\ task' = [task EXCEPT ![w].pc = "resolve", ![w].got = got]
    BY <1>1 DEF FetchOk
  <2> DEFINE u == [t EXCEPT !.pc = "resolve", !.got = got]
  <2>2. task' = [task EXCEPT ![w] = u] /\ u \in TaskType
    BY <1>0, <2>1 DEF WorkersInv, WorkersTypeOK, TaskType, Running
  <2>3. task[w].pc \in Running /\ u.pc \in Running /\ u.todo = task[w].todo
    BY <1>0, <1>1 DEF FetchOk, Running, TaskType
  <2>4. SoundTask(u, edges)
    BY <1>0, <2>1, <2>3 DEF SoundTask, Applying, TaskType
  <2> HIDE DEF u
  <2> QED BY <1>1, <2>2, <2>3, <2>4, Advance DEF FetchOk
<1>2. CASE FetchErr(w)
  <2> DEFINE u == [t EXCEPT !.pc = "requeue"]
  <2>2. task' = [task EXCEPT ![w] = u] /\ u \in TaskType
    BY <1>0, <1>2 DEF FetchErr, WorkersInv, WorkersTypeOK, TaskType, Running
  <2>3. task[w].pc \in Running /\ u.pc \in Running /\ u.todo = task[w].todo
    BY <1>0, <1>2 DEF FetchErr, Running, TaskType
  <2>4. SoundTask(u, edges)
    BY <1>0, <2>3 DEF SoundTask, Applying, TaskType
  <2> HIDE DEF u
  <2> QED BY <1>2, <2>2, <2>3, <2>4, Advance DEF FetchErr
<1>3. CASE Requeue(w)
  <2>1. PICK a \in task[w].todo :
           /\ row' = [row EXCEPT ![a] = requeue_or_fail(@, MaxAttempts, task[w].stamp)]
           /\ task' = [task EXCEPT ![w].todo = @ \ {a}]
    BY <1>3 DEF Requeue
  <2> DEFINE u == [t EXCEPT !.todo = @ \ {a}]
             r == requeue_or_fail(row[a], MaxAttempts, task[w].stamp)
  <2>2. /\ a \in Pubkeys /\ a \in Leased(w)
        /\ row[a] \in RowType /\ task[w].stamp \in Time /\ task[w].stamp # Null
    BY <1>0, <1>3 DEF Requeue, TaskType, Leased, Running, SoundTask
  <2>3. row[a].status = "in_progress"
    BY <2>2 DEF WorkersInv, LeaseExclusive, Held
  <2>4. row[a].fetch_attempts \in Nat /\ row[a].fetch_attempts < MaxAttempts
    BY <2>2, <2>3 DEF WorkersInv, AttemptBudget, RowType
  <2>5. /\ r.status \in {"failed", "discovered"}
        /\ r.status = "failed" => r.last_fetched_at = task[w].stamp
        /\ r.fetch_attempts = row[a].fetch_attempts + 1
        /\ r.status = "discovered" => ~(row[a].fetch_attempts + 1 >= MaxAttempts)
        /\ r.applied = row[a].applied
    BY <2>2 DEF requeue_or_fail, RowType
  <2>6. r \in RowType
    BY <2>2, RowStatementTypes
  <2>7. /\ task' = [task EXCEPT ![w] = u] /\ u \in TaskType
        /\ u.pc = "requeue" /\ u.todo = task[w].todo \ {a}
        /\ u.got = task[w].got /\ u.stamp = task[w].stamp
    BY <1>0, <1>3, <2>1 DEF Requeue, WorkersInv, WorkersTypeOK, TaskType, Running
  <2>8. row' = [row EXCEPT ![a] = r] /\ edges' = [edges EXCEPT ![a] = edges[a]]
    BY <1>0, <1>3, <2>1, <2>2 DEF Requeue
  <2>9. edges[a] = IF r.applied = Null THEN {} ELSE wanted_edges(r.applied)
    BY <2>2, <2>5 DEF WorkersInv, EdgesMirrorApplied
  <2>10. UNCHANGED <<clock, batch>>
    BY <1>3 DEF Requeue
  <2>11. r.fetch_attempts <= MaxAttempts
         /\ (r.status = "discovered" => r.fetch_attempts < MaxAttempts)
    BY <2>4, <2>5, WorkerConstants
  <2>12. edges[a] \in SUBSET Pubkeys
    BY <1>0, <2>2
  <2> HIDE DEF u, r
  <2> QED BY <2>2, <2>5, <2>6, <2>7, <2>8, <2>9, <2>10, <2>11, <2>12, Resolve DEF Terminal
<1>4. CASE NotFound(w)
  <2>1. PICK a \in task[w].todo :
           /\ row' = [row EXCEPT ![a] = set_fetch_status(@, "not_found", task[w].stamp)]
           /\ task' = [task EXCEPT ![w] = Resolved(@, a)]
    BY <1>4 DEF NotFound
  <2> DEFINE u == Resolved(t, a)
             r == set_fetch_status(row[a], "not_found", task[w].stamp)
  <2>2. /\ a \in Pubkeys /\ a \in Leased(w)
        /\ row[a] \in RowType /\ task[w].stamp \in Time /\ task[w].stamp # Null
    BY <1>0, <1>4 DEF NotFound, TaskType, Leased, Running, SoundTask
  <2>3. row[a].status = "in_progress"
    BY <2>2 DEF WorkersInv, LeaseExclusive, Held
  <2>4. /\ r \in RowType
        /\ r.status = "not_found" /\ r.last_fetched_at = task[w].stamp
        /\ r.fetch_attempts = row[a].fetch_attempts /\ r.applied = row[a].applied
    BY <2>2 DEF set_fetch_status, RowType, Status, Terminal
  <2>5. /\ task' = [task EXCEPT ![w] = u] /\ u \in TaskType
        /\ u.pc = "resolve" /\ u.todo = task[w].todo \ {a}
        /\ u.got = task[w].got /\ u.stamp = task[w].stamp
    BY <1>0, <2>1 DEF Resolved, WorkersInv, WorkersTypeOK, TaskType, Running
  <2>6. row' = [row EXCEPT ![a] = r] /\ edges' = [edges EXCEPT ![a] = edges[a]]
    BY <1>0, <1>4, <2>1, <2>2 DEF NotFound
  <2>7. edges[a] = IF r.applied = Null THEN {} ELSE wanted_edges(r.applied)
    BY <2>2, <2>4 DEF WorkersInv, EdgesMirrorApplied
  <2>8. UNCHANGED <<clock, batch>>
    BY <1>4 DEF NotFound
  <2>9. r.fetch_attempts <= MaxAttempts
    BY <2>2, <2>4 DEF WorkersInv, AttemptBudget
  <2>10. edges[a] \in SUBSET Pubkeys
    BY <1>0, <2>2
  <2> HIDE DEF u, r
  <2> QED BY <2>2, <2>4, <2>5, <2>6, <2>7, <2>8, <2>9, <2>10, Resolve DEF Terminal
<1>5. CASE Recover(w)
  <2>1. PICK a \in task[w].todo \ BadKeys, l \in Lists :
           l.follower = a /\ task' = [task EXCEPT ![w].got[a] = l]
    BY <1>5 DEF Recover
  <2> DEFINE u == [t EXCEPT !.got[a] = l]
  <2>2. task' = [task EXCEPT ![w] = u] /\ u \in TaskType
    BY <1>0, <2>1 DEF WorkersInv, WorkersTypeOK, TaskType
  <2>3. task[w].pc \in Running /\ u.pc = "resolve" /\ u.todo = task[w].todo
    BY <1>0, <1>5 DEF Recover, Running, TaskType
  <2>4. /\ u.stamp = task[w].stamp
        /\ \A p \in Pubkeys : u.got[p] = task[w].got[p] \/ (p = a /\ u.got[p] = l)
    BY <1>0 DEF TaskType
  <2>5. SoundTask(u, edges)
    BY <1>0, <2>1, <2>3, <2>4 DEF SoundTask, Applying
  <2> HIDE DEF u
  <2> QED BY <1>5, <2>2, <2>3, <2>5, Advance DEF Recover
<1>6. CASE BeginApply(w)
  <2>1. PICK a \in task[w].todo :
           /\ task[w].got[a] # Null
           /\ row' = upsert_pubkey(row, a)
           /\ task' = [task EXCEPT ![w].pc = "upsert", ![w].cur = a,
                                   ![w].ups = task[w].got[a].followees]
    BY <1>6 DEF BeginApply
  <2>2. /\ a \in Pubkeys /\ a \in Leased(w)
        /\ task[w].got[a] \in Lists /\ task[w].pc = "resolve"
    BY <1>0, <1>6, <2>1 DEF BeginApply, TaskType, Leased, Running
  <2>3. row[a].status = "in_progress"
    BY <2>2 DEF WorkersInv, LeaseExclusive, Held
  <2>4. row' = row
    BY <2>1, <2>3 DEF upsert_pubkey
  <2> DEFINE u == [t EXCEPT !.pc = "upsert", !.cur = a, !.ups = task[w].got[a].followees]
  <2>5. task' = [task EXCEPT ![w] = u] /\ u \in TaskType
    BY <1>0, <2>1, <2>2, ListsTyped DEF WorkersInv, WorkersTypeOK, TaskType, Running, ListType
  <2>6. /\ u.pc = "upsert" /\ u.todo = task[w].todo /\ u.cur = a
        /\ u.got = task[w].got /\ u.stamp = task[w].stamp
    BY <1>0 DEF TaskType
  <2>7. SoundTask(u, edges)
    BY <1>0, <2>1, <2>2, <2>6 DEF SoundTask, Applying, Running
  <2>8. UNCHANGED <<row, edges, clock, batch>>
    BY <1>6, <2>4 DEF BeginApply
  <2>9. task[w].pc \in Running
    BY <2>2 DEF Running
  <2> HIDE DEF u
  <2> QED BY <2>5, <2>6, <2>7, <2>8, <2>9, Advance
<1>7. CASE UpsertFollowee(w)
  <2>1. PICK f \in task[w].ups :
           /\ row' = upsert_pubkey(row, f)
           /\ task' = [task EXCEPT ![w].ups = @ \ {f}]
    BY <1>7 DEF UpsertFollowee
  <2>2. f \in Pubkeys /\ task[w].pc = "upsert" /\ UNCHANGED <<edges, clock, batch>>
    BY <1>0, <1>7 DEF UpsertFollowee, TaskType
  <2>3. row' \in [Pubkeys -> RowType]
    BY <1>0, <2>1, <2>2, UpsertType
  <2> DEFINE u == [t EXCEPT !.ups = @ \ {f}]
  <2>4. task' = [task EXCEPT ![w] = u] /\ u \in TaskType
    BY <1>0, <2>1 DEF WorkersInv, WorkersTypeOK, TaskType
  <2>5. /\ u.pc = "upsert" /\ u.todo = task[w].todo /\ u.cur = task[w].cur
        /\ u.got = task[w].got /\ u.stamp = task[w].stamp
    BY <1>0, <2>2 DEF TaskType
  <2>6. SoundTask(u, edges)
    BY <1>0, <2>2, <2>5 DEF SoundTask, Applying, Running
  <2> HIDE DEF u
  <2>7. task'[w] = u /\ \A v \in Tasks : v # w => task'[v] = task[v]
    BY <2>4 DEF WorkersInv, WorkersTypeOK
  <2>8. /\ WorkersTypeOK'
        /\ AppliesWhatItHolds'
        /\ Held' = Held /\ \A v \in Tasks : Leased(v)' = Leased(v)
    <3>1. WorkersTypeOK'
      BY <2>2, <2>3, <2>4 DEF WorkersInv, WorkersTypeOK
    <3>2. AppliesWhatItHolds'
      BY <2>2, <2>6, <2>7 DEF WorkersInv, AppliesWhatItHolds, SoundTask
    <3>3. \A v \in Tasks : Leased(v)' = Leased(v)
      BY <2>2, <2>5, <2>7 DEF Leased
    <3>4. Held' = Held
      BY <2>2, <3>3 DEF Held
    <3> QED BY <3>1, <3>2, <3>3, <3>4
  <2>9. AbsentIsBlank' /\ EdgesMirrorApplied' /\ TerminalStamped' /\ AttemptBudget'
        /\ LeaseExclusive'
    BY <1>0, <2>1, <2>2, <2>8, InsertRows
  <2> QED BY <2>8, <2>9 DEF WorkersInv
<1>8. CASE CheckApplied(w)
  <2> DEFINE pc == IF row[task[w].cur].applied = task[w].got[task[w].cur]
                   THEN "confirm" ELSE "diff"
             u == [t EXCEPT !.pc = pc]
  <2>1. pc \in {"confirm", "diff"} /\ task[w].pc = "upsert"
    BY <1>8 DEF CheckApplied
  <2>2. task' = [task EXCEPT ![w] = u]
    BY <1>8 DEF CheckApplied
  <2> HIDE DEF pc
  <2>3. u \in TaskType
    BY <1>0, <2>1 DEF TaskType, Running
  <2>4. /\ u.pc = pc /\ u.todo = task[w].todo /\ u.cur = task[w].cur
        /\ u.got = task[w].got /\ u.stamp = task[w].stamp
    BY <1>0 DEF TaskType
  <2>5. SoundTask(u, edges)
    BY <1>0, <2>1, <2>4 DEF SoundTask, Applying, Running
  <2>6. task[w].pc \in Running /\ UNCHANGED <<row, edges, clock, batch>>
    BY <1>8, <2>1 DEF CheckApplied, Running
  <2> HIDE DEF u
  <2> QED BY <2>2, <2>3, <2>4, <2>5, <2>6, Advance
<1>9. CASE Confirm(w)
  <2> DEFINE a == task[w].cur
             u == Resolved(t, a)
             r == confirm_applied(row[a], clock)
  <2>1. /\ row' = [row EXCEPT ![a] = r] /\ task' = [task EXCEPT ![w] = u]
        /\ UNCHANGED <<edges, clock, batch>> /\ task[w].pc = "confirm"
    BY <1>9 DEF Confirm
  <2>2. a \in Leased(w) /\ a \in Pubkeys /\ row[a] \in RowType
    BY <1>0, <2>1 DEF SoundTask, Leased, Running, Applying, TaskType
  <2>3. clock # Null
    BY NullDistinct DEF WorkersInv, WorkersTypeOK
  <2>4. /\ r \in RowType /\ r.status = "fetched" /\ r.last_fetched_at = clock
        /\ r.fetch_attempts = row[a].fetch_attempts /\ r.applied = row[a].applied
    BY <1>0, <2>2 DEF confirm_applied, RowType, Status, Terminal
  <2>5. /\ u \in TaskType
        /\ u.pc = "resolve" /\ u.todo = task[w].todo \ {a}
        /\ u.got = task[w].got /\ u.stamp = task[w].stamp
    BY <1>0 DEF Resolved, TaskType, Running
  <2>6. edges' = [edges EXCEPT ![a] = edges[a]] /\ edges[a] \in SUBSET Pubkeys
    BY <1>0, <2>1, <2>2
  <2>7. edges[a] = IF r.applied = Null THEN {} ELSE wanted_edges(r.applied)
    BY <2>2, <2>4 DEF WorkersInv, EdgesMirrorApplied
  <2>8. r.fetch_attempts <= MaxAttempts
    BY <2>2, <2>4 DEF WorkersInv, AttemptBudget
  <2> HIDE DEF u, r, a
  <2> QED BY <2>1, <2>2, <2>3, <2>4, <2>5, <2>6, <2>7, <2>8, Resolve DEF Terminal
<1>10. CASE ReadEdges(w)
  <2> DEFINE u == [t EXCEPT !.pc = "commit", !.snap = edges[task[w].cur]]
  <2>1. task' = [task EXCEPT ![w] = u] /\ task[w].pc = "diff"
        /\ UNCHANGED <<row, edges, clock, batch>>
    BY <1>10 DEF ReadEdges
  <2>2. task[w].cur \in Pubkeys
    BY <1>0, <2>1 DEF SoundTask, Running, Applying, TaskType
  <2>3. u \in TaskType
    BY <1>0, <2>2 DEF TaskType, Running
  <2>4. /\ u.pc = "commit" /\ u.todo = task[w].todo /\ u.cur = task[w].cur
        /\ u.got = task[w].got /\ u.stamp = task[w].stamp /\ u.snap = edges[u.cur]
    BY <1>0 DEF TaskType
  <2>5. SoundTask(u, edges)
    BY <1>0, <2>1, <2>4 DEF SoundTask, Applying, Running
  <2>6. task[w].pc \in Running
    BY <2>1 DEF Running
  <2> HIDE DEF u
  <2> QED BY <2>1, <2>3, <2>4, <2>5, <2>6, Advance
<1>11. CASE Commit(w)
  <2> DEFINE a == task[w].cur
             l == task[w].got[a]
             u == Resolved(t, a)
             r == record_applied(row[a], l, clock)
             E == write_diff(edges[a], task[w].snap, wanted_edges(l))
  <2>1. /\ row' = [row EXCEPT ![a] = r] /\ task' = [task EXCEPT ![w] = u]
        /\ edges' = [edges EXCEPT ![a] = E]
        /\ UNCHANGED <<clock, batch>> /\ task[w].pc = "commit"
    BY <1>11 DEF Commit
  <2>2. /\ a \in Leased(w) /\ a \in Pubkeys /\ row[a] \in RowType
        /\ l \in Lists /\ l # Null /\ task[w].snap = edges[a]
    BY <1>0, <2>1 DEF SoundTask, Leased, Running, Applying, TaskType
  <2>3. clock # Null
    BY NullDistinct DEF WorkersInv, WorkersTypeOK
  <2>4. r \in RowType
    BY <1>0, <2>2, RowStatementTypes
  <2>5. /\ r.status = "fetched" /\ r.last_fetched_at = clock
        /\ r.fetch_attempts = row[a].fetch_attempts /\ r.applied = l
    BY <2>2 DEF record_applied, RowType
  <2>6. /\ u \in TaskType
        /\ u.pc = "resolve" /\ u.todo = task[w].todo \ {a}
        /\ u.got = task[w].got /\ u.stamp = task[w].stamp
    BY <1>0 DEF Resolved, TaskType, Running
  <2>7. E = wanted_edges(l)
    BY <2>2 DEF write_diff
  <2>8. wanted_edges(l) \in SUBSET Pubkeys
    BY <2>2, ListsTyped DEF wanted_edges, ListType
  <2>9. r.fetch_attempts <= MaxAttempts
    BY <2>2, <2>5 DEF WorkersInv, AttemptBudget
  <2> HIDE DEF u, r, a, l, E
  <2> QED BY <2>1, <2>2, <2>3, <2>4, <2>5, <2>6, <2>7, <2>8, <2>9, Resolve DEF Terminal
<1>12. CASE Finish(w)
  <2> DEFINE u == [t EXCEPT !.pc = "ok"]
  <2>1. task' = [task EXCEPT ![w] = u] /\ u \in TaskType /\ u.pc = "ok"
        /\ UNCHANGED <<row, edges, clock, batch>>
    BY <1>0, <1>12 DEF Finish, TaskType, Finished
  <2>2. u.pc \notin Running
    BY <2>1 DEF Running
  <2> HIDE DEF u
  <2> QED BY <2>1, <2>2, Advance DEF SoundTask
<1> HIDE DEF t
<1> QED BY <1>1, <1>2, <1>3, <1>4, <1>5, <1>6, <1>7, <1>8, <1>9, <1>10, <1>11, <1>12
        DEF TaskStep

-----------------------------------------------------------------------------
(* The steps of the loops around the tasks *)

\* The empty tables satisfy the invariant.
LEMMA WorkersInitInv ==
    ASSUME WorkersInit
    PROVE  WorkersInv
<1> USE DEF WorkersInit
<1>1. FreeTask \in TaskType /\ FreeTask.pc = "free"
  BY DEF FreeTask, TaskType, NoLists, Time
<1>2. NoRow \in RowType
  BY DEF NoRow, RowType, Time
<1>3. WorkersTypeOK
  BY <1>1, <1>2 DEF WorkersTypeOK
<1>4. \A w \in Tasks : task[w].pc = "free" /\ Leased(w) = {}
  BY <1>1 DEF Leased, Running
<1>5. LeaseExclusive
  BY <1>4 DEF LeaseExclusive, Held
<1>6. AppliesWhatItHolds
  BY <1>4 DEF AppliesWhatItHolds, Running
<1>7. AbsentIsBlank /\ EdgesMirrorApplied
  BY DEF AbsentIsBlank, EdgesMirrorApplied, NoRow
<1>8. TerminalStamped
  BY DEF TerminalStamped, NoRow, Terminal
<1>9. AttemptBudget
  BY WorkerConstants DEF AttemptBudget, NoRow
<1> QED BY <1>3, <1>5, <1>6, <1>7, <1>8, <1>9 DEF WorkersInv

\* The invariant only speaks of the workers' variables.
LEMMA WorkersStutter ==
    ASSUME WorkersInv, UNCHANGED <<row, edges, task, batch>>, clock' \in Nat
    PROVE  WorkersInv'
<1>1. Held' = Held /\ \A v \in Tasks : Leased(v)' = Leased(v)
  BY DEF Held, Leased
<1> QED BY <1>1 DEF WorkersInv, WorkersTypeOK, AbsentIsBlank, LeaseExclusive,
              AppliesWhatItHolds, EdgesMirrorApplied, TerminalStamped, AttemptBudget

\* A task that fails or is joined holds nothing any more.
LEMMA TaskEndInv ==
    ASSUME WorkersInv, NEW w \in Tasks, TaskFail(w) \/ Joined(w)
    PROVE  WorkersInv'
<1>0. task \in [Tasks -> TaskType]
  BY DEF WorkersInv, WorkersTypeOK
<1>1. CASE TaskFail(w)
  <2> DEFINE u == [task[w] EXCEPT !.pc = "err"]
  <2>1. task' = [task EXCEPT ![w] = u] /\ u \in TaskType /\ u.pc = "err"
        /\ UNCHANGED <<row, edges, clock, batch>>
    BY <1>0, <1>1 DEF TaskFail, TaskType, Finished
  <2>2. u.pc \notin Running
    BY <2>1 DEF Running
  <2> HIDE DEF u
  <2> QED BY <2>1, <2>2, Advance DEF SoundTask
<1>2. CASE Joined(w)
  <2>1. FreeTask \in TaskType /\ FreeTask.pc \notin Running
    BY DEF FreeTask, TaskType, NoLists, Time, Running
  <2> QED BY <1>2, <2>1, Advance DEF SoundTask, Joined
<1> QED BY <1>1, <1>2

\* claim_batch takes only discovered rows, which nobody holds.
LEMMA TakeBatchInv ==
    ASSUME WorkersInv, batch = {}, TakeBatch
    PROVE  WorkersInv'
<1> USE DEF WorkersInv
<1>1. /\ batch' \subseteq WithStatus(row, {"discovered"})
      /\ row' = claim_batch(row, batch', clock)
      /\ UNCHANGED <<edges, clock, task>>
  BY DEF TakeBatch, claim_selection
<1>2. batch' \in SUBSET Pubkeys /\ \A p \in batch' : row[p].status = "discovered"
  BY <1>1 DEF WithStatus
<1>3. row \in [Pubkeys -> RowType] /\ clock \in Time
  BY DEF WorkersTypeOK, Time
<1>4. row' \in [Pubkeys -> RowType]
  BY <1>1, <1>2, <1>3, ClaimType
<1>5. \A q \in Pubkeys :
         \/ q \notin batch' /\ row'[q] = row[q]
         \/ /\ q \in batch'
            /\ row'[q].status = "in_progress"
            /\ row'[q].fetch_attempts = row[q].fetch_attempts
            /\ row'[q].applied = row[q].applied
  BY <1>1, <1>3 DEF claim_batch, RowType
<1>6. WorkersTypeOK'
  BY <1>1, <1>2, <1>4 DEF WorkersTypeOK
<1>7. \A v \in Tasks : Leased(v)' = Leased(v)
  BY <1>1 DEF Leased
<1>8. Held' = batch' \cup Held /\ Held \subseteq Pubkeys
  BY <1>7 DEF Held, Leased, WorkersTypeOK, TaskType
<1>9. \A v \in Tasks : Leased(v) \cap batch' = {}
  BY <1>2 DEF LeaseExclusive, Held
<1>10. \A p \in Held' : row'[p].status = "in_progress"
  BY <1>2, <1>5, <1>8 DEF LeaseExclusive
<1>11. LeaseExclusive'
  BY <1>7, <1>9, <1>10 DEF LeaseExclusive
<1>12. AppliesWhatItHolds'
  BY <1>1 DEF AppliesWhatItHolds
<1>13. AbsentIsBlank' /\ EdgesMirrorApplied'
  BY <1>1, <1>5 DEF AbsentIsBlank, EdgesMirrorApplied
<1>14. TerminalStamped'
  BY <1>5 DEF TerminalStamped, Terminal
<1>15. AttemptBudget'
  BY <1>2, <1>5 DEF AttemptBudget
<1> QED BY <1>6, <1>11, <1>12, <1>13, <1>14, <1>15

\* Spawning hands the claimed batch from the loop to the new task.
LEMMA SpawnInv ==
    ASSUME WorkersInv, NEW w \in Tasks, NEW stamp \in Nat, SpawnBatch(w, stamp)
    PROVE  WorkersInv'
<1> USE DEF WorkersInv
<1> DEFINE u == SpawnedTask(batch, stamp)
<1>1. FreeTask \in TaskType /\ FreeTask.pc = "free"
  BY DEF FreeTask, TaskType, NoLists, Time
<1>2. /\ u \in TaskType /\ u.pc = "fetch" /\ u.todo = batch
      /\ u.stamp = stamp /\ \A p \in Pubkeys : u.got[p] = Null
  BY DEF SpawnedTask, FreeTask, TaskType, NoLists, Time, Running, WorkersTypeOK
<1> HIDE DEF u
<1>3. /\ task' \in [Tasks -> TaskType]
      /\ task'[w] = u
      /\ \A v \in Tasks : v # w => \/ task'[v] = task[v]
                                   \/ task'[v] = FreeTask
      /\ task[w].pc = "free" /\ batch' = {}
      /\ UNCHANGED <<row, edges, clock>>
  BY <1>1, <1>2 DEF SpawnBatch, WorkersTypeOK, u
<1>4. WorkersTypeOK'
  BY <1>3 DEF WorkersTypeOK
<1>5. /\ Leased(w)' = batch
      /\ \A v \in Tasks : v # w => Leased(v)' \subseteq Leased(v)
  BY <1>1, <1>2, <1>3 DEF Leased, Running
<1>6. Held' \subseteq Held
  BY <1>3, <1>5 DEF Held
<1>7. \A v, x \in Tasks : v # x => Leased(v)' \cap Leased(x)' = {}
  BY <1>5 DEF LeaseExclusive
<1>8. LeaseExclusive'
  BY <1>3, <1>6, <1>7 DEF LeaseExclusive
<1>9. stamp # Null
  BY NullDistinct
<1>10. AppliesWhatItHolds'
  BY <1>1, <1>2, <1>3, <1>9 DEF AppliesWhatItHolds, Running, Applying
<1>11. AbsentIsBlank' /\ EdgesMirrorApplied' /\ TerminalStamped' /\ AttemptBudget'
  BY <1>3 DEF AbsentIsBlank, EdgesMirrorApplied, TerminalStamped, AttemptBudget
<1> QED BY <1>4, <1>8, <1>10, <1>11

\* seed_anchor inserts or leaves the anchor's row.
LEMMA SeedInv ==
    ASSUME WorkersInv, SeedAnchor
    PROVE  WorkersInv'
<1> USE DEF SeedAnchor
<1>1. Held' = Held /\ \A v \in Tasks : Leased(v)' = Leased(v)
  BY DEF Held, Leased
<1>2. WorkersTypeOK' /\ AppliesWhatItHolds'
  BY UpsertType, WorkerConstants DEF WorkersInv, WorkersTypeOK, AppliesWhatItHolds
<1> QED BY <1>1, <1>2, InsertRows, WorkerConstants DEF WorkersInv

\* A reset of rows that nobody holds, whatever selects them, keeps the invariant.
LEMMA ResetInv ==
    ASSUME WorkersInv, NEW S \in SUBSET Pubkeys,
           S \cap Held = {}, \A p \in S : row[p].status # "absent",
           row' = [p \in Pubkeys |-> IF p \in S THEN ResetRow(row[p]) ELSE row[p]],
           UNCHANGED <<edges, clock, task, batch>>
    PROVE  WorkersInv'
<1> USE DEF WorkersInv
<1>1. row \in [Pubkeys -> RowType]
  BY DEF WorkersTypeOK
<1>2. \A p \in Pubkeys : ResetRow(row[p]) \in RowType
  BY <1>1 DEF ResetRow, RowType, Status, Time
<1>3. WorkersTypeOK'
  BY <1>1, <1>2 DEF WorkersTypeOK
<1>4. \A q \in Pubkeys :
         \/ q \notin S /\ row'[q] = row[q]
         \/ /\ q \in S
            /\ row'[q].status = "discovered"
            /\ row'[q].fetch_attempts = 0
            /\ row'[q].applied = row[q].applied
  BY <1>1 DEF ResetRow, RowType
<1>5. Held' = Held /\ \A v \in Tasks : Leased(v)' = Leased(v)
  BY DEF Held, Leased
<1>6. Held \subseteq Pubkeys
  BY DEF Held, Leased, WorkersTypeOK, TaskType
<1>7. LeaseExclusive'
  BY <1>4, <1>5, <1>6 DEF LeaseExclusive
<1>8. AppliesWhatItHolds'
  BY DEF AppliesWhatItHolds
<1>9. AbsentIsBlank' /\ EdgesMirrorApplied'
  BY <1>4 DEF AbsentIsBlank, EdgesMirrorApplied
<1>10. TerminalStamped'
  BY <1>4 DEF TerminalStamped, Terminal
<1>11. AttemptBudget'
  BY <1>4, WorkerConstants DEF AttemptBudget
<1> QED BY <1>3, <1>7, <1>8, <1>9, <1>10, <1>11

\* The startup reclaim runs while nothing is held.
LEMMA ReclaimInv ==
    ASSUME WorkersInv, Held = {}, ReclaimOnStartup
    PROVE  WorkersInv'
<1> DEFINE S == {p \in Pubkeys : row[p].status = "in_progress"}
<1>1. row' = [p \in Pubkeys |-> IF p \in S THEN ResetRow(row[p]) ELSE row[p]]
  BY DEF ReclaimOnStartup, reclaim_stale_on_startup
<1>2. S \in SUBSET Pubkeys /\ \A p \in S : row[p].status # "absent"
  OBVIOUS
<1> HIDE DEF S
<1> QED BY <1>1, <1>2, ResetInv DEF ReclaimOnStartup

\* When the process is gone nothing is held.
LEMMA GoneInv ==
    ASSUME WorkersInv, ProcessGone
    PROVE  WorkersInv' /\ RunningTasks' = {} /\ batch' = {}
<1> USE DEF WorkersInv, ProcessGone
<1>1. FreeTask \in TaskType /\ FreeTask.pc = "free"
  BY DEF FreeTask, TaskType, NoLists, Time
<1>2. WorkersTypeOK'
  BY <1>1 DEF WorkersTypeOK
<1>3. \A w \in Tasks : task'[w].pc = "free" /\ Leased(w)' = {}
  BY <1>1 DEF Leased, Running
<1>4. LeaseExclusive' /\ AppliesWhatItHolds' /\ RunningTasks' = {}
  BY <1>3 DEF LeaseExclusive, Held, AppliesWhatItHolds, Running, RunningTasks
<1>5. AbsentIsBlank' /\ EdgesMirrorApplied' /\ TerminalStamped' /\ AttemptBudget'
  BY DEF AbsentIsBlank, EdgesMirrorApplied, TerminalStamped, AttemptBudget
<1> QED BY <1>2, <1>4, <1>5
=============================================================================
