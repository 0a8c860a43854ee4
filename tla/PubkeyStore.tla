----------------------------- MODULE PubkeyStore -----------------------------
(****************************************************************************)
(* The `pubkeys` and `follows` tables (migrations 0001, 0002) and the SQL   *)
(* statements the crawler runs on them.  A statement is an operator from a  *)
(* table to a table, or from a row to a row.  Every statement is one        *)
(* autocommitted (or one-transaction) write, so the state machines that use *)
(* these operators interleave them at exactly this grain.                   *)
(*                                                                          *)
(* A table is a function on Pubkeys; a key that was never inserted has the  *)
(* row NoRow.  SQL NULL is the constant Null.                               *)
(****************************************************************************)
EXTENDS Integers, FiniteSets

CONSTANTS
    Pubkeys,   \* the public keys that may ever be met
    Lists,     \* the validated follow lists that relays may yield
    Null       \* SQL NULL, Rust None

Terminal == {"fetched", "not_found", "failed"}
Status   == {"discovered", "in_progress"} \cup Terminal

\* ValidatedFollowList: one winning kind-3 event after the ingest gate.
ListType == [id : Nat, follower : Pubkeys, created_at : Nat,
             followees : SUBSET Pubkeys]

ASSUME PubkeysFinite == IsFiniteSet(Pubkeys)
ASSUME ListsTyped    == Lists \subseteq ListType
ASSUME NullDistinct  == Null \notin Nat \cup Lists \cup Pubkeys

Time == Nat \cup {Null}

RowType == [id : Nat, status : Status \cup {"absent"}, claimed_at : Time,
            last_fetched_at : Time, fetch_attempts : Nat,
            applied : Lists \cup {Null}]

NoRow == [id |-> 0, status |-> "absent", claimed_at |-> Null,
          last_fetched_at |-> Null, fetch_attempts |-> 0, applied |-> Null]

Present(rows) == {p \in Pubkeys : rows[p].status # "absent"}
WithStatus(rows, S) == {p \in Pubkeys : rows[p].status \in S}

-----------------------------------------------------------------------------
(* Statements on the whole table *)

\* INSERT ... ON CONFLICT DO UPDATE (no-op): the column defaults for a new key,
\* nothing for a known one.  Ids grow in insertion order.
upsert_pubkey(rows, p) ==
    IF rows[p].status = "absent"
    THEN [rows EXCEPT ![p] =
            [NoRow EXCEPT !.id = 1 + Cardinality(Present(rows)),
                          !.status = "discovered"]]
    ELSE rows

\* Mutant: the status predicate lets leased rows through.
claim_selection_leased(rows, limit, locked) ==
    LET open == WithStatus(rows, {"discovered", "in_progress"}) \ locked
    IN  {p \in open :
            Cardinality({q \in open : rows[q].id < rows[p].id}) < limit}

\* SELECT ... WHERE status = 'discovered' ORDER BY id LIMIT limit
\* FOR UPDATE SKIP LOCKED: the first `limit` unlocked discovered rows.
claim_selection(rows, limit, locked) ==
    LET open == WithStatus(rows, {"discovered"}) \ locked
    IN  {p \in open :
            Cardinality({q \in open : rows[q].id < rows[p].id}) < limit}

\* UPDATE ... SET status = 'in_progress', claimed_at = now()
claim_batch(rows, chosen, now) ==
    [p \in Pubkeys |->
        IF p \in chosen
        THEN [rows[p] EXCEPT !.status = "in_progress", !.claimed_at = now]
        ELSE rows[p]]

\* Mutant: the counter is reset to NULL.
ResetRow_null_attempts(r) == [r EXCEPT !.status = "discovered", !.claimed_at = Null,
                                       !.fetch_attempts = Null]

\* The reset shared by the three reclaim statements.
ResetRow(r) == [r EXCEPT !.status = "discovered", !.claimed_at = Null,
                         !.fetch_attempts = 0]

\* SQL `t < now() - make_interval(secs => age)`: never true of NULL.
OlderThan(t, age, now) == t # Null /\ t < now - age

\* Mutant: failed rows are swept up with the crash orphans.
reclaim_stale_on_startup_failed(rows) ==
    [p \in Pubkeys |->
        IF rows[p].status \in {"in_progress", "failed"}
        THEN ResetRow(rows[p]) ELSE rows[p]]

reclaim_stale_on_startup(rows) ==
    [p \in Pubkeys |->
        IF rows[p].status = "in_progress" THEN ResetRow(rows[p]) ELSE rows[p]]

\* Mutant: the age test is missing.
reclaim_stale_by_ttl_ageless(rows, ttl, now) ==
    [p \in Pubkeys |->
        IF rows[p].status \in Terminal THEN ResetRow(rows[p]) ELSE rows[p]]

reclaim_stale_by_ttl(rows, ttl, now) ==
    [p \in Pubkeys |->
        IF /\ rows[p].status \in Terminal
           /\ OlderThan(rows[p].last_fetched_at, ttl, now)
        THEN ResetRow(rows[p]) ELSE rows[p]]

reclaim_in_progress_older_than(rows, age, now) ==
    [p \in Pubkeys |->
        IF /\ rows[p].status = "in_progress"
           /\ OlderThan(rows[p].claimed_at, age, now)
        THEN ResetRow(rows[p]) ELSE rows[p]]

-----------------------------------------------------------------------------
(* Statements on one row, all with the bare predicate WHERE id = $1 *)

\* Mutants: no stamp at the cap; a cap that is off by one; no attempt counted.
requeue_or_fail_unstamped(r, max, stamp) ==
    [r EXCEPT !.fetch_attempts = @ + 1, !.claimed_at = Null,
              !.status = IF r.fetch_attempts + 1 >= max THEN "failed" ELSE "discovered"]
requeue_or_fail_late(r, max, stamp) ==
    LET spent == r.fetch_attempts + 1 > max
    IN  [r EXCEPT !.fetch_attempts = @ + 1,
                  !.status = IF spent THEN "failed" ELSE "discovered",
                  !.last_fetched_at = IF spent THEN stamp ELSE @,
                  !.claimed_at = Null]
requeue_or_fail_uncounted(r, max, stamp) ==
    [r EXCEPT !.status = "discovered", !.claimed_at = Null]

\* One more failed attempt: terminal and stamped at the cap, requeued below it.
requeue_or_fail(r, max, stamp) ==
    LET spent == r.fetch_attempts + 1 >= max
    IN  [r EXCEPT !.fetch_attempts = @ + 1,
                  !.status = IF spent THEN "failed" ELSE "discovered",
                  !.last_fetched_at = IF spent THEN stamp ELSE @,
                  !.claimed_at = Null]

set_fetch_status(r, status, stamp) ==
    [r EXCEPT !.status = status, !.last_fetched_at = stamp]

\* apply_follow_list on the list that is already applied.
confirm_applied(r, now) ==
    [r EXCEPT !.status = "fetched", !.last_fetched_at = now]

\* Mutant: the applied event is not recorded.
record_applied_unrecorded(r, list, now) ==
    [r EXCEPT !.status = "fetched", !.last_fetched_at = now]

\* apply_follow_list's UPDATE inside the edge transaction.
record_applied(r, list, now) ==
    [r EXCEPT !.status = "fetched", !.applied = list, !.last_fetched_at = now]

\* Mutant: edges that left the list are not deleted.
write_diff_insert_only(current, snap, wanted) == current \cup (wanted \ snap)

\* apply_follow_list's DELETE of `removed` and INSERT of `added`, where both
\* come from a diff against `snap`, the edges read before the transaction.
write_diff(current, snap, wanted) ==
    (current \ (snap \ wanted)) \cup (wanted \ snap)

\* Step (2) of apply_follow_list: the incoming list without a self-follow.
wanted_edges(list) == list.followees \ {list.follower}
=============================================================================
