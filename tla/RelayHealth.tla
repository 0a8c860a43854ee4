----------------------------- MODULE RelayHealth -----------------------------
(****************************************************************************)
(* The relay health registry (relay/health.rs) and the fetches of concurrent*)
(* batches that it routes, admits and scores: the curated fan-out           *)
(* fetch_union, the curated relay_list_fetch and the write-relay            *)
(* fallback_fetch (daemon/mod.rs).                                          *)
(*                                                                          *)
(* Scores are EWMA values in thousandths.  A paged fetch of one relay is    *)
(* one step here; Pagination has its detail.                                *)
(****************************************************************************)
EXTENDS Integers, Sequences, FiniteSets

CONSTANTS
    Workers,         \* the batches in flight: each holds a global permit
    Curated,         \* cfg.relays, in order
    WriteRelays,     \* the NIP-65 write relays that authors declare
    MaxWriteRelays,  \* nip65_max_write_relays
    BatchSize,       \* batch_size: authors of a batch, each of whom may be missed
    PerRelay,        \* per_relay_concurrency
    Alpha,           \* the EWMA smoothing factor, in tenths
    Threshold,       \* relay_health_threshold, in thousandths
    ProbeInterval,   \* PROBE_INTERVAL
    SuccessSamples,  \* the samples of record_success, by latency
    Null,            \* None
    MaxTime,         \* bounds for model checking only: on the clock,
    MaxBatches,      \*   on the batches begun
    MaxNotices       \*   and on the notices received

CuratedSet == {Curated[n] : n \in DOMAIN Curated}
Relays == CuratedSet \cup WriteRelays

ASSUME HealthConstants ==
    /\ IsFiniteSet(Workers) /\ IsFiniteSet(WriteRelays)
    /\ Curated \in Seq(CuratedSet)
    /\ MaxWriteRelays \in Nat
    /\ BatchSize \in Nat
    /\ PerRelay \in Nat \ {0}
    /\ Alpha \in 1..10
    /\ Threshold \in 0..1000
    /\ ProbeInterval \in Nat
    /\ SuccessSamples \subseteq 0..1000
    /\ {MaxTime, MaxBatches, MaxNotices} \subseteq Nat
    /\ Null \notin Nat

VARIABLES
    scores,      \* an unknown relay scores 1.0
    in_use,      \* fetches in flight per relay
    last_probe,  \* last attempt per relay
    clock,
    worker,      \* the batch tasks
    begun,       \* batches begun
    notices      \* notices received

registryVars == <<scores, in_use, last_probe>>
vars == <<scores, in_use, last_probe, clock, worker, begun, notices>>

Kinds == {"union", "relay_list", "fallback"}
Busy == {"visit", "mark", "gate", "acquire", "fetch", "record", "returned"}
Samples == SuccessSamples \cup {0}

WorkerType == [pc      : {"idle"} \cup Busy,
               kind    : Kinds,
               missed  : 0..BatchSize,           \* authors that may need the fallback
               path    : Seq(Relays),            \* relays still to visit
               healthy : BOOLEAN,                \* as read by try_mark_attempt
               since   : Nat \cup {Null},        \* when it marked the attempt
               asked   : SUBSET Relays,          \* relays that answered
               sample  : Samples \cup {Null},    \* of the fetch to be recorded
               ok      : BOOLEAN]                \* result of the fetch

Idle == [pc |-> "idle", kind |-> "union", missed |-> 0, path |-> <<>>, healthy |-> TRUE,
         since |-> Null, asked |-> {}, sample |-> Null, ok |-> TRUE]

Init ==
    /\ scores = [r \in Relays |-> 1000]
    /\ in_use = [r \in Relays |-> 0]
    /\ last_probe = [r \in Relays |-> Null]
    /\ clock = 0
    /\ worker = [w \in Workers |-> Idle]
    /\ begun = 0
    /\ notices = 0

-----------------------------------------------------------------------------
(* RelayHealthRegistry *)

\* Mutant: the previous score keeps its full weight.
update_unweighted(prev, sample) == (Alpha * sample + 10 * prev) \div 10

update(prev, sample) == (Alpha * sample + (10 - Alpha) * prev) \div 10

\* Mutant: the share of a degraded relay may be no permit at all.
permits_unfloored(score) == (PerRelay * score + 500) \div 1000

\* max(1, round(cap * score))
permits(score) ==
    LET scaled == (PerRelay * score + 500) \div 1000
    IN  IF scaled > 1 THEN scaled ELSE 1

probe_due(t, now) == t = Null \/ now - t >= ProbeInterval

\* The semaphore of a fetch: per_relay_sems for the curated kinds, fallback_sems
\* for write relays, and how many of its permits are out.
Sem(w) == <<worker[w].kind = "fallback", Head(worker[w].path)>>
InFlight(r) == {v \in Workers : worker[v].pc = "fetch" /\ Head(worker[v].path) = r}
Holders(w) == {v \in InFlight(Head(worker[w].path)) : Sem(v) = Sem(w)}

-----------------------------------------------------------------------------
(* The fetch closures, relay by relay *)

Job(kind, missed, path) ==
    [Idle EXCEPT !.pc = "visit", !.kind = kind, !.missed = missed, !.path = path]

Begin(w) ==
    /\ worker[w].pc = "idle"
    /\ begun < MaxBatches
    /\ begun' = begun + 1
    /\ worker' = [worker EXCEPT ![w] = Job("union", BatchSize, Curated)]
    /\ UNCHANGED <<scores, in_use, last_probe, clock, notices>>

\* try_mark_attempt reads the score under one lock ...
ReadScore(w) ==
    /\ worker[w].pc = "visit" /\ worker[w].path # <<>>
    /\ worker[w].kind = "union"
    /\ worker' = [worker EXCEPT ![w].pc = "mark",
                    ![w].healthy = scores[Head(worker[w].path)] >= Threshold]
    /\ UNCHANGED <<scores, in_use, last_probe, clock, begun, notices>>

Skip(t) == [t EXCEPT !.pc = "visit", !.path = Tail(@)]

\* Mutant: a probe is not marked, so the next batch finds it due as well.
try_mark_attempt_unmarked(w) ==
    LET r == Head(worker[w].path)
        allowed == worker[w].healthy \/ probe_due(last_probe[r], clock)
    IN  /\ last_probe' = [last_probe EXCEPT ![r] =
                             IF worker[w].healthy THEN clock ELSE @]
        /\ worker' = [worker EXCEPT ![w] =
              IF allowed THEN [@ EXCEPT !.pc = "gate", !.since = clock] ELSE Skip(@)]

\* ... and decides and claims the probe under another.
try_mark_attempt(w) ==
    LET r == Head(worker[w].path)
        allowed == worker[w].healthy \/ probe_due(last_probe[r], clock)
    IN  /\ last_probe' = [last_probe EXCEPT ![r] = IF allowed THEN clock ELSE @]
        /\ worker' = [worker EXCEPT ![w] =
              IF allowed THEN [@ EXCEPT !.pc = "gate", !.since = clock] ELSE Skip(@)]

MarkAttempt(w) ==
    /\ worker[w].pc = "mark"
    /\ try_mark_attempt(w)
    /\ UNCHANGED <<scores, in_use, clock, begun, notices>>

\* The other two closures visit every relay, whatever its health.
Approach(w) ==
    /\ worker[w].pc = "visit" /\ worker[w].path # <<>>
    /\ worker[w].kind # "union"
    /\ worker' = [worker EXCEPT ![w].pc = "gate"]
    /\ UNCHANGED <<scores, in_use, last_probe, clock, begun, notices>>

\* admit_per_relay: poll the health-scaled ceiling, holding nothing ...
Admit(w) ==
    /\ worker[w].pc = "gate"
    /\ LET r == Head(worker[w].path) IN in_use[r] < permits(scores[r])
    /\ worker' = [worker EXCEPT ![w].pc = "acquire"]
    /\ UNCHANGED <<scores, in_use, last_probe, clock, begun, notices>>

\* Mutant: one permit too many.
PermitFree_extra(w) == Cardinality(Holders(w)) <= PerRelay

PermitFree(w) == Cardinality(Holders(w)) < PerRelay

\* ... then wait for a permit and count the fetch.
Acquire(w) ==
    /\ worker[w].pc = "acquire"
    /\ PermitFree(w)
    /\ in_use' = [in_use EXCEPT ![Head(worker[w].path)] = @ + 1]
    /\ worker' = [worker EXCEPT ![w].pc = "fetch"]
    /\ UNCHANGED <<scores, last_probe, clock, begun, notices>>

\* InUseGuard's drop, which every exit from the fetch runs.
decr_in_use(r) ==
    in_use' = [in_use EXCEPT ![r] = IF @ > 0 THEN @ - 1 ELSE 0]

\* client.fetch_events asks the relays that connect_curated added to the pool,
\* whichever relay_url the fetch is made, gated and scored for.
Contacted == CuratedSet

\* The relay's part of a job is over: go on to the next relay, or return the error.
Visited(t, ok) ==
    IF ok THEN [Skip(t) EXCEPT !.asked = @ \cup Contacted,
                               !.since = Null, !.sample = Null]
    ELSE [t EXCEPT !.pc = "returned", !.ok = FALSE, !.since = Null, !.sample = Null]

\* The fetch ends, and with it the guard and the permit.  The fan-out still has
\* to record the outcome; the other closures do not record any.
FetchOk(w) ==
    /\ worker[w].pc = "fetch"
    /\ decr_in_use(Head(worker[w].path))
    /\ \/ /\ worker[w].kind = "union"
          /\ \E s \in SuccessSamples :
                worker' = [worker EXCEPT ![w].pc = "record", ![w].sample = s]
       \/ /\ worker[w].kind # "union"
          /\ worker' = [worker EXCEPT ![w] = Visited(@, TRUE)]
    /\ UNCHANGED <<scores, last_probe, clock, begun, notices>>

\* Mutant: the error path skips the guard.
FetchErr_leaks(w) ==
    /\ worker[w].pc = "fetch"
    /\ worker' = [worker EXCEPT ![w] =
          IF @.kind = "union"
          THEN [@ EXCEPT !.pc = "record", !.sample = 0, !.ok = FALSE]
          ELSE Visited(@, FALSE)]
    /\ UNCHANGED <<scores, in_use, last_probe, clock, begun, notices>>

FetchErr(w) ==
    /\ worker[w].pc = "fetch"
    /\ decr_in_use(Head(worker[w].path))
    /\ worker' = [worker EXCEPT ![w] =
          IF @.kind = "union"
          THEN [@ EXCEPT !.pc = "record", !.sample = 0, !.ok = FALSE]
          ELSE Visited(@, FALSE)]
    /\ UNCHANGED <<scores, last_probe, clock, begun, notices>>

\* A panic unwinds through the guard and ends the task.
Panic(w) ==
    /\ worker[w].pc = "fetch"
    /\ decr_in_use(Head(worker[w].path))
    /\ worker' = [worker EXCEPT ![w] = Idle]
    /\ UNCHANGED <<scores, last_probe, clock, begun, notices>>

\* record_fetch_health, then `outcome?`.
RecordHealth(w) ==
    /\ worker[w].pc = "record"
    /\ scores' = [scores EXCEPT ![Head(worker[w].path)] =
                     update(@, worker[w].sample)]
    /\ worker' = [worker EXCEPT ![w] = Visited(@, @.ok)]
    /\ UNCHANGED <<in_use, last_probe, clock, begun, notices>>

JobDone(w) ==
    /\ worker[w].pc = "visit" /\ worker[w].path = <<>>
    /\ worker' = [worker EXCEPT ![w].pc = "returned"]
    /\ UNCHANGED <<scores, in_use, last_probe, clock, begun, notices>>

\* Write relays by falling score, as fallback_recover sorts and truncates them.
Ranked(S) ==
    LET n == Cardinality(S)
        sorted == {s \in [1..n -> S] : \A i, j \in 1..n : i < j =>
                      s[i] # s[j] /\ scores[s[i]] >= scores[s[j]]}
    IN  {SubSeq(s, 1, IF n < MaxWriteRelays THEN n ELSE MaxWriteRelays) : s \in sorted}

\* The next author without a list, unless the fan-out failed.
NextMissed(t) == t.missed > 0 /\ (t.kind = "union" => t.ok)

\* fallback_recover, author by author: relay_list_fetch if no write relay is stored
\* (its error is ignored), then fallback_fetch if one is.
Fallback(w) ==
    /\ worker[w].pc = "returned"
    /\ \/ /\ NextMissed(worker[w])
          /\ worker' = [worker EXCEPT ![w] = Job("relay_list", @.missed - 1, Curated)]
       \/ \E S \in (SUBSET WriteRelays) \ {{}} : \E path \in Ranked(S) :
             \/ /\ NextMissed(worker[w])
                /\ worker' = [worker EXCEPT ![w] = Job("fallback", @.missed - 1, path)]
             \/ /\ worker[w].kind = "relay_list"
                /\ worker' = [worker EXCEPT ![w] = Job("fallback", @.missed, path)]
    /\ UNCHANGED <<scores, in_use, last_probe, clock, begun, notices>>

\* process_batch is over: requeued, applied or not_found.
EndBatch(w) ==
    /\ worker[w].pc = "returned"
    /\ worker' = [worker EXCEPT ![w] = Idle]
    /\ UNCHANGED <<scores, in_use, last_probe, clock, begun, notices>>

-----------------------------------------------------------------------------
\* handle_relay_message: a rate-limited notice counts 0.2, a blocked one 0.0.
Notice(r) ==
    /\ notices < MaxNotices
    /\ notices' = notices + 1
    /\ \E sample \in {0, 200} :
          scores' = [scores EXCEPT ![r] = update(@, sample)]
    /\ UNCHANGED <<in_use, last_probe, clock, worker, begun>>

Tick ==
    /\ clock < MaxTime
    /\ clock' = clock + 1
    /\ UNCHANGED <<scores, in_use, last_probe, worker, begun, notices>>

\* No batch is in flight and none will begin.
Quiet == (\A w \in Workers : worker[w].pc = "idle") /\ UNCHANGED vars

Advance(w) ==
    \/ ReadScore(w) \/ MarkAttempt(w) \/ Approach(w) \/ Admit(w) \/ Acquire(w)
    \/ FetchOk(w) \/ FetchErr(w) \/ Panic(w) \/ RecordHealth(w) \/ JobDone(w)
    \/ Fallback(w) \/ EndBatch(w)

Next ==
    \/ \E w \in Workers : Begin(w) \/ Advance(w)
    \/ \E r \in CuratedSet : Notice(r)
    \/ Tick
    \/ Quiet

Spec == Init /\ [][Next]_vars

-----------------------------------------------------------------------------
TypeOK ==
    /\ scores \in [Relays -> 0..1000]
    /\ in_use \in [Relays -> 0..Cardinality(Workers)]
    /\ last_probe \in [Relays -> Nat \cup {Null}]
    /\ clock \in Nat
    /\ worker \in [Workers -> WorkerType]
    /\ {begun, notices} \subseteq Nat

\* health.rs: "a failed fetch never leaks a slot": in_use is exactly the number of
\* fetches in flight at the relay, after successes, errors and panics alike.
SlotAccounting == \A r \in Relays : in_use[r] = Cardinality(InFlight(r))

\* The fixed-size semaphore "bounds the hard ceiling": although the health gate is
\* checked before the permit is taken, no semaphore has more than
\* per_relay_concurrency fetches under way, so no relay serves more at once, or
\* twice as many if it is both a curated and a write relay and so has a semaphore
\* in each map.
HardCeiling ==
    \A r \in Relays :
        /\ \A w \in InFlight(r) : Cardinality(Holders(w)) <= PerRelay
        /\ in_use[r] <= IF r \in CuratedSet \cap WriteRelays THEN 2 * PerRelay ELSE PerRelay

Routed(w) == worker[w].kind = "union" /\ worker[w].pc \in {"gate", "acquire", "fetch", "record"}

\* CR-02: "exactly ONE task wins the probe per PROBE_INTERVAL": two batches under
\* way to the same degraded relay claimed their probes an interval apart.
ProbeExclusive ==
    \A v, w \in Workers :
        /\ v # w /\ Routed(v) /\ Routed(w)
        /\ Head(worker[v].path) = Head(worker[w].path)
        /\ ~worker[v].healthy /\ ~worker[w].healthy
        => \/ worker[v].since - worker[w].since >= ProbeInterval
           \/ worker[w].since - worker[v].since >= ProbeInterval

\* "permits floors at 1" and "a relay at its scaled ceiling sleeps briefly to let
\* an in-flight fetch finish": whatever the score and whatever failed or panicked
\* before, a batch that finds the gate shut or no permit free waits for a fetch
\* that is in flight at that relay, never for a slot that nobody holds.  That the
\* waiter itself gets in is not promised: the gate has no queue.
WaitsForAFetch ==
    \A w \in Workers :
        LET r == Head(worker[w].path)
        IN  \/ worker[w].pc = "gate" /\ in_use[r] >= permits(scores[r])
            \/ worker[w].pc = "acquire" /\ ~PermitFree(w)
            => InFlight(r) # {}

\* apply.rs: "The fetch returned Ok, so the relays answered": an Ok fan-out heard
\* from at least one relay.
OkMeansAnswered ==
    \A w \in Workers :
        worker[w].pc = "returned" /\ worker[w].kind = "union" /\ worker[w].ok =>
            worker[w].asked # {}
=============================================================================
