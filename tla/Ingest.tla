------------------------------- MODULE Ingest -------------------------------
(****************************************************************************)
(* The ingest gate (src/ingest): one pass over the raw union of what the    *)
(* relays returned for a batch, in whatever order, with forgeries, repeats  *)
(* and unsolicited events among it.  The loops are functions of the number  *)
(* of their rounds; Reference says what they should compute from the set of *)
(* events alone.                                                            *)
(****************************************************************************)
EXTENDS Integers, Sequences, FiniteSets, SequencesExt

CONSTANTS
    Events,       \* [id, valid, kind, pubkey, created_at, tags] served
    WantKind,     \* want_kind
    Requested,    \* requested: the authors of the batch
    Now,          \* now
    Clamps,       \* the future_clamp_secs to try
    FollowCap,    \* follow_cap
    Word,         \* 2^64, scaled down: timestamps are 0..Word-1
    MaxDate,      \* the last second that DateTime<Utc> represents, scaled down
    Null,         \* None
    MaxStream     \* bound on the length of the stream

\* An id is the hash of the content, so two valid events with one id are one event;
\* ids are ordered as the 32-byte numbers they are.  None is neither an event nor a
\* set of followees, and the last date is a positive i64.
ASSUME IngestConstants ==
    /\ \A e \in Events : /\ e.id \in Nat
                          /\ e.created_at \in 0..(Word - 1)
                          /\ e.tags \in Seq(ToSet(e.tags))
                          /\ \A followees \in SUBSET ToSet(e.tags) : followees # Null
    /\ \A e, f \in Events : e.valid /\ f.valid /\ e.id = f.id => e = f
    /\ Null \notin Events
    /\ Word \in Nat
    /\ MaxDate \in Nat /\ MaxDate < Word \div 2
    /\ Clamps \subseteq 0..(Word - 1)
    /\ Now \in 0..(Word - 1)
    /\ FollowCap \in Nat

VARIABLES
    stream,              \* the events of the fetch under way, so far
    future_clamp_secs

ingestVars == <<stream, future_clamp_secs>>

-----------------------------------------------------------------------------
(* The gate *)

\* verify.rs: signature and id, then kind and author.
accept(e, kind, requested) == e.valid /\ e.kind = kind /\ e.pubkey \in requested

\* Mutant: the id is taken before the event is verified.
admit_dedup_first(acc, e, kind, requested) ==
    IF e.id \in acc.seen THEN acc
    ELSE [seen |-> acc.seen \cup {e.id},
          by_author |-> IF accept(e, kind, requested)
                        THEN [acc.by_author EXCEPT ![e.pubkey] = Append(@, e)]
                        ELSE acc.by_author]

\* One round of the gate's loop: verify, then dedup by id, then group by author.
admit(acc, e, kind, requested) ==
    IF accept(e, kind, requested) /\ e.id \notin acc.seen
    THEN [seen |-> acc.seen \cup {e.id},
          by_author |-> [acc.by_author EXCEPT ![e.pubkey] = Append(@, e)]]
    ELSE acc

\* The loop, the same for follow lists and for relay lists: seen and by_author after
\* each of its rounds.
rounds(events, kind, requested) ==
    LET acc[n \in 0..Len(events)] ==
            IF n = 0 THEN [seen |-> {}, by_author |-> [a \in requested |-> <<>>]]
            ELSE admit(acc[n - 1], events[n], kind, requested)
    IN  acc

gated(events, kind, requested) == rounds(events, kind, requested)[Len(events)].by_author

\* now.saturating_add(future_clamp_secs)
cutoff == IF Now + future_clamp_secs < Word THEN Now + future_clamp_secs ELSE Word - 1

\* Mutant: the latest event to arrive wins.
NotBelow_arrival(e, best) == TRUE

\* The order of max_by: by created_at, then by falling id.
NotBelow(e, best) ==
    \/ e.created_at > best.created_at
    \/ e.created_at = best.created_at /\ e.id <= best.id

\* Mutant: no future clamp.
better_unclamped(best, e) == IF best = Null \/ NotBelow(e, best) THEN e ELSE best

\* One round of filter and max_by, which keeps the last of equal maxima.
better(best, e) ==
    IF e.created_at <= cutoff /\ (best = Null \/ NotBelow(e, best)) THEN e ELSE best

pick_winner(group) ==
    LET best[n \in 0..Len(group)] ==
            IF n = 0 THEN Null ELSE better(best[n - 1], group[n])
    IN  best[Len(group)]

\* Self-follows and repeats dropped; an oversized list is rejected as a whole.
followee_pubkeys(e) ==
    LET followees == ToSet(e.tags) \ {e.pubkey}
    IN  IF Cardinality(followees) > FollowCap THEN Null ELSE followees

\* u64 seconds as i64, and the epoch for what chrono cannot represent.
timestamp_to_datetime(ts) ==
    LET secs == IF ts < Word \div 2 THEN ts ELSE ts - Word
    IN  IF secs \in (-MaxDate)..MaxDate THEN secs ELSE 0

from_event(e, followees) ==
    [follower |-> e.pubkey, id |-> e.id, followees |-> followees,
     created_at |-> timestamp_to_datetime(e.created_at)]

\* The validated lists, at most one for each author.
ingest_events(events) ==
    LET by_author == gated(events, WantKind, Requested)
        winner == [a \in Requested |-> pick_winner(by_author[a])]
        emitted == {a \in Requested : /\ winner[a] # Null
                                      /\ followee_pubkeys(winner[a]) # Null}
    IN  {from_event(winner[a], followee_pubkeys(winner[a])) : a \in emitted}

-----------------------------------------------------------------------------
IngestInit ==
    /\ stream = <<>>
    /\ future_clamp_secs \in Clamps

\* A relay serves one more event, genuine or not.
Deliver(e) ==
    /\ Len(stream) < MaxStream
    /\ stream' = Append(stream, e)
    /\ UNCHANGED future_clamp_secs

-----------------------------------------------------------------------------
\* What a replaceable event resolves to: of the authentic, solicited events of an
\* author that are not dated too far ahead, the newest, and among those the one
\* with the lowest id.
Candidates(kind, author) ==
    {e \in ToSet(stream) : /\ e.valid /\ e.kind = kind /\ e.pubkey = author
                           /\ e.created_at <= Now + future_clamp_secs}

Reference(kind, author) ==
    {e \in Candidates(kind, author) :
        \A f \in Candidates(kind, author) :
            \/ f.created_at < e.created_at
            \/ f.created_at = e.created_at /\ f.id >= e.id}

\* INGEST-01..05: the emitted lists are those of the reference, whatever the order
\* of the stream, whatever repeats and forged copies of genuine ids it holds.
IngestIsReference ==
    {[id |-> l.id, follower |-> l.follower, followees |-> l.followees] :
        l \in ingest_events(stream)}
    = {[id |-> e.id, follower |-> e.pubkey, followees |-> ToSet(e.tags) \ {e.pubkey}] :
        e \in {g \in UNION {Reference(WantKind, a) : a \in Requested} :
                 Cardinality(ToSet(g.tags) \ {g.pubkey}) <= FollowCap}}

\* The future clamp guards the conversion: while now + clamp is a representable
\* date, every emitted list carries its event's own created_at.
EmittedTimeIsEventTime ==
    Now + future_clamp_secs <= MaxDate =>
        \A l \in ingest_events(stream) :
            \E e \in ToSet(stream) : e.id = l.id /\ e.valid /\ e.created_at = l.created_at

\* Newest-wins over the union: one more event, from whichever relay, never makes an
\* author's list older.
ListsOnlyAdvance ==
    [][\A l \in ingest_events(stream), m \in ingest_events(stream') :
          l.follower = m.follower /\ Now + future_clamp_secs <= MaxDate =>
              m.created_at >= l.created_at]_ingestVars
=============================================================================
