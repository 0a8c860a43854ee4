------------------------------ MODULE Pagination ------------------------------
(****************************************************************************)
(* relay/fetch.rs: fetch_complete_with_timeout pages backwards through the  *)
(* events of a set of authors, one chunk of authors at a time.  A window    *)
(* asks for at most `cap` events dated at or before `until`; a full window  *)
(* may have been cut, so the next one starts again at its oldest second.    *)
(*                                                                          *)
(* The relays are external.  client.fetch_events asks every relay of the    *)
(* connected pool, whatever relay_url the call is made for, and returns the *)
(* union of the answers: `limit` is a request to each relay, and nothing in *)
(* the code cuts a window down to it.  The stores may change between two    *)
(* windows: kind 3 is replaceable, so a newly published list removes the    *)
(* author's old one.  A hostile pool answers any window with any events, as *)
(* many as it can deliver before the window's deadline.                     *)
(****************************************************************************)
EXTENDS Integers, Sequences, FiniteSets

CONSTANTS
    Events,     \* [author, at]: the events of the kind that may exist
    Chunks,     \* authors.chunks(chunk_size): a sequence of sets of authors
    Pool,       \* the relays that connect_curated added to the client
    Limit,      \* what each relay of the pool returns at most per window
    MaxLimit,   \* max_limit: the NIP-11 cap of the relay the call is made for
    MaxPages,   \* MAX_PAGES_PER_CHUNK
    Flood,      \* the most events a hostile pool delivers in one window
    Null,       \* None
    MaxTime     \* bound on the clock, for model checking only

cap == IF MaxLimit > 1 THEN MaxLimit ELSE 1

ASSUME PagingConstants ==
    /\ \A e \in Events : e.at \in Nat
    /\ IsFiniteSet(Events)
    /\ Len(Chunks) > 0 /\ Chunks \in Seq(SUBSET {e.author : e \in Events})
    /\ Pool # {} /\ IsFiniteSet(Pool)
    /\ Limit \in [Pool -> Nat]
    /\ MaxLimit \in Nat
    /\ MaxPages \in Nat \ {0}
    /\ Flood \in Nat
    /\ MaxTime \in Nat
    /\ Null \notin Nat

VARIABLES
    stored,      \* what each relay stores
    first,       \* history: what each stored when the fetch began
    hostile,     \* the pool answers any window with any events
    clock,       \* Timestamp::now()
    began,       \* history: the clock when the fetch began
    chunk,       \* index of the chunk being paged
    until,       \* of the next window
    prev_until,  \* of the window before it
    pages,       \* windows fetched for this chunk
    out,         \* events of this chunk, each id once (`seen` is their ids)
    all,         \* events of the chunks that are complete
    result       \* "running", "ok", or the reason of an Err

relayVars == <<stored, first, hostile, clock>>
fetchVars == <<began, chunk, until, prev_until, pages, out, all, result>>
vars == <<stored, first, hostile, clock, began, chunk, until, prev_until, pages, out, all, result>>

Reasons == {"budget", "stall", "timeout"}

Init ==
    /\ hostile \in BOOLEAN
    /\ stored \in [Pool -> IF hostile THEN {{}} ELSE SUBSET Events]
    /\ first = stored
    /\ clock \in 0..MaxTime
    /\ began = clock
    /\ chunk = 1
    /\ until = clock
    /\ prev_until = Null
    /\ pages = 0
    /\ out = {}
    /\ all = {}
    /\ result = "running"

-----------------------------------------------------------------------------
(* The relays *)

MatchingAt(r) == {e \in stored[r] : e.author \in Chunks[chunk] /\ e.at <= until}
Matching == UNION {MatchingAt(r) : r \in Pool}

\* The ways to cut S down to its n newest events: a tie may be cut anyhow.
Newest(S, n) ==
    {W \in SUBSET S : /\ Cardinality(W) <= n
                      /\ W = S \/ Cardinality(W) = n
                      /\ \A e \in W, f \in S \ W : f.at <= e.at}

RelayCap(r) == IF Limit[r] < cap THEN Limit[r] ELSE cap

\* The newest matching events of each relay, merged into the client's event set
\* as they come: N relays answer one window with up to N * cap events.
Answers(r) == Newest(MatchingAt(r), RelayCap(r))

HonestWindows ==
    {UNION {A[r] : r \in Pool} :
        A \in {B \in [Pool -> UNION {Answers(r) : r \in Pool}] :
                  \A r \in Pool : B[r] \in Answers(r)}}

\* Neither `authors` nor `until` nor `limit` is checked on what arrives.
HostileWindows == {W \in SUBSET Events : Cardinality(W) <= Flood}

Windows == IF hostile THEN HostileWindows ELSE HonestWindows

Outdated(r, e) == \A f \in stored[r] : f.author = e.author => f.at < e.at

\* An author publishes a newer list to some relays while the fetch is under way.
Publish(e) ==
    /\ result = "running"
    /\ ~hostile
    /\ \E R \in SUBSET Pool :
          /\ \E r \in R : Outdated(r, e)
          /\ stored' = [r \in Pool |->
                IF r \in R /\ Outdated(r, e)
                THEN {f \in stored[r] : f.author # e.author} \cup {e}
                ELSE stored[r]]
    /\ UNCHANGED <<first, hostile, clock>>
    /\ UNCHANGED fetchVars

Tick ==
    /\ result = "running"
    /\ clock < MaxTime
    /\ clock' = clock + 1
    /\ UNCHANGED <<stored, first, hostile>>
    /\ UNCHANGED fetchVars

-----------------------------------------------------------------------------
(* paginate_chunk *)

Oldest(W) ==
    IF W = {} THEN Null
    ELSE CHOOSE t \in {e.at : e \in W} : \A e \in W : t <= e.at

\* Mutant: the oldest second is taken as done.
page_back_exclusive(returned, limit, oldest) ==
    IF returned >= limit THEN oldest - 1 ELSE Null

\* Inclusive: the oldest second is asked for again.
page_back(returned, limit, oldest) ==
    IF returned >= limit THEN oldest ELSE Null

Fail(reason) ==
    /\ result' = reason
    /\ UNCHANGED <<began, chunk, until, prev_until, pages, out, all>>

\* Mutant: `until` is not set back to the present for the next chunk.
ChunkDone_resumes(got) ==
    /\ all' = all \cup got
    /\ chunk' = chunk + 1
    /\ prev_until' = Null
    /\ pages' = 0
    /\ out' = {}
    /\ result' = IF chunk = Len(Chunks) THEN "ok" ELSE "running"
    /\ UNCHANGED <<began, until>>

\* The chunk is complete: the next chunk starts afresh, or the fetch returns Ok.
ChunkDone(got) ==
    /\ all' = all \cup got
    /\ chunk' = chunk + 1
    /\ until' = clock
    /\ prev_until' = Null
    /\ pages' = 0
    /\ out' = {}
    /\ result' = IF chunk = Len(Chunks) THEN "ok" ELSE "running"
    /\ UNCHANGED began

\* A capped window without new events that pins `until` where it is.
Stalled(W) ==
    /\ Cardinality(W) >= cap
    /\ \/ prev_until = until
       \/ page_back(Cardinality(W), cap, Oldest(W)) = until

\* Mutant: a window without new events does not stop the loop.
paginate_chunk_unguarded(W) ==
    LET next == page_back(Cardinality(W), cap, Oldest(W))
    IN  \/ next = Null /\ ChunkDone(out \cup W)
        \/ /\ next # Null
           /\ until' = next
           /\ prev_until' = until
           /\ pages' = pages + 1
           /\ out' = out \cup W
           /\ UNCHANGED <<began, chunk, all, result>>

\* One round of the loop, given the events of the window.
paginate_chunk(W) ==
    LET next == page_back(Cardinality(W), cap, Oldest(W))
    IN  \/ W \subseteq out /\ Stalled(W) /\ Fail("stall")
        \/ W \subseteq out /\ ~Stalled(W) /\ ChunkDone(out)
        \/ ~(W \subseteq out) /\ next = Null /\ ChunkDone(out \cup W)
        \/ /\ ~(W \subseteq out)
           /\ next # Null
           /\ until' = next
           /\ prev_until' = until
           /\ pages' = pages + 1
           /\ out' = out \cup W
           /\ UNCHANGED <<began, chunk, all, result>>

\* Mutant: one page too many.
OverBudget_late == pages > MaxPages

OverBudget == pages >= MaxPages

\* The round: the page budget, the window, the decision.
Round ==
    /\ result = "running"
    /\ \/ OverBudget /\ Fail("budget")
       \/ ~OverBudget /\ \E W \in Windows : paginate_chunk(W)
    /\ UNCHANGED relayVars

\* The limiter, the client or the deadline fails the window: the chunk's events,
\* a partial window among them, are dropped with the whole fetch.
fetch_window_with_deadline ==
    /\ result = "running"
    /\ ~OverBudget
    /\ Fail("timeout")
    /\ UNCHANGED relayVars

Returned == result # "running" /\ UNCHANGED vars

Next ==
    \/ Round
    \/ fetch_window_with_deadline
    \/ \E e \in Events : Publish(e)
    \/ Tick
    \/ Returned

Spec == Init /\ [][Next]_vars

-----------------------------------------------------------------------------
TypeOK ==
    /\ {stored, first} \subseteq [Pool -> SUBSET Events]
    /\ hostile \in BOOLEAN
    /\ {clock, began, until} \subseteq Nat
    /\ prev_until \in Nat \cup {Null}
    /\ chunk \in 1..(Len(Chunks) + 1)
    /\ pages \in 0..MaxPages
    /\ out \subseteq Events /\ all \subseteq Events
    /\ result \in {"running", "ok"} \cup Reasons

\* A removed event never comes back, so these were stored all along.
Requested(c) ==
    {e \in UNION {stored[r] \cap first[r] : r \in Pool} :
        e.at <= began /\ e.author \in Chunks[c]}

\* RELAY-03: the loop pages past the relays' caps "until each author chunk's
\* window is exhausted", so an Ok has every event that a relay of an honest pool
\* stored from beginning to end, however the windows are cut inside one second
\* and whatever else is published meanwhile.  True of a pool of one relay; false
\* of a pool of two, where paging back from the oldest event of a merged window
\* skips what the denser relay cut off above it.
StoredThroughoutIsFetched ==
    ~hostile /\ result = "ok" =>
        \A c \in 1..Len(Chunks) : Requested(c) \subseteq all

\* Behind it, for one honest relay: what is not yet fetched of a chunk lies at or
\* before `until`, everything fetched lies at or after it, a complete chunk lacks
\* nothing, and what left a store was replaced.
PagedDownToUntil ==
    /\ began <= clock
    /\ result = "ok" <=> chunk = Len(Chunks) + 1
    /\ \A r \in Pool : \A e \in first[r] \ stored[r] :
          \E f \in stored[r] : f.author = e.author /\ f.at > e.at
    /\ ~hostile =>
          /\ \A c \in 1..(chunk - 1) : Requested(c) \subseteq all
          /\ chunk <= Len(Chunks) =>
                \A e \in Requested(chunk) : e \in out \/ e.at <= until
          /\ \A e \in out : until <= e.at

\* The most events of one window.
WindowBound == IF hostile THEN Flood ELSE Cardinality(Pool) * cap

\* CR-04: the memory of a chunk grows with the windows fetched for it, and the
\* budget ends the chunk after MAX_PAGES_PER_CHUNK of them.  The comment at
\* fetch.rs:44-48 puts the worst case at MAX_PAGES_PER_CHUNK * cap, which needs a
\* pool of one relay that respects `limit`.
ChunkMemoryBounded ==
    pages <= MaxPages /\ Cardinality(out) <= pages * WindowBound

\* CR-04: the budget "never truncates honest pagination": a page that brings
\* nothing new ends the chunk, so only a chunk with as many events as the budget
\* has pages runs into it.
BudgetSparesHonest == result = "budget" => Cardinality(out) >= MaxPages
=============================================================================
